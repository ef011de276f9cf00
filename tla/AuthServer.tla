----------------------------- MODULE AuthServer -----------------------------
(***************************************************************************)
(* The auth server's request handlers (auth_server/src/api.rs) over the    *)
(* state they share (state.rs): the table of enrolled devices and the      *)
(* nonce cache, with the sweeper of main.rs.                               *)
(*                                                                         *)
(* request_entropy copies the device's keys under the read lock and lets   *)
(* it go: enrolments, sweeps and the other requests run between any two of *)
(* its steps.  The steps between two accesses to shared state are one.     *)
(* The entropy source is seen through its answer (EntropyHybrid and        *)
(* EntropyPool say how it comes about).  Cryptography is symbolic: a       *)
(* request carries who signed it, and a sealed answer whose key opens it.  *)
(* A client may disconnect at every await and the process may restart,     *)
(* which loses all its state.                                              *)
(***************************************************************************)
EXTENDS Naturals, FiniteSets

CONSTANTS
    Devices, Nonces, Tasks, TTL, Cap, MaxTime, MaxRestarts,
    Pairs,          \* key pairs of clients
    BadKey,         \* bytes of a length no public key has
    Nobody,         \* signer of a signature that is valid for no key
    Requests,       \* the entropy requests that may arrive
    Enrolments      \* the enrolments that may arrive

Keys == [kem : Pairs \cup {BadKey}, sig : Pairs \cup {BadKey}]

(* decodes: both base64 fields decode.  signer: the pair whose signature   *)
(* of exactly this device, n and nonce the request carries, or Nobody for  *)
(* one of a wrong length, of another message, or by nobody at all.         *)
AllRequests == [dev : Devices, n : {"allowed", "too large"}, nonce : Nonces,
                decodes : BOOLEAN, signer : Pairs \cup {Nobody}]

AllEnrolments == [dev : Devices, decodes : BOOLEAN, keys : Keys]

ASSUME InputsAssumption ==
    /\ Requests \subseteq AllRequests
    /\ Enrolments \subseteq AllEnrolments
    /\ BadKey \notin Pairs /\ Nobody \notin Pairs \cup {BadKey}

(* The nonce cache's own assumptions. *)
ASSUME CacheAssumption ==
    /\ TTL \in Nat \ {0} /\ Cap \in Nat \ {0}
    /\ MaxTime \in Nat /\ MaxRestarts \in Nat
    /\ IsFiniteSet(Nonces)

VARIABLES
    clock, cache, call, sweep, restarts, last, excused,     \* of NonceCache
    devices,        \* the enrolled keys of each device, or NoKeys
    task,           \* task[t]: where the handler of t stands
    answer,         \* answer[t]: its status and the keys it was sealed and checked with
    enrolled,       \* history: per device, the signature keys enrolled since the start
    latest,         \* history: per device, the keys of the latest enrolment answered 200
    current         \* history: per task, the keys that were the latest of its
                    \* device at some moment since it was received

cacheVars == <<clock, cache, call, sweep, restarts, last, excused>>
serverVars == <<devices, task, answer, enrolled, latest, current>>
vars == <<cacheVars, serverVars>>

NC == INSTANCE NonceCache WITH Callers <- Tasks

NoKeys == [kem |-> "none", sig |-> "none"]
Idle == [pc |-> "idle"]
At(pc, r, k) == [pc |-> pc, req |-> r, keys |-> k]
NoAnswer == [status |-> 0, kem |-> "none", sig |-> "none"]
Refusal(status) == [status |-> status, kem |-> "none", sig |-> "none"]

Init ==
    /\ NC!Init
    /\ devices = [d \in Devices |-> NoKeys]
    /\ task = [t \in Tasks |-> Idle]
    /\ answer = [t \in Tasks |-> NoAnswer]
    /\ enrolled = [d \in Devices |-> {}]
    /\ latest = [d \in Devices |-> NoKeys]
    /\ current = [t \in Tasks |-> {}]

Goto(t, pc, k) ==
    /\ task' = [task EXCEPT ![t] = At(pc, task[t].req, k)]
    /\ UNCHANGED answer

Answer(t, a) ==
    /\ task' = [task EXCEPT ![t] = Idle]
    /\ answer' = [answer EXCEPT ![t] = a]
-----------------------------------------------------------------------------
(* enroll: nothing but the base64 is validated; the entry is replaced. *)
Enrol(e) ==
    /\ e.decodes
    /\ devices' = [devices EXCEPT ![e.dev] = e.keys]
    /\ enrolled' = [enrolled EXCEPT ![e.dev] = @ \cup {e.keys.sig}]
    /\ latest' = [latest EXCEPT ![e.dev] = e.keys]
    /\ current' = [t \in Tasks |-> IF task[t] # Idle /\ task[t].req.dev = e.dev
                                   THEN current[t] \cup {e.keys} ELSE current[t]]
    /\ UNCHANGED <<cacheVars, task, answer>>

(* A request arrives; one that asks for too much is answered at once. *)
Receive(t, r) ==
    /\ task[t] = Idle
    /\ IF r.n = "too large"
       THEN /\ answer' = [answer EXCEPT ![t] = Refusal(400)]
            /\ UNCHANGED <<task, current>>
       ELSE /\ task' = [task EXCEPT ![t] = At("lookup", r, NoKeys)]
            /\ answer' = [answer EXCEPT ![t] = NoAnswer]
            /\ current' = [current EXCEPT ![t] = {latest[r.dev]}]
    /\ UNCHANGED <<cacheVars, devices, enrolled, latest>>

(* 1) The keys of the device are copied under the read lock. *)
Lookup(t) ==
    /\ task[t].pc = "lookup"
    /\ LET keys == devices[task[t].req.dev]
       IN  IF keys = NoKeys THEN Answer(t, Refusal(401)) ELSE Goto(t, "verify", keys)
    /\ UNCHANGED <<cacheVars, devices, enrolled, latest, current>>

(* Verification fails for a signature key or a signature of a wrong length *)
(* just as for a signature that does not verify.                           *)
Verifies(r, keys) == r.signer = keys.sig

(* 2) Decoding, 3) verification, and the stamp of 4) the nonce check. *)
\* Variant: the nonce check comes before the verification.
VerifySkipped(t) ==
    /\ task[t].pc = "verify"
    /\ LET r == task[t].req
       IN  /\ NC!Call(t, r.dev, r.nonce)
           /\ Goto(t, "nonce", task[t].keys)
    /\ UNCHANGED <<devices, enrolled, latest, current>>

Verify(t) ==
    /\ task[t].pc = "verify"
    /\ LET r == task[t].req
           k == task[t].keys
       IN  \/ ~r.decodes /\ Answer(t, Refusal(400)) /\ UNCHANGED cacheVars
           \/ r.decodes /\ ~Verifies(r, k) /\ Answer(t, Refusal(401)) /\ UNCHANGED cacheVars
           \/ /\ r.decodes /\ Verifies(r, k)
              /\ NC!Call(t, r.dev, r.nonce)
              /\ Goto(t, "nonce", k)
    /\ UNCHANGED <<devices, enrolled, latest, current>>

(* 4) check_and_insert gets its lock and returns true, ... *)
NonceFresh(t) ==
    /\ task[t].pc = "nonce"
    /\ NC!Accept(t)
    /\ Goto(t, "entropy", task[t].keys)
    /\ UNCHANGED <<devices, enrolled, latest, current>>

(* ... or false. *)
\* Variant: the handler waits for the nonce to expire.
NonceReplayedRetries(t) ==
    /\ task[t].pc = "nonce"
    /\ NC!Reject(t)
    /\ Goto(t, "verify", task[t].keys)
    /\ UNCHANGED <<devices, enrolled, latest, current>>

NonceReplayed(t) ==
    /\ task[t].pc = "nonce"
    /\ NC!Reject(t)
    /\ Answer(t, Refusal(409))
    /\ UNCHANGED <<devices, enrolled, latest, current>>

(* 5) The entropy source fails: the nonce is spent all the same. *)
\* Variant: the nonce is given back.
EntropyErrRefunds(t) ==
    /\ task[t].pc = "entropy"
    /\ Answer(t, Refusal(502))
    /\ cache' = [cache EXCEPT ![task[t].req.dev][task[t].req.nonce] = NC!Absent]
    /\ UNCHANGED <<clock, call, sweep, restarts, last, excused>>
    /\ UNCHANGED <<devices, enrolled, latest, current>>

EntropyErr(t) ==
    /\ task[t].pc = "entropy"
    /\ Answer(t, Refusal(502))
    /\ UNCHANGED <<cacheVars, devices, enrolled, latest, current>>

(* 6) to 12) The bytes are there: they are sealed for the key copied at    *)
(* the lookup, unless it has a wrong length or the library fails.          *)
\* Variant: the device table is read again for the KEM key.
SealKeyReread(t) == devices[task[t].req.dev].kem

SealKey(t) == task[t].keys.kem

EntropyOk(t) ==
    /\ task[t].pc = "entropy"
    /\ IF SealKey(t) = BadKey
       THEN Answer(t, Refusal(400))
       ELSE \/ Answer(t, [status |-> 200, kem |-> SealKey(t), sig |-> task[t].keys.sig])
            \/ Answer(t, Refusal(500))
    /\ UNCHANGED <<cacheVars, devices, enrolled, latest, current>>

(* The client disconnects while the handler awaits. *)
\* Variant: its place in the queue for the lock outlives it.
DisconnectLeavesCall(t) ==
    /\ task[t].pc \in {"lookup", "nonce", "entropy"}
    /\ task' = [task EXCEPT ![t] = Idle]
    /\ UNCHANGED <<cacheVars, devices, answer, enrolled, latest, current>>

Disconnect(t) ==
    /\ task[t].pc \in {"lookup", "nonce", "entropy"}
    /\ task' = [task EXCEPT ![t] = Idle]
    /\ IF task[t].pc = "nonce" THEN NC!Abandon(t) ELSE UNCHANGED cacheVars
    /\ UNCHANGED <<devices, answer, enrolled, latest, current>>

Tick == NC!Tick /\ UNCHANGED serverVars

SweepTick == NC!SweepTick /\ UNCHANGED serverVars

SweepRun == NC!SweepRun /\ UNCHANGED serverVars

(* The process restarts: devices must enrol again. *)
Restart ==
    /\ NC!Restart
    /\ devices' = [d \in Devices |-> NoKeys]
    /\ task' = [t \in Tasks |-> Idle]
    /\ answer' = [t \in Tasks |-> NoAnswer]
    /\ enrolled' = [d \in Devices |-> {}]
    /\ latest' = [d \in Devices |-> NoKeys]
    /\ current' = [t \in Tasks |-> {}]

Step(t) ==
    \/ Lookup(t) \/ Verify(t) \/ NonceFresh(t) \/ NonceReplayed(t)
    \/ EntropyErr(t) \/ EntropyOk(t)

Next ==
    \/ \E e \in Enrolments : Enrol(e)
    \/ \E t \in Tasks : (\E r \in Requests : Receive(t, r)) \/ Step(t) \/ Disconnect(t)
    \/ Tick \/ SweepTick \/ SweepRun
    \/ Restart

Spec == Init /\ [][Next]_vars

(* Each handler is polled, the locks are fair, and the entropy source      *)
(* answers, with its http timeout if with nothing else.                    *)
FairSpec == Spec /\ \A t \in Tasks : WF_vars(Step(t))
-----------------------------------------------------------------------------
Statuses == {0, 200, 400, 401, 409, 500, 502}
KeyNames == Pairs \cup {BadKey, "none"}

(* Types of the state; a handler waits for the cache's lock exactly when   *)
(* its call is outstanding there, with its own device and nonce.           *)
TypeOK ==
    /\ NC!TypeOK
    /\ devices \in [Devices -> Keys \cup {NoKeys}]
    /\ \A t \in Tasks :
          \/ task[t] = Idle
          \/ /\ task[t].pc \in {"lookup", "verify", "nonce", "entropy"}
             /\ task[t].req \in Requests
             /\ task[t].keys \in Keys \cup {NoKeys}
    /\ answer \in [Tasks -> [status : Statuses, kem : KeyNames, sig : KeyNames]]
    /\ \A t \in Tasks :
          IF task[t].pc = "nonce"
          THEN call[t].dev = task[t].req.dev /\ call[t].nonce = task[t].req.nonce
          ELSE call[t] = NC!NoCall

(* api.rs:277, "Verify client signature FIRST (prevents nonce-cache DoS)": *)
(* a nonce is in the cache only if a request that decodes, carries it, and *)
(* is signed by a key enrolled for the device since the start can exist.   *)
(* Refused requests leave no trace in the replay state.                    *)
SpentOnlyBySigner ==
    \A d \in Devices, x \in Nonces :
        cache[d][x] # NC!Absent =>
            \E r \in Requests :
                /\ r.dev = d /\ r.nonce = x /\ r.n = "allowed" /\ r.decodes
                /\ r.signer \in enrolled[d]

(* A served request was checked against, and sealed for, the two keys of   *)
(* ONE enrolment, and that enrolment was the device's latest at some       *)
(* moment between the arrival of the request and its answer: re-enrolling  *)
(* while a request is in flight never mixes keys, and once the enrolment   *)
(* is answered the former keys are of no more use.                         *)
ServedWithCurrentKeys ==
    \A t \in Tasks :
        answer[t].status = 200 => [kem |-> answer[t].kem, sig |-> answer[t].sig] \in current[t]

(* The handlers use the cache as its specification allows: what holds of   *)
(* NonceCache (and of the window it implements) holds in the server.       *)
ImplementsNonceCache == NC!Spec

(* Every request ends, with an answer or because its client left, whatever *)
(* the entropy source, the other requests and the sweeper do.              *)
EveryHandlerEnds == \A t \in Tasks : task[t] # Idle ~> task[t] = Idle
=============================================================================
