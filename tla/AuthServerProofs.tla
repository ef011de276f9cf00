-------------------------- MODULE AuthServerProofs --------------------------
(***************************************************************************)
(* Proofs about AuthServer, for every set of devices, nonces, requests and *)
(* enrolments and any number of handlers.                                  *)
(*                                                                         *)
(* The handlers use the nonce cache as its specification allows, because   *)
(* what they carry stays typed (Carried).  So the theorems of              *)
(* NonceCacheProofs hold in the server.  With them, types, who spends a    *)
(* nonce and which keys serve a request are shown inductive.               *)
(***************************************************************************)
EXTENDS AuthServer, TLAPS

NCP == INSTANCE NonceCacheProofs WITH Callers <- Tasks

Handlers == [pc : {"lookup", "verify", "nonce", "entropy"},
             req : {r \in Requests : r.n = "allowed"},
             keys : Keys \cup {NoKeys}]

(* What handlers and the device table carry. *)
Carried ==
    /\ task \in [Tasks -> {Idle} \cup Handlers]
    /\ devices \in [Devices -> Keys \cup {NoKeys}]

(* The inputs are typed. *)
LEMMA Inputs ==
    /\ \A r \in Requests : /\ r.dev \in Devices /\ r.nonce \in Nonces
                           /\ r.n # "too large" => r.n = "allowed"
                           /\ r.signer \in Pairs \cup {Nobody}
    /\ \A e \in Enrolments : e.dev \in Devices /\ e.keys \in Keys
BY InputsAssumption DEF AllRequests, AllEnrolments

(* A handler that moves on carries its request along; the others stay. *)
LEMMA GotoFacts ==
    ASSUME Carried, NEW t \in Tasks, task[t] # Idle,
           NEW pc \in {"lookup", "verify", "nonce", "entropy"},
           NEW k \in Keys \cup {NoKeys}, Goto(t, pc, k)
    PROVE  /\ task' \in [Tasks -> {Idle} \cup Handlers]
           /\ task'[t].pc = pc /\ task'[t].req = task[t].req /\ task'[t].keys = k
           /\ \A u \in Tasks : u # t => task'[u] = task[u]
           /\ answer' = answer
<1>1. task[t] \in Handlers
  BY DEF Carried
<1>2. At(pc, task[t].req, k) \in Handlers
  BY <1>1 DEF Handlers, At
<1>3. task'[t] = At(pc, task[t].req, k) /\ answer' = answer
  BY DEF Goto, Carried
<1>4. task' \in [Tasks -> {Idle} \cup Handlers] /\ \A u \in Tasks : u # t => task'[u] = task[u]
  BY <1>2 DEF Goto, Carried
<1> QED BY <1>3, <1>4 DEF At

(* A handler that ends leaves the others alone. *)
LEMMA EndFacts ==
    ASSUME Carried, NEW t \in Tasks, task' = [task EXCEPT ![t] = Idle]
    PROVE  /\ task' \in [Tasks -> {Idle} \cup Handlers]
           /\ task'[t] = Idle
           /\ \A u \in Tasks : u # t => task'[u] = task[u]
BY DEF Carried

(* A handler that is somewhere carries a request and keys. *)
LEMMA Active ==
    ASSUME Carried, NEW t \in Tasks, task[t].pc \in {"lookup", "verify", "nonce", "entropy"}
    PROVE  /\ task[t] # Idle /\ task[t] \in Handlers
           /\ task[t].req \in Requests /\ task[t].req.n = "allowed"
           /\ task[t].keys \in Keys \cup {NoKeys}
           /\ task[t].req.dev \in Devices /\ task[t].req.nonce \in Nonces
<1>1. task[t] # Idle /\ task[t] \in Handlers
  BY DEF Carried, Idle
<1> QED BY <1>1, Inputs DEF Handlers

(* Every step keeps what is carried typed. *)
LEMMA CarriedStep ==
    ASSUME Carried, [Next]_vars
    PROVE  Carried'
<1>1. CASE UNCHANGED vars
  BY <1>1 DEF vars, serverVars, Carried
<1>2. ASSUME NEW e \in Enrolments, Enrol(e) PROVE Carried'
  BY <1>2, Inputs DEF Enrol, Carried
<1>3. ASSUME NEW t \in Tasks, NEW r \in Requests, Receive(t, r) PROVE Carried'
  <2>1. CASE r.n = "too large"
    BY <1>3, <2>1 DEF Receive, Carried
  <2>2. CASE r.n # "too large"
    <3>1. At("lookup", r, NoKeys) \in Handlers
      BY <2>2, Inputs DEF At, Handlers
    <3> QED BY <1>3, <2>2, <3>1 DEF Receive, Carried
  <2> QED BY <2>1, <2>2
<1>4. ASSUME NEW t \in Tasks, Lookup(t) PROVE Carried'
  <2> DEFINE k == devices[task[t].req.dev]
  <2>1. task[t] # Idle /\ k \in Keys \cup {NoKeys}
    BY <1>4, Active DEF Lookup, Carried
  <2>2. CASE Answer(t, Refusal(401))
    BY <1>4, <2>2, EndFacts DEF Lookup, Answer, Carried
  <2>3. CASE Goto(t, "verify", k)
    BY <1>4, <2>1, <2>3, GotoFacts DEF Lookup, Carried
  <2> QED BY <1>4, <2>2, <2>3 DEF Lookup
<1>5. ASSUME NEW t \in Tasks, Verify(t) PROVE Carried'
  <2>1. task[t] # Idle /\ task[t].keys \in Keys \cup {NoKeys} /\ UNCHANGED devices
    BY <1>5, Active DEF Verify
  <2>2. CASE Answer(t, Refusal(400)) \/ Answer(t, Refusal(401))
    BY <2>1, <2>2, EndFacts DEF Answer, Carried
  <2>3. CASE Goto(t, "nonce", task[t].keys)
    BY <2>1, <2>3, GotoFacts DEF Carried
  <2> QED BY <1>5, <2>2, <2>3 DEF Verify
<1>6. ASSUME NEW t \in Tasks, NonceFresh(t) PROVE Carried'
  <2>1. task[t] # Idle /\ task[t].keys \in Keys \cup {NoKeys} /\ UNCHANGED devices
    BY <1>6, Active DEF NonceFresh
  <2> QED BY <1>6, <2>1, GotoFacts DEF NonceFresh, Carried
<1>7. ASSUME NEW t \in Tasks, NonceReplayed(t) \/ EntropyErr(t) \/ EntropyOk(t) \/ Disconnect(t)
      PROVE  Carried'
  <2>1. task' = [task EXCEPT ![t] = Idle] /\ UNCHANGED devices
    BY <1>7 DEF NonceReplayed, EntropyErr, EntropyOk, Disconnect, Answer
  <2> QED BY <2>1, EndFacts DEF Carried
<1>8. CASE Tick \/ SweepTick \/ SweepRun
  BY <1>8 DEF Tick, SweepTick, SweepRun, serverVars, Carried
<1>9. CASE Restart
  BY <1>9 DEF Restart, Carried
<1> QED BY <1>1, <1>2, <1>3, <1>4, <1>5, <1>6, <1>7, <1>8, <1>9 DEF Next, Step

LEMMA CarriedInvariance == Spec => []Carried
<1>1. Init => Carried
  BY DEF Init, Carried
<1>2. Carried /\ [Next]_vars => Carried'
  BY CarriedStep
<1> QED BY <1>1, <1>2, PTL DEF Spec
-----------------------------------------------------------------------------
(* Every step of the server is a step of the cache or leaves it alone. *)
LEMMA CacheStep ==
    ASSUME Carried, [Next]_vars
    PROVE  [NC!Next]_(NC!vars)
<1> USE DEF NC!vars
<1>1. CASE UNCHANGED vars
  BY <1>1 DEF vars, cacheVars
<1>2. ASSUME NEW e \in Enrolments, Enrol(e) PROVE UNCHANGED NC!vars
  BY <1>2 DEF Enrol, cacheVars
<1>3. ASSUME NEW t \in Tasks, NEW r \in Requests, Receive(t, r) PROVE UNCHANGED NC!vars
  BY <1>3 DEF Receive, cacheVars
<1>4. ASSUME NEW t \in Tasks, Lookup(t) \/ EntropyErr(t) \/ EntropyOk(t) PROVE UNCHANGED NC!vars
  BY <1>4 DEF Lookup, EntropyErr, EntropyOk, cacheVars
<1>5. ASSUME NEW t \in Tasks, Verify(t) PROVE [NC!Next]_(NC!vars)
  <2>1. task[t].req.dev \in Devices /\ task[t].req.nonce \in Nonces
    BY <1>5, Active DEF Verify
  <2>2. CASE UNCHANGED cacheVars
    BY <2>2 DEF cacheVars
  <2>3. CASE NC!Call(t, task[t].req.dev, task[t].req.nonce)
    BY <2>1, <2>3 DEF NC!Next
  <2> QED BY <1>5, <2>2, <2>3 DEF Verify
<1>6. ASSUME NEW t \in Tasks, NonceFresh(t) \/ NonceReplayed(t) PROVE NC!Next
  BY <1>6 DEF NonceFresh, NonceReplayed, NC!Next
<1>7. ASSUME NEW t \in Tasks, Disconnect(t) PROVE [NC!Next]_(NC!vars)
  BY <1>7 DEF Disconnect, cacheVars, NC!Next
<1>8. CASE Tick \/ SweepTick \/ SweepRun \/ Restart
  BY <1>8 DEF Tick, SweepTick, SweepRun, Restart, NC!Next
<1> QED BY <1>1, <1>2, <1>3, <1>4, <1>5, <1>6, <1>7, <1>8 DEF Next, Step

(* ImplementsNonceCache: the handlers of api.rs call check_and_insert as   *)
(* NonceCache specifies, one call per handler, given up with the handler.  *)
THEOREM CacheRefinement == Spec => ImplementsNonceCache
<1>1. Init => NC!Init
  BY DEF Init
<1>2. Carried /\ [Next]_vars => [NC!Next]_(NC!vars)
  BY CacheStep
<1> QED BY <1>1, <1>2, CarriedInvariance, PTL DEF Spec, ImplementsNonceCache, NC!Spec
-----------------------------------------------------------------------------
(* The theorems about NonceCache hold of the cache in the server: its      *)
(* assumptions do, ...                                                     *)
LEMMA CacheAssumptions ==
    /\ TTL \in Nat \ {0} /\ Cap \in Nat \ {0}
    /\ MaxTime \in Nat /\ MaxRestarts \in Nat
    /\ NCP!IsFiniteSet(Nonces)
BY CacheAssumption DEF NCP!IsFiniteSet, IsFiniteSet

(* ... and the two instances have the same initial states, steps and types. *)
LEMMA SameSpec == NC!Spec => NCP!Spec
<1> USE DEF NC!Absent, NCP!Absent, NC!NoCall, NCP!NoCall, NC!NoSweep, NCP!NoSweep,
            NC!NoEntries, NCP!NoEntries
<1>1. NC!Init => NCP!Init
  BY DEF NC!Init, NCP!Init
<1>2. ASSUME NEW c \in Tasks, NC!Accept(c) PROVE NCP!Accept(c)
  <2>1. \A d, now : NC!Survivors(d, now) = NCP!Survivors(d, now)
    BY DEF NC!Survivors, NCP!Survivors, NC!Held, NCP!Held, NC!Live, NCP!Live,
           NC!kSubset, NCP!kSubset, NC!Cardinality, NCP!Cardinality
  <2>2. \A d, x, now : NC!Crowded(d, x, now) = NCP!Crowded(d, x, now)
    BY DEF NC!Crowded, NCP!Crowded, NC!Cardinality, NCP!Cardinality
  <2>3. \A d, x, now : NC!IsReplay(d, x, now) = NCP!IsReplay(d, x, now)
    BY DEF NC!IsReplay, NCP!IsReplay
  <2> QED BY <1>2, <2>1, <2>2, <2>3 DEF NC!Accept, NCP!Accept
<1>3. ASSUME NEW c \in Tasks, NC!Reject(c) \/ NC!Abandon(c) PROVE NCP!Reject(c) \/ NCP!Abandon(c)
  BY <1>3 DEF NC!Reject, NCP!Reject, NC!Abandon, NCP!Abandon, NC!IsReplay, NCP!IsReplay
<1>4. ASSUME NEW c \in Tasks, NEW d \in Devices, NEW x \in Nonces, NC!Call(c, d, x)
      PROVE  NCP!Call(c, d, x)
  BY <1>4 DEF NC!Call, NCP!Call, NC!Waiting, NCP!Waiting
<1>5. NC!SweepRun => NCP!SweepRun
  BY DEF NC!SweepRun, NCP!SweepRun, NC!Swept, NCP!Swept
<1>6. (NC!Tick => NCP!Tick) /\ (NC!SweepTick => NCP!SweepTick) /\ (NC!Restart => NCP!Restart)
  BY DEF NC!Tick, NCP!Tick, NC!SweepTick, NCP!SweepTick, NC!SweepAt, NCP!SweepAt,
         NC!Restart, NCP!Restart
<1>7. UNCHANGED NC!vars => UNCHANGED NCP!vars
  BY DEF NC!vars, NCP!vars
<1>8. [NC!Next]_(NC!vars) => [NCP!Next]_(NCP!vars)
  BY <1>2, <1>3, <1>4, <1>5, <1>6, <1>7 DEF NC!Next, NCP!Next
<1> QED BY <1>1, <1>8, PTL DEF NC!Spec, NCP!Spec

LEMMA SameTypes == NCP!TypeOK => NC!TypeOK
BY DEF NC!TypeOK, NCP!TypeOK, NC!NoCall, NCP!NoCall, NC!NoSweep, NCP!NoSweep,
       NC!Stamps, NCP!Stamps, NC!Expiries, NCP!Expiries, NC!Calls, NCP!Calls,
       NC!Sweeps, NCP!Sweeps

LEMMA CacheTyped == Spec => []NC!TypeOK
<1>1. NCP!Spec => []NCP!TypeOK
  BY CacheAssumptions, NCP!TypeCorrectness
<1> QED BY <1>1, SameSpec, SameTypes, CacheRefinement, PTL DEF ImplementsNonceCache
-----------------------------------------------------------------------------
AnswerTypes == [status : Statuses, kem : KeyNames, sig : KeyNames]

(* A handler waits for the cache's lock exactly when its call is there. *)
Tied ==
    /\ answer \in [Tasks -> AnswerTypes]
    /\ \A t \in Tasks :
          IF task[t].pc = "nonce"
          THEN call[t].dev = task[t].req.dev /\ call[t].nonce = task[t].req.nonce
          ELSE call[t] = NC!NoCall

LEMMA AnswerFacts ==
    /\ \A st \in Statuses : Refusal(st) \in AnswerTypes
    /\ NoAnswer \in AnswerTypes
BY DEF Refusal, NoAnswer, AnswerTypes, Statuses, KeyNames

(* An answer ends the handler of t and nothing else. *)
LEMMA AnswerEnds ==
    ASSUME Carried, Tied, NEW t \in Tasks, NEW a \in AnswerTypes, Answer(t, a)
    PROVE  /\ answer' \in [Tasks -> AnswerTypes]
           /\ answer'[t] = a
           /\ task'[t] = Idle
           /\ \A u \in Tasks : u # t => task'[u] = task[u] /\ answer'[u] = answer[u]
BY EndFacts DEF Answer, Tied

LEMMA TiedStep ==
    ASSUME Carried, NC!TypeOK, Tied, [Next]_vars
    PROVE  Tied'
<1> USE DEF Idle
<1>0. call \in [Tasks -> NC!Calls \cup {NC!NoCall}]
  BY DEF NC!TypeOK
<1>1. CASE UNCHANGED vars
  BY <1>1 DEF vars, cacheVars, serverVars, Tied
<1>2. ASSUME NEW e \in Enrolments, Enrol(e) PROVE Tied'
  BY <1>2 DEF Enrol, cacheVars, Tied
<1>3. ASSUME NEW t \in Tasks, NEW r \in Requests, Receive(t, r) PROVE Tied'
  <2>1. answer' \in [Tasks -> AnswerTypes] /\ call' = call
    <3>1. PICK a \in AnswerTypes : answer' = [answer EXCEPT ![t] = a]
      <4>1. CASE r.n = "too large"
        <5>1. answer' = [answer EXCEPT ![t] = Refusal(400)]
          BY <1>3, <4>1 DEF Receive
        <5>2. Refusal(400) \in AnswerTypes
          BY AnswerFacts DEF Statuses
        <5> QED BY <5>1, <5>2
      <4>2. CASE r.n # "too large"
        <5>1. answer' = [answer EXCEPT ![t] = NoAnswer]
          BY <1>3, <4>2 DEF Receive
        <5> QED BY <5>1, AnswerFacts
      <4> QED BY <4>1, <4>2
    <3>2. call' = call
      BY <1>3 DEF Receive, cacheVars
    <3> QED BY <3>1, <3>2 DEF Tied
  <2>2. \A u \in Tasks : task'[u] = task[u] \/ (task[u].pc # "nonce" /\ task'[u].pc # "nonce")
    <3>1. CASE r.n = "too large"
      BY <1>3, <3>1 DEF Receive
    <3>2. CASE r.n # "too large"
      <4>1. task[t] = Idle
        BY <1>3 DEF Receive
      <4>2. task' = [task EXCEPT ![t] = At("lookup", r, NoKeys)]
        BY <1>3, <3>2 DEF Receive
      <4> QED BY <4>1, <4>2 DEF At, Carried
    <3> QED BY <3>1, <3>2
  <2> QED BY <2>1, <2>2 DEF Tied
<1>4. ASSUME NEW t \in Tasks, Lookup(t) PROVE Tied'
  <2> DEFINE k == devices[task[t].req.dev]
  <2>1. task[t] # Idle /\ k \in Keys \cup {NoKeys} /\ task[t].pc = "lookup" /\ call' = call
    BY <1>4, Active DEF Lookup, Carried, cacheVars
  <2>2. CASE Answer(t, Refusal(401))
    BY <2>1, <2>2, AnswerEnds, AnswerFacts DEF Statuses, Tied
  <2>3. CASE Goto(t, "verify", k)
    BY <2>1, <2>3, GotoFacts DEF Tied
  <2> QED BY <1>4, <2>2, <2>3 DEF Lookup
<1>5. ASSUME NEW t \in Tasks, Verify(t) PROVE Tied'
  <2>1. task[t] # Idle /\ task[t].keys \in Keys \cup {NoKeys} /\ task[t].pc = "verify"
    BY <1>5, Active DEF Verify
  <2>2. CASE (Answer(t, Refusal(400)) \/ Answer(t, Refusal(401))) /\ UNCHANGED cacheVars
    BY <2>1, <2>2, AnswerEnds, AnswerFacts DEF Statuses, Tied, cacheVars
  <2>3. CASE NC!Call(t, task[t].req.dev, task[t].req.nonce) /\ Goto(t, "nonce", task[t].keys)
    <3>1. /\ call'[t].dev = task[t].req.dev /\ call'[t].nonce = task[t].req.nonce
          /\ \A u \in Tasks : u # t => call'[u] = call[u]
      BY <1>0, <2>3 DEF NC!Call, NC!Waiting
    <3> QED BY <2>1, <2>3, <3>1, GotoFacts DEF Tied
  <2> QED BY <1>5, <2>2, <2>3 DEF Verify
<1>6. ASSUME NEW t \in Tasks, NonceFresh(t) PROVE Tied'
  <2>1. task[t] # Idle /\ task[t].keys \in Keys \cup {NoKeys}
    BY <1>6, Active DEF NonceFresh
  <2>2. call' = [call EXCEPT ![t] = NC!NoCall]
    BY <1>6 DEF NonceFresh, NC!Accept
  <2>3. Goto(t, "entropy", task[t].keys)
    BY <1>6 DEF NonceFresh
  <2> QED BY <1>0, <2>1, <2>2, <2>3, GotoFacts DEF Tied
<1>7. ASSUME NEW t \in Tasks, NonceReplayed(t) PROVE Tied'
  <2>1. call' = [call EXCEPT ![t] = NC!NoCall] /\ Answer(t, Refusal(409))
    BY <1>7 DEF NonceReplayed, NC!Reject
  <2> QED BY <1>0, <2>1, AnswerEnds, AnswerFacts DEF Statuses, Tied
<1>8. ASSUME NEW t \in Tasks, EntropyErr(t) \/ EntropyOk(t) PROVE Tied'
  <2>1. task[t].pc = "entropy" /\ call' = call /\ task[t].keys \in Keys \cup {NoKeys}
    BY <1>8, Active DEF EntropyErr, EntropyOk, cacheVars
  <2>2. [status |-> 200, kem |-> SealKey(t), sig |-> task[t].keys.sig] \in AnswerTypes
    BY <2>1 DEF SealKey, Keys, NoKeys, AnswerTypes, Statuses, KeyNames
  <2>3. \E a \in AnswerTypes : Answer(t, a)
    BY <1>8, <2>2, AnswerFacts DEF EntropyErr, EntropyOk, Statuses
  <2> QED BY <2>1, <2>3, AnswerEnds DEF Tied
<1>9. ASSUME NEW t \in Tasks, Disconnect(t) PROVE Tied'
  <2>1. answer' = answer /\ task' = [task EXCEPT ![t] = Idle]
    BY <1>9 DEF Disconnect
  <2>2. IF task[t].pc = "nonce" THEN call' = [call EXCEPT ![t] = NC!NoCall] ELSE call' = call
    BY <1>9 DEF Disconnect, NC!Abandon, cacheVars
  <2> QED BY <1>0, <2>1, <2>2, EndFacts DEF Tied
<1>10. CASE Tick \/ SweepTick \/ SweepRun
  BY <1>10 DEF Tick, SweepTick, SweepRun, NC!Tick, NC!SweepTick, NC!SweepRun, serverVars, Tied
<1>11. CASE Restart
  BY <1>11, AnswerFacts DEF Restart, NC!Restart, Tied
<1> QED BY <1>1, <1>2, <1>3, <1>4, <1>5, <1>6, <1>7, <1>8, <1>9, <1>10, <1>11 DEF Next, Step

LEMMA TiedInvariance == Spec => []Tied
<1>1. Init => Tied
  BY AnswerFacts DEF Init, NC!Init, Tied, Idle
<1>2. Carried /\ NC!TypeOK /\ Tied /\ [Next]_vars => Tied'
  BY TiedStep
<1> QED BY <1>1, <1>2, CarriedInvariance, CacheTyped, PTL DEF Spec

(* TypeOK: the handlers of api.rs and the cache of state.rs stay typed,    *)
(* and a handler and its call in the cache's queue agree.                  *)
THEOREM TypeCorrectness == Spec => []TypeOK
<1>1. Carried /\ NC!TypeOK /\ Tied => TypeOK
  BY DEF Carried, Handlers, Tied, AnswerTypes, TypeOK
<1> QED BY <1>1, CarriedInvariance, CacheTyped, TiedInvariance, PTL
-----------------------------------------------------------------------------
(* The keys a handler copied were current while it runs: the device's      *)
(* latest keys are always among them, and so is its copy.                  *)
CopyWasCurrent ==
    /\ latest = devices
    /\ current \in [Tasks -> SUBSET (Keys \cup {NoKeys})]
    /\ \A t \in Tasks :
          /\ task[t] # Idle => latest[task[t].req.dev] \in current[t]
          /\ task[t].pc \in {"verify", "nonce", "entropy"} => task[t].keys \in current[t]
    /\ ServedWithCurrentKeys

(* A handler moves on with a copy that was current, or ends unserved. *)
LEMMA MovesOn ==
    ASSUME Carried, CopyWasCurrent, UNCHANGED <<devices, latest, current>>,
           NEW t \in Tasks, task[t] # Idle,
           \/ \E pc \in {"verify", "nonce", "entropy"}, k \in current[t] : Goto(t, pc, k)
           \/ \E st \in Statuses \ {200} : Answer(t, Refusal(st))
           \/ task' = [task EXCEPT ![t] = Idle] /\ UNCHANGED answer,
           answer \in [Tasks -> AnswerTypes]
    PROVE  CopyWasCurrent'
<1>1. CASE \E pc \in {"verify", "nonce", "entropy"}, k \in current[t] : Goto(t, pc, k)
  <2>1. PICK pc \in {"verify", "nonce", "entropy"}, k \in current[t] : Goto(t, pc, k)
    BY <1>1
  <2>2. k \in Keys \cup {NoKeys}
    BY DEF CopyWasCurrent
  <2>3. /\ task'[t].req = task[t].req /\ task'[t].keys = k
        /\ \A u \in Tasks : u # t => task'[u] = task[u]
        /\ answer' = answer
    BY <2>1, <2>2, GotoFacts
  <2> QED BY <2>3 DEF CopyWasCurrent, ServedWithCurrentKeys
<1>2. CASE \/ \E st \in Statuses \ {200} : Answer(t, Refusal(st))
           \/ task' = [task EXCEPT ![t] = Idle] /\ UNCHANGED answer
  <2>1. task' = [task EXCEPT ![t] = Idle]
    BY <1>2 DEF Answer
  <2>2. task'[t] = Idle /\ \A u \in Tasks : u # t => task'[u] = task[u]
    BY <2>1, EndFacts
  <2>3. \A u \in Tasks : answer'[u] = answer[u] \/ answer'[u].status # 200
    BY <1>2 DEF Answer, Refusal
  <2>4. ServedWithCurrentKeys'
    BY <2>3 DEF CopyWasCurrent, ServedWithCurrentKeys, Answer, Refusal
  <2> QED BY <2>2, <2>4 DEF CopyWasCurrent, Idle
<1> QED BY <1>1, <1>2

LEMMA CopyStep ==
    ASSUME Carried, Tied, CopyWasCurrent, [Next]_vars
    PROVE  CopyWasCurrent'
<1>0. answer \in [Tasks -> AnswerTypes]
  BY DEF Tied
<1>1. CASE UNCHANGED vars
  BY <1>1 DEF vars, serverVars, CopyWasCurrent, ServedWithCurrentKeys
<1>2. ASSUME NEW e \in Enrolments, Enrol(e) PROVE CopyWasCurrent'
  <2>1. latest' = devices' /\ task' = task /\ answer' = answer
    BY <1>2 DEF Enrol, CopyWasCurrent
  <2>2. current' \in [Tasks -> SUBSET (Keys \cup {NoKeys})]
        /\ \A t \in Tasks : current[t] \subseteq current'[t]
    BY <1>2, Inputs DEF Enrol, CopyWasCurrent
  <2>3. ASSUME NEW t \in Tasks, task[t] # Idle PROVE latest'[task[t].req.dev] \in current'[t]
    <3>1. latest' = [latest EXCEPT ![e.dev] = e.keys]
      BY <1>2 DEF Enrol
    <3>2. task[t].req.dev \in Devices /\ latest \in [Devices -> Keys \cup {NoKeys}]
      BY <2>3, Inputs DEF Carried, Handlers, CopyWasCurrent
    <3>3. CASE task[t].req.dev = e.dev
      <4>1. current'[t] = current[t] \cup {e.keys}
        BY <1>2, <2>3, <3>3 DEF Enrol
      <4> QED BY <3>1, <3>2, <3>3, <4>1
    <3>4. CASE task[t].req.dev # e.dev
      BY <2>2, <2>3, <3>1, <3>2, <3>4 DEF CopyWasCurrent
    <3> QED BY <3>3, <3>4
  <2> QED BY <2>1, <2>2, <2>3 DEF CopyWasCurrent, ServedWithCurrentKeys
<1>3. ASSUME NEW t \in Tasks, NEW r \in Requests, Receive(t, r) PROVE CopyWasCurrent'
  <2>1. task[t] = Idle /\ latest' = latest /\ devices' = devices
    BY <1>3 DEF Receive
  <2>2. CASE r.n = "too large"
    <3>1. answer' = [answer EXCEPT ![t] = Refusal(400)] /\ task' = task /\ current' = current
      BY <1>3, <2>2 DEF Receive
    <3> QED BY <1>0, <2>1, <3>1 DEF CopyWasCurrent, ServedWithCurrentKeys, Refusal
  <2>3. CASE r.n # "too large"
    <3>1. /\ task' = [task EXCEPT ![t] = At("lookup", r, NoKeys)]
          /\ answer' = [answer EXCEPT ![t] = NoAnswer]
          /\ current' = [current EXCEPT ![t] = {latest[r.dev]}]
      BY <1>3, <2>3 DEF Receive
    <3>2. latest[r.dev] \in Keys \cup {NoKeys}
      BY Inputs DEF Carried, CopyWasCurrent
    <3>3. /\ task'[t].req = r /\ task'[t].pc = "lookup" /\ current'[t] = {latest[r.dev]}
          /\ answer'[t].status = 0
      BY <1>0, <3>1 DEF At, NoAnswer, Carried, CopyWasCurrent
    <3>4. \A u \in Tasks : u # t => /\ task'[u] = task[u] /\ answer'[u] = answer[u]
                                    /\ current'[u] = current[u]
      BY <1>0, <3>1 DEF Carried, CopyWasCurrent
    <3>5. current' \in [Tasks -> SUBSET (Keys \cup {NoKeys})]
      BY <3>1, <3>2 DEF CopyWasCurrent
    <3>6. ServedWithCurrentKeys'
      BY <3>3, <3>4 DEF CopyWasCurrent, ServedWithCurrentKeys
    <3> QED BY <2>1, <3>3, <3>4, <3>5, <3>6 DEF CopyWasCurrent
  <2> QED BY <2>2, <2>3
<1>4. ASSUME NEW t \in Tasks, Lookup(t) PROVE CopyWasCurrent'
  <2>1. task[t] # Idle /\ UNCHANGED <<devices, latest, current>>
    BY <1>4, Active DEF Lookup
  <2>2. devices[task[t].req.dev] \in current[t]
    BY <2>1 DEF CopyWasCurrent
  <2>3. Answer(t, Refusal(401)) \/ Goto(t, "verify", devices[task[t].req.dev])
    BY <1>4 DEF Lookup
  <2> QED BY <1>0, <2>1, <2>2, <2>3, MovesOn DEF Statuses
<1>5. ASSUME NEW t \in Tasks, Verify(t) \/ NonceFresh(t) \/ NonceReplayed(t) \/ EntropyErr(t)
      PROVE  CopyWasCurrent'
  <2>1. task[t] # Idle /\ UNCHANGED <<devices, latest, current>>
    BY <1>5, Active DEF Verify, NonceFresh, NonceReplayed, EntropyErr
  <2>2. task[t].keys \in current[t]
    BY <1>5 DEF Verify, NonceFresh, NonceReplayed, EntropyErr, CopyWasCurrent
  <2>3. \/ Goto(t, "nonce", task[t].keys) \/ Goto(t, "entropy", task[t].keys)
        \/ Answer(t, Refusal(400)) \/ Answer(t, Refusal(401))
        \/ Answer(t, Refusal(409)) \/ Answer(t, Refusal(502))
    BY <1>5 DEF Verify, NonceFresh, NonceReplayed, EntropyErr
  <2> QED BY <1>0, <2>1, <2>2, <2>3, MovesOn DEF Statuses
<1>6. ASSUME NEW t \in Tasks, EntropyOk(t) PROVE CopyWasCurrent'
  <2>1. task[t] # Idle /\ UNCHANGED <<devices, latest, current>>
    BY <1>6, Active DEF EntropyOk
  <2>2. CASE Answer(t, Refusal(400)) \/ Answer(t, Refusal(500))
    BY <1>0, <2>1, <2>2, MovesOn DEF Statuses
  <2>3. CASE Answer(t, [status |-> 200, kem |-> task[t].keys.kem, sig |-> task[t].keys.sig])
    <3> DEFINE a == [status |-> 200, kem |-> task[t].keys.kem, sig |-> task[t].keys.sig]
    <3>1. task[t].keys \in current[t] /\ task[t].keys \in Keys \cup {NoKeys}
      BY <1>6, Active DEF EntropyOk, CopyWasCurrent
    <3>2. task[t].keys = [kem |-> task[t].keys.kem, sig |-> task[t].keys.sig]
      BY <3>1 DEF Keys, NoKeys
    <3>3. answer'[t] = a /\ task'[t] = Idle
          /\ \A u \in Tasks : u # t => task'[u] = task[u] /\ answer'[u] = answer[u]
      BY <1>0, <2>3 DEF Answer, Carried
    <3>4. ServedWithCurrentKeys'
      BY <2>1, <3>1, <3>2, <3>3 DEF CopyWasCurrent, ServedWithCurrentKeys
    <3> QED BY <2>1, <3>3, <3>4 DEF CopyWasCurrent, Idle
  <2> QED BY <1>6, <2>2, <2>3 DEF EntropyOk, SealKey
<1>7. ASSUME NEW t \in Tasks, Disconnect(t) PROVE CopyWasCurrent'
  <2>1. task[t] # Idle /\ UNCHANGED <<devices, latest, current>>
    BY <1>7, Active DEF Disconnect
  <2>2. task' = [task EXCEPT ![t] = Idle] /\ UNCHANGED answer
    BY <1>7 DEF Disconnect
  <2> QED BY <1>0, <2>1, <2>2, MovesOn
<1>8. CASE Tick \/ SweepTick \/ SweepRun
  BY <1>8 DEF Tick, SweepTick, SweepRun, serverVars, CopyWasCurrent, ServedWithCurrentKeys
<1>9. CASE Restart
  <2>1. /\ latest' = devices' /\ \A t \in Tasks : task'[t] = Idle /\ answer'[t].status = 0
        /\ current' = [t \in Tasks |-> {}]
    BY <1>9 DEF Restart, NoAnswer
  <2> QED BY <2>1 DEF CopyWasCurrent, ServedWithCurrentKeys, Idle
<1> QED BY <1>1, <1>2, <1>3, <1>4, <1>5, <1>6, <1>7, <1>8, <1>9 DEF Next, Step

(* ServedWithCurrentKeys: the answer of request_entropy was checked and    *)
(* sealed with the keys of one enrolment, the latest of its device at some *)
(* moment of the request.                                                  *)
THEOREM CurrentKeysServe == Spec => []ServedWithCurrentKeys
<1>1. Init => CopyWasCurrent
  <2>1. SUFFICES ASSUME Init PROVE CopyWasCurrent
    OBVIOUS
  <2>2. /\ latest = devices /\ \A t \in Tasks : task[t] = Idle /\ answer[t].status = 0
        /\ current = [t \in Tasks |-> {}]
    BY <2>1 DEF Init, NoAnswer
  <2> QED BY <2>2 DEF CopyWasCurrent, ServedWithCurrentKeys, Idle
<1>2. Carried /\ Tied /\ CopyWasCurrent /\ [Next]_vars => CopyWasCurrent'
  BY CopyStep
<1>3. CopyWasCurrent => ServedWithCurrentKeys
  BY DEF CopyWasCurrent
<1> QED BY <1>1, <1>2, <1>3, CarriedInvariance, TiedInvariance, PTL DEF Spec
-----------------------------------------------------------------------------
(* Whoever reaches the cache has been verified with a key enrolled for its *)
(* device since the start, and only such a request has left an entry.      *)
SignedFirst ==
    /\ enrolled \in [Devices -> SUBSET (Pairs \cup {BadKey})]
    /\ \A d \in Devices : devices[d] # NoKeys => devices[d].sig \in enrolled[d]
    /\ \A t \in Tasks :
          /\ task[t].pc = "verify" => task[t].keys.sig \in enrolled[task[t].req.dev]
          /\ task[t].pc = "nonce" =>
                task[t].req.decodes /\ task[t].req.signer \in enrolled[task[t].req.dev]
    /\ SpentOnlyBySigner

(* Steps that leave the cache and the table alone and bring no handler to  *)
(* "verify" or "nonce".                                                    *)
LEMMA SignedKept ==
    ASSUME SignedFirst, UNCHANGED <<devices, enrolled, cache>>,
           \A t \in Tasks : task'[t] = task[t] \/ task'[t].pc \in {"idle", "lookup", "entropy"}
    PROVE  SignedFirst'
BY DEF SignedFirst, SpentOnlyBySigner

LEMMA SignedStep ==
    ASSUME Carried, NC!TypeOK, Tied, SignedFirst, [Next]_vars
    PROVE  SignedFirst'
<1>0. cache \in [Devices -> [Nonces -> NC!Expiries]]
  BY DEF NC!TypeOK
<1>1. CASE UNCHANGED vars
  BY <1>1, SignedKept DEF vars, cacheVars, serverVars
<1>2. ASSUME NEW e \in Enrolments, Enrol(e) PROVE SignedFirst'
  <2>1. /\ devices' = [devices EXCEPT ![e.dev] = e.keys]
        /\ enrolled' = [enrolled EXCEPT ![e.dev] = @ \cup {e.keys.sig}]
        /\ task' = task /\ cache' = cache
    BY <1>2 DEF Enrol, cacheVars
  <2>2. enrolled' \in [Devices -> SUBSET (Pairs \cup {BadKey})]
        /\ \A d \in Devices : enrolled[d] \subseteq enrolled'[d]
    <3>1. e.dev \in Devices /\ e.keys.sig \in Pairs \cup {BadKey}
      BY Inputs DEF Keys
    <3>2. enrolled[e.dev] \cup {e.keys.sig} \in SUBSET (Pairs \cup {BadKey})
      BY <3>1 DEF SignedFirst
    <3> QED BY <2>1, <3>1, <3>2 DEF SignedFirst
  <2>3. \A d \in Devices : devices'[d] # NoKeys => devices'[d].sig \in enrolled'[d]
    <3>1. SUFFICES ASSUME NEW d \in Devices, devices'[d] # NoKeys
                   PROVE  devices'[d].sig \in enrolled'[d]
      OBVIOUS
    <3>2. CASE d = e.dev
      BY <2>1, <3>2 DEF Carried, SignedFirst
    <3>3. CASE d # e.dev
      BY <2>1, <2>2, <3>1, <3>3 DEF Carried, SignedFirst
    <3> QED BY <3>2, <3>3
  <2>4. \A t \in Tasks : task[t].pc \in {"verify", "nonce"} => task[t].req.dev \in Devices
    BY Active
  <2>5. \A t \in Tasks :
          /\ task[t].pc = "verify" => task[t].keys.sig \in enrolled'[task[t].req.dev]
          /\ task[t].pc = "nonce" =>
                task[t].req.decodes /\ task[t].req.signer \in enrolled'[task[t].req.dev]
    BY <2>2, <2>4 DEF SignedFirst
  <2>6. SpentOnlyBySigner'
    <3>1. SUFFICES ASSUME NEW d \in Devices, NEW x \in Nonces, cache[d][x] # NC!Absent
                   PROVE  \E r \in Requests : /\ r.dev = d /\ r.nonce = x /\ r.n = "allowed"
                                             /\ r.decodes /\ r.signer \in enrolled'[d]
      BY <2>1 DEF SpentOnlyBySigner
    <3>2. PICK r \in Requests : /\ r.dev = d /\ r.nonce = x /\ r.n = "allowed"
                               /\ r.decodes /\ r.signer \in enrolled[d]
      BY <3>1 DEF SignedFirst, SpentOnlyBySigner
    <3> QED BY <2>2, <3>2
  <2> QED BY <2>1, <2>2, <2>3, <2>5, <2>6 DEF SignedFirst
<1>3. ASSUME NEW t \in Tasks, NEW r \in Requests, Receive(t, r) PROVE SignedFirst'
  <2>1. UNCHANGED <<devices, enrolled, cache>>
    BY <1>3 DEF Receive, cacheVars
  <2>2. CASE r.n = "too large"
    BY <1>3, <2>1, <2>2, SignedKept DEF Receive
  <2>3. CASE r.n # "too large"
    <3>1. task' = [task EXCEPT ![t] = At("lookup", r, NoKeys)]
      BY <1>3, <2>3 DEF Receive
    <3>2. \A u \in Tasks : task'[u] = task[u] \/ task'[u].pc = "lookup"
      BY <3>1 DEF At, Carried
    <3> QED BY <2>1, <3>2, SignedKept
  <2> QED BY <2>2, <2>3
<1>4. ASSUME NEW t \in Tasks, Lookup(t) PROVE SignedFirst'
  <2> DEFINE k == devices[task[t].req.dev]
  <2>1. task[t] # Idle /\ task[t].req.dev \in Devices /\ UNCHANGED <<devices, enrolled, cache>>
    BY <1>4, Active DEF Lookup, cacheVars
  <2>2. CASE k = NoKeys
    <3>1. task' = [task EXCEPT ![t] = Idle]
      BY <1>4, <2>2 DEF Lookup, Answer
    <3>2. \A u \in Tasks : task'[u] = task[u] \/ task'[u].pc = "idle"
      BY <3>1, EndFacts DEF Idle
    <3> QED BY <2>1, <3>2, SignedKept
  <2>3. CASE k # NoKeys
    <3>1. Goto(t, "verify", k) /\ k \in Keys \cup {NoKeys}
      BY <1>4, <2>1, <2>3 DEF Lookup, Carried
    <3>2. /\ task'[t].pc = "verify" /\ task'[t].req = task[t].req /\ task'[t].keys = k
          /\ \A u \in Tasks : u # t => task'[u] = task[u]
      BY <2>1, <3>1, GotoFacts
    <3>3. k.sig \in enrolled[task[t].req.dev]
      BY <2>1, <2>3 DEF SignedFirst
    <3> QED BY <2>1, <3>2, <3>3 DEF SignedFirst, SpentOnlyBySigner
  <2> QED BY <2>2, <2>3
<1>5. ASSUME NEW t \in Tasks, Verify(t) PROVE SignedFirst'
  <2>1. /\ task[t] # Idle /\ task[t].keys \in Keys \cup {NoKeys} /\ task[t].pc = "verify"
        /\ devices' = devices /\ enrolled' = enrolled
    BY <1>5, Active DEF Verify
  <2>2. cache' = cache
    BY <1>5 DEF Verify, NC!Call, cacheVars
  <2>3. CASE Answer(t, Refusal(400)) \/ Answer(t, Refusal(401))
    <3>1. task' = [task EXCEPT ![t] = Idle]
      BY <2>3 DEF Answer
    <3>2. \A u \in Tasks : task'[u] = task[u] \/ task'[u].pc = "idle"
      BY <3>1, EndFacts DEF Idle
    <3> QED BY <2>1, <2>2, <3>2, SignedKept
  <2>4. CASE /\ task[t].req.decodes /\ Verifies(task[t].req, task[t].keys)
             /\ Goto(t, "nonce", task[t].keys)
    <3>1. /\ task'[t].pc = "nonce" /\ task'[t].req = task[t].req
          /\ \A u \in Tasks : u # t => task'[u] = task[u]
      BY <2>1, <2>4, GotoFacts
    <3>2. task[t].req.decodes /\ task[t].req.signer \in enrolled[task[t].req.dev]
      BY <2>1, <2>4 DEF Verifies, SignedFirst
    <3> QED BY <2>1, <2>2, <3>1, <3>2 DEF SignedFirst, SpentOnlyBySigner
  <2> QED BY <1>5, <2>3, <2>4 DEF Verify
<1>6. ASSUME NEW t \in Tasks, NonceFresh(t) PROVE SignedFirst'
  <2> DEFINE r == task[t].req
  <2>1. /\ task[t].pc = "nonce" /\ task[t] # Idle /\ task[t].keys \in Keys \cup {NoKeys}
        /\ r \in Requests /\ r.n = "allowed" /\ r.dev \in Devices /\ r.nonce \in Nonces
        /\ devices' = devices /\ enrolled' = enrolled
    BY <1>6, Active DEF NonceFresh
  <2>2. /\ task'[t].pc = "entropy" /\ \A u \in Tasks : u # t => task'[u] = task[u]
    BY <1>6, <2>1, GotoFacts DEF NonceFresh
  <2>3. \A d \in Devices, x \in Nonces :
          cache'[d][x] # NC!Absent => cache[d][x] # NC!Absent \/ (d = r.dev /\ x = r.nonce)
    <3>1. call[t].dev = r.dev /\ call[t].nonce = r.nonce
      BY <2>1 DEF Tied
    <3>2. PICK S : cache' = [cache EXCEPT ![r.dev] =
                       [y \in Nonces |-> IF y = r.nonce THEN call[t].now + TTL
                                         ELSE IF y \in S THEN cache[r.dev][y] ELSE NC!Absent]]
      <4>1. NC!Accept(t)
        BY <1>6 DEF NonceFresh
      <4>2. PICK S \in NC!Survivors(call[t].dev, call[t].now) :
              cache' = [cache EXCEPT ![call[t].dev] =
                   [y \in Nonces |-> IF y = call[t].nonce THEN call[t].now + TTL
                                     ELSE IF y \in S THEN cache[call[t].dev][y] ELSE NC!Absent]]
        BY <4>1 DEF NC!Accept
      <4> QED BY <3>1, <4>2
    <3> QED BY <1>0, <2>1, <3>2
  <2>4. r.decodes /\ r.signer \in enrolled[r.dev]
    BY <2>1 DEF SignedFirst
  <2>5. SpentOnlyBySigner'
    BY <2>1, <2>3, <2>4 DEF SignedFirst, SpentOnlyBySigner
  <2> QED BY <2>1, <2>2, <2>5 DEF SignedFirst
<1>7. ASSUME NEW t \in Tasks, NonceReplayed(t) \/ EntropyErr(t) \/ EntropyOk(t) \/ Disconnect(t)
      PROVE  SignedFirst'
  <2>1. task' = [task EXCEPT ![t] = Idle] /\ UNCHANGED <<devices, enrolled, cache>>
    BY <1>7 DEF NonceReplayed, EntropyErr, EntropyOk, Disconnect, Answer, cacheVars,
                NC!Reject, NC!Abandon
  <2>2. \A u \in Tasks : task'[u] = task[u] \/ task'[u].pc = "idle"
    BY <2>1, EndFacts DEF Idle
  <2> QED BY <2>1, <2>2, SignedKept
<1>8. CASE Tick \/ SweepTick
  BY <1>8, SignedKept DEF Tick, SweepTick, NC!Tick, NC!SweepTick, serverVars
<1>9. CASE SweepRun
  <2>1. \A d \in Devices, x \in Nonces : cache'[d][x] # NC!Absent => cache[d][x] # NC!Absent
    BY <1>9 DEF SweepRun, NC!SweepRun, NC!Swept
  <2> QED BY <1>9, <2>1 DEF SweepRun, serverVars, SignedFirst, SpentOnlyBySigner
<1>10. CASE Restart
  <2>1. /\ \A d \in Devices : devices'[d] = NoKeys
        /\ \A d \in Devices, x \in Nonces : cache'[d][x] = NC!Absent
        /\ enrolled' = [d \in Devices |-> {}] /\ \A t \in Tasks : task'[t].pc = "idle"
    BY <1>10 DEF Restart, NC!Restart, NC!NoEntries, Idle
  <2> QED BY <2>1 DEF SignedFirst, SpentOnlyBySigner
<1> QED BY <1>1, <1>2, <1>3, <1>4, <1>5, <1>6, <1>7, <1>8, <1>9, <1>10 DEF Next, Step

(* SpentOnlyBySigner: request_entropy spends a nonce only for a request    *)
(* that decodes and is signed by an enrolled key of its device, since the  *)
(* signature is verified before the nonce is looked at.                    *)
THEOREM OnlySignersSpend == Spec => []SpentOnlyBySigner
<1>1. Init => SignedFirst
  <2>1. SUFFICES ASSUME Init PROVE SignedFirst
    OBVIOUS
  <2>2. /\ \A d \in Devices : devices[d] = NoKeys
        /\ \A d \in Devices, x \in Nonces : cache[d][x] = NC!Absent
        /\ enrolled = [d \in Devices |-> {}] /\ \A t \in Tasks : task[t].pc = "idle"
    BY <2>1 DEF Init, NC!Init, NC!NoEntries, Idle
  <2> QED BY <2>2 DEF SignedFirst, SpentOnlyBySigner
<1>2. Carried /\ NC!TypeOK /\ Tied /\ SignedFirst /\ [Next]_vars => SignedFirst'
  BY SignedStep
<1>3. SignedFirst => SpentOnlyBySigner
  BY DEF SignedFirst
<1> QED BY <1>1, <1>2, <1>3, CarriedInvariance, CacheTyped, TiedInvariance, PTL DEF Spec
=============================================================================
