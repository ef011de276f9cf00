--------------------------- MODULE EntropyHybrid ---------------------------
(***************************************************************************)
(* auth_server/src/entropy.rs, mode hybrid_csprng: one generator behind a  *)
(* mutex, shared by every request.                                         *)
(*                                                                         *)
(* A request takes the mutex up to three times: to see whether the         *)
(* threshold is reached, to install a new generator (or to count a failed  *)
(* reseed), and to draw its bytes.  Between two of them, and while the     *)
(* QRNG answers, every other request runs.  What happens under one hold of *)
(* the mutex is one step.  A request may be dropped at each await.         *)
(*                                                                         *)
(* reseed_count and reseed_failures are only reported and are left out.    *)
(***************************************************************************)
EXTENDS Integers, FiniteSets

CONSTANTS
    Tasks,          \* concurrent requests
    MaxN,           \* the largest request (/entropy/raw/:n has no cap of its own)
    Threshold       \* reseed_after_bytes, may be 0

ASSUME SizesAssumption == MaxN \in Nat /\ Threshold \in Nat
ASSUME TasksAssumption == IsFiniteSet(Tasks)

VARIABLES
    bytesSince,     \* bytes_served_since_reseed
    task,           \* task[t]: where request t stands, and its size n
    stale           \* history: requests that saw the threshold reached and
                    \* have seen no generator installed since

vars == <<bytesSince, task, stale>>

Idle == [pc |-> "idle", n |-> 0]
At(pc, n) == [pc |-> pc, n |-> n]

Init ==
    /\ bytesSince = 0
    /\ task = [t \in Tasks |-> Idle]
    /\ stale = {}
-----------------------------------------------------------------------------
(* bytes_with_stats(n) is called. *)
Begin(t, n) ==
    /\ task[t] = Idle
    /\ task' = [task EXCEPT ![t] = At("check", n)]
    /\ UNCHANGED <<bytesSince, stale>>

\* Variant: the threshold is compared one too late.
ExhaustedLate == bytesSince > Threshold

Exhausted == bytesSince >= Threshold

(* First hold of the mutex: should_reseed. *)
Check(t) ==
    /\ task[t].pc = "check"
    /\ IF Exhausted
       THEN /\ task' = [task EXCEPT ![t].pc = "fetch"]
            /\ stale' = stale \cup {t}
       ELSE /\ task' = [task EXCEPT ![t].pc = "fill"]
            /\ UNCHANGED stale
    /\ UNCHANGED bytesSince

(* The QRNG answers with a seed, ... *)
FetchOk(t) ==
    /\ task[t].pc = "fetch"
    /\ task' = [task EXCEPT ![t].pc = "install"]
    /\ UNCHANGED <<bytesSince, stale>>

(* ... or with an error, or not within the http timeout. *)
\* Variant: a failed reseed serves from the old generator.
FetchFailOpen(t) ==
    /\ task[t].pc = "fetch"
    /\ task' = [task EXCEPT ![t].pc = "fill"]
    /\ UNCHANGED <<bytesSince, stale>>

FetchFail(t) ==
    /\ task[t].pc = "fetch"
    /\ task' = [task EXCEPT ![t].pc = "fail"]
    /\ UNCHANGED <<bytesSince, stale>>

(* Second hold after a failure: it is counted, and the request fails. *)
\* Variant: a failed reseed never returns.
FailStuck(t) ==
    /\ task[t].pc = "fail"
    /\ UNCHANGED vars

Fail(t) ==
    /\ task[t].pc = "fail"
    /\ task' = [task EXCEPT ![t] = Idle]
    /\ stale' = stale \ {t}
    /\ UNCHANGED bytesSince

(* Second hold after a success: the generator is replaced. *)
\* Variant: the count is not reset.
InstallNoReset(t) ==
    /\ task[t].pc = "install"
    /\ stale' = {}
    /\ task' = [task EXCEPT ![t].pc = "fill"]
    /\ UNCHANGED bytesSince

Install(t) ==
    /\ task[t].pc = "install"
    /\ bytesSince' = 0
    /\ stale' = {}
    /\ task' = [task EXCEPT ![t].pc = "fill"]

(* Last hold: the bytes are drawn and the request succeeds. *)
\* Variant: the bytes are counted down.
FillCountsDown(t) ==
    /\ task[t].pc = "fill"
    /\ bytesSince' = bytesSince - task[t].n
    /\ task' = [task EXCEPT ![t] = Idle]
    /\ UNCHANGED stale

Fill(t) ==
    /\ task[t].pc = "fill"
    /\ bytesSince' = bytesSince + task[t].n
    /\ task' = [task EXCEPT ![t] = Idle]
    /\ UNCHANGED stale

(* The client disconnects: the request ends at the await it has reached. *)
Drop(t) ==
    /\ task[t] # Idle
    /\ task' = [task EXCEPT ![t] = Idle]
    /\ stale' = stale \ {t}
    /\ UNCHANGED bytesSince

Next ==
    \E t \in Tasks :
        \/ \E n \in 0..MaxN : Begin(t, n)
        \/ Check(t) \/ FetchOk(t) \/ FetchFail(t) \/ Fail(t)
        \/ Install(t) \/ Fill(t) \/ Drop(t)

Spec == Init /\ [][Next]_vars

(* Each request is polled and the mutex is fair; a fetch ends, with its    *)
(* timeout if with nothing else.                                           *)
Progress ==
    \A t \in Tasks :
        WF_vars(Check(t) \/ FetchOk(t) \/ FetchFail(t) \/ Fail(t) \/ Install(t) \/ Fill(t))

(* The environment: requests keep arriving, they are not all dropped, and  *)
(* the QRNG does not fail for ever.                                        *)
SteadyTraffic ==
    /\ WF_vars(\E t \in Tasks, n \in 0..MaxN : Begin(t, n))
    /\ SF_vars(\E t \in Tasks : Check(t))
    /\ SF_vars(\E t \in Tasks : FetchOk(t))
    /\ SF_vars(\E t \in Tasks : Install(t))

FairSpec == Spec /\ Progress /\ SteadyTraffic
-----------------------------------------------------------------------------
PCs == {"idle", "check", "fetch", "install", "fail", "fill"}

(* Types of the state; an idle request has no size. *)
TypeOK ==
    /\ bytesSince \in Nat
    /\ task \in [Tasks -> [pc : PCs, n : 0..MaxN]]
    /\ \A t \in Tasks : task[t].pc = "idle" => task[t] = Idle
    /\ stale \subseteq Tasks

Slack == IF Threshold = 0 THEN 0 ELSE Threshold - 1

Filling == {t \in Tasks : task[t].pc = "fill"}

(* HYBRID_RESEED_AFTER_BYTES bounds what one seed is stretched to: the     *)
(* requests that passed the check together overrun the threshold by at     *)
(* most one request each, however they interleave with reseeds.            *)
StretchBounded == bytesSince <= Slack + MaxN * Cardinality(Tasks)

(* The inductive form: what the requests past the check may still draw is  *)
(* accounted for already.                                                  *)
StretchReserved ==
    bytesSince + MaxN * Cardinality(Filling) <= Slack + MaxN * Cardinality(Tasks)

(* hybrid_csprng fails closed: a request that saw the threshold reached is *)
(* never served by a generator that was in place at that moment.           *)
FreshAfterExhaustion == [][\A t \in Tasks : Fill(t) => t \notin stale]_vars

(* Every request ends, served or failed, also when the QRNG is down.       *)
EveryRequestEnds == \A t \in Tasks : task[t] # Idle ~> task[t] = Idle

(* "the CSPRNG is periodically reseeded": while requests arrive and the    *)
(* QRNG answers now and then, a reached threshold leads to a new seed.     *)
ExhaustedIsReseeded == Exhausted ~> ~Exhausted
=============================================================================
