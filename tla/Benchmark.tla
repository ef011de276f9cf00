------------------------------ MODULE Benchmark ------------------------------
(***************************************************************************)
(* benchmark_client loadtest over the users file that BulkEnrol writes:    *)
(* workers send signed requests until a deadline, each with the            *)
(* credentials of one line, which the server checks against its table.     *)
(* As the README asks, no devices are enrolled during a load test; the     *)
(* server may restart and a late post may arrive.                          *)
(***************************************************************************)
EXTENDS BulkEnrol, FiniteSets

CONSTANTS
    Concurrency,    \* number of workers
    MaxRequests     \* bound on the requests of a load test

ASSUME LoadBounds == Concurrency \in Nat \ {0} /\ MaxRequests \in Nat

Workers == 0..(Concurrency - 1)

VARIABLES
    contexts,       \* the signing contexts of the load test under way
    worker,         \* "off", at the "loop" condition, or waiting for an answer ("sent")
    over,           \* the deadline has passed
    started,        \* requests begun in this load test
    metrics,        \* requests counted, by outcome
    atDeadline      \* history: total_requests when the deadline passed

loadVars == <<contexts, worker, over, started, metrics, atDeadline>>
vars == <<bulkVars, loadVars>>

Outcomes == {"200", "401", "409", "other", "not built"}
NoMetrics == [o \in Outcomes |-> 0]

Running == \E w \in Workers : worker[w] # "off"

Init ==
    /\ BulkInit
    /\ contexts = <<>>
    /\ worker = [w \in Workers |-> "off"]
    /\ over = FALSE
    /\ started = 0
    /\ metrics = NoMetrics
    /\ atDeadline = 0
-----------------------------------------------------------------------------
(* run_loadtest, once for the command loadtest and once for each cell of   *)
(* matrix: the whole file is read, or the command fails.  (matrix reads it *)
(* once for all its cells: the same, as no devices are enrolled meanwhile.)*)
StartTest ==
    /\ ~Running /\ run = Idle
    /\ Readable /\ lines # <<>>
    /\ contexts' = LoadUsers
    /\ worker' = [w \in Workers |-> "loop"]
    /\ over' = FALSE
    /\ started' = 0
    /\ metrics' = NoMetrics
    /\ atDeadline' = 0
    /\ UNCHANGED bulkVars

(* summarize: success + failures, the failures by their kind. *)
TotalRequests ==
    metrics["200"] + metrics["401"] + metrics["409"] + metrics["other"] + metrics["not built"]

Deadline ==
    /\ Running /\ ~over
    /\ over' = TRUE
    /\ atDeadline' = TotalRequests
    /\ UNCHANGED <<bulkVars, contexts, worker, started, metrics>>

(* worker_id % signing_contexts.len() *)
Context(w) == contexts[1 + (w % Len(contexts))]

Goto(w, pc) == worker' = [worker EXCEPT ![w] = pc]

CountOne(o) == metrics' = [metrics EXCEPT ![o] = @ + 1]

(* The loop condition: the worker ends, ... *)
\* Variant: workers go on as long as requests are refused.
StopUnlessRefused(w) ==
    /\ worker[w] = "loop" /\ over /\ metrics["401"] = 0
    /\ Goto(w, "off")
    /\ UNCHANGED <<bulkVars, contexts, over, started, metrics, atDeadline>>

Stop(w) ==
    /\ worker[w] = "loop" /\ over
    /\ Goto(w, "off")
    /\ UNCHANGED <<bulkVars, contexts, over, started, metrics, atDeadline>>

(* ... or sends a request, ... *)
\* Variant: the deadline is checked once, when the worker starts.
SendUnchecked(w) ==
    /\ worker[w] = "loop"
    /\ started < MaxRequests
    /\ started' = started + 1
    /\ Goto(w, "sent")
    /\ UNCHANGED <<bulkVars, contexts, over, metrics, atDeadline>>

Send(w) ==
    /\ worker[w] = "loop" /\ ~over
    /\ started < MaxRequests
    /\ started' = started + 1
    /\ Goto(w, "sent")
    /\ UNCHANGED <<bulkVars, contexts, over, metrics, atDeadline>>

(* ... or fails to build one and tries again at once. *)
BuildFails(w) ==
    /\ worker[w] = "loop" /\ ~over
    /\ started < MaxRequests
    /\ started' = started + 1
    /\ CountOne("not built")
    /\ UNCHANGED <<bulkVars, contexts, worker, over, atDeadline>>

Answered(w, o) ==
    /\ worker[w] = "sent"
    /\ CountOne(o)
    /\ Goto(w, "loop")
    /\ UNCHANGED <<bulkVars, contexts, over, started, atDeadline>>

Known(w) == table[Context(w).dev] = Context(w).pair

(* The server has another pair for the device, or none. *)
Unauthorized(w) == Answered(w, "401") /\ ~Known(w)

(* It has this pair: the request is served, or its nonce is a replay. *)
Served(w) == Answered(w, "200") /\ Known(w)

Replayed(w) == Answered(w, "409") /\ Known(w)

(* A refused size, a failing QRNG, or no answer because the connection     *)
(* breaks: counted alike.                                                  *)
Other(w) == Answered(w, "other")

WorkerStep(w) ==
    \/ Stop(w) \/ Send(w) \/ BuildFails(w)
    \/ Unauthorized(w) \/ Served(w) \/ Replayed(w) \/ Other(w)

Next ==
    \/ /\ ~Running
       /\ FreshFile \/ StartRun \/ BulkStep \/ Break
       /\ UNCHANGED loadVars
    \/ (OrphanArrives \/ ServerRestart) /\ UNCHANGED loadVars
    \/ StartTest \/ Deadline
    \/ \E w \in Workers : WorkerStep(w)

Spec == Init /\ [][Next]_vars

(* Time passes and workers are polled; a request is answered or fails (the *)
(* client itself sets no timeout).                                         *)
FairSpec == Spec /\ WF_vars(Deadline) /\ \A w \in Workers : WF_vars(WorkerStep(w))
-----------------------------------------------------------------------------
Records == [dev : Devices, pair : 1..MaxPairs]

(* Types of the state; while workers run they have contexts. *)
TypeOK ==
    /\ lines \in Seq(Seq(Records \cup {Torn}))
    /\ unended \in BOOLEAN /\ (unended => lines # <<>>)
    /\ run \in [pc : {"idle", "post", "append", "newline"}, dev : Devices, pair : 0..MaxPairs]
    /\ pairs \in 0..MaxPairs /\ files \in 1..MaxFiles
    /\ restarts \in 0..MaxRestarts /\ breaks \in 0..MaxBreaks
    /\ table \in [Devices -> 0..MaxPairs]
    /\ orphans \subseteq Records /\ lost \subseteq 1..MaxPairs /\ cut \in BOOLEAN
    /\ origin \in {"none", "clean", "stale", "reenrolled", "mixed"}
    /\ contexts \in Seq(Records)
    /\ worker \in [Workers -> {"off", "loop", "sent"}]
    /\ over \in BOOLEAN /\ started \in 0..MaxRequests /\ atDeadline \in 0..MaxRequests
    /\ metrics \in [Outcomes -> 0..MaxRequests]
    /\ Running => contexts # <<>>

(* What the server has enrolled can be used: the last record of a device   *)
(* in the users file is for the pair in the server's table, unless the run *)
(* that posted the pair ended before it appended the record, or is about   *)
(* to append it, or the user has replaced the file since.                  *)
CredentialsKept ==
    \A d \in Devices :
        table[d] # None =>
            \/ LastPair(d) = table[d]
            \/ table[d] \in lost
            \/ run.pc = "append" /\ run.pair = table[d]

(* load_users fails on the whole file for one bad line, and only a run     *)
(* that ended inside append_user on this file makes one.                   *)
UnreadableOnlyIfCut == Readable \/ cut

(* README.md:183 ("or use a fresh users file") and :323: no request is     *)
(* refused with 401 when its users file was fresh and one run of enroll    *)
(* has filled it, as long as the server has not restarted since that run   *)
(* began and no late post of an earlier run has reached the server since.  *)
CleanFileIsAccepted == [][\A w \in Workers : Unauthorized(w) => origin # "clean"]_vars

(* README.md:183, the other alternative: "When restarting the auth server, *)
(* re-enroll devices".  After one run of enroll into the same users file   *)
(* since the restart, all devices enrolled and no late post since, no      *)
(* request is refused with 401.                                            *)
ReenrolledIsAccepted ==
    [][\A w \in Workers :
          Unauthorized(w) /\ origin = "reenrolled" => \E d \in Devices : table[d] = None]_vars

(* The report divides by the duration what the workers counted: at most    *)
(* one request of each worker was counted after the deadline.              *)
LateAtMostOnePerWorker == over => TotalRequests <= atDeadline + Concurrency

(* A load test ends, whatever the server answers and when it restarts.     *)
LoadTestEnds == [](Running => <>~Running)
=============================================================================
