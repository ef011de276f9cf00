----------------------------- MODULE EntropyPool -----------------------------
(***************************************************************************)
(* auth_server/src/entropy.rs, mode parallel_hybrid: a pool of generators, *)
(* one per shard.                                                          *)
(*                                                                         *)
(* The requests share atomics that no lock relates to one another: the     *)
(* round-robin cursor, and per shard the byte count and the flag           *)
(* reseed_in_progress.  Every access to one of them is a step of its own;  *)
(* what happens under one hold of a shard's mutex is one step.  A request  *)
(* can be dropped only where it awaits: the QRNG, the mutex to install the *)
(* new generator, the mutex to draw its bytes.                             *)
(*                                                                         *)
(* The byte count is kept up to Threshold and the history drawn up to one  *)
(* more than its bound: larger values are told apart by nothing.  The      *)
(* counters that are only reported (bytes_served, reseed_count,            *)
(* reseed_failures, the totals, the lock wait) are left out.               *)
(***************************************************************************)
EXTENDS Naturals, FiniteSets

CONSTANTS
    Tasks,          \* concurrent requests
    PoolSize,       \* HYBRID_POOL_SIZE
    MaxN,           \* the largest request (/entropy/raw/:n has no cap of its own)
    Threshold,      \* reseed_after_bytes, may be 0
    MaxDrops        \* bound on client disconnections

ASSUME TasksAssumption == IsFiniteSet(Tasks)
ASSUME PoolSizeAssumption == PoolSize \in Nat \ {0}
ASSUME SizesAssumption == MaxN \in Nat /\ Threshold \in Nat /\ MaxDrops \in Nat

Shards == 0..(PoolSize - 1)

VARIABLES
    nextShard,      \* next_shard, modulo the pool size
    bytesSince,     \* bytes_since_reseed of each shard, kept up to Threshold
    flag,           \* reseed_in_progress of each shard
    task,           \* task[t]: where request t stands, its shard and size
    drops,          \* disconnections so far
    drawn,          \* history: bytes drawn from the shard's present generator
    loose           \* history: shards whose reseed failed, or that served
                    \* during a reseed, since their generator was installed

vars == <<nextShard, bytesSince, flag, task, drops, drawn, loose>>

Idle == [pc |-> "idle", shard |-> 0, n |-> 0]
At(pc, s, n) == [pc |-> pc, shard |-> s, n |-> n]

UpTo(bound, v) == IF v <= bound THEN v ELSE bound

Slack == IF Threshold = 0 THEN 0 ELSE Threshold - 1
StretchBound == Slack + MaxN * Cardinality(Tasks)

Init ==
    /\ nextShard = 0
    /\ bytesSince = [s \in Shards |-> 0]
    /\ flag = [s \in Shards |-> FALSE]
    /\ task = [t \in Tasks |-> Idle]
    /\ drops = 0
    /\ drawn = [s \in Shards |-> 0]
    /\ loose = {}

Goto(t, pc) == task' = [task EXCEPT ![t].pc = pc]
-----------------------------------------------------------------------------
(* bytes_with_stats(n) is called: next_shard.fetch_add, modulo the size. *)
\* Variant: the cursor is not taken modulo the pool size.
PickOutOfRange(t, n) ==
    /\ task[t] = Idle
    /\ nextShard' = nextShard + 1
    /\ task' = [task EXCEPT ![t] = At("check", nextShard, n)]
    /\ UNCHANGED <<bytesSince, flag, drops, drawn, loose>>

Pick(t, n) ==
    /\ task[t] = Idle
    /\ nextShard' = (nextShard + 1) % PoolSize
    /\ task' = [task EXCEPT ![t] = At("check", nextShard, n)]
    /\ UNCHANGED <<bytesSince, flag, drops, drawn, loose>>

Exhausted(s) == bytesSince[s] >= Threshold

(* bytes_since_reseed is loaded and compared with the threshold. *)
Check(t) ==
    /\ task[t].pc = "check"
    /\ Goto(t, IF Exhausted(task[t].shard) THEN "cas" ELSE "fill")
    /\ UNCHANGED <<nextShard, bytesSince, flag, drops, drawn, loose>>

(* compare_exchange on reseed_in_progress: the loser does not wait for the *)
(* reseed, it goes on with the old generator.                              *)
\* Variant: the flag is loaded and stored, not compared and exchanged.
CasAlwaysWins(t) ==
    /\ task[t].pc = "cas"
    /\ Goto(t, "fetch")
    /\ flag' = [flag EXCEPT ![task[t].shard] = TRUE]
    /\ UNCHANGED <<nextShard, bytesSince, drops, drawn, loose>>

\* Variant: the loser waits for the flag.
CasSpins(t) ==
    /\ task[t].pc = "cas"
    /\ IF flag[task[t].shard]
       THEN UNCHANGED <<task, flag>>
       ELSE /\ Goto(t, "fetch")
            /\ flag' = [flag EXCEPT ![task[t].shard] = TRUE]
    /\ UNCHANGED <<nextShard, bytesSince, drops, drawn, loose>>

Cas(t) ==
    /\ task[t].pc = "cas"
    /\ IF flag[task[t].shard]
       THEN Goto(t, "fill") /\ UNCHANGED flag
       ELSE /\ Goto(t, "fetch")
            /\ flag' = [flag EXCEPT ![task[t].shard] = TRUE]
    /\ UNCHANGED <<nextShard, bytesSince, drops, drawn, loose>>

(* The QRNG answers with a seed, ... *)
FetchOk(t) ==
    /\ task[t].pc = "fetch"
    /\ Goto(t, "install")
    /\ UNCHANGED <<nextShard, bytesSince, flag, drops, drawn, loose>>

(* ... or fails, or times out: the flag is released and the request goes   *)
(* on with the old generator.                                              *)
\* Variant: a failed reseed leaves the flag raised.
FetchFailKeepsFlag(t) ==
    /\ task[t].pc = "fetch"
    /\ Goto(t, "fill")
    /\ loose' = loose \cup {task[t].shard}
    /\ UNCHANGED <<nextShard, bytesSince, flag, drops, drawn>>

\* Variant: a failed reseed ends the request with an error.
FetchFailClosed(t) ==
    /\ task[t].pc = "fetch"
    /\ task' = [task EXCEPT ![t] = Idle]
    /\ flag' = [flag EXCEPT ![task[t].shard] = FALSE]
    /\ loose' = loose \cup {task[t].shard}
    /\ UNCHANGED <<nextShard, bytesSince, drops, drawn>>

FetchFail(t) ==
    /\ task[t].pc = "fetch"
    /\ Goto(t, "fill")
    /\ flag' = [flag EXCEPT ![task[t].shard] = FALSE]
    /\ loose' = loose \cup {task[t].shard}
    /\ UNCHANGED <<nextShard, bytesSince, drops, drawn>>

(* Under the shard's mutex the generator is replaced. *)
Install(t) ==
    /\ task[t].pc = "install"
    /\ Goto(t, "zero")
    /\ drawn' = [drawn EXCEPT ![task[t].shard] = 0]
    /\ loose' = loose \ {task[t].shard}
    /\ UNCHANGED <<nextShard, bytesSince, flag, drops>>

(* After the mutex is released, bytes_since_reseed.store(0). *)
\* Variant: the count is not reset.
ZeroForgotten(t) ==
    /\ task[t].pc = "zero"
    /\ Goto(t, "clear")
    /\ UNCHANGED <<nextShard, bytesSince, flag, drops, drawn, loose>>

Zero(t) ==
    /\ task[t].pc = "zero"
    /\ Goto(t, "clear")
    /\ bytesSince' = [bytesSince EXCEPT ![task[t].shard] = 0]
    /\ UNCHANGED <<nextShard, flag, drops, drawn, loose>>

(* reseed_in_progress.store(false). *)
Clear(t) ==
    /\ task[t].pc = "clear"
    /\ Goto(t, "fill")
    /\ flag' = [flag EXCEPT ![task[t].shard] = FALSE]
    /\ UNCHANGED <<nextShard, bytesSince, drops, drawn, loose>>

(* Under the shard's mutex the bytes are drawn. *)
Fill(t) ==
    LET s == task[t].shard
    IN  /\ task[t].pc = "fill"
        /\ Goto(t, "add")
        /\ drawn' = [drawn EXCEPT ![s] = UpTo(StretchBound + 1, @ + task[t].n)]
        /\ loose' = IF flag[s] THEN loose \cup {s} ELSE loose
        /\ UNCHANGED <<nextShard, bytesSince, flag, drops>>

(* After it is released they are counted, and the request succeeds. *)
\* Variant: the bytes are not counted.
AddLost(t) ==
    /\ task[t].pc = "add"
    /\ task' = [task EXCEPT ![t] = Idle]
    /\ UNCHANGED <<nextShard, bytesSince, flag, drops, drawn, loose>>

Add(t) ==
    /\ task[t].pc = "add"
    /\ task' = [task EXCEPT ![t] = Idle]
    /\ bytesSince' = [bytesSince EXCEPT ![task[t].shard] = UpTo(Threshold, @ + task[t].n)]
    /\ UNCHANGED <<nextShard, flag, drops, drawn, loose>>

(* The client disconnects while the request awaits.  Nothing releases the  *)
(* flag of a reseed that is dropped.                                       *)
Drop(t) ==
    /\ task[t].pc \in {"fetch", "install", "fill"}
    /\ drops < MaxDrops
    /\ drops' = drops + 1
    /\ task' = [task EXCEPT ![t] = Idle]
    /\ UNCHANGED <<nextShard, bytesSince, flag, drawn, loose>>

Step(t) ==
    \/ Check(t) \/ Cas(t) \/ FetchOk(t) \/ FetchFail(t) \/ Install(t)
    \/ Zero(t) \/ Clear(t) \/ Fill(t) \/ Add(t)

Next ==
    \E t \in Tasks :
        \/ \E n \in 0..MaxN : Pick(t, n)
        \/ Step(t)
        \/ Drop(t)

Spec == Init /\ [][Next]_vars

(* Each request is polled and each mutex is fair; a fetch ends, with its   *)
(* timeout if with nothing else.                                           *)
Progress == \A t \in Tasks : WF_vars(Step(t))

(* The environment: non-empty requests keep arriving, and the QRNG does    *)
(* not fail for ever.                                                      *)
SteadyTraffic ==
    /\ WF_vars(\E t \in Tasks, n \in 1..MaxN : Pick(t, n))
    /\ \A s \in Shards : SF_vars(\E t \in Tasks : task[t].shard = s /\ FetchOk(t))

FairSpec == Spec /\ Progress /\ SteadyTraffic
-----------------------------------------------------------------------------
PCs == {"idle", "check", "cas", "fetch", "install", "zero", "clear", "fill", "add"}

(* Types of the state; an idle request has no shard and no size. *)
TypeOK ==
    /\ nextShard \in Shards
    /\ bytesSince \in [Shards -> 0..Threshold]
    /\ flag \in [Shards -> BOOLEAN]
    /\ task \in [Tasks -> [pc : PCs, shard : Shards, n : 0..MaxN]]
    /\ \A t \in Tasks : task[t].pc = "idle" => task[t] = Idle
    /\ drops \in 0..MaxDrops
    /\ drawn \in [Shards -> 0..(StretchBound + 1)]
    /\ loose \subseteq Shards

Reseeding(t) == task[t].pc \in {"fetch", "install", "zero", "clear"}

(* The compare-exchange admits one reseeder per shard: two requests that   *)
(* reseed at the same time reseed different shards, so that no count is    *)
(* zeroed for a generator another request installed.                       *)
OneReseeder ==
    \A t, u \in Tasks :
        Reseeding(t) /\ Reseeding(u) /\ task[t].shard = task[u].shard => t = u

(* While no client disconnects, a raised flag has a request that will      *)
(* lower it, and a request that reseeds has the flag.                      *)
FlagHasOwner ==
    \A s \in Shards :
        /\ (\E t \in Tasks : Reseeding(t) /\ task[t].shard = s) => flag[s]
        /\ flag[s] /\ drops = 0 => \E t \in Tasks : Reseeding(t) /\ task[t].shard = s

(* A generator is stretched past the threshold by at most one request per  *)
(* task, except that of a shard whose reseed failed or that served while a *)
(* reseed was under way: only then is a byte drawn and not counted.        *)
ShardStretchBounded == \A s \in Shards : drawn[s] <= StretchBound \/ s \in loose

(* A request ends in one of two ways: it has drawn all its bytes from the  *)
(* generator of its shard, or its client has disconnected.  In particular  *)
(* neither a failed fetch nor a reseed by another request ends it with an  *)
(* error.                                                                  *)
EndsServedOrDropped ==
    [][\A t \in Tasks :
          /\ task[t].pc # "idle" /\ task'[t].pc = "idle" => task[t].pc = "add" \/ drops' > drops
          /\ task[t].pc # "add" /\ task'[t].pc = "add" =>
                LET s == task[t].shard
                IN  drawn'[s] = UpTo(StretchBound + 1, drawn[s] + task[t].n)]_vars

(* parallel_hybrid fails open: every request that is not dropped is served *)
(* whatever the QRNG does and whoever reseeds.  It ends, and it does not   *)
(* end unserved.                                                           *)
PoolServesEveryRequest ==
    /\ \A t \in Tasks : task[t] # Idle ~> task[t] = Idle
    /\ EndsServedOrDropped

(* A shard that reached its threshold gets a new generator, as long as no  *)
(* client disconnects: the flag is lowered after every outcome of a fetch, *)
(* and a later request tries again.                                        *)
ReseededUnlessDropped == \A s \in Shards : Exhausted(s) ~> (~Exhausted(s) \/ drops > 0)

(* README.md:98 and 121, QRNG-backed reseeding: while requests arrive and  *)
(* the QRNG answers now and then, a shard that reached its threshold gets  *)
(* a new generator, whichever clients disconnect.                          *)
ShardIsReseeded == \A s \in Shards : Exhausted(s) ~> ~Exhausted(s)
=============================================================================
