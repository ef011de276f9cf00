----------------------------- MODULE NonceCache -----------------------------
(***************************************************************************)
(* auth_server/src/state.rs, NonceCache: the replay cache.                 *)
(*                                                                         *)
(* A caller of check_and_insert stamps itself with the clock BEFORE it     *)
(* waits for the write lock, and works with that stamp once it holds it;   *)
(* the sweeper task does the same.  What happens under the lock is one     *)
(* step.  A caller may be dropped while it waits (hyper drops the handler  *)
(* of a client that disconnects), and the process may restart, which       *)
(* empties the cache.  Lock holders come in any order: a thread can be     *)
(* preempted between reading the clock and queueing for the lock.          *)
(*                                                                         *)
(* last and excused are history variables: no step reads them.             *)
(***************************************************************************)
EXTENDS Naturals, FiniteSets, FiniteSetsExt

CONSTANTS
    Devices,        \* device identifiers
    Nonces,         \* client nonces
    Callers,        \* concurrent callers of check_and_insert
    TTL,            \* ttl, in clock ticks
    Cap,            \* per_device_cap
    MaxTime,        \* bound on the clock
    MaxRestarts     \* bound on process restarts

ASSUME TTLAssumption == TTL \in Nat \ {0}
ASSUME CapAssumption == Cap \in Nat \ {0}
ASSUME BoundsAssumption == MaxTime \in Nat /\ MaxRestarts \in Nat
ASSUME NoncesAssumption == IsFiniteSet(Nonces)

VARIABLES
    clock,          \* Instant::now()
    cache,          \* cache[d][x]: expires_at of x, Absent when there is no entry
    call,           \* call[c]: NoCall, or the device, nonce and stamp of a waiting caller
    sweep,          \* NoSweep, or the stamp of a cleanup waiting for the lock
    restarts,       \* restarts so far
    last,           \* history: end of the window of the latest acceptance
    excused         \* history: TRUE when the cap or a restart may have cut it short

vars == <<clock, cache, call, sweep, restarts, last, excused>>

Absent == 0         \* every real expiry is a stamp plus TTL, hence positive
NoCall == [kind |-> "idle"]
NoSweep == [kind |-> "idle"]

\* Variant: the caller stamps itself with the end of its window.
WaitingFromExpiry(d, x, t) == [kind |-> "waiting", dev |-> d, nonce |-> x, now |-> t + TTL]

Waiting(d, x, t) == [kind |-> "waiting", dev |-> d, nonce |-> x, now |-> t]
SweepAt(t) == [kind |-> "waiting", now |-> t]

NoEntries == [d \in Devices |-> [x \in Nonces |-> Absent]]

Init ==
    /\ clock = 0
    /\ cache = NoEntries
    /\ call = [c \in Callers |-> NoCall]
    /\ sweep = NoSweep
    /\ restarts = 0
    /\ last = [d \in Devices |-> [x \in Nonces |-> 0]]
    /\ excused = [d \in Devices |-> [x \in Nonces |-> FALSE]]
-----------------------------------------------------------------------------
Held(d) == {x \in Nonces : cache[d][x] # Absent}
Live(d, now) == {x \in Nonces : cache[d][x] > now}

(* The sets of entries that may be left before the insertion.  Below the   *)
(* cap nothing is removed; at the cap the expired entries go first, then   *)
(* entries in the order the HashMap happens to yield them, until there is  *)
(* room for one.                                                           *)
\* Variant: at the cap, the expired entries are not dropped first.
SurvivorsNoRetain(d, now) ==
    IF Cardinality(Held(d)) < Cap THEN {Held(d)} ELSE kSubset(Cap - 1, Held(d))

\* Variant: the cap is compared one too late.
SurvivorsOneOver(d, now) ==
    IF Cardinality(Held(d)) <= Cap THEN {Held(d)} ELSE kSubset(Cap - 1, Live(d, now))

Survivors(d, now) ==
    IF Cardinality(Held(d)) < Cap THEN {Held(d)}
    ELSE IF Cardinality(Live(d, now)) < Cap THEN {Live(d, now)}
    ELSE kSubset(Cap - 1, Live(d, now))

(* The replay check, made with the caller's stamp.                         *)
\* Variant: an entry is a replay even when it has expired.
IsReplayPresent(d, x, now) == cache[d][x] # Absent

\* Variant: the window closes one tick early.
IsReplayEarly(d, x, now) == cache[d][x] > now + 1

IsReplay(d, x, now) == cache[d][x] > now

(* History only: at least Cap other nonces of d are inside the windows     *)
(* their latest acceptances opened.                                        *)
Crowded(d, x, now) == Cardinality({y \in Nonces \ {x} : last[d][y] > now}) >= Cap
-----------------------------------------------------------------------------
Tick ==
    /\ clock < MaxTime
    /\ clock' = clock + 1
    /\ UNCHANGED <<cache, call, sweep, restarts, last, excused>>

(* check_and_insert up to the lock: the stamp is taken. *)
Call(c, d, x) ==
    /\ call[c] = NoCall
    /\ call' = [call EXCEPT ![c] = Waiting(d, x, clock)]
    /\ UNCHANGED <<clock, cache, sweep, restarts, last, excused>>

(* check_and_insert under the lock, returning true. *)
Accept(c) ==
    /\ call[c] # NoCall
    /\ LET d == call[c].dev
           x == call[c].nonce
           now == call[c].now
       IN  /\ ~IsReplay(d, x, now)
           /\ \E S \in Survivors(d, now) :
                 cache' = [cache EXCEPT ![d] =
                             [y \in Nonces |-> IF y = x THEN now + TTL
                                               ELSE IF y \in S THEN cache[d][y]
                                               ELSE Absent]]
           /\ last' = [last EXCEPT ![d][x] = now + TTL]
           /\ excused' = [excused EXCEPT ![d] =
                            [y \in Nonces |-> IF y = x THEN FALSE
                                              ELSE excused[d][y] \/ Crowded(d, x, now)]]
    /\ call' = [call EXCEPT ![c] = NoCall]
    /\ UNCHANGED <<clock, sweep, restarts>>

(* check_and_insert under the lock, returning false. *)
Reject(c) ==
    /\ call[c] # NoCall
    /\ IsReplay(call[c].dev, call[c].nonce, call[c].now)
    /\ call' = [call EXCEPT ![c] = NoCall]
    /\ UNCHANGED <<clock, cache, sweep, restarts, last, excused>>

(* The caller's future is dropped while it waits for the lock. *)
Abandon(c) ==
    /\ call[c] # NoCall
    /\ call' = [call EXCEPT ![c] = NoCall]
    /\ UNCHANGED <<clock, cache, sweep, restarts, last, excused>>

(* The ticker of the sweeper task fires and cleanup takes its stamp. *)
SweepTick ==
    /\ sweep = NoSweep
    /\ sweep' = SweepAt(clock)
    /\ UNCHANGED <<clock, cache, call, restarts, last, excused>>

(* cleanup under the lock. *)
\* Variant: the sweep drops entries one tick before they expire.
SweptSlack(d, now) == [x \in Nonces |-> IF cache[d][x] > now + 1 THEN cache[d][x] ELSE Absent]

\* Variant: the sweep keeps what expires at its stamp.
SweptLax(d, now) == [x \in Nonces |-> IF cache[d][x] >= now THEN cache[d][x] ELSE Absent]

Swept(d, now) == [x \in Nonces |-> IF cache[d][x] > now THEN cache[d][x] ELSE Absent]

SweepRun ==
    /\ sweep # NoSweep
    /\ cache' = [d \in Devices |-> Swept(d, sweep.now)]
    /\ sweep' = NoSweep
    /\ UNCHANGED <<clock, call, restarts, last, excused>>

(* The process ends and starts again: only in-memory state, all of it lost. *)
Restart ==
    /\ restarts < MaxRestarts
    /\ restarts' = restarts + 1
    /\ cache' = NoEntries
    /\ call' = [c \in Callers |-> NoCall]
    /\ sweep' = NoSweep
    /\ excused' = [d \in Devices |-> [x \in Nonces |-> TRUE]]
    /\ UNCHANGED <<clock, last>>

Next ==
    \/ Tick
    \/ \E c \in Callers, d \in Devices, x \in Nonces : Call(c, d, x)
    \/ \E c \in Callers : Accept(c) \/ Reject(c) \/ Abandon(c)
    \/ SweepTick
    \/ SweepRun
    \/ Restart

Spec == Init /\ [][Next]_vars

(* The sweeper is spawned once and loops for ever; tokio's RwLock is fair. *)
Fairness == WF_vars(SweepTick) /\ WF_vars(SweepRun)

FairSpec == Spec /\ Fairness
-----------------------------------------------------------------------------
Stamps == 0..MaxTime
Expiries == 0..(MaxTime + TTL)
Calls == [kind : {"waiting"}, dev : Devices, nonce : Nonces, now : Stamps]
Sweeps == [kind : {"waiting"}, now : Stamps]

(* Types of the state; no stamp lies in the future. *)
TypeOK ==
    /\ clock \in Stamps
    /\ cache \in [Devices -> [Nonces -> Expiries]]
    /\ call \in [Callers -> Calls \cup {NoCall}]
    /\ \A c \in Callers : call[c] # NoCall => call[c].now <= clock
    /\ sweep \in Sweeps \cup {NoSweep}
    /\ sweep # NoSweep => sweep.now <= clock
    /\ restarts \in 0..MaxRestarts
    /\ last \in [Devices -> [Nonces -> Expiries]]
    /\ excused \in [Devices -> [Nonces -> BOOLEAN]]

(* NONCE_CACHE_PER_DEVICE_CAP bounds the entries of a device, whatever the *)
(* order in which callers, evictions and sweeps interleave.                *)
CapBound == \A d \in Devices : Cardinality(Held(d)) <= Cap

(* The cache agrees with the history of acceptances: an entry carries the  *)
(* window of the latest acceptance of its nonce, and a nonce has no entry  *)
(* only when that window has closed by the real clock (not by the stale    *)
(* stamp of a sweep or of an overtaken caller) or is excused.              *)
CacheMatchesHistory ==
    \A d \in Devices, x \in Nonces :
        IF cache[d][x] # Absent
        THEN cache[d][x] = last[d][x]
        ELSE last[d][x] <= clock \/ excused[d][x]

(* check_and_insert returns true for a nonce seen before only when the     *)
(* window of its latest acceptance has closed, or the device overran the   *)
(* cap, or the process restarted, since then.                              *)
ReuseOnlyAfterLapse ==
    [][\A c \in Callers : Accept(c) =>
          LET d == call[c].dev
              x == call[c].nonce
          IN  last[d][x] <= clock \/ excused[d][x]]_vars

(* check_and_insert never refuses a fresh nonce: false is returned only    *)
(* inside the window an earlier acceptance of the same nonce opened.       *)
NoFalseReplay ==
    [][\A c \in Callers : Reject(c) =>
          last[call[c].dev][call[c].nonce] > call[c].now]_vars

(* The sweeper reclaims what expired: an expired entry eventually leaves   *)
(* the cache or is renewed, also when it expired while a cleanup that was  *)
(* stamped earlier was waiting for the lock.                               *)
ExpiredEntriesSwept ==
    \A d \in Devices, x \in Nonces :
        (cache[d][x] # Absent /\ cache[d][x] <= clock)
            ~> (cache[d][x] = Absent \/ cache[d][x] > clock)

(* The ideal replay window: what the cache implements as long as a device  *)
(* never has more than Cap nonces and the process does not restart.        *)
Ideal == INSTANCE ReplayWindow

ImplementsReplayWindow == Ideal!Spec

(* state.rs:167, test nonce_cache_rejects_reuse_within_ttl: reuse of a     *)
(* nonce within the ttl is rejected, with no condition on the number of    *)
(* other nonces accepted meanwhile.                                        *)
RejectsReuseWithinTtl ==
    [][\A c \in Callers : Accept(c) => last[call[c].dev][call[c].nonce] <= clock]_vars
=============================================================================
