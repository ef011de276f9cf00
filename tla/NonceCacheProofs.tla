-------------------------- MODULE NonceCacheProofs --------------------------
(***************************************************************************)
(* Proofs about NonceCache, for every set of devices, nonces and callers   *)
(* and every ttl, cap and bound.                                           *)
(*                                                                         *)
(* The inductive invariant is the conjunction of the three invariants the  *)
(* runs check.  None of the last two is inductive alone: the bound on the  *)
(* entries needs their types, and that an entry carries the window of the  *)
(* latest acceptance is what makes an eviction of a live entry count as    *)
(* crowding in the history.                                                *)
(***************************************************************************)
EXTENDS NonceCache, FiniteSetTheorems, TLAPS

Inv == TypeOK /\ CapBound /\ CacheMatchesHistory

(* The sentinel is no stamp plus ttl, and idle differs from waiting. *)
LEMMA WaitingCall ==
    ASSUME TypeOK, NEW c \in Callers, call[c] # NoCall
    PROVE  /\ call[c].dev \in Devices
           /\ call[c].nonce \in Nonces
           /\ call[c].now \in Stamps
           /\ call[c].now <= clock
           /\ call[c].now + TTL \in Expiries
           /\ call[c].now + TTL # Absent
  <1>1. call[c] \in Calls
    BY DEF TypeOK
  <1>2. /\ call[c].dev \in Devices
        /\ call[c].nonce \in Nonces
        /\ call[c].now \in Stamps
    BY <1>1 DEF Calls
  <1>3. call[c].now <= clock
    BY DEF TypeOK
  <1>4. /\ call[c].now + TTL \in Expiries
        /\ call[c].now + TTL # Absent
    BY <1>2, TTLAssumption, BoundsAssumption DEF Stamps, Expiries, Absent
  <1> QED
    BY <1>2, <1>3, <1>4

(* Held and Live are finite: a device has finitely many nonces. *)
LEMMA EntriesFinite ==
    ASSUME NEW d \in Devices, NEW now
    PROVE  IsFiniteSet(Held(d)) /\ IsFiniteSet(Live(d, now))
  BY NoncesAssumption, FS_Subset DEF Held, Live

(* The eviction of check_and_insert keeps only entries there were, makes   *)
(* room for one more, and drops a live entry only when Cap were live.      *)
LEMMA SurvivorsKeepLive ==
    ASSUME TypeOK, NEW d \in Devices, NEW now \in Stamps,
           NEW S \in Survivors(d, now)
    PROVE  /\ S \subseteq Held(d)
           /\ IsFiniteSet(S)
           /\ Cardinality(S) < Cap
           /\ Cardinality(Live(d, now)) < Cap =>
                \A y \in Nonces : cache[d][y] > now => y \in S
  <1>1. IsFiniteSet(Held(d)) /\ IsFiniteSet(Live(d, now))
    BY EntriesFinite
  <1>2. Cardinality(Held(d)) \in Nat /\ Cardinality(Live(d, now)) \in Nat
    BY <1>1, FS_CardinalityType
  <1>3. \A y \in Nonces : cache[d][y] \in Nat
    BY BoundsAssumption, TTLAssumption DEF TypeOK, Expiries
  <1>4. Live(d, now) \subseteq Held(d)
    BY <1>3 DEF Live, Held, Absent, Stamps
  <1>5. CASE Cardinality(Held(d)) < Cap
    <2>1. S = Held(d)
      BY <1>5 DEF Survivors
    <2> QED
      BY <2>1, <1>1, <1>4, <1>5 DEF Live
  <1>6. CASE ~(Cardinality(Held(d)) < Cap) /\ Cardinality(Live(d, now)) < Cap
    <2>1. S = Live(d, now)
      BY <1>6 DEF Survivors
    <2> QED
      BY <2>1, <1>1, <1>4, <1>6 DEF Live
  <1>7. CASE ~(Cardinality(Held(d)) < Cap) /\ ~(Cardinality(Live(d, now)) < Cap)
    <2>1. S \in SUBSET Live(d, now) /\ Cardinality(S) = Cap - 1
      BY <1>7 DEF Survivors, kSubset
    <2>2. IsFiniteSet(S)
      BY <2>1, <1>1, FS_Subset
    <2>3. Cap - 1 < Cap
      BY CapAssumption
    <2> QED
      BY <2>1, <2>2, <2>3, <1>4, <1>7
  <1> QED
    BY <1>5, <1>6, <1>7

(* While the cache agrees with the history, the live entries of a device   *)
(* at an acceptance of x are nonces other than x inside their windows.     *)
LEMMA FullMeansCrowded ==
    ASSUME Inv, NEW d \in Devices, NEW x \in Nonces, NEW now \in Stamps,
           ~IsReplay(d, x, now), ~(Cardinality(Live(d, now)) < Cap)
    PROVE  Crowded(d, x, now)
  <1> DEFINE Open == {y \in Nonces \ {x} : last[d][y] > now}
  <1>1. Live(d, now) \subseteq Open
    <2> SUFFICES ASSUME NEW y \in Live(d, now)
                 PROVE  y \in Open
      OBVIOUS
    <2>1. y \in Nonces /\ cache[d][y] > now /\ cache[d][y] \in Nat
      BY BoundsAssumption, TTLAssumption DEF Live, Inv, TypeOK, Expiries
    <2>2. y # x
      BY <2>1 DEF IsReplay
    <2>3. cache[d][y] # Absent
      BY <2>1 DEF Absent, Stamps
    <2>4. cache[d][y] = last[d][y]
      BY <2>1, <2>3 DEF Inv, CacheMatchesHistory
    <2> QED
      BY <2>1, <2>2, <2>4
  <1>2. IsFiniteSet(Open)
    BY NoncesAssumption, FS_Subset
  <1>3. Cardinality(Live(d, now)) <= Cardinality(Open)
    BY <1>1, <1>2, FS_Subset
  <1>4. Cardinality(Live(d, now)) \in Nat /\ Cardinality(Open) \in Nat
    BY <1>2, EntriesFinite, FS_CardinalityType
  <1> QED
    BY <1>3, <1>4, CapAssumption DEF Crowded
-----------------------------------------------------------------------------
(* The empty cache of a fresh process satisfies the invariant. *)
LEMMA InitInv ==
    Init => Inv
  <1> SUFFICES ASSUME Init PROVE Inv
    OBVIOUS
  <1>1. TypeOK
    BY BoundsAssumption, TTLAssumption
    DEF Init, TypeOK, Stamps, Expiries, NoEntries, Absent
  <1>2. CapBound
    <2> SUFFICES ASSUME NEW d \in Devices PROVE Cardinality(Held(d)) <= Cap
      BY DEF CapBound
    <2>1. Held(d) = {}
      BY DEF Init, NoEntries, Held
    <2> QED
      BY <2>1, FS_EmptySet, CapAssumption
  <1>3. CacheMatchesHistory
    BY DEF Init, NoEntries, Absent, CacheMatchesHistory
  <1> QED
    BY <1>1, <1>2, <1>3 DEF Inv

(* An acceptance: the new entry and the history of its nonce change        *)
(* together, what the eviction drops is expired or excused, and what it    *)
(* keeps leaves room for the new entry.                                    *)
LEMMA AcceptInv ==
    ASSUME Inv, NEW c \in Callers, Accept(c)
    PROVE  Inv'
  <1> DEFINE d == call[c].dev
             x == call[c].nonce
             now == call[c].now
  <1>1. /\ call[c] # NoCall
        /\ ~IsReplay(d, x, now)
        /\ last' = [last EXCEPT ![d][x] = now + TTL]
        /\ excused' = [excused EXCEPT ![d] =
                         [y \in Nonces |-> IF y = x THEN FALSE
                                           ELSE excused[d][y] \/ Crowded(d, x, now)]]
        /\ call' = [call EXCEPT ![c] = NoCall]
        /\ UNCHANGED <<clock, sweep, restarts>>
    BY DEF Accept
  <1>2. PICK S \in Survivors(d, now) :
           cache' = [cache EXCEPT ![d] =
                       [y \in Nonces |-> IF y = x THEN now + TTL
                                         ELSE IF y \in S THEN cache[d][y]
                                         ELSE Absent]]
    BY DEF Accept
  <1>3. TypeOK
    BY DEF Inv
  <1>4. /\ d \in Devices /\ x \in Nonces /\ now \in Stamps /\ now <= clock
        /\ now + TTL \in Expiries /\ now + TTL # Absent
    BY <1>1, <1>3, WaitingCall
  <1> HIDE DEF d, x, now
  <1>5. /\ S \subseteq Held(d) /\ IsFiniteSet(S) /\ Cardinality(S) < Cap
        /\ Cardinality(Live(d, now)) < Cap =>
             \A y \in Nonces : cache[d][y] > now => y \in S
    BY <1>2, <1>3, <1>4, SurvivorsKeepLive
  <1>6. TypeOK'
    <2>1. cache' \in [Devices -> [Nonces -> Expiries]]
      <3>1. [y \in Nonces |-> IF y = x THEN now + TTL
                              ELSE IF y \in S THEN cache[d][y] ELSE Absent]
              \in [Nonces -> Expiries]
        BY <1>3, <1>4, BoundsAssumption, TTLAssumption DEF TypeOK, Absent, Expiries
      <3> QED
        BY <3>1, <1>2, <1>3 DEF TypeOK
    <2>2. last' \in [Devices -> [Nonces -> Expiries]]
      BY <1>1, <1>3, <1>4 DEF TypeOK
    <2>3. excused' \in [Devices -> [Nonces -> BOOLEAN]]
      <3>1. [y \in Nonces |-> IF y = x THEN FALSE
                              ELSE excused[d][y] \/ Crowded(d, x, now)]
              \in [Nonces -> BOOLEAN]
        <4>1. \A y \in Nonces : (IF y = x THEN FALSE
                              ELSE excused[d][y] \/ Crowded(d, x, now)) \in BOOLEAN
          OBVIOUS
        <4> QED
          BY <4>1, Zenon
      <3> QED
        BY <3>1, <1>1, <1>3 DEF TypeOK
    <2> QED
      BY <2>1, <2>2, <2>3, <1>1, <1>3 DEF TypeOK
  <1>7. CapBound'
    <2> SUFFICES ASSUME NEW e \in Devices PROVE Cardinality(Held(e)') <= Cap
      BY DEF CapBound
    <2>1. CASE e # d
      <3>1. Held(e)' = Held(e)
        BY <2>1, <1>2, <1>3 DEF TypeOK, Held, Absent
      <3> QED
        BY <3>1 DEF Inv, CapBound
    <2>2. CASE e = d
      <3>1. Held(e)' \subseteq S \cup {x}
        BY <2>2, <1>2, <1>3, <1>4 DEF TypeOK, Held, Absent
      <3>2. IsFiniteSet(S \cup {x})
        BY <1>5, FS_AddElement
      <3>3. /\ Cardinality(S \cup {x}) \in Nat /\ Cardinality(S) \in Nat
            /\ Cardinality(S \cup {x}) <= Cardinality(S) + 1
        <4>1. Cardinality(S) \in Nat /\ Cardinality(S \cup {x}) \in Nat
          BY <1>5, <3>2, FS_CardinalityType
        <4>2. Cardinality(S \cup {x}) =
                IF x \in S THEN Cardinality(S) ELSE Cardinality(S) + 1
          BY <1>5, FS_AddElement
        <4> QED
          BY <4>1, <4>2
      <3>4. /\ Cardinality(Held(e)') \in Nat
            /\ Cardinality(Held(e)') <= Cardinality(S \cup {x})
        BY <3>1, <3>2, FS_Subset, FS_CardinalityType
      <3> QED
        BY <3>3, <3>4, <1>5, CapAssumption
    <2> QED
      BY <2>1, <2>2
  <1>8. CacheMatchesHistory'
    <2> SUFFICES ASSUME NEW e \in Devices, NEW y \in Nonces
                 PROVE  IF cache'[e][y] # Absent
                        THEN cache'[e][y] = last'[e][y]
                        ELSE last'[e][y] <= clock' \/ excused'[e][y]
      BY DEF CacheMatchesHistory, Absent
    <2>1. IF cache[e][y] # Absent
          THEN cache[e][y] = last[e][y]
          ELSE last[e][y] <= clock \/ excused[e][y]
      BY DEF Inv, CacheMatchesHistory
    <2>2. CASE e # d
      <3>1. cache'[e][y] = cache[e][y] /\ last'[e][y] = last[e][y]
            /\ excused'[e][y] = excused[e][y] /\ clock' = clock
        BY <2>2, <1>1, <1>2, <1>3 DEF TypeOK
      <3> QED
        BY <3>1, <2>1
    <2>3. CASE e = d /\ y = x
      <3>1. cache'[e][y] = now + TTL /\ last'[e][y] = now + TTL
        BY <2>3, <1>1, <1>2, <1>3, <1>4 DEF TypeOK
      <3> QED
        BY <3>1, <1>4
    <2>4. CASE e = d /\ y # x
      <3>1. /\ cache'[e][y] = (IF y \in S THEN cache[d][y] ELSE Absent)
            /\ last'[e][y] = last[d][y]
            /\ clock' = clock
        BY <2>4, <1>1, <1>2, <1>3, <1>4 DEF TypeOK
      <3>2. excused'[e][y] <=> (excused[d][y] \/ Crowded(d, x, now))
        <4>1. excused'[d] = [z \in Nonces |-> IF z = x THEN FALSE
                                ELSE excused[d][z] \/ Crowded(d, x, now)]
          BY <1>1, <1>3, <1>4 DEF TypeOK
        <4>2. excused'[d][y] = (excused[d][y] \/ Crowded(d, x, now))
          BY <4>1, <2>4
        <4> QED
          BY <4>2, <2>4
      <3>3. CASE y \in S
        <4>1. cache[d][y] # Absent
          BY <3>3, <1>5 DEF Held
        <4> QED
          BY <4>1, <3>1, <3>3, <2>1, <2>4
      <3>4. CASE y \notin S /\ cache[d][y] = Absent
        BY <3>4, <3>1, <3>2, <2>1, <2>4
      <3>5. CASE y \notin S /\ cache[d][y] # Absent
        <4>1. last[d][y] = cache[d][y]
          BY <3>5, <2>1, <2>4
        <4>2. CASE Cardinality(Live(d, now)) < Cap
          <5>1. ~(cache[d][y] > now)
            BY <4>2, <3>5, <1>5
          <5>2. cache[d][y] \in Nat /\ now \in Nat /\ clock \in Nat
            BY <1>3, <1>4, BoundsAssumption, TTLAssumption DEF TypeOK, Stamps, Expiries
          <5>3. last[d][y] <= clock
            BY <5>1, <5>2, <4>1, <1>4
          <5> QED
            BY <5>3, <3>1, <3>5
        <4>3. CASE ~(Cardinality(Live(d, now)) < Cap)
          <5>1. Crowded(d, x, now)
            BY <4>3, <1>1, <1>4, FullMeansCrowded DEF d, x, now
          <5> QED
            BY <5>1, <3>1, <3>2, <3>5
        <4> QED
          BY <4>2, <4>3
      <3> QED
        BY <3>3, <3>4, <3>5
    <2> QED
      BY <2>2, <2>3, <2>4
  <1> QED
    BY <1>6, <1>7, <1>8 DEF Inv

(* A sweep drops entries that had expired by its stamp, hence by the clock. *)
LEMMA SweepRunInv ==
    ASSUME Inv, SweepRun
    PROVE  Inv'
  <1>1. /\ sweep # NoSweep
        /\ cache' = [d \in Devices |-> Swept(d, sweep.now)]
        /\ sweep' = NoSweep
        /\ UNCHANGED <<clock, call, restarts, last, excused>>
    BY DEF SweepRun
  <1>2. TypeOK
    BY DEF Inv
  <1>3. sweep.now \in Stamps /\ sweep.now <= clock
    BY <1>1, <1>2 DEF TypeOK, Sweeps
  <1>4. \A d \in Devices, x \in Nonces :
           cache'[d][x] = IF cache[d][x] > sweep.now THEN cache[d][x] ELSE Absent
    BY <1>1 DEF Swept
  <1>5. TypeOK'
    <2>1. \A d \in Devices : Swept(d, sweep.now) \in [Nonces -> Expiries]
      BY <1>2, BoundsAssumption, TTLAssumption DEF TypeOK, Swept, Expiries, Absent
    <2> QED
      BY <2>1, <1>1, <1>2 DEF TypeOK
  <1>6. CapBound'
    <2> SUFFICES ASSUME NEW d \in Devices PROVE Cardinality(Held(d)') <= Cap
      BY DEF CapBound
    <2>1. Held(d)' \subseteq Held(d)
      BY <1>4 DEF Held, Absent
    <2>2. IsFiniteSet(Held(d))
      BY EntriesFinite
    <2>3. /\ Cardinality(Held(d)') <= Cardinality(Held(d))
          /\ Cardinality(Held(d)') \in Nat /\ Cardinality(Held(d)) \in Nat
      BY <2>1, <2>2, FS_Subset, FS_CardinalityType
    <2>4. Cardinality(Held(d)) <= Cap
      BY DEF Inv, CapBound
    <2> QED
      BY <2>3, <2>4, CapAssumption
  <1>7. CacheMatchesHistory'
    <2> SUFFICES ASSUME NEW d \in Devices, NEW x \in Nonces
                 PROVE  IF cache'[d][x] # Absent
                        THEN cache'[d][x] = last'[d][x]
                        ELSE last'[d][x] <= clock' \/ excused'[d][x]
      BY DEF CacheMatchesHistory, Absent
    <2>1. /\ cache[d][x] \in Nat /\ clock \in Nat /\ sweep.now \in Nat
      BY <1>2, <1>3, BoundsAssumption, TTLAssumption DEF TypeOK, Stamps, Expiries
    <2>2. IF cache[d][x] # Absent
          THEN cache[d][x] = last[d][x]
          ELSE last[d][x] <= clock \/ excused[d][x]
      BY DEF Inv, CacheMatchesHistory
    <2>3. clock' = clock /\ last' = last /\ excused' = excused
      BY <1>1
    <2> QED
      BY <2>1, <2>2, <2>3, <1>3, <1>4
  <1> QED
    BY <1>5, <1>6, <1>7 DEF Inv

(* A restart empties the cache and excuses every nonce. *)
LEMMA RestartInv ==
    ASSUME Inv, Restart
    PROVE  Inv'
  <1>1. TypeOK'
    BY BoundsAssumption, TTLAssumption
    DEF Inv, TypeOK, Restart, NoEntries, Absent, Stamps, Expiries
  <1>2. CapBound'
    <2> SUFFICES ASSUME NEW d \in Devices PROVE Cardinality(Held(d)') <= Cap
      BY DEF CapBound
    <2>1. Held(d)' = {}
      BY DEF Restart, NoEntries, Held, Absent
    <2> QED
      BY <2>1, FS_EmptySet, CapAssumption
  <1>3. CacheMatchesHistory'
    <2> SUFFICES ASSUME NEW d \in Devices, NEW x \in Nonces
                 PROVE  cache'[d][x] = Absent /\ excused'[d][x]
      BY DEF CacheMatchesHistory, Absent
    <2>1. cache'[d][x] = Absent
      BY DEF Restart, NoEntries, Absent
    <2>2. excused'[d][x] = TRUE
      BY DEF Restart
    <2> QED
      BY <2>1, <2>2
  <1> QED
    BY <1>1, <1>2, <1>3 DEF Inv

(* The steps that move neither the cache nor its history. *)
LEMMA FrameInv ==
    ASSUME Inv, TypeOK', UNCHANGED <<cache, last, excused>>, clock' >= clock
    PROVE  Inv'
  <1>1. CapBound'
    BY DEF Inv, CapBound, Held
  <1>2. CacheMatchesHistory'
    <2> SUFFICES ASSUME NEW d \in Devices, NEW x \in Nonces
                 PROVE  IF cache[d][x] # Absent
                        THEN cache[d][x] = last[d][x]
                        ELSE last[d][x] <= clock' \/ excused[d][x]
      BY DEF CacheMatchesHistory, Absent
    <2>1. IF cache[d][x] # Absent
          THEN cache[d][x] = last[d][x]
          ELSE last[d][x] <= clock \/ excused[d][x]
      BY DEF Inv, CacheMatchesHistory
    <2>2. last[d][x] \in Nat /\ clock \in Nat /\ clock' \in Nat
      BY BoundsAssumption, TTLAssumption DEF Inv, TypeOK, Stamps, Expiries
    <2> QED
      BY <2>1, <2>2
  <1> QED
    BY <1>1, <1>2 DEF Inv

(* Every step of the cache preserves the invariant. *)
LEMMA StepInv ==
    ASSUME Inv, [Next]_vars
    PROVE  Inv'
  <1> USE DEF Inv
  <1>0. clock \in Nat
    BY BoundsAssumption DEF TypeOK, Stamps
  <1>1. CASE Tick
    <2>1. TypeOK'
      BY <1>1, <1>0, BoundsAssumption DEF Tick, TypeOK, Stamps, Calls, Sweeps
    <2>2. clock' >= clock
      BY <1>1, <1>0 DEF Tick
    <2> QED
      BY <1>1, <2>1, <2>2, FrameInv DEF Tick
  <1>2. CASE \E c \in Callers, d \in Devices, x \in Nonces : Call(c, d, x)
    <2> PICK c \in Callers, d \in Devices, x \in Nonces : Call(c, d, x)
      BY <1>2
    <2>1. Waiting(d, x, clock) \in Calls /\ Waiting(d, x, clock).now = clock
      BY DEF Waiting, Calls, TypeOK
    <2>2. TypeOK'
      BY <2>1, <1>0 DEF Call, TypeOK
    <2> QED
      BY <2>2, <1>0, FrameInv DEF Call
  <1>3. ASSUME NEW c \in Callers, Accept(c)
        PROVE  Inv'
    BY <1>3, AcceptInv
  <1>4. ASSUME NEW c \in Callers, Reject(c) \/ Abandon(c)
        PROVE  Inv'
    <2>1. TypeOK'
      BY <1>4 DEF Reject, Abandon, TypeOK
    <2> QED
      BY <1>4, <2>1, <1>0, FrameInv DEF Reject, Abandon
  <1>5. CASE SweepTick
    <2>1. SweepAt(clock) \in Sweeps /\ SweepAt(clock).now = clock
      BY DEF SweepAt, Sweeps, TypeOK
    <2>2. TypeOK'
      BY <1>5, <2>1, <1>0 DEF SweepTick, TypeOK
    <2> QED
      BY <1>5, <2>2, <1>0, FrameInv DEF SweepTick
  <1>6. CASE SweepRun
    BY <1>6, SweepRunInv
  <1>7. CASE Restart
    BY <1>7, RestartInv
  <1>8. CASE UNCHANGED vars
    <2>1. TypeOK'
      BY <1>8 DEF vars, TypeOK
    <2> QED
      BY <1>8, <2>1, <1>0, FrameInv DEF vars
  <1> QED
    BY <1>1, <1>2, <1>3, <1>4, <1>5, <1>6, <1>7, <1>8 DEF Next

(* The invariant holds of every execution. *)
THEOREM Invariance ==
    Spec => []Inv
  <1>1. Init => Inv
    BY InitInv
  <1>2. Inv /\ [Next]_vars => Inv'
    BY StepInv
  <1> QED
    BY <1>1, <1>2, PTL DEF Spec
-----------------------------------------------------------------------------
(* The state is well typed, and no stamp lies in the future. *)
THEOREM TypeCorrectness ==
    Spec => []TypeOK
  BY Invariance, PTL DEF Inv

(* check_and_insert and cleanup together never hold more than              *)
(* per_device_cap entries for a device.                                    *)
THEOREM CapIsBound ==
    Spec => []CapBound
  BY Invariance, PTL DEF Inv

(* An entry carries the window of the latest acceptance; a nonce without   *)
(* an entry has a closed or an excused window.                             *)
THEOREM CacheIsHistory ==
    Spec => []CacheMatchesHistory
  BY Invariance, PTL DEF Inv

(* check_and_insert accepts a nonce again only after its window closed,    *)
(* unless the cap was overrun or the process restarted.                    *)
THEOREM ReuseNeedsLapse ==
    Spec => ReuseOnlyAfterLapse
  <1>1. Inv /\ [Next]_vars =>
          [\A c \in Callers : Accept(c) =>
              LET d == call[c].dev
                  x == call[c].nonce
              IN  last[d][x] <= clock \/ excused[d][x]]_vars
    <2> SUFFICES ASSUME Inv, NEW c \in Callers, Accept(c)
                 PROVE  \/ last[call[c].dev][call[c].nonce] <= clock
                        \/ excused[call[c].dev][call[c].nonce]
      OBVIOUS
    <2> DEFINE d == call[c].dev
               x == call[c].nonce
    <2>1. /\ d \in Devices /\ x \in Nonces
          /\ call[c].now \in Nat /\ clock \in Nat /\ call[c].now <= clock
      BY WaitingCall, BoundsAssumption DEF Inv, Accept, TypeOK, Stamps
    <2>2. ~(cache[d][x] > call[c].now)
      BY DEF Accept, IsReplay
    <2>3. IF cache[d][x] # Absent
          THEN cache[d][x] = last[d][x]
          ELSE last[d][x] <= clock \/ excused[d][x]
      BY <2>1 DEF Inv, CacheMatchesHistory
    <2>4. cache[d][x] \in Nat
      BY <2>1, BoundsAssumption, TTLAssumption DEF Inv, TypeOK, Expiries
    <2> QED
      BY <2>1, <2>2, <2>3, <2>4
  <1> QED
    BY <1>1, Invariance, PTL DEF Spec, ReuseOnlyAfterLapse

(* check_and_insert refuses a nonce only inside the window an earlier      *)
(* acceptance of it opened: a client that never repeats is never refused.  *)
THEOREM RefusalsAreReplays ==
    Spec => NoFalseReplay
  <1>1. Inv /\ [Next]_vars =>
          [\A c \in Callers : Reject(c) =>
              last[call[c].dev][call[c].nonce] > call[c].now]_vars
    <2> SUFFICES ASSUME Inv, NEW c \in Callers, Reject(c)
                 PROVE  last[call[c].dev][call[c].nonce] > call[c].now
      OBVIOUS
    <2>1. /\ call[c].dev \in Devices /\ call[c].nonce \in Nonces
          /\ call[c].now \in Nat
      BY WaitingCall, BoundsAssumption DEF Inv, Reject, Stamps
    <2>2. cache[call[c].dev][call[c].nonce] > call[c].now
      BY DEF Reject, IsReplay
    <2>3. cache[call[c].dev][call[c].nonce] # Absent
      BY <2>1, <2>2 DEF Absent
    <2> QED
      BY <2>1, <2>2, <2>3 DEF Inv, CacheMatchesHistory
  <1> QED
    BY <1>1, Invariance, PTL DEF Spec, NoFalseReplay
-----------------------------------------------------------------------------
(* When the nonces of a device fit under the cap and the process is not    *)
(* restarted, nothing is ever excused.                                     *)
NothingExcused == \A d \in Devices, x \in Nonces : ~excused[d][x]

(* A device all of whose nonces fit under the cap is never crowded. *)
LEMMA FitsMeansNotCrowded ==
    ASSUME Cardinality(Nonces) <= Cap,
           NEW d \in Devices, NEW x \in Nonces, NEW now
    PROVE  ~Crowded(d, x, now)
  <1> DEFINE Open == {y \in Nonces \ {x} : last[d][y] > now}
  <1>1. IsFiniteSet(Nonces \ {x}) /\ Cardinality(Nonces \ {x}) = Cardinality(Nonces) - 1
    BY NoncesAssumption, FS_RemoveElement
  <1>2. IsFiniteSet(Open) /\ Cardinality(Open) <= Cardinality(Nonces \ {x})
    BY <1>1, FS_Subset
  <1>3. Cardinality(Nonces) \in Nat /\ Cardinality(Open) \in Nat
    BY <1>2, NoncesAssumption, FS_CardinalityType
  <1> QED
    BY <1>1, <1>2, <1>3, CapAssumption DEF Crowded

(* Every execution of such an instance excuses nothing. *)
LEMMA NothingExcusedInvariance ==
    ASSUME Cardinality(Nonces) <= Cap, MaxRestarts = 0
    PROVE  Spec => []NothingExcused
  <1>1. Init => NothingExcused
    BY DEF Init, NothingExcused
  <1>2. Inv /\ NothingExcused /\ [Next]_vars => NothingExcused'
    <2> SUFFICES ASSUME Inv, NothingExcused, [Next]_vars
                 PROVE  NothingExcused'
      OBVIOUS
    <2>1. CASE UNCHANGED excused
      BY <2>1 DEF NothingExcused
    <2>2. ASSUME NEW c \in Callers, Accept(c)
          PROVE  NothingExcused'
      <3> SUFFICES ASSUME NEW d \in Devices, NEW x \in Nonces
                   PROVE  ~excused'[d][x]
        BY DEF NothingExcused
      <3> DEFINE e == call[c].dev
                 z == call[c].nonce
                 now == call[c].now
      <3>1. e \in Devices /\ z \in Nonces
        BY <2>2, WaitingCall DEF Inv, Accept
      <3>2. excused' = [excused EXCEPT ![e] =
                          [y \in Nonces |-> IF y = z THEN FALSE
                                            ELSE excused[e][y] \/ Crowded(e, z, now)]]
        BY <2>2 DEF Accept
      <3>3. ~Crowded(e, z, now)
        BY <3>1, FitsMeansNotCrowded
      <3>4. excused \in [Devices -> [Nonces -> BOOLEAN]]
        BY DEF Inv, TypeOK
      <3> HIDE DEF e, z, now
      <3>5. CASE d # e
        BY <3>5, <3>2, <3>4 DEF NothingExcused
      <3>6. CASE d = e
        <4>1. excused'[d] = [y \in Nonces |-> IF y = z THEN FALSE
                                ELSE excused[e][y] \/ Crowded(e, z, now)]
          BY <3>6, <3>2, <3>4
        <4>2. excused'[d][x] = IF x = z THEN FALSE
                               ELSE excused[e][x] \/ Crowded(e, z, now)
          BY <4>1
        <4> QED
          BY <4>2, <3>1, <3>3 DEF NothingExcused
      <3> QED
        BY <3>5, <3>6
    <2>3. ~Restart
      BY DEF Restart, Inv, TypeOK
    <2> QED
      BY <2>1, <2>2, <2>3
      DEF Next, vars, Tick, Call, Reject, Abandon, SweepTick, SweepRun
  <1> QED
    BY <1>1, <1>2, Invariance, PTL DEF Spec

(* Under those two assumptions the cache implements the ideal window: an   *)
(* acceptance is an acceptance of the window, time passes, and every other *)
(* step (stamps, refusals, drops, sweeps) is invisible.                    *)
THEOREM Refinement ==
    ASSUME Cardinality(Nonces) <= Cap, MaxRestarts = 0
    PROVE  Spec => ImplementsReplayWindow
  <1>1. Init => Ideal!Init
    BY DEF Init, Ideal!Init
  <1>2. Inv /\ NothingExcused /\ [Next]_vars => [Ideal!Next]_(Ideal!vars)
    <2> SUFFICES ASSUME Inv, NothingExcused, [Next]_vars
                 PROVE  Ideal!Next \/ UNCHANGED <<clock, last>>
      BY DEF Ideal!vars
    <2>1. CASE Tick
      BY <2>1 DEF Tick, Ideal!Next, Ideal!Tick
    <2>2. ASSUME NEW c \in Callers, Accept(c)
          PROVE  Ideal!Next
      <3> DEFINE d == call[c].dev
                 x == call[c].nonce
                 now == call[c].now
      <3>1. /\ d \in Devices /\ x \in Nonces
            /\ now \in Nat /\ clock \in Nat /\ now <= clock
        BY <2>2, WaitingCall, BoundsAssumption DEF Inv, Accept, TypeOK, Stamps
      <3>2. /\ last' = [last EXCEPT ![d][x] = now + TTL]
            /\ UNCHANGED clock
            /\ ~(cache[d][x] > now)
        BY <2>2 DEF Accept, IsReplay
      <3>3. cache[d][x] \in Nat /\ last[d][x] \in Nat
        BY <3>1, BoundsAssumption, TTLAssumption DEF Inv, TypeOK, Expiries
      <3>4. IF cache[d][x] # Absent
            THEN cache[d][x] = last[d][x]
            ELSE last[d][x] <= clock \/ excused[d][x]
        BY <3>1 DEF Inv, CacheMatchesHistory
      <3>5. last[d][x] <= clock
        BY <3>1, <3>2, <3>3, <3>4 DEF NothingExcused
      <3>6. now \in 0..clock
        BY <3>1
      <3> HIDE DEF d, x, now
      <3>7. Ideal!Accept(d, x)
        BY <3>2, <3>5, <3>6 DEF Ideal!Accept
      <3> QED
        BY <3>1, <3>7 DEF Ideal!Next
    <2>3. ~Restart
      BY DEF Restart, Inv, TypeOK
    <2> QED
      BY <2>1, <2>2, <2>3
      DEF Next, vars, Call, Reject, Abandon, SweepTick, SweepRun
  <1> QED
    BY <1>1, <1>2, Invariance, NothingExcusedInvariance, PTL
    DEF Spec, ImplementsReplayWindow, Ideal!Spec
=============================================================================
