------------------------- MODULE EntropyHybridProofs -------------------------
(***************************************************************************)
(* Proofs about EntropyHybrid, for every set of requests, every threshold  *)
(* and every largest request.                                              *)
(*                                                                         *)
(* The bound on what one seed is stretched to is not inductive: a request  *)
(* past the check adds its bytes later.  StretchReserved reserves them at  *)
(* the check.  That the mode fails closed needs where the stale requests   *)
(* are: between the check and the installation.                            *)
(***************************************************************************)
EXTENDS EntropyHybrid, FiniteSetTheorems, TLAPS

(* A request that saw the threshold reached, and no generator installed    *)
(* since, is on its way to a reseed or to its failure.                     *)
StaleIsReseeding == \A t \in stale : task[t].pc \in {"fetch", "install", "fail"}

Inv == TypeOK /\ StretchReserved /\ StaleIsReseeding

(* The facts of arithmetic the count of fillers is used through. *)
LEMMA FillingCount ==
    /\ IsFiniteSet(Filling)
    /\ Cardinality(Filling) \in Nat
    /\ Cardinality(Tasks) \in Nat
    /\ Cardinality(Filling) <= Cardinality(Tasks)
  BY TasksAssumption, FS_Subset, FS_CardinalityType DEF Filling

(* Slack is a natural number. *)
LEMMA SlackNat ==
    Slack \in Nat
  BY SizesAssumption DEF Slack

(* Multiplication by MaxN is monotone on naturals. *)
LEMMA TimesMonotone ==
    ASSUME NEW m \in Nat, NEW a \in Nat, NEW b \in Nat, a <= b
    PROVE  m * a \in Nat /\ m * b \in Nat /\ m * a <= m * b
  BY Z3

(* A step that neither counts bytes nor lets one more request draw keeps   *)
(* the reservation.                                                        *)
LEMMA FewerFillers ==
    ASSUME StretchReserved, bytesSince \in Nat,
           bytesSince' <= bytesSince, bytesSince' \in Nat, Filling' \subseteq Filling
    PROVE  StretchReserved'
  <1> DEFINE f == Cardinality(Filling)
             g == Cardinality(Filling')
  <1>1. f \in Nat /\ g \in Nat /\ g <= f
    BY FillingCount, FS_Subset, FS_CardinalityType
  <1>2. MaxN * g \in Nat /\ MaxN * f \in Nat /\ MaxN * g <= MaxN * f
    BY <1>1, SizesAssumption, TimesMonotone
  <1>3. Slack + MaxN * Cardinality(Tasks) \in Nat
    BY FillingCount, SlackNat, SizesAssumption
  <1>4. bytesSince + MaxN * f <= Slack + MaxN * Cardinality(Tasks)
    BY DEF StretchReserved
  <1>5. bytesSince' + MaxN * g <= Slack + MaxN * Cardinality(Tasks)
    BY <1>2, <1>3, <1>4
  <1> QED
    BY <1>5 DEF StretchReserved, Slack

(* A request that goes on to draw with the count at most Slack reserves    *)
(* its bytes: at most every task draws.                                    *)
LEMMA OneMoreFiller ==
    ASSUME bytesSince' \in Nat, bytesSince' <= Slack, IsFiniteSet(Filling'),
           Cardinality(Filling') <= Cardinality(Tasks)
    PROVE  StretchReserved'
  <1> DEFINE g == Cardinality(Filling')
             c == Cardinality(Tasks)
  <1>1. g \in Nat /\ c \in Nat /\ g <= c
    BY FillingCount, FS_CardinalityType
  <1>2. MaxN * g \in Nat /\ MaxN * c \in Nat /\ MaxN * g <= MaxN * c
    BY <1>1, SizesAssumption, TimesMonotone
  <1>3. bytesSince' + MaxN * g <= Slack + MaxN * c
    BY <1>2, SlackNat
  <1> QED
    BY <1>3 DEF StretchReserved, Slack

(* There are never more requests that may draw than tasks. *)
LEMMA FillingAlwaysCounts ==
    IsFiniteSet(Filling') /\ Cardinality(Filling') <= Cardinality(Tasks)
  BY TasksAssumption, FS_Subset DEF Filling

(* A draw moves the bytes of its request from the reserved to the counted. *)
LEMMA FillKeepsReservation ==
    ASSUME TypeOK, StretchReserved, NEW t \in Tasks, Fill(t)
    PROVE  StretchReserved'
  <1> DEFINE f == Cardinality(Filling)
             g == Cardinality(Filling')
             n == task[t].n
  <1>1. Filling' = Filling \ {t} /\ t \in Filling
    BY DEF Fill, TypeOK, Filling, Idle
  <1>2. f \in Nat /\ g \in Nat /\ f = g + 1
    <2>1. IsFiniteSet(Filling') /\ g = f - 1
      BY <1>1, FillingCount, FS_RemoveElement
    <2>2. f \in Nat /\ g \in Nat
      BY <2>1, FillingCount, FS_CardinalityType
    <2> QED
      BY <2>1, <2>2
  <1>3. n \in Nat /\ n <= MaxN /\ bytesSince \in Nat /\ bytesSince' = bytesSince + n
    BY SizesAssumption DEF Fill, TypeOK
  <1>4. MaxN * f = MaxN * g + MaxN /\ MaxN * g \in Nat
    BY <1>2, SizesAssumption, TimesMonotone, Z3
  <1>5. Slack + MaxN * Cardinality(Tasks) \in Nat
    BY FillingCount, SlackNat, SizesAssumption
  <1>6. bytesSince + MaxN * f <= Slack + MaxN * Cardinality(Tasks)
    BY DEF StretchReserved
  <1>7. bytesSince' + MaxN * g <= Slack + MaxN * Cardinality(Tasks)
    BY <1>3, <1>4, <1>5, <1>6, SizesAssumption
  <1> QED
    BY <1>7 DEF StretchReserved, Slack

(* Every step preserves the types. *)
LEMMA TypeStep ==
    ASSUME TypeOK, [Next]_vars
    PROVE  TypeOK'
  <1> USE SizesAssumption DEF TypeOK, PCs, Idle, At
  <1>1. CASE UNCHANGED vars
    BY <1>1 DEF vars
  <1>2. ASSUME NEW t \in Tasks, NEW n \in 0..MaxN, Begin(t, n)
        PROVE  TypeOK'
    BY <1>2 DEF Begin
  <1>3. ASSUME NEW t \in Tasks, Check(t)
        PROVE  TypeOK'
    BY <1>3 DEF Check
  <1>4. ASSUME NEW t \in Tasks, FetchOk(t) \/ FetchFail(t)
        PROVE  TypeOK'
    BY <1>4 DEF FetchOk, FetchFail
  <1>5. ASSUME NEW t \in Tasks, Fail(t) \/ Drop(t)
        PROVE  TypeOK'
    BY <1>5 DEF Fail, Drop
  <1>6. ASSUME NEW t \in Tasks, Install(t)
        PROVE  TypeOK'
    BY <1>6 DEF Install
  <1>7. ASSUME NEW t \in Tasks, Fill(t)
        PROVE  TypeOK'
    <2>1. task[t].n \in Nat
      BY <1>7
    <2> QED
      BY <1>7, <2>1 DEF Fill
  <1> QED
    BY <1>1, <1>2, <1>3, <1>4, <1>5, <1>6, <1>7 DEF Next

(* Every step preserves the invariant. *)
LEMMA StepInv ==
    ASSUME Inv, [Next]_vars
    PROVE  Inv'
  <1>1. TypeOK /\ TypeOK' /\ bytesSince \in Nat /\ bytesSince' \in Nat
    BY TypeStep DEF Inv, TypeOK
  <1>2. StaleIsReseeding'
    <2>1. CASE UNCHANGED vars
      BY <1>1, <2>1 DEF vars, Inv, StaleIsReseeding
    <2>2. ASSUME NEW t \in Tasks, NEW n \in 0..MaxN, Begin(t, n)
          PROVE  StaleIsReseeding'
      BY <1>1, <2>2 DEF Begin, Inv, StaleIsReseeding, TypeOK, Idle
    <2>3. ASSUME NEW t \in Tasks, Check(t)
          PROVE  StaleIsReseeding'
      BY <1>1, <2>3 DEF Check, Inv, StaleIsReseeding, TypeOK
    <2>4. ASSUME NEW t \in Tasks, FetchOk(t) \/ FetchFail(t)
          PROVE  StaleIsReseeding'
      BY <1>1, <2>4 DEF FetchOk, FetchFail, Inv, StaleIsReseeding, TypeOK
    <2>5. ASSUME NEW t \in Tasks, Fail(t) \/ Drop(t)
          PROVE  StaleIsReseeding'
      BY <1>1, <2>5 DEF Fail, Drop, Inv, StaleIsReseeding, TypeOK
    <2>6. ASSUME NEW t \in Tasks, Install(t)
          PROVE  StaleIsReseeding'
      BY <2>6 DEF Install, StaleIsReseeding
    <2>7. ASSUME NEW t \in Tasks, Fill(t)
          PROVE  StaleIsReseeding'
      BY <1>1, <2>7 DEF Fill, Inv, StaleIsReseeding, TypeOK
    <2> QED
      BY <2>1, <2>2, <2>3, <2>4, <2>5, <2>6, <2>7 DEF Next
  <1>3. StretchReserved'
    <2>1. CASE UNCHANGED vars
      BY <2>1, <1>1, FewerFillers DEF vars, Inv, Filling
    <2>2. ASSUME NEW t \in Tasks,
                 \/ \E n \in 0..MaxN : Begin(t, n)
                 \/ Check(t) /\ Exhausted
                 \/ FetchOk(t) \/ FetchFail(t) \/ Fail(t) \/ Drop(t)
          PROVE  StretchReserved'
      <3>1. bytesSince' = bytesSince
        BY <2>2 DEF Begin, Check, FetchOk, FetchFail, Fail, Drop
      <3>2. Filling' \subseteq Filling
        BY <1>1, <2>2 DEF Begin, Check, FetchOk, FetchFail, Fail, Drop, Filling, TypeOK, At, Idle
      <3> QED
        BY <1>1, <3>1, <3>2, FewerFillers DEF Inv
    <2>3. ASSUME NEW t \in Tasks, Check(t), ~Exhausted
          PROVE  StretchReserved'
      <3>1. bytesSince' = bytesSince
        BY <2>3 DEF Check
      <3>2. bytesSince' <= Slack
        BY <1>1, <2>3, <3>1, SizesAssumption DEF Exhausted, Slack
      <3> QED
        BY <1>1, <3>2, FillingAlwaysCounts, OneMoreFiller
    <2>4. ASSUME NEW t \in Tasks, Install(t)
          PROVE  StretchReserved'
      <3>1. bytesSince' <= Slack
        BY <2>4, SlackNat DEF Install
      <3> QED
        BY <1>1, <3>1, FillingAlwaysCounts, OneMoreFiller
    <2>5. ASSUME NEW t \in Tasks, Fill(t)
          PROVE  StretchReserved'
      BY <1>1, <2>5, FillKeepsReservation DEF Inv
    <2> QED
      BY <2>1, <2>2, <2>3, <2>4, <2>5 DEF Next
  <1> QED
    BY <1>1, <1>2, <1>3 DEF Inv

(* The invariant holds of every execution. *)
THEOREM Invariance ==
    Spec => []Inv
  <1>1. Init => Inv
    <2> SUFFICES ASSUME Init PROVE Inv
      OBVIOUS
    <2>1. TypeOK /\ StaleIsReseeding
      BY SizesAssumption DEF Init, TypeOK, StaleIsReseeding, PCs, Idle
    <2>2. Filling = {}
      BY DEF Init, Filling, Idle
    <2>3. Cardinality(Filling) = 0
      BY <2>2, FS_EmptySet
    <2>4. MaxN * Cardinality(Tasks) \in Nat /\ MaxN * 0 = 0
      BY FillingCount, SizesAssumption, TimesMonotone
    <2>5. StretchReserved
      BY <2>3, <2>4, SlackNat DEF Init, StretchReserved
    <2> QED
      BY <2>1, <2>5 DEF Inv
  <1>2. Inv /\ [Next]_vars => Inv'
    BY StepInv
  <1> QED
    BY <1>1, <1>2, PTL DEF Spec

(* The state is well typed. *)
THEOREM TypeCorrectness ==
    Spec => []TypeOK
  BY Invariance, PTL DEF Inv

(* The bytes drawn from one seed stay within the threshold plus one        *)
(* request per task, for any number of tasks and any sizes.                *)
THEOREM StretchIsBounded ==
    Spec => []StretchBounded
  <1>1. Inv => StretchBounded
    <2> SUFFICES ASSUME Inv PROVE StretchBounded
      OBVIOUS
    <2>1. MaxN * Cardinality(Filling) \in Nat /\ MaxN * Cardinality(Tasks) \in Nat
      BY FillingCount, SizesAssumption, TimesMonotone
    <2>2. bytesSince \in Nat
      BY DEF Inv, TypeOK
    <2> QED
      BY <2>1, <2>2, SlackNat DEF Inv, StretchReserved, StretchBounded
  <1> QED
    BY <1>1, Invariance, PTL

(* The mode fails closed: no request that saw the threshold reached is     *)
(* served by the generator that had reached it.                            *)
THEOREM FailsClosed ==
    Spec => FreshAfterExhaustion
  <1>1. Inv /\ [Next]_vars => [\A t \in Tasks : Fill(t) => t \notin stale]_vars
    BY DEF Inv, StaleIsReseeding, Fill
  <1> QED
    BY <1>1, Invariance, PTL DEF Spec, FreshAfterExhaustion
=============================================================================
