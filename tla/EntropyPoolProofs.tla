-------------------------- MODULE EntropyPoolProofs --------------------------
(***************************************************************************)
(* Proofs about EntropyPool, for every set of requests, pool size,         *)
(* threshold and largest request.                                          *)
(*                                                                         *)
(* The bound on a shard's generator is not inductive, and what makes it so *)
(* changes with the shard's phase.  While the flag is down and the count   *)
(* below the threshold, what was drawn is counted or about to be (Counted).*)
(* Once the count has reached the threshold, only requests already past    *)
(* the check can draw (Reserved).  While the flag is up a draw makes the   *)
(* shard loose, and after the installation nothing has been drawn.         *)
(***************************************************************************)
EXTENDS EntropyPool, FiniteSetTheorems, TLAPS

(* The bytes drawn from shard s that are not counted yet, one by one. *)
Uncounted(s) ==
    {x \in Tasks \X (1..MaxN) :
        task[x[1]].pc = "add" /\ task[x[1]].shard = s /\ x[2] <= task[x[1]].n}

Filling(s) == {t \in Tasks : task[t].pc = "fill" /\ task[t].shard = s}

Counted(s) == drawn[s] <= bytesSince[s] + Cardinality(Uncounted(s))

Reserved(s) == drawn[s] + MaxN * Cardinality(Filling(s)) <= StretchBound

ShardInv(s) ==
    /\ drawn[s] <= StretchBound
    /\ ~flag[s] /\ bytesSince[s] < Threshold => Counted(s)
    /\ ~flag[s] /\ bytesSince[s] >= Threshold => Reserved(s)
    /\ \A t \in Tasks : task[t].pc \in {"zero", "clear"} /\ task[t].shard = s => drawn[s] = 0

StretchInv == \A s \in Shards : s \in loose \/ ShardInv(s)

Inv == TypeOK /\ OneReseeder /\ FlagHasOwner /\ StretchInv

(* The bound is a natural number, and so are the products in it. *)
LEMMA Numbers ==
    /\ Cardinality(Tasks) \in Nat
    /\ Slack \in Nat
    /\ \A a \in Nat : MaxN * a \in Nat
    /\ \A a, b \in Nat : a <= b => MaxN * a <= MaxN * b
    /\ StretchBound \in Nat
  <1>1. Cardinality(Tasks) \in Nat
    BY TasksAssumption, FS_CardinalityType
  <1>2. Slack \in Nat
    BY SizesAssumption DEF Slack
  <1>3. \A a \in Nat : MaxN * a \in Nat
    BY SizesAssumption, Z3
  <1>4. \A a, b \in Nat : a <= b => MaxN * a <= MaxN * b
    BY SizesAssumption, Z3
  <1> QED
    BY <1>1, <1>2, <1>3, <1>4 DEF StretchBound

(* A bounded counter stays within its bound. *)
LEMMA UpToBound ==
    ASSUME NEW b \in Nat, NEW v \in Nat
    PROVE  UpTo(b, v) \in 0..b /\ UpTo(b, v) <= v /\ (v <= b => UpTo(b, v) = v)
  BY DEF UpTo

(* The shard the cursor goes to next exists. *)
LEMMA NextShard ==
    ASSUME NEW i \in Shards
    PROVE  (i + 1) % PoolSize \in Shards
  BY PoolSizeAssumption, Z3 DEF Shards

(* A request that moves on keeps its shard and size; the others stay. *)
LEMMA GotoFacts ==
    ASSUME TypeOK, NEW t \in Tasks, NEW pc \in PCs, pc # "idle", Goto(t, pc)
    PROVE  /\ task' \in [Tasks -> [pc : PCs, shard : Shards, n : 0..MaxN]]
           /\ task'[t].pc = pc /\ task'[t].shard = task[t].shard /\ task'[t].n = task[t].n
           /\ \A u \in Tasks : u # t => task'[u] = task[u]
           /\ \A u \in Tasks : task'[u].pc = "idle" => task'[u] = Idle
  BY DEF TypeOK, Goto, Idle

(* So does a request that ends. *)
LEMMA EndFacts ==
    ASSUME TypeOK, NEW t \in Tasks, task' = [task EXCEPT ![t] = Idle]
    PROVE  /\ task' \in [Tasks -> [pc : PCs, shard : Shards, n : 0..MaxN]]
           /\ task'[t] = Idle
           /\ \A u \in Tasks : u # t => task'[u] = task[u]
           /\ \A u \in Tasks : task'[u].pc = "idle" => task'[u] = Idle
  <1>1. Idle \in [pc : PCs, shard : Shards, n : 0..MaxN]
    BY PoolSizeAssumption, SizesAssumption DEF Shards, Idle, PCs
  <1> QED
    BY <1>1 DEF TypeOK

(* Where a step of a request leads to. *)
Moves(t, from, to) ==
    /\ task[t].pc \in from
    /\ \E pc \in to : Goto(t, pc)

LEMMA MoveFacts ==
    ASSUME TypeOK, NEW t \in Tasks, NEW from, NEW to \in SUBSET (PCs \ {"idle"}),
           Moves(t, from, to)
    PROVE  /\ task' \in [Tasks -> [pc : PCs, shard : Shards, n : 0..MaxN]]
           /\ task[t].pc \in from
           /\ task'[t].pc \in to /\ task'[t].shard = task[t].shard /\ task'[t].n = task[t].n
           /\ \A u \in Tasks : u # t => task'[u] = task[u]
           /\ \A u \in Tasks : task'[u].pc = "idle" => task'[u] = Idle
  <1> PICK pc \in to : Goto(t, pc)
    BY DEF Moves
  <1> QED
    BY GotoFacts DEF Moves

(* Every step preserves the types. *)
LEMMA TypeStep ==
    ASSUME TypeOK, [Next]_vars
    PROVE  TypeOK'
  <1> USE SizesAssumption
  <1>1. CASE UNCHANGED vars
    BY <1>1 DEF vars, TypeOK
  <1>2. ASSUME NEW t \in Tasks, NEW n \in 0..MaxN, Pick(t, n)
        PROVE  TypeOK'
    BY <1>2, NextShard DEF Pick, TypeOK, PCs, Idle, At
  <1>3. ASSUME NEW t \in Tasks, Check(t) \/ FetchOk(t)
        PROVE  TypeOK'
    <2>1. Moves(t, {"check", "fetch"}, {"cas", "fill", "install"})
      BY <1>3 DEF Check, FetchOk, Moves
    <2> QED
      BY <1>3, <2>1, MoveFacts DEF Check, FetchOk, TypeOK, PCs
  <1>4. ASSUME NEW t \in Tasks, Cas(t)
        PROVE  TypeOK'
    <2>1. Moves(t, {"cas"}, {"fetch", "fill"})
      BY <1>4 DEF Cas, Moves
    <2> QED
      BY <1>4, <2>1, MoveFacts DEF Cas, TypeOK, PCs
  <1>5. ASSUME NEW t \in Tasks, FetchFail(t) \/ Clear(t)
        PROVE  TypeOK'
    <2>1. Moves(t, {"fetch", "clear"}, {"fill"})
      BY <1>5 DEF FetchFail, Clear, Moves
    <2> QED
      BY <1>5, <2>1, MoveFacts DEF FetchFail, Clear, TypeOK, PCs
  <1>6. ASSUME NEW t \in Tasks, Install(t) \/ Zero(t)
        PROVE  TypeOK'
    <2>1. Moves(t, {"install", "zero"}, {"zero", "clear"})
      BY <1>6 DEF Install, Zero, Moves
    <2> QED
      BY <1>6, <2>1, MoveFacts, Numbers DEF Install, Zero, TypeOK, PCs
  <1>7. ASSUME NEW t \in Tasks, Fill(t)
        PROVE  TypeOK'
    <2>1. Moves(t, {"fill"}, {"add"})
      BY <1>7 DEF Fill, Moves
    <2>2. UpTo(StretchBound + 1, drawn[task[t].shard] + task[t].n) \in 0..(StretchBound + 1)
      <3>1. drawn[task[t].shard] + task[t].n \in Nat /\ StretchBound + 1 \in Nat
        BY Numbers DEF TypeOK
      <3> QED
        BY <3>1, UpToBound
    <2> QED
      BY <1>7, <2>1, <2>2, MoveFacts DEF Fill, TypeOK, PCs
  <1>8. ASSUME NEW t \in Tasks, Add(t)
        PROVE  TypeOK'
    <2>1. UpTo(Threshold, bytesSince[task[t].shard] + task[t].n) \in 0..Threshold
      <3>1. bytesSince[task[t].shard] + task[t].n \in Nat /\ Threshold \in Nat
        BY DEF TypeOK
      <3> QED
        BY <3>1, UpToBound
    <2> QED
      BY <1>8, <2>1, EndFacts DEF Add, TypeOK
  <1>9. ASSUME NEW t \in Tasks, Drop(t)
        PROVE  TypeOK'
    <2>1. drops' \in 0..MaxDrops
      BY <1>9 DEF Drop, TypeOK
    <2> QED
      BY <1>9, <2>1, EndFacts DEF Drop, TypeOK
  <1> QED
    BY <1>1, <1>2, <1>3, <1>4, <1>5, <1>6, <1>7, <1>8, <1>9 DEF Next, Step

(* Every step preserves the protocol of the flag. *)
LEMMA FlagStep ==
    ASSUME TypeOK, OneReseeder, FlagHasOwner, [Next]_vars
    PROVE  OneReseeder' /\ FlagHasOwner'
  <1> USE DEF OneReseeder, FlagHasOwner, Reseeding
  <1>1. CASE UNCHANGED vars
    BY <1>1 DEF vars
  <1>2. ASSUME NEW t \in Tasks, NEW n \in 0..MaxN, Pick(t, n)
        PROVE  OneReseeder' /\ FlagHasOwner'
    BY <1>2 DEF Pick, TypeOK, Idle, At
  <1>3. ASSUME NEW t \in Tasks, Check(t)
        PROVE  OneReseeder' /\ FlagHasOwner'
    <2>1. Moves(t, {"check"}, {"cas", "fill"})
      BY <1>3 DEF Check, Moves
    <2> QED
      BY <1>3, <2>1, MoveFacts DEF Check, PCs
  <1>4. ASSUME NEW t \in Tasks, Cas(t), flag[task[t].shard]
        PROVE  OneReseeder' /\ FlagHasOwner'
    <2>1. Moves(t, {"cas"}, {"fill"})
      BY <1>4 DEF Cas, Moves
    <2> QED
      BY <1>4, <2>1, MoveFacts DEF Cas, PCs
  <1>5. ASSUME NEW t \in Tasks, Cas(t), ~flag[task[t].shard]
        PROVE  OneReseeder' /\ FlagHasOwner'
    <2>1. Moves(t, {"cas"}, {"fetch"})
      BY <1>5 DEF Cas, Moves
    <2>2. /\ flag \in [Shards -> BOOLEAN] /\ task[t].shard \in Shards
          /\ flag' = [flag EXCEPT ![task[t].shard] = TRUE] /\ drops' = drops
      BY <1>5 DEF Cas, TypeOK
    <2> QED
      BY <1>5, <2>1, <2>2, MoveFacts DEF PCs
  <1>6. ASSUME NEW t \in Tasks, FetchOk(t) \/ Install(t) \/ Zero(t)
        PROVE  OneReseeder' /\ FlagHasOwner'
    <2>1. Moves(t, {"fetch", "install", "zero"}, {"install", "zero", "clear"})
      BY <1>6 DEF FetchOk, Install, Zero, Moves
    <2>2. flag' = flag /\ drops' = drops
      BY <1>6 DEF FetchOk, Install, Zero
    <2> QED
      BY <2>1, <2>2, MoveFacts DEF PCs
  <1>7. ASSUME NEW t \in Tasks, FetchFail(t) \/ Clear(t)
        PROVE  OneReseeder' /\ FlagHasOwner'
    <2>1. Moves(t, {"fetch", "clear"}, {"fill"})
      BY <1>7 DEF FetchFail, Clear, Moves
    <2>2. /\ flag \in [Shards -> BOOLEAN] /\ task[t].shard \in Shards
          /\ flag' = [flag EXCEPT ![task[t].shard] = FALSE] /\ drops' = drops
      BY <1>7 DEF FetchFail, Clear, TypeOK
    <2> QED
      BY <2>1, <2>2, MoveFacts DEF PCs
  <1>8. ASSUME NEW t \in Tasks, Fill(t)
        PROVE  OneReseeder' /\ FlagHasOwner'
    <2>1. Moves(t, {"fill"}, {"add"})
      BY <1>8 DEF Fill, Moves
    <2> QED
      BY <1>8, <2>1, MoveFacts DEF Fill, PCs
  <1>9. ASSUME NEW t \in Tasks, Add(t)
        PROVE  OneReseeder' /\ FlagHasOwner'
    BY <1>9, EndFacts DEF Add, Idle
  <1>10. ASSUME NEW t \in Tasks, Drop(t)
        PROVE  OneReseeder' /\ FlagHasOwner'
    <2>1. flag' = flag /\ drops' # 0
      BY <1>10, SizesAssumption DEF Drop, TypeOK
    <2> QED
      BY <1>10, <2>1, EndFacts DEF Drop, Idle
  <1> QED
    BY <1>1, <1>2, <1>3, <1>4, <1>5, <1>6, <1>7, <1>8, <1>9, <1>10 DEF Next, Step

(* The bytes not yet counted fit beside those the fillers will draw. *)
LEMMA UncountedFits ==
    ASSUME NEW s \in Shards
    PROVE  /\ IsFiniteSet(Uncounted(s)) /\ Cardinality(Uncounted(s)) \in Nat
           /\ IsFiniteSet(Filling(s)) /\ Cardinality(Filling(s)) \in Nat
           /\ Cardinality(Uncounted(s)) + MaxN * Cardinality(Filling(s))
                <= MaxN * Cardinality(Tasks)
  <1> DEFINE A == {t \in Tasks : task[t].pc = "add" /\ task[t].shard = s}
             F == Filling(s)
             U == Uncounted(s)
  <1>1. IsFiniteSet(1..MaxN) /\ Cardinality(1..MaxN) = MaxN
    BY SizesAssumption, FS_Interval
  <1>2. IsFiniteSet(A) /\ Cardinality(A) \in Nat /\ IsFiniteSet(F) /\ Cardinality(F) \in Nat
    BY TasksAssumption, FS_Subset, FS_CardinalityType DEF Filling
  <1>3. IsFiniteSet(A \X (1..MaxN)) /\ Cardinality(A \X (1..MaxN)) = Cardinality(A) * MaxN
    BY <1>1, <1>2, FS_Product
  <1>4. U \subseteq A \X (1..MaxN)
    BY DEF Uncounted
  <1>5. IsFiniteSet(U) /\ Cardinality(U) \in Nat /\ Cardinality(U) <= Cardinality(A) * MaxN
    BY <1>3, <1>4, FS_Subset, FS_CardinalityType
  <1>6. Cardinality(A) + Cardinality(F) <= Cardinality(Tasks)
    <2>1. A \cap F = {}
      BY DEF Filling
    <2>2. Cardinality(A \cap F) = 0
      BY <2>1, FS_EmptySet
    <2>3. Cardinality(A \cup F) = Cardinality(A) + Cardinality(F)
      <3>1. Cardinality(A \cup F) = Cardinality(A) + Cardinality(F) - Cardinality(A \cap F)
        BY <1>2, FS_Union
      <3> HIDE DEF A, F
      <3> QED
        BY <1>2, <2>2, <3>1
    <2>4. A \cup F \subseteq Tasks
      BY DEF Filling
    <2> QED
      BY <2>3, <2>4, TasksAssumption, FS_Subset
  <1>7. ASSUME NEW a \in Nat, NEW f \in Nat, NEW c \in Nat, a + f <= c
        PROVE  a * MaxN + MaxN * f <= MaxN * c
    <2>1. MaxN * (a + f) <= MaxN * c
      BY <1>7, Numbers
    <2> QED
      BY <2>1, SizesAssumption, Z3
  <1>8. Cardinality(A) * MaxN + MaxN * Cardinality(F) <= MaxN * Cardinality(Tasks)
    BY <1>2, <1>6, <1>7, Numbers
  <1>9. Cardinality(A) * MaxN \in Nat /\ MaxN * Cardinality(F) \in Nat
    BY <1>2, SizesAssumption, Numbers, Z3
  <1> HIDE DEF A, F, U
  <1>10. Cardinality(U) + MaxN * Cardinality(F) <= MaxN * Cardinality(Tasks)
    BY <1>2, <1>5, <1>8, <1>9, Numbers
  <1> QED
    BY <1>2, <1>5, <1>10 DEF F, U

(* The bytes of one request, one by one. *)
LEMMA Portion ==
    ASSUME NEW t, NEW n \in Nat
    PROVE  IsFiniteSet({t} \X (1..n)) /\ Cardinality({t} \X (1..n)) = n
  <1>1. IsFiniteSet({t}) /\ Cardinality({t}) = 1
    BY FS_Singleton
  <1>2. IsFiniteSet(1..n) /\ Cardinality(1..n) = n
    BY FS_Interval
  <1>3. /\ IsFiniteSet({t} \X (1..n))
        /\ Cardinality({t} \X (1..n)) = Cardinality({t}) * Cardinality(1..n)
    BY <1>1, <1>2, FS_Product
  <1> QED
    BY <1>1, <1>2, <1>3

(* A draw adds the bytes of its request to those not yet counted. *)
LEMMA FillTokens ==
    ASSUME TypeOK, NEW t \in Tasks, Fill(t), NEW s \in Shards, s = task[t].shard
    PROVE  /\ Cardinality(Uncounted(s)') = Cardinality(Uncounted(s)) + task[t].n
           /\ IsFiniteSet(Filling(s)')
           /\ Cardinality(Filling(s)) = Cardinality(Filling(s)') + 1
           /\ Cardinality(Filling(s)') \in Nat
  <1> DEFINE P == {t} \X (1..task[t].n)
  <1>1. Moves(t, {"fill"}, {"add"})
    BY DEF Fill, Moves
  <1>2. /\ task[t].pc = "fill" /\ task'[t].pc = "add" /\ task'[t].shard = s
        /\ task'[t].n = task[t].n /\ task[t].n \in 0..MaxN
        /\ \A u \in Tasks : u # t => task'[u] = task[u]
    BY <1>1, MoveFacts DEF PCs, TypeOK
  <1>3. Uncounted(s)' = Uncounted(s) \cup P /\ Uncounted(s) \cap P = {}
    BY <1>2, SizesAssumption DEF Uncounted
  <1>4. IsFiniteSet(P) /\ Cardinality(P) = task[t].n
    <2>1. task[t].n \in Nat
      BY <1>2, SizesAssumption
    <2> QED
      BY <2>1, Portion
  <1>5. Cardinality(Uncounted(s)') = Cardinality(Uncounted(s)) + task[t].n
    <2>1. Cardinality(Uncounted(s) \cap P) = 0
      BY <1>3, FS_EmptySet
    <2>2. Cardinality(Uncounted(s) \cup P)
            = Cardinality(Uncounted(s)) + Cardinality(P) - Cardinality(Uncounted(s) \cap P)
      BY <1>4, UncountedFits, FS_Union
    <2>3. Cardinality(Uncounted(s)) \in Nat /\ task[t].n \in Nat
      BY <1>2, UncountedFits, SizesAssumption
    <2> QED
      BY <1>3, <1>4, <2>1, <2>2, <2>3
  <1>6. Filling(s)' = Filling(s) \ {t} /\ t \in Filling(s)
    BY <1>2 DEF Filling
  <1>7. /\ IsFiniteSet(Filling(s) \ {t})
        /\ Cardinality(Filling(s) \ {t}) = Cardinality(Filling(s)) - 1
    BY <1>6, UncountedFits, FS_RemoveElement
  <1>8. Cardinality(Filling(s) \ {t}) \in Nat
    BY <1>7, FS_CardinalityType
  <1>9. Cardinality(Filling(s)) \in Nat
    BY UncountedFits
  <1> QED
    BY <1>5, <1>6, <1>7, <1>8, <1>9

(* Counting a draw takes them away again. *)
LEMMA AddTokens ==
    ASSUME TypeOK, NEW t \in Tasks, Add(t), NEW s \in Shards, s = task[t].shard
    PROVE  /\ Cardinality(Uncounted(s)') \in Nat
           /\ Cardinality(Uncounted(s)) = Cardinality(Uncounted(s)') + task[t].n
           /\ Filling(s)' = Filling(s)
  <1> DEFINE P == {t} \X (1..task[t].n)
  <1>1. /\ task[t].pc = "add" /\ task'[t].pc = "idle" /\ task[t].n \in 0..MaxN
        /\ \A u \in Tasks : u # t => task'[u] = task[u]
    BY EndFacts DEF Add, Idle, TypeOK
  <1>2. Uncounted(s)' = Uncounted(s) \ P /\ P \subseteq Uncounted(s)
    BY <1>1, SizesAssumption DEF Uncounted
  <1>3. IsFiniteSet(P) /\ Cardinality(P) = task[t].n
    <2>1. task[t].n \in Nat
      BY <1>1, SizesAssumption
    <2> QED
      BY <2>1, Portion
  <1>4. Uncounted(s) \cap P = P
    BY <1>2
  <1>5. /\ IsFiniteSet(Uncounted(s) \ P)
        /\ Cardinality(Uncounted(s) \ P) = Cardinality(Uncounted(s)) - Cardinality(Uncounted(s) \cap P)
    BY UncountedFits, FS_Difference
  <1>6. Cardinality(Uncounted(s) \ P) \in Nat /\ Cardinality(Uncounted(s)) \in Nat
    BY <1>5, UncountedFits, FS_CardinalityType
  <1>7. Filling(s)' = Filling(s)
    BY <1>1 DEF Filling
  <1>8. Cardinality(Uncounted(s) \ P) = Cardinality(Uncounted(s)) - task[t].n
    BY <1>3, <1>4, <1>5
  <1>9. task[t].n \in Nat
    BY <1>1, SizesAssumption
  <1> QED
    BY <1>2, <1>6, <1>7, <1>8, <1>9

(* A step that counts and draws nothing at shard s, and lets a request     *)
(* through to draw only below the threshold or while the flag is up, keeps *)
(* the invariant of the shard.                                             *)
LEMMA QuietStep ==
    ASSUME TypeOK, NEW s \in Shards, ShardInv(s),
           drawn'[s] = drawn[s], bytesSince'[s] = bytesSince[s], flag'[s] = flag[s],
           NEW t \in Tasks,
           \A u \in Tasks : u # t => task'[u] = task[u],
           ~(task[t].pc = "add" /\ task[t].shard = s),
           ~(task'[t].pc \in {"add", "zero", "clear"} /\ task'[t].shard = s)
             \/ (task'[t].pc = "clear" /\ task[t].pc = "zero" /\ task[t].shard = s),
           \/ ~(task'[t].pc = "fill" /\ task'[t].shard = s)
           \/ bytesSince[s] < Threshold
           \/ flag[s]
    PROVE  ShardInv(s)'
  <1>1. Uncounted(s)' = Uncounted(s)
    BY DEF Uncounted
  <1>2. drawn[s] \in Nat /\ bytesSince[s] \in Nat
    BY SizesAssumption, Numbers DEF TypeOK
  <1>3. ~flag[s] /\ bytesSince[s] < Threshold => Counted(s)'
    BY <1>1 DEF ShardInv, Counted
  <1>4. ASSUME ~flag[s], bytesSince[s] >= Threshold
        PROVE  Reserved(s)'
    <2>1. Filling(s)' \subseteq Filling(s)
      BY <1>2, <1>4, SizesAssumption DEF Filling
    <2>2. /\ IsFiniteSet(Filling(s)') /\ Cardinality(Filling(s)') \in Nat
          /\ Cardinality(Filling(s)) \in Nat
          /\ Cardinality(Filling(s)') <= Cardinality(Filling(s))
      BY <2>1, UncountedFits, FS_Subset, FS_CardinalityType
    <2>3. /\ MaxN * Cardinality(Filling(s)') \in Nat /\ MaxN * Cardinality(Filling(s)) \in Nat
          /\ MaxN * Cardinality(Filling(s)') <= MaxN * Cardinality(Filling(s))
      BY <2>2, Numbers
    <2>4. drawn[s] + MaxN * Cardinality(Filling(s)) <= StretchBound
      BY <1>4 DEF ShardInv, Reserved
    <2>5. drawn'[s] + MaxN * Cardinality(Filling(s)') <= StretchBound
      BY <1>2, <2>3, <2>4, Numbers
    <2> QED
      BY <2>5 DEF Reserved, StretchBound, Slack
  <1>5. \A u \in Tasks : task'[u].pc \in {"zero", "clear"} /\ task'[u].shard = s => drawn[s] = 0
    BY DEF ShardInv
  <1>6. drawn'[s] <= StretchBound'
    BY DEF ShardInv, StretchBound, Slack
  <1> QED
    BY <1>3, <1>4, <1>5, <1>6 DEF ShardInv

(* Bytes are drawn from shard s while its flag is down. *)
LEMMA FillKeepsShard ==
    ASSUME TypeOK, FlagHasOwner, NEW t \in Tasks, Fill(t),
           NEW s \in Shards, s = task[t].shard, ~flag[s], ShardInv(s)
    PROVE  ShardInv(s)'
  <1> DEFINE n == task[t].n
             f == Cardinality(Filling(s))
             g == Cardinality(Filling(s)')
             u == Cardinality(Uncounted(s))
             v == Cardinality(Uncounted(s)')
  <1>1. v = u + n /\ f = g + 1 /\ g \in Nat /\ u \in Nat /\ f \in Nat
    BY FillTokens, UncountedFits
  <1>2. /\ drawn[s] \in Nat /\ bytesSince[s] \in Nat /\ n \in Nat /\ n <= MaxN
        /\ bytesSince' = bytesSince /\ flag' = flag
    BY SizesAssumption, Numbers DEF TypeOK, Fill
  <1>3. drawn'[s] \in Nat /\ drawn'[s] <= drawn[s] + n
    <2>1. drawn'[s] = UpTo(StretchBound + 1, drawn[s] + n)
      BY DEF Fill, TypeOK
    <2>2. drawn[s] + n \in Nat /\ StretchBound + 1 \in Nat
      BY <1>2, Numbers
    <2> HIDE DEF n
    <2> QED
      BY <2>1, <2>2, UpToBound
  <1>4. u + MaxN * f <= MaxN * Cardinality(Tasks)
    BY UncountedFits
  <1>5. MaxN * f = MaxN * g + MaxN /\ MaxN * g \in Nat
    <2> HIDE DEF f, g
    <2>1. MaxN * (g + 1) = MaxN * g + MaxN
      BY <1>1, SizesAssumption, Z3
    <2>2. MaxN * g \in Nat
      BY <1>1, Numbers
    <2> QED
      BY <1>1, <2>1, <2>2
  <1>6. /\ Slack \in Nat /\ MaxN * Cardinality(Tasks) \in Nat /\ MaxN \in Nat
        /\ StretchBound = Slack + MaxN * Cardinality(Tasks) /\ StretchBound' = StretchBound
    BY Numbers, SizesAssumption DEF StretchBound, Slack
  <1>7. ASSUME NEW w \in Tasks, task'[w].pc \in {"zero", "clear"}, task'[w].shard = s
        PROVE  FALSE
    <2>1. Moves(t, {"fill"}, {"add"})
      BY DEF Fill, Moves
    <2>2. task[w].pc \in {"zero", "clear"} /\ task[w].shard = s
      BY <1>7, <2>1, MoveFacts DEF PCs
    <2> QED
      BY <2>2 DEF FlagHasOwner, Reseeding
  <1>8. CASE bytesSince[s] < Threshold
    <2>1. bytesSince[s] <= Slack
      BY <1>2, <1>8, SizesAssumption DEF Slack
    <2>2. drawn[s] <= bytesSince[s] + u
      BY <1>8 DEF ShardInv, Counted
    <2> HIDE DEF n, f, g, u, v
    <2>3. drawn'[s] <= bytesSince[s] + v
      BY <1>1, <1>2, <1>3, <2>2
    <2>4. drawn'[s] <= StretchBound
      BY <1>1, <1>2, <1>3, <1>4, <1>5, <1>6, <2>1, <2>3
    <2> QED
      BY <1>2, <1>6, <1>7, <1>8, <2>3, <2>4, SizesAssumption DEF ShardInv, Counted, v
  <1>9. CASE ~(bytesSince[s] < Threshold)
    <2>1. drawn[s] + MaxN * f <= StretchBound
      BY <1>2, <1>9, SizesAssumption DEF ShardInv, Reserved
    <2> HIDE DEF n, f, g, u, v
    <2>2. drawn'[s] + MaxN * g <= StretchBound
      BY <1>1, <1>2, <1>3, <1>5, <1>6, <2>1
    <2>3. drawn'[s] <= StretchBound
      BY <1>3, <1>5, <1>6, <2>2
    <2> QED
      BY <1>2, <1>6, <1>7, <1>9, <2>2, <2>3 DEF ShardInv, Reserved, g
  <1> QED
    BY <1>8, <1>9

(* Bytes drawn from shard s are counted. *)
LEMMA AddKeepsShard ==
    ASSUME TypeOK, NEW t \in Tasks, Add(t),
           NEW s \in Shards, s = task[t].shard, ShardInv(s)
    PROVE  ShardInv(s)'
  <1> DEFINE n == task[t].n
             f == Cardinality(Filling(s))
             u == Cardinality(Uncounted(s))
             v == Cardinality(Uncounted(s)')
  <1>1. u = v + n /\ v \in Nat /\ u \in Nat /\ f \in Nat /\ Filling(s)' = Filling(s)
    BY AddTokens, UncountedFits
  <1>2. /\ drawn[s] \in Nat /\ bytesSince[s] \in 0..Threshold /\ n \in Nat
        /\ drawn' = drawn /\ flag' = flag
    BY SizesAssumption, Numbers DEF TypeOK, Add
  <1>3. /\ bytesSince'[s] \in 0..Threshold
        /\ bytesSince[s] + n <= Threshold => bytesSince'[s] = bytesSince[s] + n
        /\ bytesSince[s] + n > Threshold => bytesSince'[s] = Threshold
    <2>1. bytesSince'[s] = UpTo(Threshold, bytesSince[s] + n)
      BY DEF Add, TypeOK
    <2> HIDE DEF n
    <2> QED
      BY <1>2, <2>1, SizesAssumption DEF UpTo
  <1>4. u + MaxN * f <= MaxN * Cardinality(Tasks) /\ MaxN * f \in Nat
    BY <1>1, UncountedFits, Numbers
  <1>5. /\ Slack \in Nat /\ MaxN * Cardinality(Tasks) \in Nat
        /\ StretchBound = Slack + MaxN * Cardinality(Tasks) /\ StretchBound' = StretchBound
    BY Numbers DEF StretchBound, Slack
  <1>6. \A w \in Tasks : task'[w].pc \in {"zero", "clear"} /\ task'[w].shard = s => drawn[s] = 0
    BY EndFacts DEF Add, Idle, ShardInv
  <1>7. ASSUME ~flag[s], bytesSince'[s] < Threshold
        PROVE  Counted(s)'
    <2>1. bytesSince[s] < Threshold /\ bytesSince'[s] = bytesSince[s] + n
      BY <1>2, <1>3, <1>7, SizesAssumption
    <2>2. drawn[s] <= bytesSince[s] + u
      BY <1>7, <2>1 DEF ShardInv, Counted
    <2> HIDE DEF n, u, v
    <2>3. drawn'[s] <= bytesSince'[s] + v
      BY <1>1, <1>2, <2>1, <2>2, SizesAssumption
    <2> QED
      BY <2>3 DEF Counted, v
  <1>8. ASSUME ~flag[s], bytesSince'[s] >= Threshold
        PROVE  Reserved(s)'
    <2>1. drawn[s] + MaxN * f <= StretchBound
      <3>1. CASE bytesSince[s] < Threshold
        <4>1. bytesSince[s] <= Slack /\ bytesSince[s] \in Nat
          BY <1>2, <3>1, SizesAssumption DEF Slack
        <4>2. drawn[s] <= bytesSince[s] + u
          BY <1>8, <3>1 DEF ShardInv, Counted
        <4> HIDE DEF n, f, u, v
        <4> QED
          BY <1>1, <1>2, <1>4, <1>5, <4>1, <4>2
      <3>2. CASE ~(bytesSince[s] < Threshold)
        BY <1>2, <1>8, <3>2, SizesAssumption DEF ShardInv, Reserved
      <3> QED
        BY <3>1, <3>2
    <2> QED
      BY <1>1, <1>2, <1>5, <2>1 DEF Reserved
  <1>9. drawn'[s] <= StretchBound'
    BY <1>2, <1>5 DEF ShardInv
  <1> QED
    BY <1>2, <1>6, <1>7, <1>8, <1>9 DEF ShardInv

(* Every step preserves the invariant of every shard. *)
LEMMA StretchStep ==
    ASSUME TypeOK, FlagHasOwner, StretchInv, [Next]_vars
    PROVE  StretchInv'
  <1> SUFFICES ASSUME NEW s \in Shards, s \notin loose'
               PROVE  ShardInv(s)'
    BY DEF StretchInv
  <1>1. CASE UNCHANGED vars
    <2>1. ShardInv(s)
      BY <1>1 DEF vars, StretchInv
    <2> QED
      BY <1>1, <2>1 DEF vars, ShardInv, Counted, Reserved, Uncounted, Filling, StretchBound, Slack
  <1>2. ASSUME NEW t \in Tasks, NEW n \in 0..MaxN, Pick(t, n)
        PROVE  ShardInv(s)'
    <2>1. ShardInv(s) /\ task[t].pc = "idle" /\ task'[t].pc = "check"
          /\ \A u \in Tasks : u # t => task'[u] = task[u]
      BY <1>2 DEF Pick, StretchInv, TypeOK, Idle, At
    <2> QED
      BY <1>2, <2>1, QuietStep DEF Pick
  <1>3. ASSUME NEW t \in Tasks, Check(t)
        PROVE  ShardInv(s)'
    <2>1. Moves(t, {"check"}, {"cas", "fill"})
      BY <1>3 DEF Check, Moves
    <2>2. task'[t].pc = "fill" => bytesSince[task[t].shard] < Threshold
      BY <1>3, GotoFacts, SizesAssumption DEF Check, Exhausted, TypeOK, PCs
    <2>3. ShardInv(s)
      BY <1>3 DEF Check, StretchInv
    <2> QED
      BY <1>3, <2>1, <2>2, <2>3, MoveFacts, QuietStep DEF Check, PCs
  <1>4. ASSUME NEW t \in Tasks, Cas(t), flag[task[t].shard]
        PROVE  ShardInv(s)'
    <2>1. Moves(t, {"cas"}, {"fill"})
      BY <1>4 DEF Cas, Moves
    <2>2. ShardInv(s)
      BY <1>4 DEF Cas, StretchInv
    <2> QED
      BY <1>4, <2>1, <2>2, MoveFacts, QuietStep DEF Cas, PCs
  <1>5. ASSUME NEW t \in Tasks, Cas(t), ~flag[task[t].shard]
        PROVE  ShardInv(s)'
    <2>1. Moves(t, {"cas"}, {"fetch"})
      BY <1>5 DEF Cas, Moves
    <2>2. ShardInv(s)
      BY <1>5 DEF Cas, StretchInv
    <2>3. flag' = [flag EXCEPT ![task[t].shard] = TRUE] /\ flag \in [Shards -> BOOLEAN]
      BY <1>5 DEF Cas, TypeOK
    <2>4. CASE task[t].shard = s
      <3>1. flag'[s] /\ drawn' = drawn
        BY <1>5, <2>3, <2>4 DEF Cas
      <3>2. \A u \in Tasks : task'[u].pc \in {"zero", "clear"} /\ task'[u].shard = s => drawn[s] = 0
        BY <2>1, <2>2, MoveFacts DEF PCs, ShardInv
      <3> QED
        BY <2>2, <3>1, <3>2 DEF ShardInv, StretchBound, Slack
    <2>5. CASE task[t].shard # s
      <3>1. flag'[s] = flag[s]
        BY <2>3, <2>5
      <3> QED
        BY <1>5, <2>1, <2>2, <2>5, <3>1, MoveFacts, QuietStep DEF Cas, PCs
    <2> QED
      BY <2>4, <2>5
  <1>6. ASSUME NEW t \in Tasks, FetchOk(t)
        PROVE  ShardInv(s)'
    <2>1. Moves(t, {"fetch"}, {"install"})
      BY <1>6 DEF FetchOk, Moves
    <2>2. ShardInv(s)
      BY <1>6 DEF FetchOk, StretchInv
    <2> QED
      BY <1>6, <2>1, <2>2, MoveFacts, QuietStep DEF FetchOk, PCs
  <1>7. ASSUME NEW t \in Tasks, FetchFail(t)
        PROVE  ShardInv(s)'
    <2>1. Moves(t, {"fetch"}, {"fill"})
      BY <1>7 DEF FetchFail, Moves
    <2>2. ShardInv(s) /\ task[t].shard # s
      BY <1>7 DEF FetchFail, StretchInv
    <2>3. flag'[s] = flag[s]
      BY <1>7, <2>2 DEF FetchFail, TypeOK
    <2> QED
      BY <1>7, <2>1, <2>2, <2>3, MoveFacts, QuietStep DEF FetchFail, PCs
  <1>8. ASSUME NEW t \in Tasks, Install(t)
        PROVE  ShardInv(s)'
    <2>1. Moves(t, {"install"}, {"zero"})
      BY <1>8 DEF Install, Moves
    <2>2. CASE task[t].shard = s
      <3>1. drawn'[s] = 0
        BY <1>8, <2>2 DEF Install, TypeOK
      <3>2. flag'[s]
        BY <1>8, <2>2 DEF Install, FlagHasOwner, Reseeding
      <3> QED
        BY <3>1, <3>2, Numbers DEF ShardInv, StretchBound, Slack
    <2>3. CASE task[t].shard # s
      <3>1. ShardInv(s) /\ drawn'[s] = drawn[s]
        BY <1>8, <2>3 DEF Install, StretchInv, TypeOK
      <3> QED
        BY <1>8, <2>1, <2>3, <3>1, MoveFacts, QuietStep DEF Install, PCs
    <2> QED
      BY <2>2, <2>3
  <1>9. ASSUME NEW t \in Tasks, Zero(t)
        PROVE  ShardInv(s)'
    <2>1. Moves(t, {"zero"}, {"clear"})
      BY <1>9 DEF Zero, Moves
    <2>2. ShardInv(s)
      BY <1>9 DEF Zero, StretchInv
    <2>3. CASE task[t].shard = s
      <3>1. drawn[s] = 0 /\ drawn' = drawn
        BY <1>9, <2>2, <2>3 DEF Zero, ShardInv
      <3>2. flag'[s]
        BY <1>9, <2>3 DEF Zero, FlagHasOwner, Reseeding
      <3> QED
        BY <3>1, <3>2, Numbers DEF ShardInv, StretchBound, Slack
    <2>4. CASE task[t].shard # s
      <3>1. bytesSince'[s] = bytesSince[s]
        BY <1>9, <2>4 DEF Zero, TypeOK
      <3> QED
        BY <1>9, <2>1, <2>2, <2>4, <3>1, MoveFacts, QuietStep DEF Zero, PCs
    <2> QED
      BY <2>3, <2>4
  <1>10. ASSUME NEW t \in Tasks, Clear(t)
        PROVE  ShardInv(s)'
    <2>1. Moves(t, {"clear"}, {"fill"})
      BY <1>10 DEF Clear, Moves
    <2>2. ShardInv(s)
      BY <1>10 DEF Clear, StretchInv
    <2>3. CASE task[t].shard = s
      <3>1. drawn'[s] = 0
        BY <1>10, <2>2, <2>3 DEF Clear, ShardInv
      <3>2. /\ IsFiniteSet(Filling(s)') /\ Cardinality(Filling(s)') \in Nat
            /\ Cardinality(Filling(s)') <= Cardinality(Tasks)
        BY TasksAssumption, FS_Subset, FS_CardinalityType DEF Filling
      <3>3. Reserved(s)'
        <4>1. /\ MaxN * Cardinality(Filling(s)') \in Nat
              /\ MaxN * Cardinality(Filling(s)') <= MaxN * Cardinality(Tasks)
          BY <3>2, Numbers
        <4>2. MaxN * Cardinality(Filling(s)') <= StretchBound
          BY <4>1, Numbers DEF StretchBound
        <4> QED
          BY <3>1, <4>1, <4>2 DEF Reserved, StretchBound, Slack
      <3>4. Counted(s)'
        <4>1. IsFiniteSet(Uncounted(s)')
          <5>1. IsFiniteSet(1..MaxN)
            BY SizesAssumption, FS_Interval
          <5>2. IsFiniteSet(Tasks \X (1..MaxN))
            BY <5>1, TasksAssumption, FS_Product
          <5> QED
            BY <5>2, FS_Subset DEF Uncounted
        <4>2. Cardinality(Uncounted(s)') \in Nat /\ bytesSince'[s] \in Nat
          BY <1>10, <4>1, FS_CardinalityType, SizesAssumption DEF Clear, TypeOK
        <4> QED
          BY <3>1, <4>2 DEF Counted
      <3> QED
        BY <3>1, <3>3, <3>4, Numbers DEF ShardInv, StretchBound, Slack
    <2>4. CASE task[t].shard # s
      <3>1. flag'[s] = flag[s]
        BY <1>10, <2>4 DEF Clear, TypeOK
      <3> QED
        BY <1>10, <2>1, <2>2, <2>4, <3>1, MoveFacts, QuietStep DEF Clear, PCs
    <2> QED
      BY <2>3, <2>4
  <1>11. ASSUME NEW t \in Tasks, Fill(t)
        PROVE  ShardInv(s)'
    <2>1. Moves(t, {"fill"}, {"add"})
      BY <1>11 DEF Fill, Moves
    <2>2. ShardInv(s)
      BY <1>11 DEF Fill, StretchInv
    <2>3. CASE task[t].shard = s
      <3>1. ~flag[s]
        BY <1>11, <2>3 DEF Fill
      <3> QED
        BY <1>11, <2>2, <2>3, <3>1, FillKeepsShard
    <2>4. CASE task[t].shard # s
      <3>1. drawn'[s] = drawn[s]
        BY <1>11, <2>4 DEF Fill, TypeOK
      <3> QED
        BY <1>11, <2>1, <2>2, <2>4, <3>1, MoveFacts, QuietStep DEF Fill, PCs
    <2> QED
      BY <2>3, <2>4
  <1>12. ASSUME NEW t \in Tasks, Add(t)
        PROVE  ShardInv(s)'
    <2>1. ShardInv(s)
      BY <1>12 DEF Add, StretchInv
    <2>2. CASE task[t].shard = s
      BY <1>12, <2>1, <2>2, AddKeepsShard
    <2>3. CASE task[t].shard # s
      <3>1. bytesSince'[s] = bytesSince[s]
        BY <1>12, <2>3 DEF Add, TypeOK
      <3>2. task'[t].pc = "idle" /\ \A u \in Tasks : u # t => task'[u] = task[u]
        BY <1>12, EndFacts DEF Add, Idle
      <3> QED
        BY <1>12, <2>1, <2>3, <3>1, <3>2, QuietStep DEF Add
    <2> QED
      BY <2>2, <2>3
  <1>13. ASSUME NEW t \in Tasks, Drop(t)
        PROVE  ShardInv(s)'
    <2>1. ShardInv(s) /\ task[t].pc # "add"
      BY <1>13 DEF Drop, StretchInv
    <2>2. task'[t].pc = "idle" /\ \A u \in Tasks : u # t => task'[u] = task[u]
      BY <1>13, EndFacts DEF Drop, Idle
    <2> QED
      BY <1>13, <2>1, <2>2, QuietStep DEF Drop
  <1> QED
    BY <1>1, <1>2, <1>3, <1>4, <1>5, <1>6, <1>7, <1>8, <1>9, <1>10, <1>11, <1>12, <1>13
       DEF Next, Step

(* The invariant holds of every execution. *)
THEOREM Invariance ==
    Spec => []Inv
  <1>1. Init => Inv
    <2> SUFFICES ASSUME Init PROVE Inv
      OBVIOUS
    <2>1. TypeOK
      BY PoolSizeAssumption, SizesAssumption, Numbers DEF Init, TypeOK, Shards, PCs, Idle
    <2>2. OneReseeder /\ FlagHasOwner
      BY DEF Init, OneReseeder, FlagHasOwner, Reseeding, Idle
    <2>3. ASSUME NEW s \in Shards
          PROVE  ShardInv(s)
      <3>1. Filling(s) = {} /\ Uncounted(s) = {} /\ drawn[s] = 0 /\ bytesSince[s] = 0
        BY DEF Init, Filling, Uncounted, Idle
      <3>2. Cardinality(Filling(s)) = 0 /\ Cardinality(Uncounted(s)) = 0
        BY <3>1, FS_EmptySet
      <3>3. MaxN * 0 = 0
        BY SizesAssumption
      <3> QED
        BY <3>1, <3>2, <3>3, Numbers DEF ShardInv, Counted, Reserved
    <2> QED
      BY <2>1, <2>2, <2>3 DEF Inv, StretchInv
  <1>2. Inv /\ [Next]_vars => Inv'
    BY TypeStep, FlagStep, StretchStep DEF Inv
  <1> QED
    BY <1>1, <1>2, PTL DEF Spec

(* The state is well typed. *)
THEOREM TypeCorrectness ==
    Spec => []TypeOK
  BY Invariance, PTL DEF Inv

(* Two requests never reseed one shard at the same time. *)
THEOREM ReseederIsAlone ==
    Spec => []OneReseeder
  BY Invariance, PTL DEF Inv

(* Until a client disconnects, every raised flag has a request that will   *)
(* lower it.                                                               *)
THEOREM FlagIsOwned ==
    Spec => []FlagHasOwner
  BY Invariance, PTL DEF Inv

(* The bytes drawn from a shard's generator stay within the threshold plus *)
(* one request per task, unless the shard failed to reseed or served       *)
(* during a reseed, for any number of shards and tasks and any sizes.      *)
THEOREM ShardStretchIsBounded ==
    Spec => []ShardStretchBounded
  <1>1. Inv => ShardStretchBounded
    BY DEF Inv, StretchInv, ShardInv, ShardStretchBounded
  <1> QED
    BY <1>1, Invariance, PTL

(* The safety half of PoolServesEveryRequest: a request ends with its      *)
(* bytes drawn or because its client disconnected, whatever the QRNG does. *)
THEOREM EndIsServedOrDropped ==
    Spec => EndsServedOrDropped
  <1> DEFINE Draws(t) == drawn'[task[t].shard] =
                            UpTo(StretchBound + 1, drawn[task[t].shard] + task[t].n)
             Good(t) == /\ task[t].pc # "idle" /\ task'[t].pc = "idle" =>
                              task[t].pc = "add" \/ drops' > drops
                        /\ task[t].pc # "add" /\ task'[t].pc = "add" => Draws(t)
  <1>1. ASSUME TypeOK, Next, NEW u \in Tasks
        PROVE  Good(u)
    <2>1. ASSUME NEW t \in Tasks, NEW n \in 0..MaxN, Pick(t, n)
          PROVE  Good(u)
      <3>1. task[t].pc = "idle" /\ task' = [task EXCEPT ![t] = At("check", nextShard, n)]
        BY <2>1 DEF Pick, Idle
      <3>2. task'[t].pc = "check" /\ (u # t => task'[u] = task[u])
        BY <1>1, <3>1 DEF TypeOK, At
      <3> QED
        BY <3>1, <3>2
    <2>2. ASSUME NEW t \in Tasks,
                 Check(t) \/ Cas(t) \/ FetchOk(t) \/ FetchFail(t) \/ Install(t) \/ Zero(t) \/ Clear(t)
          PROVE  Good(u)
      <3>1. Moves(t, PCs, PCs \ {"idle", "add"})
        BY <2>2 DEF Check, Cas, FetchOk, FetchFail, Install, Zero, Clear, Moves, PCs
      <3>2. task'[t].pc \notin {"idle", "add"} /\ (u # t => task'[u] = task[u])
        BY <1>1, <3>1, MoveFacts
      <3> QED
        BY <3>2
    <2>3. ASSUME NEW t \in Tasks, Fill(t)
          PROVE  Good(u)
      <3>1. Moves(t, PCs, {"add"})
        BY <2>3 DEF Fill, Moves, PCs
      <3>2. task'[t].pc = "add" /\ (u # t => task'[u] = task[u])
        BY <1>1, <3>1, MoveFacts DEF PCs
      <3>3. Draws(t)
        <4>1. task[t].shard \in Shards /\ drawn \in [Shards -> 0..(StretchBound + 1)]
          BY <1>1 DEF TypeOK
        <4> QED
          BY <2>3, <4>1 DEF Fill
      <3> QED
        BY <3>2, <3>3
    <2>4. ASSUME NEW t \in Tasks, Add(t)
          PROVE  Good(u)
      <3>1. task[t].pc = "add" /\ task'[t] = Idle /\ (u # t => task'[u] = task[u])
        BY <1>1, <2>4, EndFacts DEF Add
      <3> QED
        BY <3>1 DEF Idle
    <2>5. ASSUME NEW t \in Tasks, Drop(t)
          PROVE  Good(u)
      <3>1. task'[t] = Idle /\ (u # t => task'[u] = task[u])
        BY <1>1, <2>5, EndFacts DEF Drop
      <3>2. drops' > drops
        BY <1>1, <2>5 DEF Drop, TypeOK
      <3> QED
        BY <3>1, <3>2 DEF Idle
    <2> QED
      BY <1>1, <2>1, <2>2, <2>3, <2>4, <2>5 DEF Next, Step
  <1>2. TypeOK /\ [Next]_vars =>
            [\A t \in Tasks :
                /\ task[t].pc # "idle" /\ task'[t].pc = "idle" => task[t].pc = "add" \/ drops' > drops
                /\ task[t].pc # "add" /\ task'[t].pc = "add" =>
                      LET s == task[t].shard
                      IN  drawn'[s] = UpTo(StretchBound + 1, drawn[s] + task[t].n)]_vars
    BY <1>1
  <1> QED
    BY <1>2, TypeCorrectness, PTL DEF Spec, EndsServedOrDropped
=============================================================================
