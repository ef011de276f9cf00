--------------------------- MODULE BenchmarkProofs ---------------------------
(***************************************************************************)
(* Proofs about BulkEnrol, Benchmark and the report of Percentile, for any *)
(* number of devices, key pairs, users files, restarts, broken runs,       *)
(* workers and requests.                                                   *)
(***************************************************************************)
EXTENDS MCBenchmark, FiniteSetTheorems, SequenceTheorems, TLAPS

Posting(r) == r.pc \in {"post", "append", "newline"} /\ r.pair \in 1..MaxPairs

(* TypeOK, with a pair for every run that is under way. *)
Typed == TypeOK /\ (run = Idle \/ Posting(run))

(* Every request that was begun has been counted or waits for its answer,  *)
(* and no worker begins one after the deadline.                            *)
Waiting == {w \in Workers : worker[w] = "sent"}

Balanced ==
    /\ TotalRequests + Cardinality(Waiting) = started
    /\ over => TotalRequests + Cardinality(Waiting) <= atDeadline + Concurrency
    /\ atDeadline <= started

(* As long as no run has ended inside append_user, every line holds one    *)
(* record, and only the run that has written the last line can be about to *)
(* end it.                                                                 *)
Whole == ~cut => Readable /\ (unended => run.pc = "newline")

(* Pairs are new: those of the table and of late posts exist, and the pair *)
(* that a run is posting or has posted is not one of another device or of  *)
(* a late post.                                                            *)
Numbered ==
    /\ \A d \in Devices : table[d] <= pairs
    /\ \A o \in orphans : o.pair <= pairs /\ o.pair \in lost
    /\ run.pair <= pairs
    /\ run.pc \in {"post", "append"} => \A o \in orphans : o.pair # run.pair
    /\ run.pc = "post" => \A d \in Devices : table[d] # run.pair
    /\ run.pc = "append" => \A d \in Devices : table[d] = run.pair => d = run.dev

(* Where the last record of device d is in file L, if there is one: the    *)
(* maxima in LastPair exist.                                               *)
LinesIn(L, d) == {i \in DOMAIN L : \E j \in DOMAIN L[i] : L[i][j].dev = d}
PiecesIn(L, d, i) == {j \in DOMAIN L[i] : L[i][j].dev = d}
IsLast(m, S) == m \in S /\ \A k \in S : k <= m
LastAt(L, d, i, j) == IsLast(i, LinesIn(L, d)) /\ IsLast(j, PiecesIn(L, d, i))

Found ==
    \A d \in Devices :
        LinesIn(lines, d) # {} =>
            \E i \in DOMAIN lines : \E j \in DOMAIN lines[i] : LastAt(lines, d, i, j)

(* While a run appends, the server has its pair or one that was lost. *)
Appending ==
    run.pc = "append" => table[run.dev] \in {None, run.pair} \cup lost

(* A file that one run has filled has, for each of its devices, the pair   *)
(* in the table, and so have the contexts made from it.                    *)
CleanFile ==
    /\ origin = "none" => lines = <<>> /\ run = Idle
    /\ origin = "clean" =>
          /\ \A i \in DOMAIN lines : \A j \in DOMAIN lines[i] :
                lines[i][j] # Torn =>
                    /\ table[lines[i][j].dev] = lines[i][j].pair
                    /\ run.pc \in {"post", "append"} => lines[i][j].dev < run.dev
                    /\ run.pc = "newline" => lines[i][j].dev <= run.dev
          /\ run.pc = "append" => table[run.dev] = run.pair

CleanContexts ==
    origin = "clean" /\ Running => \A i \in DOMAIN contexts : table[contexts[i].dev] = contexts[i].pair

IInv ==
    /\ Typed /\ Balanced /\ Whole /\ Numbered /\ Found /\ Appending /\ CredentialsKept
    /\ CleanFile /\ CleanContexts

Pieces == Records \cup {Torn}

BulkTypes ==
    /\ lines \in Seq(Seq(Pieces))
    /\ unended \in BOOLEAN /\ (unended => lines # <<>>)
    /\ run \in [pc : {"idle", "post", "append", "newline"}, dev : Devices, pair : 0..MaxPairs]
    /\ run = Idle \/ Posting(run)
    /\ pairs \in 0..MaxPairs /\ files \in 1..MaxFiles
    /\ restarts \in 0..MaxRestarts /\ breaks \in 0..MaxBreaks
    /\ table \in [Devices -> 0..MaxPairs]
    /\ orphans \subseteq Records /\ lost \subseteq 1..MaxPairs /\ cut \in BOOLEAN
    /\ origin \in {"none", "clean", "stale", "reenrolled", "mixed"}

LoadTypes ==
    /\ contexts \in Seq(Records)
    /\ worker \in [Workers -> {"off", "loop", "sent"}]
    /\ over \in BOOLEAN /\ started \in 0..MaxRequests /\ atDeadline \in 0..MaxRequests
    /\ metrics \in [Outcomes -> 0..MaxRequests]
    /\ Running => contexts # <<>>

LEMMA TypedParts == Typed <=> BulkTypes /\ LoadTypes
BY DEF Typed, TypeOK, BulkTypes, LoadTypes, Pieces

LEMMA Basics ==
    /\ 1 \in Devices /\ Devices \subseteq Nat \ {0} /\ None \notin Devices
    /\ Torn.dev = None /\ Torn \notin Records /\ Torn \in Pieces
    /\ Idle.pc = "idle" /\ Idle.dev = 1 /\ Idle.pair = 0
    /\ \A r \in Records : r.dev \in Devices /\ r.pair \in 1..MaxPairs /\ r # Torn
    /\ \A d \in Devices : \A k \in 1..MaxPairs :
          /\ [dev |-> d, pair |-> k] \in Records
          /\ [dev |-> d, pair |-> k].dev = d /\ [dev |-> d, pair |-> k].pair = k
BY BulkBounds DEF Devices, None, Torn, Records, Pieces, Idle

(* A run that is not idle. *)
LEMMA RunFacts ==
    ASSUME BulkTypes, run # Idle \/ run.pc # "idle"
    PROVE  /\ run # Idle /\ run.pc \in {"post", "append", "newline"}
           /\ run.dev \in Devices /\ run.pair \in 1..MaxPairs
           /\ [dev |-> run.dev, pair |-> run.pair] \in Records
BY Basics DEF BulkTypes, Posting
-----------------------------------------------------------------------------
(* What a piece written to the users file changes: the last line.          *)
LEMMA WrittenFacts ==
    ASSUME BulkTypes, NEW piece \in Pieces, Written(piece)
    PROVE  /\ lines' \in Seq(Seq(Pieces)) /\ lines' # <<>> /\ unended' = TRUE
           /\ \E last, end \in Nat \ {0} :
                  /\ DOMAIN lines' = 1..last /\ DOMAIN lines'[last] = 1..end
                  /\ lines'[last][end] = piece
                  /\ \/ /\ unended
                        /\ DOMAIN lines = 1..last /\ DOMAIN lines[last] = 1..(end - 1)
                        /\ \A j \in 1..(end - 1) : lines'[last][j] = lines[last][j]
                     \/ ~unended /\ DOMAIN lines = 1..(last - 1) /\ end = 1
                  /\ \A i \in 1..(last - 1) : i \in DOMAIN lines /\ lines'[i] = lines[i]
<1>0. lines \in Seq(Seq(Pieces)) /\ Len(lines) \in Nat /\ DOMAIN lines = 1..Len(lines)
      /\ unended \in BOOLEAN
  BY LenProperties DEF BulkTypes
<1>1. CASE unended
  <2> DEFINE last == Len(lines)
             line == lines[last]
             longer == Append(line, piece)
  <2>1. last \in Nat \ {0} /\ last \in 1..Len(lines)
    BY <1>0, <1>1, EmptySeq DEF BulkTypes
  <2>2. line \in Seq(Pieces)
    BY <1>0, <2>1, ElementOfSeq
  <2>3. Len(line) \in Nat /\ DOMAIN line = 1..Len(line)
    BY <2>2, LenProperties
  <2>4. /\ longer \in Seq(Pieces)
        /\ Len(longer) = Len(line) + 1
        /\ longer[Len(line) + 1] = piece
        /\ \A j \in 1..Len(line) : longer[j] = line[j]
    BY <2>2, AppendProperties
  <2>5. DOMAIN longer = 1..(Len(line) + 1)
    BY <2>3, <2>4, LenProperties
  <2>6. lines' = [lines EXCEPT ![Len(lines)] = longer] /\ unended' = TRUE
    BY <1>1 DEF Written
  <2> HIDE DEF longer
  <2>7. /\ lines' \in Seq(Seq(Pieces)) /\ Len(lines') = Len(lines)
        /\ \A i \in 1..Len(lines) : lines'[i] = IF i = Len(lines) THEN longer ELSE lines[i]
    <3> DEFINE S == Seq(Pieces)
    <3>1. lines \in Seq(S) /\ longer \in S /\ Len(lines) \in 1..Len(lines)
      BY <1>0, <2>1, <2>4
    <3> HIDE DEF S
    <3>2. /\ [lines EXCEPT ![Len(lines)] = longer] \in Seq(S)
          /\ Len([lines EXCEPT ![Len(lines)] = longer]) = Len(lines)
          /\ \A i \in 1..Len(lines) :
                [lines EXCEPT ![Len(lines)] = longer][i] = IF i = Len(lines) THEN longer ELSE lines[i]
      BY <3>1, ExceptSeq
    <3> QED BY <2>6, <3>2 DEF S
  <2>8. DOMAIN lines' = 1..Len(lines)
    BY <2>7, LenProperties
  <2>9. lines' # <<>> /\ lines'[Len(lines)] = longer /\ \A i \in 1..(Len(lines) - 1) : lines'[i] = lines[i]
    <3>1. lines' # <<>>
      BY <2>1, <2>7, EmptySeq
    <3>2. lines'[Len(lines)] = longer
      BY <2>1, <2>7
    <3>3. ASSUME NEW i \in 1..(Len(lines) - 1) PROVE lines'[i] = lines[i]
      <4>1. i \in 1..Len(lines) /\ i # Len(lines)
        BY <2>1, <3>3
      <4> QED BY <2>7, <4>1
    <3> QED BY <3>1, <3>2, <3>3
  <2> DEFINE end == Len(line) + 1
  <2>10. /\ end \in Nat \ {0} /\ DOMAIN lines'[last] = 1..end /\ lines'[last][end] = piece
         /\ DOMAIN lines[last] = 1..(end - 1)
         /\ \A j \in 1..(end - 1) : lines'[last][j] = lines[last][j]
    BY <2>3, <2>4, <2>5, <2>9
  <2>11. \A i \in 1..(last - 1) : i \in DOMAIN lines /\ lines'[i] = lines[i]
    BY <1>0, <2>1, <2>9
  <2> HIDE DEF end
  <2>12. /\ last \in Nat \ {0} /\ DOMAIN lines = 1..last /\ DOMAIN lines' = 1..last
    BY <1>0, <2>1, <2>8
  <2> HIDE DEF last
  <2> QED BY <1>1, <2>6, <2>7, <2>9, <2>10, <2>11, <2>12
<1>2. CASE ~unended
  <2> DEFINE last == Len(lines) + 1
             single == <<piece>>
  <2>1. lines' = Append(lines, single) /\ unended' = TRUE
    BY <1>2 DEF Written
  <2>2. single \in Seq(Pieces) /\ DOMAIN single = 1..1 /\ single[1] = piece
    OBVIOUS
  <2> HIDE DEF single
  <2>3. /\ lines' \in Seq(Seq(Pieces)) /\ Len(lines') = Len(lines) + 1 /\ lines' # <<>>
        /\ lines'[Len(lines) + 1] = single
        /\ \A i \in 1..Len(lines) : lines'[i] = lines[i]
    BY <1>0, <2>1, <2>2, AppendProperties
  <2>4. DOMAIN lines' = 1..(Len(lines) + 1)
    BY <2>3, LenProperties
  <2>5. /\ last \in Nat \ {0} /\ DOMAIN lines' = 1..last /\ DOMAIN lines = 1..(last - 1)
        /\ lines'[last] = single
        /\ \A i \in 1..(last - 1) : i \in DOMAIN lines /\ lines'[i] = lines[i]
    BY <1>0, <2>3, <2>4
  <2> HIDE DEF last
  <2> DEFINE end == 1
  <2>6. end \in Nat \ {0} /\ DOMAIN lines'[last] = 1..end /\ lines'[last][end] = piece /\ end = 1
    BY <2>2, <2>5
  <2> HIDE DEF end
  <2> QED BY <1>2, <2>1, <2>3, <2>5, <2>6
<1> QED BY <1>0, <1>1, <1>2
-----------------------------------------------------------------------------
(* A load test does not enrol: whatever Benchmark does, the users file and *)
(* the server's table take a step of BulkEnrol or none.                    *)
LEMMA BulkSteps == [Next]_vars => [BulkNext]_bulkVars
<1> SUFFICES ASSUME [Next]_vars PROVE [BulkNext]_bulkVars
  OBVIOUS
<1>1. CASE FreshFile \/ StartRun \/ BulkStep \/ Break \/ OrphanArrives \/ ServerRestart
  BY <1>1 DEF BulkNext
<1>2. CASE StartTest \/ Deadline \/ UNCHANGED vars
  BY <1>2 DEF StartTest, Deadline, vars
<1>3. ASSUME NEW w \in Workers, WorkerStep(w) PROVE UNCHANGED bulkVars
  BY <1>3 DEF WorkerStep, Stop, Send, BuildFails, Unauthorized, Served, Replayed, Other, Answered
<1> QED BY <1>1, <1>2, <1>3 DEF Next

LEMMA NextPostFacts ==
    ASSUME BulkTypes, NEW d \in Devices, NextPost(d)
    PROVE  /\ pairs' = pairs + 1 /\ pairs' \in 1..MaxPairs /\ pairs' \in 0..MaxPairs /\ pairs \in Nat
           /\ run' = [pc |-> "post", dev |-> d, pair |-> pairs']
           /\ run'.pc = "post" /\ run'.dev = d /\ run'.pair = pairs'
           /\ run' \in [pc : {"idle", "post", "append", "newline"}, dev : Devices, pair : 0..MaxPairs]
           /\ Posting(run')
<1>1. pairs' = pairs + 1 /\ pairs' \in 1..MaxPairs /\ pairs' \in 0..MaxPairs /\ pairs \in Nat
  BY BulkBounds DEF BulkTypes, NextPost
<1>2. run' = [pc |-> "post", dev |-> d, pair |-> pairs']
  BY DEF NextPost
<1>3. run'.pc = "post" /\ run'.dev = d /\ run'.pair = pairs'
  BY <1>2
<1> QED BY <1>1, <1>2, <1>3 DEF Posting

(* A run goes on from one step to the next with its device and its pair. *)
LEMMA GoesOnFacts ==
    ASSUME BulkTypes, run # Idle, NEW pc \in {"append", "newline"}, run' = [run EXCEPT !.pc = pc]
    PROVE  /\ run'.pc = pc /\ run'.dev = run.dev /\ run'.pair = run.pair
           /\ run' \in [pc : {"idle", "post", "append", "newline"}, dev : Devices, pair : 0..MaxPairs]
           /\ Posting(run')
<1>1. run'.pc = pc /\ run'.dev = run.dev /\ run'.pair = run.pair
      /\ run' \in [pc : {"idle", "post", "append", "newline"}, dev : Devices, pair : 0..MaxPairs]
  BY DEF BulkTypes
<1> QED BY <1>1 DEF Posting, BulkTypes

LEMMA IdleTyped ==
    Idle \in [pc : {"idle", "post", "append", "newline"}, dev : Devices, pair : 0..MaxPairs]
BY Basics, BulkBounds DEF Idle, None

LEMMA EndLineFacts ==
    ASSUME BulkTypes, EndLine
    PROVE  /\ run.pc = "newline" /\ unended' = FALSE
           /\ UNCHANGED <<lines, files, restarts, breaks, table, orphans, lost, cut, origin>>
           /\ \/ /\ run.dev + 1 \in Devices /\ run.dev < run.dev + 1 /\ NextPost(run.dev + 1)
              \/ run' = Idle /\ pairs' = pairs
<1>1. run.dev \in 1..Count /\ Count \in Nat
  BY BulkBounds DEF BulkTypes, Devices
<1>2. run.dev < Count => run.dev + 1 \in Devices /\ run.dev < run.dev + 1
  BY <1>1 DEF Devices
<1> QED BY <1>2 DEF EndLine

LEMMA BreakFacts ==
    ASSUME BulkTypes, Break
    PROVE  /\ run # Idle /\ run.pc \in {"post", "append", "newline"}
           /\ run.dev \in Devices /\ run.pair \in 1..MaxPairs
           /\ [dev |-> run.dev, pair |-> run.pair] \in Records
           /\ run' = Idle /\ breaks' \in 0..MaxBreaks
           /\ lost \subseteq lost' /\ lost' \subseteq lost \cup {run.pair}
           /\ run.pc # "newline" => run.pair \in lost'
           /\ cut' \in BOOLEAN /\ (~cut' => ~cut /\ run.pc = "post")
           /\ UNCHANGED <<pairs, files, restarts, origin>>
           /\ \/ UNCHANGED <<lines, unended, table, orphans>>
              \/ /\ run.pc = "post" /\ table' = [table EXCEPT ![run.dev] = run.pair]
                 /\ UNCHANGED <<lines, unended, orphans>>
              \/ /\ run.pc = "post"
                 /\ orphans' = orphans \cup {[dev |-> run.dev, pair |-> run.pair]}
                 /\ UNCHANGED <<lines, unended, table>>
              \/ run.pc = "append" /\ Written(Torn) /\ UNCHANGED <<table, orphans>>
<1>1. /\ run # Idle /\ run.pc \in {"post", "append", "newline"}
      /\ run.dev \in Devices /\ run.pair \in 1..MaxPairs
      /\ [dev |-> run.dev, pair |-> run.pair] \in Records
  BY RunFacts DEF Break
<1>2. breaks' \in 0..MaxBreaks
  BY BulkBounds DEF Break, BulkTypes
<1>3. cut' = (cut \/ run.pc \in {"append", "newline"})
  BY DEF Break
<1>4. cut' \in BOOLEAN /\ (~cut' => ~cut /\ run.pc \notin {"append", "newline"})
  BY <1>3
<1>5. ~cut' => ~cut /\ run.pc = "post"
  BY <1>1, <1>4
<1>6. lost' = IF run.pc = "newline" THEN lost ELSE lost \cup {run.pair}
  BY DEF Break
<1>7. \/ UNCHANGED <<lines, unended, table, orphans>>
      \/ /\ run.pc = "post" /\ table' = [table EXCEPT ![run.dev] = run.pair]
         /\ UNCHANGED <<lines, unended, orphans>>
      \/ /\ run.pc = "post"
         /\ orphans' = orphans \cup {[dev |-> run.dev, pair |-> run.pair]}
         /\ UNCHANGED <<lines, unended, table>>
      \/ run.pc = "append" /\ Written(Torn) /\ UNCHANGED <<table, orphans>>
  BY DEF Break, fileVars
<1> QED BY <1>1, <1>2, <1>4, <1>5, <1>6, <1>7 DEF Break

LEMMA BulkTypesNext == BulkTypes /\ [BulkNext]_bulkVars => BulkTypes'
<1> SUFFICES ASSUME BulkTypes, [BulkNext]_bulkVars PROVE BulkTypes'
  OBVIOUS
<1>1. CASE UNCHANGED bulkVars
  BY <1>1 DEF bulkVars, BulkTypes, Posting
<1>2. CASE FreshFile
  <2>1. <<>> \in Seq(Seq(Pieces))
    OBVIOUS
  <2>2. files' \in 1..MaxFiles /\ lost' \subseteq 1..MaxPairs
    <3>1. \A d \in Devices : table[d] \in 0..MaxPairs
      BY DEF BulkTypes
    <3>2. ({table[d] : d \in Devices} \ {None}) \subseteq 1..MaxPairs
      BY <3>1, BulkBounds DEF None
    <3>3. lost' \subseteq 1..MaxPairs
      BY <1>2, <3>2 DEF FreshFile, BulkTypes
    <3>4. files' \in 1..MaxFiles
      BY <1>2, BulkBounds DEF FreshFile, BulkTypes
    <3> QED BY <3>3, <3>4
  <2> QED BY <1>2, <2>1, <2>2 DEF FreshFile, BulkTypes
<1>3. CASE StartRun
  <2>1. NextPost(1)
    BY <1>3 DEF StartRun
  <2> QED BY <1>3, <2>1, Basics, NextPostFacts DEF StartRun, BulkTypes, fileVars
<1>4. CASE Enrolled
  <2>1. run # Idle /\ run.dev \in Devices /\ run.pair \in 1..MaxPairs
    BY <1>4, RunFacts, Basics DEF Enrolled
  <2>2. table' \in [Devices -> 0..MaxPairs]
    BY <1>4, <2>1 DEF Enrolled, BulkTypes
  <2> QED BY <1>4, <2>1, <2>2, GoesOnFacts DEF Enrolled, BulkTypes, fileVars
<1>5. CASE AppendUser
  <2> DEFINE piece == [dev |-> run.dev, pair |-> run.pair]
  <2>1. run # Idle /\ piece \in Pieces
    BY <1>5, RunFacts, Basics DEF AppendUser, Pieces
  <2>2. Written(piece)
    BY <1>5 DEF AppendUser
  <2>3. lines' \in Seq(Seq(Pieces)) /\ lines' # <<>> /\ unended' = TRUE
    BY <2>1, <2>2, WrittenFacts
  <2> QED BY <1>5, <2>1, <2>3, GoesOnFacts DEF AppendUser, BulkTypes
<1>6. CASE EndLine
  BY <1>6, EndLineFacts, NextPostFacts, IdleTyped DEF BulkTypes
<1>7. CASE Break
  <2>1. /\ run.pair \in 1..MaxPairs /\ [dev |-> run.dev, pair |-> run.pair] \in Records
        /\ run.dev \in Devices
    BY <1>7, BreakFacts
  <2>2. /\ breaks' \in 0..MaxBreaks /\ lost' \subseteq 1..MaxPairs /\ cut' \in BOOLEAN /\ run' = Idle
        /\ UNCHANGED <<pairs, files, restarts, origin>>
    BY <1>7, <2>1, BreakFacts DEF BulkTypes
  <2>3. /\ lines' \in Seq(Seq(Pieces)) /\ unended' \in BOOLEAN /\ (unended' => lines' # <<>>)
        /\ table' \in [Devices -> 0..MaxPairs] /\ orphans' \subseteq Records
    <3>1. CASE Written(Torn) /\ UNCHANGED <<table, orphans>>
      BY <3>1, Basics, WrittenFacts DEF BulkTypes
    <3>2. CASE UNCHANGED <<lines, unended, table, orphans>>
      BY <3>2 DEF BulkTypes
    <3>3. CASE table' = [table EXCEPT ![run.dev] = run.pair] /\ UNCHANGED <<lines, unended, orphans>>
      BY <2>1, <3>3 DEF BulkTypes
    <3>4. CASE orphans' = orphans \cup {[dev |-> run.dev, pair |-> run.pair]}
               /\ UNCHANGED <<lines, unended, table>>
      BY <2>1, <3>4 DEF BulkTypes
    <3> QED BY <1>7, <3>1, <3>2, <3>3, <3>4, BreakFacts
  <2> QED BY <2>2, <2>3, IdleTyped DEF BulkTypes
<1>8. CASE OrphanArrives
  <2>1. PICK o \in orphans : /\ table' = [table EXCEPT ![o.dev] = o.pair]
                             /\ orphans' = orphans \ {o}
    BY <1>8 DEF OrphanArrives
  <2>2. o.dev \in Devices /\ o.pair \in 1..MaxPairs
    BY Basics DEF BulkTypes
  <2>3. table' \in [Devices -> 0..MaxPairs] /\ orphans' \subseteq Records
    BY <2>1, <2>2 DEF BulkTypes
  <2> QED BY <1>8, <2>3 DEF OrphanArrives, BulkTypes, fileVars
<1>9. CASE ServerRestart
  <2>1. restarts' \in 0..MaxRestarts /\ table' \in [Devices -> 0..MaxPairs] /\ orphans' = {}
    BY <1>9, BulkBounds DEF ServerRestart, BulkTypes, None
  <2> QED BY <1>9, <2>1 DEF ServerRestart, BulkTypes, fileVars
<1> QED BY <1>1, <1>2, <1>3, <1>4, <1>5, <1>6, <1>7, <1>8, <1>9 DEF BulkNext, BulkStep
-----------------------------------------------------------------------------
(* The last record of a device in a users file. *)
LastPairIn(L, d) ==
    LET own == LinesIn(L, d)
    IN  IF own = {} THEN None
        ELSE LET i == CHOOSE i \in own : \A k \in own : k <= i
                 js == PiecesIn(L, d, i)
             IN  L[i][CHOOSE j \in js : \A k \in js : k <= j].pair

LEMMA LastPairOfFile ==
    ASSUME NEW d
    PROVE  LastPair(d) = LastPairIn(lines, d) /\ LastPair(d)' = LastPairIn(lines', d)
BY DEF LastPair, LastPairIn, LinesIn, PiecesIn

LEMMA LastIsUnique ==
    ASSUME NEW S \in SUBSET Nat, NEW m, IsLast(m, S)
    PROVE  m = CHOOSE i \in S : \A k \in S : k <= i
<1> DEFINE c == CHOOSE i \in S : \A k \in S : k <= i
<1>1. c \in S /\ \A k \in S : k <= c
  BY DEF IsLast
<1> HIDE DEF c
<1>2. c <= m /\ m <= c /\ c \in Nat /\ m \in Nat
  BY <1>1 DEF IsLast
<1> QED BY <1>2 DEF c

LEMMA LastPairAt ==
    ASSUME NEW L \in Seq(Seq(Pieces)), NEW d, NEW i, NEW j, LastAt(L, d, i, j)
    PROVE  LastPairIn(L, d) = L[i][j].pair /\ i \in DOMAIN L /\ j \in DOMAIN L[i]
<1>1. i \in DOMAIN L /\ j \in DOMAIN L[i] /\ LinesIn(L, d) # {}
  BY DEF LastAt, IsLast, LinesIn, PiecesIn
<1>2. L[i] \in Seq(Pieces)
  BY <1>1, LenProperties, ElementOfSeq
<1>3. DOMAIN L \subseteq Nat /\ DOMAIN L[i] \subseteq Nat
  BY <1>2, LenProperties
<1>4. LinesIn(L, d) \in SUBSET Nat /\ PiecesIn(L, d, i) \in SUBSET Nat
  BY <1>3 DEF LinesIn, PiecesIn
<1>5. /\ i = CHOOSE m \in LinesIn(L, d) : \A k \in LinesIn(L, d) : k <= m
      /\ j = CHOOSE m \in PiecesIn(L, d, i) : \A k \in PiecesIn(L, d, i) : k <= m
  BY <1>4, LastIsUnique DEF LastAt
<1> QED BY <1>1, <1>5 DEF LastPairIn

(* A record written to the file is the last one of its device; the last    *)
(* one of another device stays.                                            *)
LEMMA LastWritten ==
    ASSUME BulkTypes, Found, NEW piece \in Pieces, Written(piece), NEW d \in Devices
    PROVE  /\ LastPair(d)' = IF piece.dev = d THEN piece.pair ELSE LastPair(d)
           /\ LinesIn(lines', d) # {} =>
                 \E i \in DOMAIN lines' : \E j \in DOMAIN lines'[i] : LastAt(lines', d, i, j)
<1>1. lines' \in Seq(Seq(Pieces)) /\ lines \in Seq(Seq(Pieces))
  BY WrittenFacts DEF BulkTypes
<1>2. PICK last \in Nat \ {0}, end \in Nat \ {0} :
                  /\ DOMAIN lines' = 1..last /\ DOMAIN lines'[last] = 1..end
                  /\ lines'[last][end] = piece
                  /\ \/ /\ unended
                        /\ DOMAIN lines = 1..last /\ DOMAIN lines[last] = 1..(end - 1)
                        /\ \A j \in 1..(end - 1) : lines'[last][j] = lines[last][j]
                     \/ ~unended /\ DOMAIN lines = 1..(last - 1) /\ end = 1
                  /\ \A i \in 1..(last - 1) : i \in DOMAIN lines /\ lines'[i] = lines[i]
  BY WrittenFacts
<1>3. last \in DOMAIN lines' /\ end \in DOMAIN lines'[last]
  BY <1>2
<1>4. CASE piece.dev = d
  <2>1. last \in LinesIn(lines', d) /\ end \in PiecesIn(lines', d, last)
    BY <1>2, <1>3, <1>4 DEF LinesIn, PiecesIn
  <2>2. LastAt(lines', d, last, end)
    BY <1>2, <2>1 DEF LastAt, IsLast, LinesIn, PiecesIn
  <2>3. LastPairIn(lines', d) = piece.pair
    BY <1>1, <1>2, <2>2, LastPairAt
  <2> QED BY <1>3, <1>4, <2>2, <2>3, LastPairOfFile
<1>5. CASE piece.dev # d
  <2>1. ASSUME NEW i \in DOMAIN lines
        PROVE  i \in DOMAIN lines' /\ PiecesIn(lines', d, i) = PiecesIn(lines, d, i)
    <3>1. CASE i \in 1..(last - 1)
      BY <1>2, <3>1 DEF PiecesIn
    <3>2. CASE i \notin 1..(last - 1)
      <4>1. i = last /\ DOMAIN lines[last] = 1..(end - 1)
            /\ \A j \in 1..(end - 1) : lines'[last][j] = lines[last][j]
        BY <1>2, <3>2
      <4> QED BY <1>2, <1>5, <4>1 DEF PiecesIn
    <3> QED BY <3>1, <3>2
  <2>2. ASSUME NEW i \in DOMAIN lines' \ DOMAIN lines PROVE PiecesIn(lines', d, i) = {}
    <3>1. i = last /\ end = 1
      BY <1>2
    <3> QED BY <1>2, <1>5, <3>1 DEF PiecesIn
  <2>3. LinesIn(lines', d) = LinesIn(lines, d)
    <3>1. \A L, i : i \in LinesIn(L, d) <=> i \in DOMAIN L /\ PiecesIn(L, d, i) # {}
      BY DEF LinesIn, PiecesIn
    <3> QED BY <2>1, <2>2, <3>1
  <2>4. CASE LinesIn(lines, d) = {}
    <3>1. LastPairIn(lines', d) = None /\ LastPairIn(lines, d) = None
      BY <2>3, <2>4 DEF LastPairIn
    <3> QED BY <1>5, <2>3, <2>4, <3>1, LastPairOfFile
  <2>5. CASE LinesIn(lines, d) # {}
    <3>1. PICK i \in DOMAIN lines : \E j \in DOMAIN lines[i] : LastAt(lines, d, i, j)
      BY <2>5 DEF Found
    <3>2. PICK j \in DOMAIN lines[i] : LastAt(lines, d, i, j)
      BY <3>1
    <3>3. LastAt(lines', d, i, j)
      BY <2>1, <2>3, <3>2 DEF LastAt
    <3>4. j \in DOMAIN lines'[i] /\ lines'[i][j] = lines[i][j]
      <4>1. CASE i \in 1..(last - 1)
        BY <1>2, <4>1
      <4>2. CASE i \notin 1..(last - 1)
        <5>1. i = last /\ DOMAIN lines[last] = 1..(end - 1)
              /\ \A k \in 1..(end - 1) : lines'[last][k] = lines[last][k]
          BY <1>2, <4>2
        <5> QED BY <1>2, <3>2, <5>1
      <4> QED BY <4>1, <4>2
    <3>5. LastPairIn(lines', d) = lines[i][j].pair /\ LastPairIn(lines, d) = lines[i][j].pair
      BY <1>1, <3>2, <3>3, <3>4, LastPairAt
    <3> QED BY <1>5, <2>1, <3>3, <3>4, <3>5, LastPairOfFile
  <2> QED BY <2>4, <2>5
<1> QED BY <1>4, <1>5

LEMMA FoundNext ==
    ASSUME BulkTypes, Found, [BulkNext]_bulkVars
    PROVE  Found'
<1>1. CASE lines' = lines
  BY <1>1 DEF Found
<1>2. ASSUME NEW piece \in Pieces, Written(piece) PROVE Found'
  BY <1>2, LastWritten DEF Found
<1>3. CASE AppendUser
  <2>1. [dev |-> run.dev, pair |-> run.pair] \in Pieces
    BY <1>3, RunFacts, Basics DEF AppendUser, Pieces
  <2> QED BY <1>2, <1>3, <2>1 DEF AppendUser
<1>4. CASE FreshFile
  <2>1. lines' = <<>> /\ DOMAIN <<>> = {}
    BY <1>4 DEF FreshFile
  <2>2. \A d \in Devices : LinesIn(lines', d) = {}
    BY <2>1 DEF LinesIn
  <2> QED BY <2>2 DEF Found
<1>5. CASE Break
  <2>1. lines' = lines \/ Written(Torn)
    BY <1>5, BreakFacts
  <2> QED BY <1>1, <1>2, <2>1, Basics
<1>6. CASE StartRun \/ Enrolled \/ EndLine \/ OrphanArrives \/ ServerRestart \/ UNCHANGED bulkVars
  BY <1>1, <1>6 DEF StartRun, Enrolled, EndLine, OrphanArrives, ServerRestart, fileVars, bulkVars
<1> QED BY <1>3, <1>4, <1>5, <1>6 DEF BulkNext, BulkStep
-----------------------------------------------------------------------------
(* Pairs and their devices. *)
LEMMA Counters ==
    ASSUME BulkTypes
    PROVE  /\ pairs \in Nat /\ run.pair \in Nat
           /\ \A d \in Devices : table[d] \in Nat
           /\ \A o \in orphans : o.dev \in Devices /\ o.pair \in Nat /\ o.pair \in 1..MaxPairs
<1>1. pairs \in Nat /\ run.pair \in Nat /\ \A d \in Devices : table[d] \in Nat
  BY BulkBounds DEF BulkTypes
<1>2. \A o \in orphans : o.dev \in Devices /\ o.pair \in Nat /\ o.pair \in 1..MaxPairs
  BY BulkBounds, Basics DEF BulkTypes
<1> QED BY <1>1, <1>2

(* A new pair is later than every pair there is. *)
LEMMA NumberedPost ==
    ASSUME BulkTypes, Numbered, NEW d \in Devices, NextPost(d), UNCHANGED <<table, orphans, lost>>
    PROVE  Numbered'
<1>1. /\ pairs' = pairs + 1 /\ run'.pc = "post" /\ run'.pair = pairs' /\ pairs \in Nat
  BY NextPostFacts
<1>2. \A e \in Devices : table[e] \in Nat /\ table[e] <= pairs
  BY Counters DEF Numbered
<1>3. \A o \in orphans : o.pair \in Nat /\ o.pair <= pairs /\ o.pair \in lost
  BY Counters DEF Numbered
<1>4. \A e \in Devices : table'[e] <= pairs' /\ table'[e] # run'.pair
  BY <1>1, <1>2
<1>5. \A o \in orphans' : o.pair <= pairs' /\ o.pair # run'.pair /\ o.pair \in lost'
  BY <1>1, <1>3
<1>6. run'.pair <= pairs'
  BY <1>1
<1> QED BY <1>1, <1>4, <1>5, <1>6 DEF Numbered

LEMMA NumberedIdle ==
    ASSUME BulkTypes, Numbered, run' = Idle, pairs' = pairs, lost \subseteq lost',
           \A d \in Devices : table'[d] = table[d] \/ table'[d] = run.pair,
           \A o \in orphans' : o \in orphans \/ (o.pair = run.pair /\ o.pair \in lost')
    PROVE  Numbered'
<1>1. run.pair <= pairs /\ 0 <= pairs
  BY Counters DEF Numbered
<1>2. run'.pc = "idle" /\ run'.pair = 0
  BY Basics
<1> QED BY <1>1, <1>2 DEF Numbered

LEMMA NumberedNext ==
    ASSUME BulkTypes, Numbered, [BulkNext]_bulkVars
    PROVE  Numbered'
<1>1. CASE UNCHANGED bulkVars
  BY <1>1 DEF bulkVars, Numbered
<1>2. CASE FreshFile
  BY <1>2 DEF FreshFile, Numbered
<1>3. CASE StartRun
  BY <1>3, Basics, NumberedPost DEF StartRun
<1>4. CASE Enrolled
  <2>1. /\ run.dev \in Devices /\ run'.pc = "append" /\ run'.dev = run.dev /\ run'.pair = run.pair
    BY <1>4, RunFacts, GoesOnFacts DEF Enrolled
  <2>2. \A d \in Devices : table'[d] = IF d = run.dev THEN run.pair ELSE table[d]
    BY <1>4, <2>1 DEF Enrolled, BulkTypes
  <2> QED BY <1>4, <2>1, <2>2 DEF Enrolled, Numbered
<1>5. CASE AppendUser
  <2>1. run'.pc = "newline" /\ run'.pair = run.pair
    BY <1>5, RunFacts, GoesOnFacts DEF AppendUser
  <2> QED BY <1>5, <2>1 DEF AppendUser, Numbered
<1>6. CASE EndLine
  BY <1>6, EndLineFacts, NumberedPost, NumberedIdle
<1>7. CASE Break
  <2>1. /\ run' = Idle /\ pairs' = pairs /\ lost \subseteq lost' /\ run.dev \in Devices
    BY <1>7, BreakFacts
  <2>2. \A d \in Devices : table'[d] = table[d] \/ table'[d] = run.pair
    BY <1>7, <2>1, BreakFacts DEF BulkTypes
  <2>3. \A o \in orphans' : o \in orphans \/ (o.pair = run.pair /\ o.pair \in lost')
    <3>1. \/ orphans' = orphans
          \/ /\ run.pc = "post" /\ run.pair \in lost'
             /\ orphans' = orphans \cup {[dev |-> run.dev, pair |-> run.pair]}
      BY <1>7, BreakFacts
    <3> QED BY <3>1
  <2> QED BY <2>1, <2>2, <2>3, NumberedIdle
<1>8. CASE OrphanArrives
  <2>1. PICK o \in orphans : /\ table' = [table EXCEPT ![o.dev] = o.pair]
                             /\ orphans' = orphans \ {o}
    BY <1>8 DEF OrphanArrives
  <2>2. \A d \in Devices : table'[d] = table[d] \/ table'[d] = o.pair
    BY <2>1 DEF BulkTypes
  <2>3. o.pair <= pairs /\ (run.pc \in {"post", "append"} => o.pair # run.pair)
    BY DEF Numbered
  <2> QED BY <1>8, <2>1, <2>2, <2>3 DEF OrphanArrives, Numbered
<1>9. CASE ServerRestart
  <2>1. /\ \A d \in Devices : table'[d] = 0
        /\ orphans' = {}
        /\ UNCHANGED <<pairs, run, lost>>
    BY <1>9 DEF ServerRestart, None
  <2>2. 0 <= pairs /\ (run.pc \in {"post", "append"} => run.pair # 0)
    <3>1. pairs \in Nat
      BY Counters
    <3>2. run.pc # "idle" => run.pair \in 1..MaxPairs
      BY RunFacts
    <3> QED BY <3>1, <3>2
  <2>3. run.pair <= pairs
    BY DEF Numbered
  <2>4. 0 \notin 1..MaxPairs
    OBVIOUS
  <2>5. \A d \in Devices : table'[d] <= pairs' /\ (run'.pc \in {"post", "append"} => table'[d] # run'.pair)
    BY <2>1, <2>2
  <2>6. \A o \in orphans' : FALSE
    BY <2>1
  <2> QED BY <2>1, <2>3, <2>5, <2>6 DEF Numbered
<1> QED BY <1>1, <1>2, <1>3, <1>4, <1>5, <1>6, <1>7, <1>8, <1>9 DEF BulkNext, BulkStep
-----------------------------------------------------------------------------
(* What the server has can be used.                                        *)
LEMMA AppendingNext ==
    ASSUME BulkTypes, Numbered, Appending, [BulkNext]_bulkVars
    PROVE  Appending'
<1>1. CASE UNCHANGED bulkVars
  BY <1>1 DEF bulkVars, Appending
<1>2. CASE FreshFile \/ Break
  BY <1>2, BreakFacts, Basics DEF FreshFile, Appending
<1>3. CASE StartRun
  BY <1>3, Basics, NextPostFacts DEF StartRun, Appending
<1>4. CASE Enrolled
  <2>1. run.dev \in Devices /\ run'.dev = run.dev /\ run'.pair = run.pair
    BY <1>4, RunFacts, GoesOnFacts DEF Enrolled
  <2>2. table'[run.dev] = run.pair
    BY <1>4, <2>1 DEF Enrolled, BulkTypes
  <2> QED BY <2>1, <2>2 DEF Appending
<1>5. CASE AppendUser
  BY <1>5, RunFacts, GoesOnFacts DEF AppendUser, Appending
<1>6. CASE EndLine
  BY <1>6, EndLineFacts, NextPostFacts, Basics DEF Appending
<1>7. CASE OrphanArrives
  <2>1. PICK o \in orphans : /\ table' = [table EXCEPT ![o.dev] = o.pair]
                             /\ UNCHANGED <<run, lost>>
    BY <1>7 DEF OrphanArrives
  <2>2. o.pair \in lost
    BY DEF Numbered
  <2>3. \A d \in Devices : table'[d] = table[d] \/ table'[d] \in lost
    BY <2>1, <2>2 DEF BulkTypes
  <2>4. run.pc = "append" => run.dev \in Devices
    BY DEF BulkTypes
  <2> QED BY <2>1, <2>3, <2>4 DEF Appending
<1>8. CASE ServerRestart
  <2>1. \A d \in Devices : table'[d] = None
    BY <1>8 DEF ServerRestart
  <2>2. run.dev \in Devices
    BY DEF BulkTypes
  <2> QED BY <1>8, <2>1, <2>2 DEF ServerRestart, Appending
<1> QED BY <1>1, <1>2, <1>3, <1>4, <1>5, <1>6, <1>7, <1>8 DEF BulkNext, BulkStep

(* Steps that leave the file alone and do not end an append. *)
LEMMA KeptFrame ==
    ASSUME CredentialsKept, lost \subseteq lost',
           \A d \in Devices : \/ table'[d] \in {None} \cup lost'
                              \/ run'.pc = "append" /\ run'.pair = table'[d]
                              \/ table'[d] = table[d] /\ LastPair(d)' = LastPair(d),
           run.pc = "append" => \/ run.pair \in lost'
                                \/ run'.pc = "append" /\ run'.pair = run.pair
    PROVE  CredentialsKept'
BY DEF CredentialsKept

LEMMA KeptNext ==
    ASSUME BulkTypes, Numbered, Found, Appending, CredentialsKept, [BulkNext]_bulkVars
    PROVE  CredentialsKept'
<1>0. ASSUME lines' = lines, NEW d PROVE LastPair(d)' = LastPair(d)
  BY <1>0, LastPairOfFile
<1>1. CASE UNCHANGED bulkVars
  BY <1>0, <1>1, KeptFrame DEF bulkVars
<1>2. CASE FreshFile
  <2>1. \A d \in Devices : table'[d] \in {None} \cup lost'
    BY <1>2 DEF FreshFile
  <2>2. lost \subseteq lost' /\ run.pc # "append"
    BY <1>2, Basics DEF FreshFile
  <2> QED BY <2>1, <2>2, KeptFrame
<1>3. CASE StartRun
  <2>1. run.pc # "append" /\ UNCHANGED <<lines, table, lost>>
    BY <1>3, Basics DEF StartRun, fileVars
  <2> QED BY <1>0, <2>1, KeptFrame
<1>4. CASE Enrolled
  <2>1. /\ run.dev \in Devices /\ run'.pc = "append" /\ run'.pair = run.pair
    BY <1>4, RunFacts, GoesOnFacts DEF Enrolled
  <2>2. \A d \in Devices : table'[d] = table[d] \/ table'[d] = run.pair
    BY <1>4, <2>1 DEF Enrolled, BulkTypes
  <2>3. UNCHANGED <<lines, lost>> /\ run.pc # "append"
    BY <1>4 DEF Enrolled, fileVars
  <2> QED BY <1>0, <2>1, <2>2, <2>3, KeptFrame
<1>5. CASE AppendUser
  <2> DEFINE piece == [dev |-> run.dev, pair |-> run.pair]
  <2>1. /\ run.pc = "append" /\ run.dev \in Devices /\ piece \in Pieces
        /\ piece.dev = run.dev /\ piece.pair = run.pair
    BY <1>5, RunFacts, Basics DEF AppendUser, Pieces
  <2>2. Written(piece) /\ UNCHANGED <<table, lost>>
    BY <1>5 DEF AppendUser
  <2> HIDE DEF piece
  <2>3. ASSUME NEW d \in Devices, table[d] # None
        PROVE  LastPair(d)' = table[d] \/ table[d] \in lost
    <3>1. LastPair(d)' = IF run.dev = d THEN run.pair ELSE LastPair(d)
      BY <2>1, <2>2, LastWritten
    <3>2. CASE d = run.dev
      BY <2>1, <2>3, <3>1, <3>2 DEF Appending
    <3>3. CASE d # run.dev
      BY <2>1, <2>3, <3>1, <3>3 DEF CredentialsKept, Numbered
    <3> QED BY <3>2, <3>3
  <2> QED BY <2>2, <2>3 DEF CredentialsKept
<1>6. CASE EndLine
  <2>1. run.pc # "append" /\ UNCHANGED <<lines, table, lost>>
    BY <1>6, EndLineFacts
  <2> QED BY <1>0, <2>1, KeptFrame
<1>7. CASE Break
  <2>1. /\ lost \subseteq lost' /\ run.dev \in Devices
        /\ run.pc = "append" => run.pair \in lost'
    BY <1>7, BreakFacts
  <2>2. ASSUME NEW d \in Devices
        PROVE  table'[d] \in lost' \/ (table'[d] = table[d] /\ LastPair(d)' = LastPair(d))
    <3>1. CASE UNCHANGED <<lines, table>>
      BY <1>0, <3>1
    <3>2. CASE run.pc = "post" /\ table' = [table EXCEPT ![run.dev] = run.pair] /\ lines' = lines
      <4>1. run.pair \in lost'
        BY <1>7, <3>2, BreakFacts
      <4> QED BY <1>0, <2>1, <3>2, <4>1 DEF BulkTypes
    <3>3. CASE Written(Torn) /\ table' = table
      <4>1. Torn.dev # d
        BY Basics
      <4> QED BY <3>3, <4>1, Basics, LastWritten
    <3> QED BY <1>7, <3>1, <3>2, <3>3, BreakFacts
  <2> QED BY <2>1, <2>2, KeptFrame
<1>8. CASE OrphanArrives
  <2>1. PICK o \in orphans : /\ table' = [table EXCEPT ![o.dev] = o.pair]
                             /\ UNCHANGED <<lines, run, lost>>
    BY <1>8 DEF OrphanArrives, fileVars
  <2>2. o.pair \in lost
    BY DEF Numbered
  <2>3. \A d \in Devices : table'[d] = table[d] \/ table'[d] \in lost'
    BY <2>1, <2>2 DEF BulkTypes
  <2> QED BY <1>0, <2>1, <2>3, KeptFrame
<1>9. CASE ServerRestart
  <2>1. \A d \in Devices : table'[d] = None
    BY <1>9 DEF ServerRestart
  <2> QED BY <1>9, <2>1, KeptFrame DEF ServerRestart
<1> QED BY <1>1, <1>2, <1>3, <1>4, <1>5, <1>6, <1>7, <1>8, <1>9 DEF BulkNext, BulkStep
-----------------------------------------------------------------------------
(* The users file can be read.                                             *)
LEMMA WholeNext ==
    ASSUME BulkTypes, Whole, [BulkNext]_bulkVars
    PROVE  Whole'
<1> SUFFICES ASSUME ~cut' PROVE Readable' /\ (unended' => run'.pc = "newline")
  BY DEF Whole
<1>0. ASSUME lines' = lines PROVE Readable' = Readable
  BY <1>0 DEF Readable, Parses
<1>1. CASE UNCHANGED bulkVars
  BY <1>0, <1>1 DEF bulkVars, Whole
<1>2. CASE FreshFile
  BY <1>2 DEF FreshFile, Readable
<1>3. CASE StartRun
  <2>1. run.pc # "newline" /\ UNCHANGED <<lines, unended, cut>>
    BY <1>3, Basics DEF StartRun, fileVars
  <2> QED BY <1>0, <2>1 DEF Whole
<1>4. CASE Enrolled
  BY <1>0, <1>4 DEF Enrolled, Whole, fileVars
<1>5. CASE AppendUser
  <2> DEFINE piece == [dev |-> run.dev, pair |-> run.pair]
  <2>1. /\ run # Idle /\ run.pc = "append" /\ cut' = cut /\ Written(piece)
        /\ run' = [run EXCEPT !.pc = "newline"]
        /\ piece \in Pieces /\ piece # Torn
    BY <1>5, RunFacts, Basics DEF AppendUser, Pieces
  <2>2. ~unended /\ Readable
    BY <2>1 DEF Whole
  <2> HIDE DEF piece
  <2>3. PICK last \in Nat \ {0}, end \in Nat \ {0} :
                  /\ DOMAIN lines' = 1..last /\ DOMAIN lines'[last] = 1..end
                  /\ lines'[last][end] = piece /\ end = 1
                  /\ \A i \in 1..(last - 1) : i \in DOMAIN lines /\ lines'[i] = lines[i]
    BY <2>1, <2>2, WrittenFacts
  <2>4. lines' \in Seq(Seq(Pieces))
    BY <2>1, WrittenFacts
  <2>5. lines'[last] \in Seq(Pieces)
    BY <2>3, <2>4, LenProperties, ElementOfSeq
  <2>6. Len(lines'[last]) = 1
    <3>1. DOMAIN lines'[last] = 1..1
      BY <2>3
    <3>2. Len(lines'[last]) \in Nat /\ 1..1 = 1..Len(lines'[last])
      BY <2>5, <3>1, LenProperties
    <3>3. 1 \in 1..Len(lines'[last])
      BY <3>2
    <3> DEFINE n == Len(lines'[last])
    <3>4. n \in Nat /\ n \in 1..n
      BY <3>2, <3>3
    <3>5. n \in 1..1
      BY <3>2, <3>4, Zenon
    <3> QED BY <3>4, <3>5
  <2>7. Parses(lines'[last])
    BY <2>1, <2>3, <2>6 DEF Parses
  <2>8. \A i \in 1..(last - 1) : Parses(lines'[i])
    BY <2>2, <2>3 DEF Readable
  <2>9. Readable'
    BY <2>3, <2>7, <2>8 DEF Readable, Parses
  <2> QED BY <2>1, <2>9, GoesOnFacts
<1>6. CASE EndLine
  BY <1>0, <1>6, EndLineFacts DEF Whole
<1>7. CASE Break
  <2>1. ~cut /\ run.pc = "post" /\ UNCHANGED <<lines, unended>>
    BY <1>7, BreakFacts
  <2> QED BY <1>0, <2>1 DEF Whole
<1>8. CASE OrphanArrives \/ ServerRestart
  BY <1>0, <1>8 DEF OrphanArrives, ServerRestart, Whole, fileVars
<1> QED BY <1>1, <1>2, <1>3, <1>4, <1>5, <1>6, <1>7, <1>8 DEF BulkNext, BulkStep
-----------------------------------------------------------------------------
(* A fresh users file and the server.                                      *)
LEMMA WrittenPieces ==
    ASSUME BulkTypes, NEW piece \in Pieces, Written(piece),
           NEW i \in DOMAIN lines', NEW j \in DOMAIN lines'[i]
    PROVE  \/ lines'[i][j] = piece
           \/ i \in DOMAIN lines /\ j \in DOMAIN lines[i] /\ lines'[i][j] = lines[i][j]
<1>1. PICK last \in Nat \ {0}, end \in Nat \ {0} :
                  /\ DOMAIN lines' = 1..last /\ DOMAIN lines'[last] = 1..end
                  /\ lines'[last][end] = piece
                  /\ \/ /\ unended
                        /\ DOMAIN lines = 1..last /\ DOMAIN lines[last] = 1..(end - 1)
                        /\ \A k \in 1..(end - 1) : lines'[last][k] = lines[last][k]
                     \/ ~unended /\ DOMAIN lines = 1..(last - 1) /\ end = 1
                  /\ \A k \in 1..(last - 1) : k \in DOMAIN lines /\ lines'[k] = lines[k]
  BY WrittenFacts
<1>2. CASE i # last
  <2>1. i \in 1..(last - 1)
    BY <1>1, <1>2
  <2> QED BY <1>1, <2>1
<1>3. CASE i = last /\ j # end
  <2>1. j \in 1..(end - 1) /\ last \in 1..last
    BY <1>1, <1>3
  <2>2. CASE end = 1
    BY <2>1, <2>2
  <2>3. CASE end # 1
    BY <1>1, <1>3, <2>1, <2>3
  <2> QED BY <2>2, <2>3
<1>4. CASE i = last /\ j = end
  BY <1>1, <1>4
<1> QED BY <1>2, <1>3, <1>4

LEMMA PiecesTyped ==
    ASSUME BulkTypes, NEW i \in DOMAIN lines, NEW j \in DOMAIN lines[i]
    PROVE  lines[i][j] \in Pieces /\ (lines[i][j] # Torn => lines[i][j].dev \in Devices)
<1>1. lines[i] \in Seq(Pieces)
  BY LenProperties, ElementOfSeq DEF BulkTypes
<1>2. lines[i][j] \in Pieces
  BY <1>1, LenProperties, ElementOfSeq
<1> QED BY <1>2, Basics DEF Pieces

LEMMA Before == \A d, e \in Devices : d < e => d <= e /\ d # e
BY BulkBounds DEF Devices

(* One piece of a clean file. *)
CleanPiece(x) ==
    x # Torn =>
        /\ table[x.dev] = x.pair
        /\ run.pc \in {"post", "append"} => x.dev < run.dev
        /\ run.pc = "newline" => x.dev <= run.dev

LEMMA CleanFileNext ==
    ASSUME BulkTypes, CleanFile, [BulkNext]_bulkVars
    PROVE  CleanFile'
<1>a. origin = "clean" => \A i \in DOMAIN lines : \A j \in DOMAIN lines[i] : CleanPiece(lines[i][j])
  BY DEF CleanFile, CleanPiece
<1>b. (\A i \in DOMAIN lines : \A j \in DOMAIN lines[i] : CleanPiece(lines[i][j]))' /\ origin' = "clean"
      /\ (run'.pc = "append" => table'[run'.dev] = run'.pair) => CleanFile'
  BY DEF CleanFile, CleanPiece
<1>c. origin' \in {"stale", "reenrolled", "mixed"} => CleanFile'
  BY DEF CleanFile
<1>d. origin' \in {"none", "clean", "stale", "reenrolled", "mixed"}
  BY BulkTypesNext DEF BulkTypes
<1>1. CASE UNCHANGED bulkVars
  BY <1>1 DEF bulkVars, CleanFile
<1>2. CASE FreshFile
  BY <1>2 DEF FreshFile, CleanFile
<1>3. CASE StartRun
  <2>1. origin' \in {"reenrolled", "mixed"} \/ (origin' = "clean" /\ origin = "none")
    BY <1>3 DEF StartRun
  <2>2. run'.pc = "post" /\ lines' = lines
    BY <1>3, Basics, NextPostFacts DEF StartRun, fileVars
  <2>3. origin = "none" => DOMAIN lines' = {}
    BY <2>2 DEF CleanFile
  <2> QED BY <1>b, <1>c, <2>1, <2>2, <2>3
<1>4. CASE Enrolled
  <2>1. /\ run # Idle /\ run.pc = "post" /\ run.dev \in Devices
        /\ run'.pc = "append" /\ run'.dev = run.dev /\ run'.pair = run.pair
        /\ lines' = lines /\ origin' = origin
    BY <1>4, RunFacts, GoesOnFacts DEF Enrolled, fileVars
  <2>2. \A d \in Devices : table'[d] = IF d = run.dev THEN run.pair ELSE table[d]
    BY <1>4, <2>1 DEF Enrolled, BulkTypes
  <2>3. ASSUME origin = "clean", NEW i \in DOMAIN lines, NEW j \in DOMAIN lines[i]
        PROVE  CleanPiece(lines[i][j])'
    <3>1. lines[i][j] # Torn => lines[i][j].dev \in Devices /\ lines[i][j].dev < run.dev
                                /\ table[lines[i][j].dev] = lines[i][j].pair
      BY <1>a, <2>1, <2>3, PiecesTyped DEF CleanPiece
    <3>2. run.dev \in Nat /\ Devices \subseteq Nat
      BY <2>1, Basics
    <3>3. lines[i][j] # Torn => table'[lines[i][j].dev] = lines[i][j].pair
      BY <2>1, <2>2, <3>1, Before
    <3>4. lines'[i][j] = lines[i][j] /\ run'.pc = "append" /\ run'.dev = run.dev
      BY <2>1
    <3> QED BY <3>1, <3>3, <3>4 DEF CleanPiece
  <2>4. origin # "none"
    BY <2>1 DEF CleanFile
  <2> QED BY <1>b, <1>c, <1>d, <2>1, <2>2, <2>3, <2>4
<1>5. CASE AppendUser
  <2> DEFINE piece == [dev |-> run.dev, pair |-> run.pair]
  <2>1. /\ run # Idle /\ run.pc = "append" /\ run.dev \in Devices /\ piece \in Pieces
        /\ piece.dev = run.dev /\ piece.pair = run.pair
        /\ run'.pc = "newline" /\ run'.dev = run.dev
        /\ Written(piece) /\ UNCHANGED <<table, origin>>
    BY <1>5, RunFacts, GoesOnFacts, Basics DEF AppendUser, Pieces
  <2> HIDE DEF piece
  <2>2. ASSUME origin = "clean", NEW i \in DOMAIN lines', NEW j \in DOMAIN lines'[i]
        PROVE  CleanPiece(lines[i][j])'
    <3>1. run.dev \in Nat /\ Devices \subseteq Nat
      BY <2>1, Basics
    <3>2. CASE lines'[i][j] = piece
      <4>1. table[run.dev] = run.pair
        BY <2>1, <2>2 DEF CleanFile
      <4> QED BY <2>1, <3>1, <3>2, <4>1 DEF CleanPiece
    <3>3. CASE i \in DOMAIN lines /\ j \in DOMAIN lines[i] /\ lines'[i][j] = lines[i][j]
      <4>1. lines[i][j] # Torn => lines[i][j].dev \in Devices /\ lines[i][j].dev < run.dev
                                  /\ table[lines[i][j].dev] = lines[i][j].pair
        BY <1>a, <2>1, <2>2, <3>3, PiecesTyped DEF CleanPiece
      <4>2. lines[i][j] # Torn => lines[i][j].dev <= run.dev
        BY <2>1, <4>1, Before
      <4>3. run'.pc = "newline" /\ run'.dev = run.dev /\ table' = table
        BY <2>1
      <4> QED BY <3>3, <4>1, <4>2, <4>3 DEF CleanPiece
    <3> QED BY <2>1, <3>2, <3>3, WrittenPieces
  <2>3. origin # "none"
    BY <2>1 DEF CleanFile
  <2> QED BY <1>b, <1>c, <1>d, <2>1, <2>2, <2>3
<1>6. CASE EndLine
  <2>1. /\ run # Idle /\ run.pc = "newline" /\ run.dev \in Devices
        /\ UNCHANGED <<lines, table, origin>>
        /\ \/ run'.pc = "post" /\ run'.dev = run.dev + 1
           \/ run' = Idle
    BY <1>6, EndLineFacts, RunFacts, NextPostFacts
  <2>2. ASSUME origin = "clean", NEW i \in DOMAIN lines, NEW j \in DOMAIN lines[i]
        PROVE  CleanPiece(lines[i][j])'
    <3>1. run.dev \in Nat /\ Devices \subseteq Nat
      BY <2>1, Basics
    <3>2. lines[i][j] # Torn => lines[i][j].dev \in Devices /\ lines[i][j].dev <= run.dev
                                /\ table[lines[i][j].dev] = lines[i][j].pair
      BY <1>a, <2>1, <2>2, PiecesTyped DEF CleanPiece
    <3>3. CASE run'.pc = "post" /\ run'.dev = run.dev + 1
      <4>1. lines[i][j] # Torn => lines[i][j].dev < run.dev + 1
        <5> DEFINE x == lines[i][j].dev
        <5>1. lines[i][j] # Torn => x \in Nat /\ x <= run.dev
          BY <3>1, <3>2
        <5> HIDE DEF x
        <5>2. lines[i][j] # Torn => x < run.dev + 1
          BY <3>1, <5>1
        <5> QED BY <5>2 DEF x
      <4>2. lines' = lines /\ table' = table /\ run'.pc # "newline"
        BY <2>1, <3>3
      <4> QED BY <3>2, <3>3, <4>1, <4>2 DEF CleanPiece
    <3>4. CASE run' = Idle
      <4>1. lines' = lines /\ table' = table /\ run'.pc = "idle"
        BY <2>1, <3>4, Basics
      <4> QED BY <3>2, <4>1 DEF CleanPiece
    <3> QED BY <2>1, <3>3, <3>4
  <2>3. origin # "none"
    BY <2>1 DEF CleanFile
  <2> QED BY <1>b, <1>c, <1>d, <2>1, <2>2, <2>3, Basics
<1>7. CASE Break
  <2>1. /\ run # Idle /\ run.dev \in Devices /\ run' = Idle /\ origin' = origin
    BY <1>7, BreakFacts
  <2>2. ASSUME origin = "clean", NEW i \in DOMAIN lines', NEW j \in DOMAIN lines'[i]
        PROVE  CleanPiece(lines[i][j])'
    <3>1. SUFFICES ASSUME lines'[i][j] # Torn
                   PROVE  table'[lines'[i][j].dev] = lines'[i][j].pair
      BY <2>1, Basics DEF CleanPiece
    <3>2. i \in DOMAIN lines /\ j \in DOMAIN lines[i] /\ lines'[i][j] = lines[i][j]
      <4>1. lines' = lines \/ Written(Torn)
        BY <1>7, BreakFacts
      <4> QED BY <3>1, <4>1, Basics, WrittenPieces
    <3>3. /\ lines[i][j].dev \in Devices /\ table[lines[i][j].dev] = lines[i][j].pair
          /\ run.pc = "post" => lines[i][j].dev < run.dev
      BY <1>a, <2>2, <3>1, <3>2, PiecesTyped DEF CleanPiece
    <3>4. table' = table \/ (run.pc = "post" /\ table' = [table EXCEPT ![run.dev] = run.pair])
      BY <1>7, BreakFacts
    <3>5. run.pc = "post" => lines[i][j].dev # run.dev
      <4>1. run.dev \in Nat /\ Devices \subseteq Nat
        BY <2>1, Basics
      <4> QED BY <3>3, <4>1
    <3> QED BY <3>2, <3>3, <3>4, <3>5 DEF BulkTypes
  <2>3. origin # "none"
    BY <2>1 DEF CleanFile
  <2> QED BY <1>b, <1>c, <1>d, <2>1, <2>2, <2>3, Basics
<1>8. CASE OrphanArrives \/ ServerRestart
  <2>1. lines' = lines /\ run' = run
    BY <1>8 DEF OrphanArrives, ServerRestart, fileVars
  <2>2. \/ origin' = "none" /\ origin = "none"
        \/ origin' \in {"stale", "reenrolled", "mixed"}
    BY <1>8 DEF OrphanArrives, ServerRestart, BulkTypes
  <2> QED BY <1>c, <2>1, <2>2 DEF CleanFile
<1> QED BY <1>1, <1>2, <1>3, <1>4, <1>5, <1>6, <1>7, <1>8 DEF BulkNext, BulkStep

(* load_users takes the record of every line.                              *)
LEMMA Loaded ==
    ASSUME BulkTypes, Readable
    PROVE  /\ LoadUsers \in Seq(Records) /\ Len(LoadUsers) = Len(lines)
           /\ DOMAIN LoadUsers = DOMAIN lines
           /\ \A i \in DOMAIN lines :
                 /\ LoadUsers[i] = lines[i][1] /\ LoadUsers[i] \in Records
                 /\ 1 \in DOMAIN lines[i] /\ lines[i][1] # Torn
<1>1. Len(lines) \in Nat /\ DOMAIN lines = 1..Len(lines)
  BY LenProperties DEF BulkTypes
<1>2. ASSUME NEW i \in DOMAIN lines
      PROVE  lines[i][1] \in Records /\ 1 \in DOMAIN lines[i] /\ lines[i][1] # Torn
  <2>1. lines[i] \in Seq(Pieces) /\ Len(lines[i]) = 1 /\ lines[i][1] # Torn
    BY <1>1, <1>2, ElementOfSeq DEF BulkTypes, Readable, Parses
  <2>2. lines[i][1] \in Pieces /\ 1 \in DOMAIN lines[i]
    <3>1. DOMAIN lines[i] = 1..Len(lines[i]) /\ 1 \in 1..1
      BY <2>1, LenProperties
    <3>2. 1 \in 1..Len(lines[i])
      BY <2>1, <3>1
    <3> QED BY <2>1, <3>1, <3>2, ElementOfSeq
  <2> QED BY <2>1, <2>2 DEF Pieces
<1>3. LoadUsers = [i \in 1..Len(lines) |-> lines[i][1]]
  BY <1>1 DEF LoadUsers
<1>4. LoadUsers \in Seq(Records) /\ Len(LoadUsers) = Len(lines)
  BY <1>1, <1>2, <1>3, IsASeq
<1> QED BY <1>1, <1>2, <1>3, <1>4

(* A worker that takes a step is not off, so the load test runs. *)
LEMMA StepsRun ==
    ASSUME NEW w \in Workers, WorkerStep(w)
    PROVE  Running /\ worker[w] \in {"loop", "sent"} /\ UNCHANGED <<bulkVars, contexts, over, atDeadline>>
BY DEF WorkerStep, Stop, Send, BuildFails, Unauthorized, Served, Replayed, Other, Answered, Running

LEMMA CleanContextsNext ==
    ASSUME BulkTypes, CleanFile, CleanContexts, [Next]_vars
    PROVE  CleanContexts'
<1>1. CASE UNCHANGED vars
  BY <1>1 DEF vars, bulkVars, loadVars, CleanContexts, Running
<1>2. CASE ~Running /\ UNCHANGED loadVars
  BY <1>2 DEF loadVars, CleanContexts, Running
<1>3. CASE OrphanArrives \/ ServerRestart
  BY <1>3 DEF OrphanArrives, ServerRestart, CleanContexts
<1>4. CASE StartTest
  <2>1. Readable /\ contexts' = LoadUsers /\ UNCHANGED <<lines, table, origin>>
    BY <1>4 DEF StartTest, bulkVars
  <2>2. ASSUME origin = "clean", NEW i \in DOMAIN lines
        PROVE  table[LoadUsers[i].dev] = LoadUsers[i].pair
    BY <2>1, <2>2, Loaded DEF CleanFile
  <2> QED BY <2>1, <2>2, Loaded DEF CleanContexts
<1>5. CASE Deadline
  BY <1>5 DEF Deadline, bulkVars, CleanContexts, Running
<1>6. ASSUME NEW w \in Workers, WorkerStep(w) PROVE CleanContexts'
  BY <1>6, StepsRun DEF bulkVars, CleanContexts
<1> QED BY <1>1, <1>2, <1>3, <1>4, <1>5, <1>6 DEF Next
-----------------------------------------------------------------------------
(* Counting requests. *)
LEMMA WaitingFacts ==
    /\ IsFiniteSet(Waiting) /\ Cardinality(Waiting) \in Nat
    /\ Cardinality(Waiting) <= Concurrency /\ Concurrency \in Nat
<1>1. IsFiniteSet(Workers) /\ Cardinality(Workers) = Concurrency /\ Concurrency \in Nat
  BY LoadBounds, FS_Interval DEF Workers
<1>2. Waiting \subseteq Workers
  BY DEF Waiting
<1> QED BY <1>1, <1>2, FS_Subset, FS_CardinalityType

LEMMA FiveCounts ==
    ASSUME NEW a \in Nat, NEW b \in Nat, NEW c \in Nat, NEW d \in Nat, NEW e \in Nat
    PROVE  /\ a + b + c + d + e \in Nat
           /\ a <= a + b + c + d + e /\ b <= a + b + c + d + e /\ c <= a + b + c + d + e
           /\ d <= a + b + c + d + e /\ e <= a + b + c + d + e
           /\ (a + 1) + b + c + d + e = a + b + c + d + e + 1
           /\ a + (b + 1) + c + d + e = a + b + c + d + e + 1
           /\ a + b + (c + 1) + d + e = a + b + c + d + e + 1
           /\ a + b + c + (d + 1) + e = a + b + c + d + e + 1
           /\ a + b + c + d + (e + 1) = a + b + c + d + e + 1
OBVIOUS

LEMMA TotalFacts ==
    ASSUME LoadTypes
    PROVE  /\ TotalRequests \in Nat /\ started \in Nat /\ MaxRequests \in Nat /\ atDeadline \in Nat
           /\ \A o \in Outcomes : metrics[o] \in Nat /\ metrics[o] <= TotalRequests
<1>1. MaxRequests \in Nat /\ \A o \in Outcomes : metrics[o] \in Nat
  BY LoadBounds DEF LoadTypes
<1> DEFINE a == metrics["200"]
           b == metrics["401"]
           c == metrics["409"]
           d == metrics["other"]
           e == metrics["not built"]
<1>2. a \in Nat /\ b \in Nat /\ c \in Nat /\ d \in Nat /\ e \in Nat
  BY <1>1, Zenon DEF Outcomes
<1>3. TotalRequests = a + b + c + d + e
  BY DEF TotalRequests
<1>4. \A o \in Outcomes : metrics[o] \in {a, b, c, d, e}
  BY Zenon DEF Outcomes
<1> HIDE DEF a, b, c, d, e
<1>5. TotalRequests \in Nat /\ \A n \in {a, b, c, d, e} : n <= TotalRequests
  BY <1>2, <1>3, FiveCounts
<1>6. started \in Nat /\ atDeadline \in Nat
  BY LoadBounds DEF LoadTypes
<1> QED BY <1>1, <1>4, <1>5, <1>6, Zenon

LEMMA CountFacts ==
    ASSUME LoadTypes, NEW o \in Outcomes, CountOne(o), TotalRequests < MaxRequests
    PROVE  TotalRequests' = TotalRequests + 1 /\ metrics' \in [Outcomes -> 0..MaxRequests]
<1>1. \A q \in Outcomes : metrics'[q] = IF q = o THEN metrics[o] + 1 ELSE metrics[q]
  BY DEF CountOne, LoadTypes
<1> DEFINE a == metrics["200"]
           b == metrics["401"]
           c == metrics["409"]
           d == metrics["other"]
           e == metrics["not built"]
<1>2. a \in Nat /\ b \in Nat /\ c \in Nat /\ d \in Nat /\ e \in Nat
  BY TotalFacts, Zenon DEF Outcomes
<1>3. TotalRequests = a + b + c + d + e
  BY DEF TotalRequests
<1>4. \/ TotalRequests' = (a + 1) + b + c + d + e
      \/ TotalRequests' = a + (b + 1) + c + d + e
      \/ TotalRequests' = a + b + (c + 1) + d + e
      \/ TotalRequests' = a + b + c + (d + 1) + e
      \/ TotalRequests' = a + b + c + d + (e + 1)
  <2>0. TotalRequests' = metrics'["200"] + metrics'["401"] + metrics'["409"]
                         + metrics'["other"] + metrics'["not built"]
    BY DEF TotalRequests
  <2>1. CASE o = "200"
    <3>1. /\ metrics'["200"] = a + 1 /\ metrics'["401"] = b /\ metrics'["409"] = c
          /\ metrics'["other"] = d /\ metrics'["not built"] = e
      BY <1>1, <2>1, Zenon DEF Outcomes
    <3> QED BY <2>0, <3>1, Zenon
  <2>2. CASE o = "401"
    <3>1. /\ metrics'["200"] = a /\ metrics'["401"] = b + 1 /\ metrics'["409"] = c
          /\ metrics'["other"] = d /\ metrics'["not built"] = e
      BY <1>1, <2>2, Zenon DEF Outcomes
    <3> QED BY <2>0, <3>1, Zenon
  <2>3. CASE o = "409"
    <3>1. /\ metrics'["200"] = a /\ metrics'["401"] = b /\ metrics'["409"] = c + 1
          /\ metrics'["other"] = d /\ metrics'["not built"] = e
      BY <1>1, <2>3, Zenon DEF Outcomes
    <3> QED BY <2>0, <3>1, Zenon
  <2>4. CASE o = "other"
    <3>1. /\ metrics'["200"] = a /\ metrics'["401"] = b /\ metrics'["409"] = c
          /\ metrics'["other"] = d + 1 /\ metrics'["not built"] = e
      BY <1>1, <2>4, Zenon DEF Outcomes
    <3> QED BY <2>0, <3>1, Zenon
  <2>5. CASE o = "not built"
    <3>1. /\ metrics'["200"] = a /\ metrics'["401"] = b /\ metrics'["409"] = c
          /\ metrics'["other"] = d /\ metrics'["not built"] = e + 1
      BY <1>1, <2>5, Zenon DEF Outcomes
    <3> QED BY <2>0, <3>1, Zenon
  <2> QED BY <2>1, <2>2, <2>3, <2>4, <2>5, Zenon DEF Outcomes
<1>5. metrics[o] + 1 \in 0..MaxRequests
  BY TotalFacts
<1>6. metrics' = [metrics EXCEPT ![o] = metrics[o] + 1]
  BY DEF CountOne
<1>7. metrics' \in [Outcomes -> 0..MaxRequests]
  BY <1>5, <1>6 DEF LoadTypes
<1> HIDE DEF a, b, c, d, e
<1>8. TotalRequests' = TotalRequests + 1
  BY <1>2, <1>3, <1>4, FiveCounts
<1> QED BY <1>7, <1>8

LEMMA GotoFacts ==
    ASSUME LoadTypes, NEW w \in Workers, NEW pc \in {"off", "loop", "sent"}, Goto(w, pc)
    PROVE  /\ worker' \in [Workers -> {"off", "loop", "sent"}]
           /\ worker[w] # "sent" /\ pc = "sent" => Cardinality(Waiting') = Cardinality(Waiting) + 1
           /\ worker[w] = "sent" /\ pc # "sent" =>
                 Cardinality(Waiting') = Cardinality(Waiting) - 1 /\ Cardinality(Waiting) > 0
           /\ worker[w] # "sent" /\ pc # "sent" => Waiting' = Waiting
<1>1. /\ worker' \in [Workers -> {"off", "loop", "sent"}]
      /\ \A v \in Workers : worker'[v] = IF v = w THEN pc ELSE worker[v]
  BY DEF Goto, LoadTypes
<1>2. ASSUME worker[w] # "sent", pc = "sent"
      PROVE  Cardinality(Waiting') = Cardinality(Waiting) + 1
  <2>1. Waiting' = Waiting \cup {w} /\ w \notin Waiting
    BY <1>1, <1>2 DEF Waiting
  <2> QED BY <2>1, WaitingFacts, FS_AddElement
<1>3. ASSUME worker[w] = "sent", pc # "sent"
      PROVE  Cardinality(Waiting') = Cardinality(Waiting) - 1 /\ Cardinality(Waiting) > 0
  <2>1. Waiting' = Waiting \ {w} /\ w \in Waiting
    BY <1>1, <1>3 DEF Waiting
  <2>2. Cardinality(Waiting') = Cardinality(Waiting) - 1
    BY <2>1, WaitingFacts, FS_RemoveElement
  <2>3. Cardinality(Waiting) # 0
    BY <2>1, WaitingFacts, FS_EmptySet
  <2> QED BY <2>2, <2>3, WaitingFacts
<1>4. ASSUME worker[w] # "sent", pc # "sent" PROVE Waiting' = Waiting
  BY <1>1, <1>4 DEF Waiting
<1> QED BY <1>1, <1>2, <1>3, <1>4

(* What a step of a worker does to the counts: it begins a request before  *)
(* the deadline, counts one that was waiting, does both at once, or none.  *)
LEMMA WorkerCounts ==
    ASSUME LoadTypes, Balanced, NEW w \in Workers, WorkerStep(w)
    PROVE  /\ worker' \in [Workers -> {"off", "loop", "sent"}]
           /\ metrics' \in [Outcomes -> 0..MaxRequests]
           /\ \/ /\ ~over /\ started < MaxRequests /\ started' = started + 1
                 /\ TotalRequests' + Cardinality(Waiting') = TotalRequests + Cardinality(Waiting) + 1
              \/ /\ started' = started
                 /\ TotalRequests' + Cardinality(Waiting') = TotalRequests + Cardinality(Waiting)
<1> DEFINE T == TotalRequests
           C == Cardinality(Waiting)
<1>0. T \in Nat /\ C \in Nat /\ T + C = started /\ started \in Nat /\ started <= MaxRequests /\ MaxRequests \in Nat
  BY TotalFacts, WaitingFacts, LoadBounds DEF Balanced, LoadTypes
<1>1. CASE Stop(w)
  <2>1. worker[w] # "sent" /\ Goto(w, "off") /\ UNCHANGED <<metrics, started>>
    BY <1>1 DEF Stop
  <2>2. worker' \in [Workers -> {"off", "loop", "sent"}] /\ Waiting' = Waiting
    BY <2>1, GotoFacts
  <2> QED BY <2>1, <2>2 DEF TotalRequests, LoadTypes
<1>2. CASE Send(w)
  <2>1. /\ worker[w] # "sent" /\ Goto(w, "sent") /\ metrics' = metrics
        /\ ~over /\ started < MaxRequests /\ started' = started + 1
    BY <1>2 DEF Send
  <2>2. worker' \in [Workers -> {"off", "loop", "sent"}] /\ Cardinality(Waiting') = C + 1
    BY <2>1, GotoFacts
  <2>3. TotalRequests' = T
    BY <2>1 DEF TotalRequests
  <2> HIDE DEF T, C
  <2>4. TotalRequests' + Cardinality(Waiting') = T + C + 1
    BY <1>0, <2>2, <2>3
  <2> QED BY <2>1, <2>2, <2>4 DEF LoadTypes, T, C
<1>3. CASE BuildFails(w)
  <2>1. /\ CountOne("not built") /\ worker' = worker
        /\ ~over /\ started < MaxRequests /\ started' = started + 1
    BY <1>3 DEF BuildFails
  <2>2. T < MaxRequests /\ "not built" \in Outcomes /\ Waiting' = Waiting
    <3>0. started < MaxRequests
      BY <2>1, Zenon
    <3>1. T < MaxRequests
      <4> HIDE DEF T, C
      <4> QED BY <1>0, <3>0
    <3> QED BY <2>1, <3>1 DEF Outcomes, Waiting
  <2>3. TotalRequests' = T + 1 /\ metrics' \in [Outcomes -> 0..MaxRequests]
    BY <2>1, <2>2, CountFacts
  <2>4. TotalRequests' + Cardinality(Waiting') = T + C + 1
    <3>1. Cardinality(Waiting') = C
      BY <2>2
    <3> HIDE DEF T, C
    <3> QED BY <1>0, <2>3, <3>1
  <2> QED BY <2>1, <2>3, <2>4 DEF LoadTypes
<1>4. ASSUME NEW o \in Outcomes, Answered(w, o)
      PROVE  /\ worker' \in [Workers -> {"off", "loop", "sent"}]
             /\ metrics' \in [Outcomes -> 0..MaxRequests]
             /\ started' = started
             /\ TotalRequests' + Cardinality(Waiting') = T + C
  <2>1. worker[w] = "sent" /\ CountOne(o) /\ Goto(w, "loop") /\ started' = started
    BY <1>4 DEF Answered
  <2>2. /\ worker' \in [Workers -> {"off", "loop", "sent"}]
        /\ Cardinality(Waiting') = C - 1 /\ C > 0
    BY <2>1, GotoFacts
  <2>3. T < MaxRequests
    BY <1>0, <2>2
  <2>4. TotalRequests' = T + 1 /\ metrics' \in [Outcomes -> 0..MaxRequests]
    BY <2>1, <2>3, CountFacts
  <2>5. TotalRequests' + Cardinality(Waiting') = T + C
    BY <1>0, <2>2, <2>4
  <2> QED BY <2>1, <2>2, <2>4, <2>5
<1>5. CASE Unauthorized(w) \/ Served(w) \/ Replayed(w) \/ Other(w)
  <2>1. \E o \in Outcomes : Answered(w, o)
    BY <1>5 DEF Unauthorized, Served, Replayed, Other, Outcomes
  <2> QED BY <1>4, <2>1
<1> QED BY <1>1, <1>2, <1>3, <1>5 DEF WorkerStep

LEMMA LoadNext ==
    ASSUME BulkTypes, LoadTypes, Balanced, [Next]_vars
    PROVE  LoadTypes' /\ Balanced'
<1>0. /\ TotalRequests \in Nat /\ Cardinality(Waiting) \in Nat /\ Cardinality(Waiting) <= Concurrency
      /\ TotalRequests + Cardinality(Waiting) = started
      /\ over => TotalRequests + Cardinality(Waiting) <= atDeadline + Concurrency
      /\ atDeadline <= started /\ started <= MaxRequests
      /\ started \in Nat /\ MaxRequests \in Nat /\ atDeadline \in Nat /\ Concurrency \in Nat
  BY TotalFacts, WaitingFacts DEF Balanced, LoadTypes
<1>1. CASE UNCHANGED loadVars
  BY <1>1 DEF loadVars, LoadTypes, Balanced, TotalRequests, Waiting, Running
<1>2. CASE StartTest
  <2>1. /\ Readable /\ lines # <<>> /\ contexts' = LoadUsers
        /\ worker' = [w \in Workers |-> "loop"] /\ over' = FALSE /\ started' = 0
        /\ metrics' = NoMetrics /\ atDeadline' = 0
    BY <1>2 DEF StartTest
  <2>2. LoadUsers \in Seq(Records) /\ LoadUsers # <<>>
    <3>1. LoadUsers \in Seq(Records) /\ Len(LoadUsers) = Len(lines)
      BY <2>1, Loaded
    <3>2. Len(lines) # 0
      BY <2>1, EmptySeq DEF BulkTypes
    <3> QED BY <3>1, <3>2, EmptySeq
  <2>7. metrics' = [o \in Outcomes |-> 0]
    BY <2>1 DEF NoMetrics
  <2>8. metrics' \in [Outcomes -> 0..MaxRequests] /\ 0 \in 0..MaxRequests
    BY <1>0, <2>7
  <2>3. LoadTypes'
    BY <2>1, <2>2, <2>8 DEF LoadTypes
  <2>4. Waiting' = {}
    BY <2>1 DEF Waiting
  <2>5. TotalRequests' = 0
    <3>1. /\ metrics'["200"] = 0 /\ metrics'["401"] = 0 /\ metrics'["409"] = 0
          /\ metrics'["other"] = 0 /\ metrics'["not built"] = 0
      BY <2>7 DEF Outcomes
    <3>2. 0 + 0 + 0 + 0 + 0 = 0
      OBVIOUS
    <3> QED BY <3>1, <3>2, Zenon DEF TotalRequests
  <2>6. Cardinality(Waiting') = 0
    BY <2>4, FS_EmptySet
  <2> QED BY <2>1, <2>3, <2>5, <2>6 DEF Balanced
<1>3. CASE Deadline
  <2>1. /\ over' = TRUE /\ atDeadline' = TotalRequests
        /\ UNCHANGED <<contexts, worker, started, metrics>>
    BY <1>3 DEF Deadline
  <2>2. Waiting' = Waiting /\ TotalRequests' = TotalRequests /\ Running' = Running
    BY <2>1 DEF Waiting, TotalRequests, Running
  <2>3. TotalRequests \in 0..MaxRequests /\ TotalRequests <= started
    BY <1>0
  <2>4. LoadTypes'
    BY <2>1, <2>2, <2>3 DEF LoadTypes
  <2>5. Balanced'
    <3>1. TotalRequests + Cardinality(Waiting) <= TotalRequests + Concurrency
      BY <1>0
    <3> QED BY <1>0, <2>1, <2>2, <2>3, <3>1 DEF Balanced
  <2> QED BY <2>4, <2>5
<1>4. ASSUME NEW w \in Workers, WorkerStep(w) PROVE LoadTypes' /\ Balanced'
  <2>1. Running /\ UNCHANGED <<contexts, over, atDeadline>>
    BY <1>4, StepsRun
  <2>2. /\ worker' \in [Workers -> {"off", "loop", "sent"}]
        /\ metrics' \in [Outcomes -> 0..MaxRequests]
        /\ \/ /\ ~over /\ started < MaxRequests /\ started' = started + 1
              /\ TotalRequests' + Cardinality(Waiting') = TotalRequests + Cardinality(Waiting) + 1
           \/ /\ started' = started
              /\ TotalRequests' + Cardinality(Waiting') = TotalRequests + Cardinality(Waiting)
    BY <1>4, WorkerCounts
  <2>3. started' \in 0..MaxRequests
    BY <1>0, <2>2
  <2>4. LoadTypes'
    BY <2>1, <2>2, <2>3 DEF LoadTypes
  <2>5. Balanced'
    BY <1>0, <2>1, <2>2 DEF Balanced
  <2> QED BY <2>4, <2>5
<1> QED BY <1>1, <1>2, <1>3, <1>4 DEF Next, vars
-----------------------------------------------------------------------------
LEMMA InitIInv == Init => IInv
<1> SUFFICES ASSUME Init PROVE IInv
  OBVIOUS
<1>1. /\ lines = <<>> /\ unended = FALSE /\ run = Idle
      /\ pairs = 0 /\ files = 1 /\ restarts = 0 /\ breaks = 0
      /\ table = [d \in Devices |-> None]
      /\ orphans = {} /\ lost = {} /\ cut = FALSE /\ origin = "none"
  BY DEF Init, BulkInit
<1>2. /\ contexts = <<>> /\ worker = [w \in Workers |-> "off"] /\ over = FALSE
      /\ started = 0 /\ metrics = [o \in Outcomes |-> 0] /\ atDeadline = 0
  BY DEF Init, NoMetrics
<1>3. DOMAIN lines = {} /\ run.pc = "idle" /\ run.pair = 0
  BY <1>1, Basics
<1>4. BulkTypes
  <2>1. files \in 1..MaxFiles /\ restarts \in 0..MaxRestarts /\ breaks \in 0..MaxBreaks /\ pairs \in 0..MaxPairs
    BY <1>1, BulkBounds
  <2>2. lines \in Seq(Seq(Pieces)) /\ run \in [pc : {"idle", "post", "append", "newline"}, dev : Devices, pair : 0..MaxPairs]
    BY <1>1, IdleTyped
  <2>3. table \in [Devices -> 0..MaxPairs]
    BY <1>1, BulkBounds DEF None
  <2> QED BY <1>1, <2>1, <2>2, <2>3 DEF BulkTypes
<1>5. ~Running /\ Waiting = {} /\ Cardinality(Waiting) = 0
  <2>1. ~Running /\ Waiting = {}
    BY <1>2 DEF Running, Waiting
  <2> QED BY <2>1, FS_EmptySet
<1>6. LoadTypes
  <2>1. 0 \in 0..MaxRequests
    BY LoadBounds
  <2>2. metrics \in [Outcomes -> 0..MaxRequests]
    BY <1>2, <2>1
  <2>3. worker \in [Workers -> {"off", "loop", "sent"}] /\ contexts \in Seq(Records)
    BY <1>2
  <2>4. over \in BOOLEAN /\ started \in 0..MaxRequests /\ atDeadline \in 0..MaxRequests
    BY <1>2, <2>1
  <2> QED BY <1>5, <2>2, <2>3, <2>4 DEF LoadTypes
<1>7. TotalRequests = 0
  <2>1. /\ metrics["200"] = 0 /\ metrics["401"] = 0 /\ metrics["409"] = 0
        /\ metrics["other"] = 0 /\ metrics["not built"] = 0
    BY <1>2, Zenon DEF Outcomes
  <2>2. 0 + 0 + 0 + 0 + 0 = 0
    OBVIOUS
  <2> QED BY <2>1, <2>2, Zenon DEF TotalRequests
<1>8. Balanced
  BY <1>2, <1>5, <1>7 DEF Balanced
<1>9. Whole /\ CleanFile /\ CleanContexts /\ Appending
  BY <1>1, <1>3 DEF Whole, Readable, CleanFile, CleanContexts, Appending
<1>10. \A d \in Devices : table[d] = None
  BY <1>1
<1>11. Numbered /\ CredentialsKept
  <2>1. 0 <= pairs
    BY <1>1
  <2> QED BY <1>1, <1>3, <1>10, <2>1 DEF Numbered, CredentialsKept, None
<1>12. Found
  BY <1>3 DEF Found, LinesIn
<1> QED BY <1>4, <1>6, <1>8, <1>9, <1>11, <1>12, TypedParts DEF IInv

LEMMA NextIInv == IInv /\ [Next]_vars => IInv'
<1> SUFFICES ASSUME IInv, [Next]_vars PROVE IInv'
  OBVIOUS
<1>1. BulkTypes /\ LoadTypes /\ [BulkNext]_bulkVars
  BY TypedParts, BulkSteps DEF IInv
<1>2. BulkTypes' /\ LoadTypes' /\ Balanced'
  BY <1>1, BulkTypesNext, LoadNext DEF IInv
<1>3. Typed'
  BY <1>2 DEF Typed, TypeOK, BulkTypes, LoadTypes, Pieces
<1>4. Whole' /\ Numbered' /\ Found' /\ Appending' /\ CredentialsKept'
  BY <1>1, WholeNext, NumberedNext, FoundNext, AppendingNext, KeptNext DEF IInv
<1>5. CleanFile' /\ CleanContexts'
  BY <1>1, CleanFileNext, CleanContextsNext DEF IInv
<1> QED BY <1>2, <1>3, <1>4, <1>5 DEF IInv

(* Every reachable state satisfies the inductive invariant. *)
THEOREM Invariance == Spec => []IInv
BY InitIInv, NextIInv, PTL DEF Spec

(* The state always has its types; the requests counted never exceed those *)
(* begun, and workers that run have contexts.                              *)
THEOREM TypeCorrectness == Spec => []TypeOK
<1>1. IInv => TypeOK
  BY DEF IInv, Typed
<1> QED BY <1>1, Invariance, PTL

(* What the server has enrolled can be used: the users file ends with its  *)
(* pair, or the run that posted it has ended first (enroll_many).          *)
THEOREM CredentialsAreKept == Spec => []CredentialsKept
<1>1. IInv => CredentialsKept
  BY DEF IInv
<1> QED BY <1>1, Invariance, PTL

(* load_users fails only on a file on which a run ended inside             *)
(* append_user.                                                            *)
THEOREM ReadableUnlessCut == Spec => []UnreadableOnlyIfCut
<1>1. IInv => UnreadableOnlyIfCut
  BY DEF IInv, Whole, UnreadableOnlyIfCut
<1> QED BY <1>1, Invariance, PTL

(* After the deadline each worker counts at most one more request          *)
(* (run_loadtest).                                                         *)
THEOREM LateRequestsBounded == Spec => []LateAtMostOnePerWorker
<1>1. ASSUME IInv PROVE LateAtMostOnePerWorker
  <2>1. TotalRequests \in Nat /\ atDeadline \in Nat
    BY <1>1, TypedParts, TotalFacts DEF IInv
  <2>2. over => TotalRequests + Cardinality(Waiting) <= atDeadline + Concurrency
    BY <1>1 DEF IInv, Balanced
  <2> QED BY <2>1, <2>2, WaitingFacts DEF LateAtMostOnePerWorker
<1>2. IInv => LateAtMostOnePerWorker
  BY <1>1
<1> QED BY <1>2, Invariance, PTL

(* A worker's context is one of those that were loaded. *)
LEMMA ContextInSample ==
    ASSUME LoadTypes, NEW w \in Workers, Running
    PROVE  1 + (w % Len(contexts)) \in DOMAIN contexts
<1>1. Len(contexts) \in Nat \ {0} /\ DOMAIN contexts = 1..Len(contexts)
  BY EmptySeq, LenProperties DEF LoadTypes
<1>2. w \in Nat
  BY LoadBounds DEF Workers
<1> DEFINE n == Len(contexts)
<1> HIDE DEF n
<1>3. n \in Nat \ {0} => w % n \in 0..(n - 1)
  BY <1>2
<1>4. n \in Nat \ {0} => 1 + (w % n) \in 1..n
  BY <1>3
<1> QED BY <1>1, <1>4 DEF n

(* A users file that was fresh and that one run has filled is accepted: no *)
(* request made with it is refused with 401 until the server restarts or a *)
(* late post of an earlier run arrives (README.md:183 and :323).           *)
THEOREM CleanFileAccepted == Spec => CleanFileIsAccepted
<1>1. ASSUME IInv, NEW w \in Workers, Unauthorized(w), origin = "clean" PROVE FALSE
  <2>1. worker[w] = "sent" /\ ~Known(w)
    BY <1>1, Zenon DEF Unauthorized, Answered
  <2>2. Running
    BY <2>1 DEF Running
  <2>3. 1 + (w % Len(contexts)) \in DOMAIN contexts
    BY <1>1, <2>2, TypedParts, ContextInSample DEF IInv
  <2>4. table[Context(w).dev] = Context(w).pair
    BY <1>1, <2>2, <2>3 DEF IInv, CleanContexts, Context
  <2> QED BY <2>1, <2>4 DEF Known
<1>2. IInv /\ [Next]_vars => [\A w \in Workers : Unauthorized(w) => origin # "clean"]_vars
  BY <1>1, Zenon
<1> QED BY <1>2, Invariance, PTL DEF Spec, CleanFileIsAccepted
-----------------------------------------------------------------------------
(* What rounding is: the index is within half a sample of p percent of the *)
(* last one.                                                               *)
LEMMA IndexIsRounded ==
    ASSUME NEW n \in Nat \ {0}, NEW p \in {50, 95, 99}
    PROVE  /\ Index(p, n) \in Int
           /\ 200 * Index(p, n) <= 2 * p * (n - 1) + 100
           /\ 2 * p * (n - 1) + 100 < 200 * Index(p, n) + 200
<1>1. CASE p = 50
  BY <1>1, Z3 DEF Index
<1>2. CASE p = 95
  BY <1>2, Z3 DEF Index
<1>3. CASE p = 99
  BY <1>3, Z3 DEF Index
<1> QED BY <1>1, <1>2, <1>3

(* loadtest.rs:386-387 index without a check: the index is in the sample,  *)
(* for the percents the report uses, and they come in order.               *)
THEOREM IndexInSample ==
    ASSUME NEW n \in Nat \ {0}
    PROVE  /\ \A p \in {50, 95, 99} : Index(p, n) \in 0..(n - 1)
           /\ Index(50, n) <= Index(95, n) /\ Index(95, n) <= Index(99, n)
<1> DEFINE a == Index(50, n)
           b == Index(95, n)
           c == Index(99, n)
<1>1. a \in Int /\ 200 * a <= 100 * (n - 1) + 100 /\ 100 * (n - 1) + 100 < 200 * a + 200
  BY IndexIsRounded
<1>2. b \in Int /\ 200 * b <= 190 * (n - 1) + 100 /\ 190 * (n - 1) + 100 < 200 * b + 200
  BY IndexIsRounded
<1>3. c \in Int /\ 200 * c <= 198 * (n - 1) + 100 /\ 198 * (n - 1) + 100 < 200 * c + 200
  BY IndexIsRounded
<1> HIDE DEF a, b, c
<1>4. a \in 0..(n - 1) /\ b \in 0..(n - 1) /\ c \in 0..(n - 1)
  BY <1>1, <1>2, <1>3
<1>5. a <= b /\ b <= c
  BY <1>1, <1>2, <1>3
<1> QED BY <1>4, <1>5 DEF a, b, c

(* summarize sorts the latencies (loadtest.rs:194): p50, p95, p99 and the  *)
(* maximum of the report are in order, for any number of latencies.        *)
THEOREM ReportInOrder ==
    ASSUME NEW values \in Seq(Nat), Sorted(values)
    PROVE  InOrder(values)
<1> SUFFICES ASSUME values # <<>> PROVE InOrder(values)
  BY DEF InOrder
<1> DEFINE n == Len(values)
<1>1. n \in Nat \ {0} /\ DOMAIN values = 1..n
  BY EmptySeq, LenProperties
<1> HIDE DEF n
<1> DEFINE a == Index(50, n)
           b == Index(95, n)
           c == Index(99, n)
           i == a + 1
           j == b + 1
           k == c + 1
<1>2. a \in 0..(n - 1) /\ b \in 0..(n - 1) /\ c \in 0..(n - 1) /\ a <= b /\ b <= c
  BY <1>1, IndexInSample
<1>3. 1 <= i /\ i <= j /\ j <= k /\ k <= n /\ {1, i, j, k, n} \subseteq 1..n
  <2> HIDE DEF a, b, c
  <2>1. /\ i \in 1..n /\ j \in 1..n /\ k \in 1..n
        /\ i <= j /\ j <= k
    BY <1>1, <1>2
  <2> QED BY <1>1, <2>1
<1> HIDE DEF i, j, k
<1>4. values[1] <= values[i] /\ values[i] <= values[j] /\ values[j] <= values[k] /\ values[k] <= values[n]
  BY <1>1, <1>3 DEF Sorted
<1>5. /\ PercentileOf(values, 50) = values[i] /\ PercentileOf(values, 95) = values[j]
      /\ PercentileOf(values, 99) = values[k]
  BY DEF PercentileOf, i, j, k, n
<1> QED BY <1>4, <1>5 DEF InOrder, n

(* The values up to index k of a sorted sample are at most its k-th, and   *)
(* those from k on at least.                                               *)
LEMMA SortedCounts ==
    ASSUME NEW values \in Seq(Nat), Sorted(values), NEW k \in 1..Len(values)
    PROVE  /\ Cardinality({i \in DOMAIN values : values[i] <= values[k]}) \in Nat
           /\ Cardinality({i \in DOMAIN values : values[i] >= values[k]}) \in Nat
           /\ k <= Cardinality({i \in DOMAIN values : values[i] <= values[k]})
           /\ Len(values) - k + 1 <= Cardinality({i \in DOMAIN values : values[i] >= values[k]})
<1> DEFINE n == Len(values)
           below == {i \in DOMAIN values : values[i] <= values[k]}
           above == {i \in DOMAIN values : values[i] >= values[k]}
<1>1. n \in Nat /\ DOMAIN values = 1..n /\ k \in Nat /\ k >= 1 /\ k <= n
  BY LenProperties
<1>2. \A i \in 1..n : values[i] \in Nat
  BY <1>1, ElementOfSeq
<1>3. 1..k \subseteq below
  BY <1>1 DEF Sorted
<1>4. k..n \subseteq above
  BY <1>1, <1>2 DEF Sorted
<1>5. below \in SUBSET (1..n) /\ above \in SUBSET (1..n)
  BY <1>1
<1>6. IsFiniteSet(below) /\ IsFiniteSet(above)
  <2> HIDE DEF below, above, n
  <2>1. IsFiniteSet(1..n)
    BY <1>1, FS_Interval
  <2> QED BY <1>5, <2>1, FS_Subset
<1>7. Cardinality(1..k) = k /\ Cardinality(k..n) = n - k + 1
  <2>1. Cardinality(1..k) = IF 1 > k THEN 0 ELSE k - 1 + 1
    BY <1>1, FS_Interval
  <2>2. Cardinality(k..n) = IF k > n THEN 0 ELSE n - k + 1
    BY <1>1, FS_Interval
  <2> HIDE DEF n
  <2> QED BY <1>1, <2>1, <2>2
<1>8. Cardinality(1..k) <= Cardinality(below) /\ Cardinality(k..n) <= Cardinality(above)
  BY <1>3, <1>4, <1>6, FS_Subset
<1> QED BY <1>6, <1>7, <1>8, FS_CardinalityType

(* One above the rounded index is a rank of the sample.                    *)
LEMMA IndexIsRank ==
    ASSUME NEW n \in Nat \ {0}, NEW p \in {50, 95, 99}
    PROVE  Index(p, n) + 1 \in 1..n
<1> DEFINE y == Index(p, n)
<1>1. y \in 0..(n - 1)
  BY IndexInSample, Zenon
<1> HIDE DEF y
<1>2. y + 1 \in 1..n
  BY <1>1
<1> QED BY <1>2 DEF y

(* When that many values come no later, they are p percent of the other    *)
(* values, but for half a value.                                           *)
LEMMA RankFacts ==
    ASSUME NEW n \in Nat \ {0}, NEW p \in {50, 95, 99}, NEW many \in Nat,
           Index(p, n) + 1 <= many
    PROVE  200 * (many - 1) >= 2 * p * (n - 1) - 100
<1>1. CASE p = 50
  <2> DEFINE y == Index(50, n)
  <2>1. y \in 0..(n - 1) /\ y + 1 <= many /\ 100 * (n - 1) + 100 < 200 * y + 200
    BY <1>1, IndexInSample, IndexIsRounded
  <2> HIDE DEF y
  <2>2. 200 * (many - 1) >= 100 * (n - 1) - 100
    BY <2>1
  <2> QED BY <1>1, <2>2 DEF y
<1>2. CASE p = 95
  <2> DEFINE y == Index(95, n)
  <2>1. y \in 0..(n - 1) /\ y + 1 <= many /\ 190 * (n - 1) + 100 < 200 * y + 200
    BY <1>2, IndexInSample, IndexIsRounded
  <2> HIDE DEF y
  <2>2. 200 * (many - 1) >= 190 * (n - 1) - 100
    BY <2>1
  <2> QED BY <1>2, <2>2 DEF y
<1>3. CASE p = 99
  <2> DEFINE y == Index(99, n)
  <2>1. y \in 0..(n - 1) /\ y + 1 <= many /\ 198 * (n - 1) + 100 < 200 * y + 200
    BY <1>3, IndexInSample, IndexIsRounded
  <2> HIDE DEF y
  <2>2. 200 * (many - 1) >= 198 * (n - 1) - 100
    BY <2>1
  <2> QED BY <1>3, <2>2 DEF y
<1> QED BY <1>1, <1>2, <1>3

(* The value of a rank has that many values at most as large.              *)
LEMMA RankCounts ==
    ASSUME NEW values \in Seq(Nat), Sorted(values)
    PROVE  \A j \in 1..Len(values) :
              /\ Cardinality({i \in DOMAIN values : values[i] <= values[j]}) \in Nat
              /\ j <= Cardinality({i \in DOMAIN values : values[i] <= values[j]})
BY SortedCounts

(* The percentile of p covers p percent of the other values, but for half  *)
(* a value.                                                                *)
LEMMA Covering ==
    ASSUME NEW values \in Seq(Nat), Sorted(values), values # <<>>, NEW p \in {50, 95, 99}
    PROVE  Covers(values, p)
<1> DEFINE n == Len(values)
           k == Index(p, n) + 1
           many == Cardinality({i \in DOMAIN values : values[i] <= values[k]})
<1>1. n \in Nat \ {0}
  BY EmptySeq, LenProperties
<1>2. k \in 1..n
  <2> HIDE DEF n
  <2> QED BY <1>1, IndexIsRank, Zenon
<1>3. many \in Nat /\ k <= many
  <2>1. \A j \in 1..n :
           /\ Cardinality({i \in DOMAIN values : values[i] <= values[j]}) \in Nat
           /\ j <= Cardinality({i \in DOMAIN values : values[i] <= values[j]})
    BY RankCounts, Zenon
  <2> HIDE DEF k, n
  <2> QED BY <1>2, <2>1, Zenon
<1>4. 200 * (many - 1) >= 2 * p * (n - 1) - 100
  <2> HIDE DEF n, many
  <2> QED BY <1>1, <1>3, RankFacts
<1>5. PercentileOf(values, p) = values[k]
  BY Zenon DEF PercentileOf
<1> HIDE DEF k
<1> QED BY <1>4, <1>5, Zenon DEF Covers

(* The index of the median, rounded.                                       *)
LEMMA MedianIndex ==
    ASSUME NEW n \in Nat \ {0}
    PROVE  /\ Index(50, n) \in 0..(n - 1) /\ 200 * Index(50, n) <= 100 * (n - 1) + 100
           /\ 100 * (n - 1) + 100 < 200 * Index(50, n) + 200
BY IndexInSample, IndexIsRounded

(* At least half of the values are at most p50, and half at least.         *)
LEMMA Median ==
    ASSUME NEW values \in Seq(Nat), Sorted(values), values # <<>>
    PROVE  MedianAt50(values)
<1> DEFINE n == Len(values)
           y == Index(50, n)
           k == y + 1
           low == Cardinality({i \in DOMAIN values : values[i] <= values[k]})
           high == Cardinality({i \in DOMAIN values : values[i] >= values[k]})
<1>1. n \in Nat \ {0}
  BY EmptySeq, LenProperties
<1>2. /\ y \in 0..(n - 1) /\ 200 * y <= 100 * (n - 1) + 100
      /\ 100 * (n - 1) + 100 < 200 * y + 200
  <2> HIDE DEF n
  <2> QED BY <1>1, MedianIndex, Zenon
<1>3. k \in 1..n
  <2> HIDE DEF n, y
  <2> QED BY <1>1, <1>2
<1>4. low \in Nat /\ high \in Nat /\ k <= low /\ n - k + 1 <= high
  <2> HIDE DEF k
  <2> QED BY <1>3, SortedCounts
<1>5. 2 * low >= n /\ 2 * high >= n
  <2> HIDE DEF n, y, low, high
  <2> QED BY <1>1, <1>2, <1>4
<1>6. PercentileOf(values, 50) = values[k]
  BY Zenon DEF PercentileOf
<1> HIDE DEF k
<1> QED BY <1>5, <1>6, Zenon DEF MedianAt50

(* The report is a summary of the latencies, for any number of them: p50,  *)
(* p95, p99 and max are in order, p50 is a median, and p95 and p99 are off *)
(* by at most half a sample (percentile, loadtest.rs).                     *)
THEOREM ReportSummarizes ==
    ASSUME NEW values \in Seq(Nat), Sorted(values)
    PROVE  InOrder(values) /\ MedianAt50(values) /\ \A p \in {50, 95, 99} : Covers(values, p)
<1>1. CASE values = <<>>
  <2>1. MedianAt50(values)
    <3>1. /\ {i \in DOMAIN values : values[i] <= PercentileOf(values, 50)} = {}
          /\ {i \in DOMAIN values : values[i] >= PercentileOf(values, 50)} = {}
          /\ Len(values) = 0
      BY <1>1
    <3>2. Cardinality({}) = 0
      BY FS_EmptySet
    <3> QED BY <3>1, <3>2 DEF MedianAt50
  <2> QED BY <1>1, <2>1 DEF InOrder, Covers
<1>2. CASE values # <<>>
  BY <1>2, Covering, Median, ReportInOrder
<1> QED BY <1>1, <1>2

(* The report of every load test summarizes its latencies (loadtest.rs).   *)
THEOREM ReportsSound == Spec => []PercentilesSound
<1>1. ASSUME IInv PROVE PercentilesSound
  <2>1. Latencies \in Nat
    <3>1. LoadTypes
      BY <1>1, TypedParts DEF IInv
    <3> DEFINE e == metrics["not built"]
    <3>2. e \in Nat /\ e <= TotalRequests /\ TotalRequests \in Nat
      BY <3>1, TotalFacts, Zenon DEF Outcomes
    <3>3. Latencies = TotalRequests - e
      BY DEF Latencies
    <3> HIDE DEF e
    <3> QED BY <3>2, <3>3
  <2>2. ASSUME NEW s \in Samples PROVE s \in Seq(Nat) /\ Sorted(s)
    <3>1. CASE s \in {t \in [1..Latencies -> 1..3] : Sorted(t)}
      <4>1. s \in [1..Latencies -> Nat] /\ Sorted(s)
        BY <3>1
      <4> QED BY <2>1, <4>1
    <3>2. CASE s \in {[i \in 1..n |-> i] : n \in {m * Latencies : m \in {7, 20, 40}}}
      <4>1. PICK n \in Nat : s = [i \in 1..n |-> i]
        BY <2>1, <3>2
      <4>2. s \in [1..n -> Nat]
        BY <4>1
      <4>3. Sorted(s)
        BY <4>1 DEF Sorted
      <4> QED BY <4>2, <4>3
    <3> QED BY <3>1, <3>2 DEF Samples
  <2> QED BY <2>2, ReportSummarizes DEF PercentilesSound
<1>2. IInv => PercentilesSound
  BY <1>1
<1> QED BY <1>2, Invariance, PTL
=============================================================================
