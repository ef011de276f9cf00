-------------------------- MODULE DeviceClientProofs --------------------------
(***************************************************************************)
(* Proofs about DeviceClient, for every set of device ids, every set of    *)
(* characters a file name keeps, any number of commands at a time, key     *)
(* pairs, restarts and kills.                                              *)
(*                                                                         *)
(* The argument is about a command that has met no other at its file: it   *)
(* is alone there (Meetings), so what it read or wrote is still in the     *)
(* file, and the pair it enrolled still in the server's table              *)
(* (UnmetIsAlone).  Where commands have met nothing is claimed until one   *)
(* of them has run alone to its end.                                       *)
(***************************************************************************)
EXTENDS DeviceClient, TLAPS

Steps == {"open", "write", "post", "save"}

Commands == [pc : Steps \cup {"ask"}, dev : Devices, rec : Records,
             then : {"idle", "post"}, met : BOOLEAN]

(* A command writes a record only to the file it is named for. *)
Commanded ==
    /\ proc \in [Procs -> {Idle} \cup Commands]
    /\ \A q \in Procs : proc[q] = Idle \/ SafeStateName(proc[q].rec.dev) = SafeStateName(proc[q].dev)

(* TypeOK, with proc a function. *)
Typed == TypeOK /\ Commanded

(* Records lie in the file their device id names; pairs and server         *)
(* processes that are spoken of exist; a record that has not been posted   *)
(* has no server key.                                                      *)
Known ==
    /\ \A f \in Files : file[f].kind = "record" =>
          SafeStateName(file[f].dev) = f /\ file[f].pair <= pairs /\ file[f].server <= epoch
    /\ \A p \in Procs : proc[p] # Idle =>
          /\ proc[p].rec.pair <= pairs /\ proc[p].rec.server <= epoch
          /\ proc[p].pc \in {"open", "write"} /\ proc[p].then = "post" =>
                proc[p].rec.server = None
    /\ \A o \in orphans : o[2] <= pairs
    /\ \A f \in Files : \A k \in accepted[f] : k <= pairs

(* One command at a time. *)
Single == \A p, q \in Procs : p = q

Unmet(p) == proc[p].pc \in Steps /\ ~proc[p].met

(* A command that has met no other at its file is alone there; where       *)
(* commands met, the file is hurt.                                         *)
Meetings ==
    /\ \A p, q \in Procs :
          Unmet(p) /\ proc[q].pc \in Steps /\ FileOf(q) = FileOf(p) => q = p
    /\ \A p \in Procs :
          proc[p].pc \in Steps /\ proc[p].met => FileOf(p) \in hurt /\ ~Single

(* A command that is alone at its file knows what is in it, and the pair   *)
(* it was enrolled with is the server's.                                   *)
Answering(c) == c.pc = "save" \/ (c.pc \in {"open", "write"} /\ c.then = "idle")

Alone(p) ==
    /\ proc[p].pc = "write" => file[FileOf(p)] = Empty
    /\ proc[p].pc = "post" => file[FileOf(p)] = proc[p].rec
    /\ Answering(proc[p]) /\ proc[p].pc # "write" =>
          file[FileOf(p)].kind = "record" /\ file[FileOf(p)].pair = proc[p].rec.pair
    /\ Answering(proc[p]) /\ proc[p].rec.server = epoch =>
          table[proc[p].dev] = proc[p].rec.pair \/ strayed

UnmetIsAlone == \A p \in Procs : Unmet(p) => Alone(p)

Whole(f) == f \notin hurt \/ Single

(* A record with the present server's key, at a file that commands have   *)
(* not hurt or where they never meet, has the pair in the server's table.  *)
Vouched ==
    \A f \in Files :
        Whole(f) /\ file[f].kind = "record" /\ file[f].server = epoch =>
            strayed \/ \E d \in Devices : SafeStateName(d) = f /\ table[d] = file[f].pair

(* The pairs a server has for a file, or may get. *)
Posted(f) == accepted[f] \cup {o[2] : o \in {x \in orphans : SafeStateName(x[1]) = f}}

(* The file, and every command that is going to write or post its record,  *)
(* has a pair at least as late as k.                                       *)
SavedAt(f, k) ==
    /\ file[f] # Absent
    /\ file[f].kind = "record" => k <= file[f].pair
    /\ \A p \in Procs : proc[p].pc \in Steps /\ FileOf(p) = f => k <= proc[p].rec.pair

Saved == \A f \in Files \ hurt : \A k \in Posted(f) : SavedAt(f, k)

(* File names tell devices apart. *)
Injective == \A d, e \in Devices : SafeStateName(d) = SafeStateName(e) => d = e

(* What a waiting request knows of the server.                             *)
Asked ==
    Single /\ Injective =>
        \A p \in Procs :
            proc[p].pc = "ask" /\ proc[p].rec.server = epoch =>
                table[proc[p].dev] = proc[p].rec.pair \/ strayed

LEMMA FileNames == \A d \in Devices : SafeStateName(d) \in Files
BY DEF Files

LEMMA KindsDiffer ==
    /\ Absent.kind # "record" /\ Empty.kind # "record" /\ Garbled.kind # "record"
    /\ Absent # Empty /\ Absent # Garbled /\ Empty # Garbled
    /\ Absent \notin Records /\ Empty \notin Records /\ Garbled \notin Records
    /\ Idle \notin Commands /\ Idle.pc = "idle"
BY DEF Absent, Empty, Garbled, Records, Idle, Commands

(* A file that holds a record holds a typed one. *)
LEMMA FileRecord ==
    ASSUME Typed, NEW f \in Files, file[f].kind = "record"
    PROVE  /\ file[f] \in Records /\ file[f].pair \in Pairs
           /\ file[f].dev \in Devices /\ file[f].server \in Epochs \cup {None}
BY KindsDiffer DEF Typed, TypeOK, Records

(* A command at work is typed and has a file. *)
LEMMA Working ==
    ASSUME Typed, NEW p \in Procs, proc[p] # Idle
    PROVE  /\ proc[p] \in Commands /\ proc[p].pc \in Steps \cup {"ask"}
           /\ proc[p].dev \in Devices /\ proc[p].rec \in Records
           /\ proc[p].then \in {"idle", "post"} /\ proc[p].met \in BOOLEAN
           /\ FileOf(p) \in Files /\ FileOf(p) = SafeStateName(proc[p].dev)
           /\ SafeStateName(proc[p].rec.dev) = FileOf(p)
           /\ proc[p].rec.pair \in Pairs /\ proc[p].rec.server \in Epochs \cup {None}
<1>1. proc[p] \in Commands /\ SafeStateName(proc[p].rec.dev) = FileOf(p)
  BY DEF Typed, Commanded, FileOf
<1> QED BY <1>1, FileNames DEF Commands, Records, FileOf

LEMMA NotIdle ==
    ASSUME NEW p \in Procs, proc[p].pc \in Steps \cup {"ask"}
    PROVE  proc[p] # Idle
BY KindsDiffer DEF Steps

(* What a step of command p may do to the commands: it moves p, and an     *)
(* enrolling command that starts marks those it meets.                     *)
LEMMA StartFacts ==
    ASSUME Typed, NEW p \in Procs, NEW c \in Commands, c.pc \in Steps,
           SafeStateName(c.rec.dev) = SafeStateName(c.dev), Start(p, c)
    PROVE  /\ proc[p] = Idle
           /\ Commanded'
           /\ proc'[p] = [c EXCEPT !.met = Enrolling(SafeStateName(c.dev)) # {}]
           /\ \A q \in Procs \ {p} :
                 IF q \in Enrolling(SafeStateName(c.dev))
                 THEN proc'[q] = [proc[q] EXCEPT !.met = TRUE]
                 ELSE proc'[q] = proc[q]
           /\ hurt' = IF Enrolling(SafeStateName(c.dev)) = {} THEN hurt
                      ELSE hurt \cup {SafeStateName(c.dev)}
           /\ UNCHANGED <<file, kills, epoch, table, orphans, accepted, strayed>>
<1> DEFINE others == Enrolling(SafeStateName(c.dev))
<1>1. proc[p] = Idle /\ p \notin others
  BY KindsDiffer DEF Start, Enrolling
<1>2. proc' = [q \in Procs |-> IF q = p THEN [c EXCEPT !.met = others # {}]
                              ELSE IF q \in others THEN [proc[q] EXCEPT !.met = TRUE]
                              ELSE proc[q]]
  BY DEF Start
<1>3. \A q \in others : proc[q] \in Commands
  BY Working, KindsDiffer DEF Enrolling, Steps
<1>4. [c EXCEPT !.met = others # {}] \in Commands
  BY DEF Commands
<1>5. \A q \in others : [proc[q] EXCEPT !.met = TRUE] \in Commands
  BY <1>3 DEF Commands
<1>6. proc' \in [Procs -> {Idle} \cup Commands]
  BY <1>2, <1>4, <1>5 DEF Typed, Commanded
<1>7. \A q \in Procs : proc[q] = Idle \/ SafeStateName(proc[q].rec.dev) = SafeStateName(proc[q].dev)
  BY DEF Typed, Commanded
<1>8. ASSUME NEW q \in Procs
      PROVE  proc'[q] = Idle \/ SafeStateName(proc'[q].rec.dev) = SafeStateName(proc'[q].dev)
  <2>1. CASE q = p
    BY <1>2, <2>1 DEF Commands
  <2>2. CASE q # p /\ q \in others
    BY <1>2, <1>3, <1>7, <2>2, KindsDiffer DEF Commands
  <2>3. CASE q # p /\ q \notin others
    BY <1>2, <1>7, <2>3
  <2> QED BY <2>1, <2>2, <2>3
<1> QED BY <1>1, <1>2, <1>6, <1>8 DEF Start, serverVars, Commanded
-----------------------------------------------------------------------------
(* What the commands and the files are after a step, action by action.     *)
LEMMA BecomeFacts ==
    ASSUME Typed, NEW p \in Procs, NEW c \in {Idle} \cup Commands,
           c = Idle \/ SafeStateName(c.rec.dev) = SafeStateName(c.dev), Become(p, c)
    PROVE  /\ Commanded'
           /\ proc'[p] = c /\ \A q \in Procs \ {p} : proc'[q] = proc[q]
BY DEF Become, Typed, Commanded

LEMMA NewRecordFacts ==
    ASSUME Typed, NEW d \in Devices, pairs < MaxPairs
    PROVE  /\ NewRecord(d) \in Records /\ NewRecord(d).dev = d
           /\ NewRecord(d).pair = pairs + 1 /\ NewRecord(d).server = None
           /\ At("open", d, NewRecord(d), "post", FALSE) \in Commands
           /\ pairs + 1 \in 0..MaxPairs /\ pairs \in Nat
<1>1. NewRecord(d) \in Records /\ NewRecord(d).dev = d
      /\ NewRecord(d).pair = pairs + 1 /\ NewRecord(d).server = None
      /\ pairs + 1 \in 0..MaxPairs /\ pairs \in Nat
  BY BoundsAssumption DEF NewRecord, Record, Records, Pairs, Typed, TypeOK
<1> QED BY <1>1 DEF At, Commands, Steps

LEMMA GenerateFacts ==
    ASSUME Typed, NEW p \in Procs, NEW d \in Devices, Generate(p, d)
    PROVE  \E c \in Commands :
               /\ pairs < MaxPairs /\ pairs' = pairs + 1
               /\ c.pc = "open" /\ c.dev = d /\ c.rec = NewRecord(d) /\ c.then = "post"
               /\ c.pc \in Steps /\ SafeStateName(c.rec.dev) = SafeStateName(c.dev)
               /\ c.met = FALSE /\ Start(p, c)
<1> DEFINE c == At("open", d, NewRecord(d), "post", FALSE)
<1>1. c \in Commands /\ Start(p, c) /\ pairs < MaxPairs /\ pairs' = pairs + 1 /\ NewRecord(d).dev = d
  BY NewRecordFacts DEF Generate
<1>2. c.pc = "open" /\ c.dev = d /\ c.rec = NewRecord(d) /\ c.then = "post" /\ c.met = FALSE
  BY DEF At
<1> QED BY <1>1, <1>2 DEF Steps

LEMMA ExistingFacts ==
    ASSUME Typed, Known, NEW p \in Procs, NEW d \in Devices, EnrollExisting(p, d)
    PROVE  LET r == file[SafeStateName(d)]
           IN  \E c \in Commands :
               /\ r.kind = "record" /\ r \in Records /\ r.pair <= pairs /\ r.server <= epoch
               /\ c.pc = "post" /\ c.met = FALSE /\ c.dev = d /\ c.rec = r /\ c.then = "idle"
               /\ c.pc \in Steps /\ SafeStateName(c.rec.dev) = SafeStateName(c.dev)
               /\ Start(p, c) /\ pairs' = pairs
<1> DEFINE r == file[SafeStateName(d)]
<1>1. r.kind = "record" /\ SafeStateName(d) \in Files
  BY FileNames DEF EnrollExisting
<1>2. r \in Records /\ SafeStateName(r.dev) = SafeStateName(d) /\ r.pair <= pairs /\ r.server <= epoch
  BY <1>1, FileRecord DEF Known
<1> DEFINE c == At("post", d, r, "idle", FALSE)
<1>3. c \in Commands /\ c.pc = "post" /\ c.met = FALSE /\ c.dev = d /\ c.rec = r /\ c.then = "idle"
  BY <1>2 DEF At, Commands, Steps
<1>4. Start(p, c) /\ pairs' = pairs
  BY DEF EnrollExisting
<1> QED BY <1>1, <1>2, <1>3, <1>4 DEF Steps

LEMMA RequestFacts ==
    ASSUME Typed, Known, NEW p \in Procs, NEW d \in Devices, Request(p, d)
    PROVE  LET r == file[SafeStateName(d)]
           IN  \E c \in Commands :
               /\ r.kind = "record" /\ r \in Records /\ r.pair <= pairs /\ r.server <= epoch
               /\ c.pc = "ask" /\ c.dev = d /\ c.rec = r /\ c.then = "idle"
               /\ SafeStateName(c.rec.dev) = SafeStateName(c.dev)
               /\ proc[p] = Idle /\ Become(p, c)
               /\ UNCHANGED <<file, pairs, kills, epoch, table, orphans, accepted, strayed, hurt>>
<1> DEFINE r == file[SafeStateName(d)]
<1>1. r.kind = "record" /\ SafeStateName(d) \in Files
  BY FileNames DEF Request
<1>2. r \in Records /\ SafeStateName(r.dev) = SafeStateName(d) /\ r.pair <= pairs /\ r.server <= epoch
  BY <1>1, FileRecord DEF Known
<1> DEFINE c == At("ask", d, r, "idle", FALSE)
<1>3. c \in Commands /\ c.pc = "ask" /\ c.dev = d /\ c.rec = r /\ c.then = "idle"
  BY <1>2 DEF At, Commands, Steps
<1>4. /\ proc[p] = Idle /\ Become(p, c)
      /\ UNCHANGED <<file, pairs, kills, epoch, table, orphans, accepted, strayed, hurt>>
  BY DEF Request, serverVars
<1> QED BY <1>1, <1>2, <1>3, <1>4

LEMMA OpenFacts ==
    ASSUME Typed, NEW p \in Procs, Open(p)
    PROVE  /\ proc[p] # Idle /\ proc[p].pc = "open"
           /\ Commanded'
           /\ proc'[p] = [proc[p] EXCEPT !.pc = "write"]
           /\ proc'[p].pc = "write" /\ proc'[p].dev = proc[p].dev /\ proc'[p].met = proc[p].met
           /\ proc'[p].rec = proc[p].rec /\ proc'[p].then = proc[p].then
           /\ \A q \in Procs \ {p} : proc'[q] = proc[q]
           /\ file' = [file EXCEPT ![FileOf(p)] = Empty]
           /\ UNCHANGED <<pairs, kills, epoch, table, orphans, accepted, strayed, hurt>>
<1>1. proc[p] # Idle /\ proc[p].pc = "open"
  BY NotIdle DEF Open, Steps
<1>2. [proc[p] EXCEPT !.pc = "write"] \in Commands
  BY <1>1, Working DEF Commands, Steps
<1>3. proc' = [proc EXCEPT ![p] = [proc[p] EXCEPT !.pc = "write"]]
  BY DEF Open, Typed, Commanded
<1> DEFINE c == [proc[p] EXCEPT !.pc = "write"]
<1>4. SafeStateName(c.rec.dev) = SafeStateName(c.dev)
  BY <1>1, Working DEF Commands
<1>5. Become(p, c)
  BY <1>3 DEF Become
<1> HIDE DEF c
<1>6. Commanded' /\ proc'[p] = c /\ \A q \in Procs \ {p} : proc'[q] = proc[q]
  BY <1>2, <1>4, <1>5, BecomeFacts DEF c
<1>7. /\ c.pc = "write" /\ c.dev = proc[p].dev /\ c.met = proc[p].met
      /\ c.rec = proc[p].rec /\ c.then = proc[p].then
  BY <1>1, Working DEF Commands, c
<1> QED BY <1>1, <1>6, <1>7 DEF Open, serverVars, c

LEMMA EnrolledFacts ==
    ASSUME Typed, NEW p \in Procs, Enrolled(p)
    PROVE  /\ proc[p] # Idle /\ proc[p].pc = "post"
           /\ Commanded'
           /\ proc'[p].pc = "save" /\ proc'[p].dev = proc[p].dev /\ proc'[p].met = proc[p].met
           /\ proc'[p].rec.pair = proc[p].rec.pair /\ proc'[p].rec.server = epoch
           /\ \A q \in Procs \ {p} : proc'[q] = proc[q]
           /\ ServerEnrolls(proc[p].dev, proc[p].rec.pair)
           /\ UNCHANGED <<file, pairs, kills, epoch, orphans, strayed, hurt>>
<1> DEFINE r == [proc[p].rec EXCEPT !.server = epoch]
           c == [proc[p] EXCEPT !.pc = "save", !.rec = r]
<1>1. proc[p] # Idle /\ proc[p].pc = "post"
  BY NotIdle DEF Enrolled, Steps
<1>2. r \in Records
  BY <1>1, Working DEF Records, Typed, TypeOK
<1>3. c \in Commands
  BY <1>1, <1>2, Working DEF Commands, Steps
<1>4. proc' = [proc EXCEPT ![p].pc = "save", ![p].rec.server = epoch]
  BY DEF Enrolled
<1>5. proc' = [proc EXCEPT ![p] = c]
  BY <1>1, <1>4, Working DEF Typed, Commanded, Commands
<1>6. SafeStateName(c.rec.dev) = SafeStateName(c.dev)
  BY <1>1, Working DEF Commands, Records
<1>7. Become(p, c)
  BY <1>5 DEF Become
<1> HIDE DEF c
<1>8. Commanded' /\ proc'[p] = c /\ \A q \in Procs \ {p} : proc'[q] = proc[q]
  BY <1>3, <1>6, <1>7, BecomeFacts DEF c
<1>9. /\ c.pc = "save" /\ c.dev = proc[p].dev /\ c.met = proc[p].met
      /\ c.rec.pair = proc[p].rec.pair /\ c.rec.server = epoch
  BY <1>1, Working DEF Commands, Records, c
<1> QED BY <1>1, <1>8, <1>9 DEF Enrolled, ServerEnrolls

LEMMA SaveFacts ==
    ASSUME Typed, Known, NEW p \in Procs, Save(p)
    PROVE  \E c \in Commands :
               /\ proc[p] # Idle /\ proc[p].pc = "save" /\ file[FileOf(p)].kind = "record"
               /\ c.rec.pair = file[FileOf(p)].pair /\ c.rec.pair <= pairs
               /\ c.rec.server = proc[p].rec.server
               /\ c.pc = "open" /\ c.dev = proc[p].dev /\ c.then = "idle" /\ c.met = proc[p].met
               /\ SafeStateName(c.rec.dev) = SafeStateName(c.dev)
               /\ Become(p, c)
               /\ UNCHANGED <<file, pairs, kills, epoch, table, orphans, accepted, strayed, hurt>>
<1> DEFINE f == FileOf(p)
           r == [file[f] EXCEPT !.server = proc[p].rec.server]
<1>1. proc[p] # Idle /\ proc[p].pc = "save" /\ file[f].kind = "record"
  BY NotIdle DEF Save, Steps
<1>2. file[f] \in Records /\ proc[p].rec.server \in Epochs \cup {None} /\ f = SafeStateName(proc[p].dev)
      /\ file[f].pair <= pairs /\ SafeStateName(file[f].dev) = f
  BY <1>1, FileRecord, Working DEF Known
<1>3. r \in Records /\ r.pair = file[f].pair /\ r.dev = file[f].dev /\ r.server = proc[p].rec.server
  BY <1>2 DEF Records
<1> DEFINE c == At("open", proc[p].dev, r, "idle", proc[p].met)
<1>4. /\ c \in Commands /\ c.pc = "open" /\ c.dev = proc[p].dev /\ c.rec = r
      /\ c.then = "idle" /\ c.met = proc[p].met
  BY <1>1, <1>3, Working DEF At, Commands, Steps
<1>5. Become(p, c) /\ UNCHANGED <<file, pairs, kills, epoch, table, orphans, accepted, strayed, hurt>>
  BY DEF Save, serverVars
<1> QED BY <1>1, <1>2, <1>3, <1>4, <1>5

LEMMA WriteFacts ==
    ASSUME Typed, NEW p \in Procs, Write(p)
    PROVE  \E c \in Commands :
               /\ proc[p] # Idle /\ proc[p].pc = "write"
               /\ c.pc = "post" /\ c.dev = proc[p].dev /\ c.rec = proc[p].rec
               /\ c.then = "idle" /\ c.met = proc[p].met
               /\ SafeStateName(c.rec.dev) = SafeStateName(c.dev)
               /\ Become(p, IF proc[p].then = "idle" THEN Idle ELSE c)
               /\ file' = [file EXCEPT ![FileOf(p)] =
                             IF Covers(proc[p].rec, @) THEN proc[p].rec ELSE Garbled]
               /\ UNCHANGED <<pairs, kills, epoch, table, orphans, strayed>>
               /\ \/ /\ UNCHANGED <<hurt, accepted>>
                  \/ /\ proc[p].then = "idle" /\ ~proc[p].met
                     /\ \A o \in orphans : SafeStateName(o[1]) # FileOf(p)
                     /\ hurt' = hurt \ {FileOf(p)}
                     /\ accepted' = [accepted EXCEPT ![FileOf(p)] = {}]
<1>1. proc[p] # Idle /\ proc[p].pc = "write"
  BY NotIdle DEF Write, Steps
<1> DEFINE c == At("post", proc[p].dev, proc[p].rec, "idle", proc[p].met)
<1>2. /\ c \in Commands /\ c.pc = "post" /\ c.dev = proc[p].dev /\ c.rec = proc[p].rec
      /\ c.then = "idle" /\ c.met = proc[p].met
  BY <1>1, Working DEF At, Commands, Steps
<1>3. /\ Become(p, IF proc[p].then = "idle" THEN Idle ELSE c)
      /\ file' = [file EXCEPT ![FileOf(p)] = IF Covers(proc[p].rec, @) THEN proc[p].rec ELSE Garbled]
      /\ UNCHANGED <<pairs, kills, epoch, table, orphans, strayed>>
  BY DEF Write
<1>4. \/ UNCHANGED <<hurt, accepted>>
      \/ /\ proc[p].then = "idle" /\ ~proc[p].met
         /\ \A o \in orphans : SafeStateName(o[1]) # FileOf(p)
         /\ hurt' = hurt \ {FileOf(p)}
         /\ accepted' = [accepted EXCEPT ![FileOf(p)] = {}]
  BY DEF Write
<1> QED BY <1>1, <1>2, <1>3, <1>4, Working

(* Steps that end a command and change nothing else of it. *)
LEMMA EndFacts ==
    ASSUME Typed, NEW p \in Procs,
           \/ AnswerLost(p) \/ PostLost(p) \/ SaveFails(p) \/ Kill(p)
           \/ Served(p) \/ BadSignature(p) \/ Refused(p)
    PROVE  /\ proc[p] # Idle
           /\ Commanded'
           /\ proc'[p] = Idle /\ \A q \in Procs \ {p} : proc'[q] = proc[q]
           /\ UNCHANGED <<file, pairs, epoch, strayed>>
           /\ \/ AnswerLost(p)
              \/ /\ UNCHANGED <<table, accepted>>
                 /\ \/ UNCHANGED orphans
                    \/ /\ proc[p].pc = "post"
                       /\ orphans' = orphans \cup {<<proc[p].dev, proc[p].rec.pair>>}
           /\ \/ UNCHANGED <<kills, hurt>>
              \/ /\ kills < MaxKills /\ kills' = kills + 1
                 /\ hurt' = IF proc[p].pc = "write" THEN hurt \cup {FileOf(p)} ELSE hurt
           /\ proc[p].pc = "write" => FileOf(p) \in hurt'
<1>1. proc[p] # Idle
  BY NotIdle DEF AnswerLost, PostLost, SaveFails, Kill, Served, BadSignature, Refused, Asking, Steps
<1>2. Become(p, Idle)
  BY DEF AnswerLost, PostLost, SaveFails, Kill, Served, BadSignature, Refused, Asking
<1>3. /\ UNCHANGED <<file, pairs, epoch, strayed>>
      /\ \/ AnswerLost(p)
         \/ /\ UNCHANGED <<table, accepted>>
            /\ \/ UNCHANGED orphans
               \/ /\ proc[p].pc = "post"
                  /\ orphans' = orphans \cup {<<proc[p].dev, proc[p].rec.pair>>}
  BY DEF AnswerLost, PostLost, SaveFails, Kill, Served, BadSignature, Refused, Asking, serverVars,
         ServerEnrolls
<1>4. \/ UNCHANGED <<kills, hurt>>
      \/ /\ kills < MaxKills /\ kills' = kills + 1
         /\ hurt' = IF proc[p].pc = "write" THEN hurt \cup {FileOf(p)} ELSE hurt
  BY DEF AnswerLost, PostLost, SaveFails, Kill, Served, BadSignature, Refused, Asking
<1>5. proc[p].pc = "write" => FileOf(p) \in hurt'
  BY DEF AnswerLost, PostLost, SaveFails, Kill, Served, BadSignature, Refused, Asking
<1>6. Commanded' /\ proc'[p] = Idle /\ \A q \in Procs \ {p} : proc'[q] = proc[q]
  BY <1>2, BecomeFacts
<1> QED BY <1>1, <1>3, <1>4, <1>5, <1>6
-----------------------------------------------------------------------------
(* Types. *)
LEMMA ServerTypes ==
    ASSUME Typed, NEW d \in Devices, NEW k \in Pairs, ServerEnrolls(d, k)
    PROVE  table' \in [Devices -> Pairs \cup {None}] /\ accepted' \in [Files -> SUBSET Pairs]
<1>1. SafeStateName(d) \in Files
  BY FileNames
<1>2. accepted[SafeStateName(d)] \cup {k} \in SUBSET Pairs
  BY <1>1 DEF Typed, TypeOK
<1> QED BY <1>1, <1>2 DEF ServerEnrolls, Typed, TypeOK

LEMMA OrphanTypes ==
    ASSUME Typed, NEW o \in orphans
    PROVE  o[1] \in Devices /\ o[2] \in Pairs /\ o = <<o[1], o[2]>>
BY DEF Typed, TypeOK

(* What is left of TypeOK once the commands are typed. *)
Rest ==
    /\ file \in [Files -> {Absent, Empty, Garbled} \cup Records]
    /\ pairs \in 0..MaxPairs
    /\ kills \in 0..MaxKills
    /\ epoch \in Epochs
    /\ table \in [Devices -> Pairs \cup {None}]
    /\ orphans \subseteq Devices \X Pairs
    /\ accepted \in [Files -> SUBSET Pairs]
    /\ strayed \in BOOLEAN
    /\ hurt \subseteq Files

LEMMA TypedNext ==
    ASSUME Typed, Known, [Next]_vars
    PROVE  Typed'
<1>0. Rest /\ Commanded
  BY DEF Typed, TypeOK, Rest
<1>q. Rest' /\ Commanded' => Typed'
  BY DEF Rest, Commanded, Typed, TypeOK, Commands, Steps, FileOf
<1> SUFFICES Rest' /\ Commanded'
  BY <1>q
<1>1. CASE UNCHANGED vars
  BY <1>0, <1>1 DEF vars, Rest, Commanded
<1>2. ASSUME NEW p \in Procs, NEW d \in Devices, EnrollNew(p, d) \/ ReEnroll(p, d)
      PROVE  Rest' /\ Commanded'
  <2>1. Generate(p, d)
    BY <1>2 DEF EnrollNew, ReEnroll
  <2>2. PICK c \in Commands : /\ pairs < MaxPairs /\ pairs' = pairs + 1
                              /\ c.pc \in Steps /\ SafeStateName(c.rec.dev) = SafeStateName(c.dev)
                              /\ c.dev = d /\ Start(p, c)
    BY <2>1, GenerateFacts
  <2>3. Commanded' /\ hurt' \subseteq hurt \cup {SafeStateName(d)}
        /\ UNCHANGED <<file, kills, epoch, table, orphans, accepted, strayed>>
    BY <2>2, StartFacts
  <2>4. pairs' \in 0..MaxPairs
    BY <2>2, NewRecordFacts
  <2> QED BY <1>0, <2>3, <2>4, FileNames DEF Rest
<1>3. ASSUME NEW p \in Procs, NEW d \in Devices, EnrollExisting(p, d)
      PROVE  Rest' /\ Commanded'
  <2>1. PICK c \in Commands : /\ c.pc \in Steps /\ SafeStateName(c.rec.dev) = SafeStateName(c.dev)
                              /\ c.dev = d /\ Start(p, c) /\ pairs' = pairs
    BY <1>3, ExistingFacts
  <2>2. Commanded' /\ hurt' \subseteq hurt \cup {SafeStateName(d)}
        /\ UNCHANGED <<file, kills, epoch, table, orphans, accepted, strayed>>
    BY <2>1, StartFacts
  <2> QED BY <1>0, <2>1, <2>2, FileNames DEF Rest
<1>4. ASSUME NEW p \in Procs, NEW d \in Devices, Request(p, d)
      PROVE  Rest' /\ Commanded'
  BY <1>0, <1>4, RequestFacts, BecomeFacts DEF Rest
<1>5. ASSUME NEW p \in Procs, Open(p) PROVE Rest' /\ Commanded'
  <2>1. FileOf(p) \in Files
    BY <1>5, OpenFacts, Working
  <2> QED BY <1>0, <1>5, <2>1, OpenFacts DEF Rest
<1>6. ASSUME NEW p \in Procs, Write(p) PROVE Rest' /\ Commanded'
  <2>1. FileOf(p) \in Files /\ proc[p].rec \in Records
    BY <1>6, WriteFacts, Working
  <2>2. Commanded'
    BY <1>6, WriteFacts, BecomeFacts
  <2>3. file' \in [Files -> {Absent, Empty, Garbled} \cup Records]
    BY <1>0, <1>6, <2>1, WriteFacts DEF Rest
  <2> QED BY <1>0, <1>6, <2>1, <2>2, <2>3, WriteFacts DEF Rest
<1>7. ASSUME NEW p \in Procs, Enrolled(p) PROVE Rest' /\ Commanded'
  <2>1. proc[p].dev \in Devices /\ proc[p].rec.pair \in Pairs
    BY <1>7, EnrolledFacts, Working
  <2> QED BY <1>0, <1>7, <2>1, EnrolledFacts, ServerTypes DEF Rest
<1>8. ASSUME NEW p \in Procs,
             \/ AnswerLost(p) \/ PostLost(p) \/ SaveFails(p) \/ Kill(p)
             \/ Served(p) \/ BadSignature(p) \/ Refused(p)
      PROVE  Rest' /\ Commanded'
  <2>1. /\ FileOf(p) \in Files /\ proc[p].dev \in Devices /\ proc[p].rec.pair \in Pairs
    BY <1>8, EndFacts, Working
  <2>2. Commanded'
    BY <1>0, <1>8, EndFacts
  <2>3. table' \in [Devices -> Pairs \cup {None}] /\ accepted' \in [Files -> SUBSET Pairs]
        /\ orphans' \subseteq Devices \X Pairs
    <3>1. CASE AnswerLost(p)
      BY <1>0, <2>1, <3>1, ServerTypes DEF AnswerLost, Rest
    <3>2. CASE UNCHANGED <<table, accepted>> /\ \/ UNCHANGED orphans
                                                \/ orphans' = orphans \cup {<<proc[p].dev, proc[p].rec.pair>>}
      BY <1>0, <2>1, <3>2 DEF Rest
    <3> QED BY <1>8, <3>1, <3>2, EndFacts
  <2>4. kills' \in 0..MaxKills /\ hurt' \subseteq Files
    BY <1>0, <1>8, <2>1, EndFacts, BoundsAssumption DEF Rest
  <2> QED BY <1>0, <1>8, <2>2, <2>3, <2>4, EndFacts DEF Rest
<1>9. ASSUME NEW p \in Procs, Save(p) PROVE Rest' /\ Commanded'
  <2>1. PICK c \in Commands :
          /\ SafeStateName(c.rec.dev) = SafeStateName(c.dev) /\ Become(p, c)
          /\ UNCHANGED <<file, pairs, kills, epoch, table, orphans, accepted, strayed, hurt>>
    BY <1>9, SaveFacts
  <2> QED BY <1>0, <2>1, BecomeFacts DEF Rest
<1>10. CASE OrphanArrives
  <2>1. PICK o \in orphans : /\ ServerEnrolls(o[1], o[2]) /\ orphans' = orphans \ {o}
                             /\ strayed' = TRUE /\ UNCHANGED <<file, proc, pairs, kills, hurt>>
    BY <1>10 DEF OrphanArrives
  <2> QED BY <1>0, <2>1, OrphanTypes, ServerTypes DEF ServerEnrolls, Rest, Commanded
<1>11. CASE OrphanLost
  BY <1>0, <1>11 DEF OrphanLost, Rest, Commanded
<1>12. CASE ServerRestart
  <2>1. epoch' \in Epochs
    BY <1>0, <1>12, BoundsAssumption DEF ServerRestart, Rest, Epochs
  <2>2. table' \in [Devices -> Pairs \cup {None}] /\ orphans' = {} /\ strayed' = FALSE
        /\ UNCHANGED <<file, proc, pairs, kills, accepted, hurt>>
    BY <1>12 DEF ServerRestart
  <2> QED BY <1>0, <2>1, <2>2 DEF Rest, Commanded
<1> QED BY <1>1, <1>2, <1>3, <1>4, <1>5, <1>6, <1>7, <1>8, <1>9, <1>10, <1>11, <1>12 DEF Next, Step
-----------------------------------------------------------------------------
(* Pairs, server processes and the names of files. *)
LEMMA Counters ==
    ASSUME Typed
    PROVE  /\ pairs \in Nat /\ epoch \in Nat /\ 0 <= epoch
           /\ \A k \in Pairs : k \in Nat
           /\ \A s \in Epochs \cup {None} : s \in Nat
BY BoundsAssumption DEF Typed, TypeOK, Pairs, Epochs, None

(* The parts of Known that the counters bound stay bounded when they grow. *)
LEMMA KnownCommand ==
    ASSUME Typed, Known, NEW q \in Procs, proc[q] # Idle,
           pairs' \in Nat, epoch' \in Nat, pairs <= pairs', epoch <= epoch',
           \/ proc'[q] = proc[q]
           \/ proc'[q] = [proc[q] EXCEPT !.met = TRUE]
           \/ proc'[q] = [proc[q] EXCEPT !.pc = "write"] /\ proc[q].pc = "open"
    PROVE  /\ proc'[q].rec.pair <= pairs' /\ proc'[q].rec.server <= epoch'
           /\ proc'[q].pc \in {"open", "write"} /\ proc'[q].then = "post" =>
                 proc'[q].rec.server = None
<1>1. /\ proc[q].rec.pair <= pairs /\ proc[q].rec.server <= epoch
      /\ proc[q].pc \in {"open", "write"} /\ proc[q].then = "post" => proc[q].rec.server = None
  BY DEF Known
<1>2. proc[q].rec.pair \in Nat /\ proc[q].rec.server \in Nat /\ pairs \in Nat /\ epoch \in Nat
  BY Working, Counters
<1>3. proc[q] \in Commands
  BY Working
<1>4. /\ proc'[q].rec = proc[q].rec /\ proc'[q].then = proc[q].then
      /\ proc'[q].pc = proc[q].pc \/ proc[q].pc = "open"
  BY <1>3 DEF Commands
<1> QED BY <1>1, <1>2, <1>4

LEMMA KnownFiles ==
    ASSUME Typed, Known, NEW f \in Files, file'[f] = file[f],
           pairs' \in Nat, epoch' \in Nat, pairs <= pairs', epoch <= epoch'
    PROVE  file'[f].kind = "record" =>
              SafeStateName(file'[f].dev) = f /\ file'[f].pair <= pairs' /\ file'[f].server <= epoch'
<1> SUFFICES ASSUME file[f].kind = "record"
             PROVE  SafeStateName(file[f].dev) = f /\ file[f].pair <= pairs' /\ file[f].server <= epoch'
  OBVIOUS
<1>1. file[f].pair <= pairs /\ file[f].server <= epoch /\ SafeStateName(file[f].dev) = f
  BY DEF Known
<1>2. file[f].pair \in Nat /\ file[f].server \in Nat /\ pairs \in Nat /\ epoch \in Nat
  BY FileRecord, Counters
<1> QED BY <1>1, <1>2

LEMMA KnownPosts ==
    ASSUME Typed, Known, pairs' \in Nat, pairs <= pairs',
           \A o \in orphans' : o \in orphans \/ (o[2] \in Pairs /\ o[2] <= pairs),
           \A f \in Files : \A k \in accepted'[f] : k \in accepted[f] \/ (k \in Pairs /\ k <= pairs)
    PROVE  /\ \A o \in orphans' : o[2] <= pairs'
           /\ \A f \in Files : \A k \in accepted'[f] : k <= pairs'
<1>1. \A o \in orphans' : o[2] \in Pairs /\ o[2] <= pairs
  BY OrphanTypes DEF Known
<1>2. \A f \in Files : \A k \in accepted'[f] : k \in Pairs /\ k <= pairs
  BY DEF Known, Typed, TypeOK
<1> QED BY <1>1, <1>2, Counters

LEMMA EnrolsPosts ==
    ASSUME Typed, Known, NEW d \in Devices, NEW k \in Pairs, k <= pairs, ServerEnrolls(d, k)
    PROVE  \A f \in Files : \A j \in accepted'[f] : j \in accepted[f] \/ (j \in Pairs /\ j <= pairs)
BY DEF ServerEnrolls, Typed, TypeOK

LEMMA KnownStart ==
    ASSUME Typed, Known, NEW p \in Procs, NEW c \in Commands, c.pc \in Steps,
           SafeStateName(c.rec.dev) = SafeStateName(c.dev), Start(p, c),
           pairs' \in Nat, pairs <= pairs', c.rec.pair <= pairs', c.rec.server <= epoch,
           c.pc = "open" => c.rec.server = None, c.pc # "write"
    PROVE  Known'
<1>1. /\ proc'[p] = [c EXCEPT !.met = Enrolling(SafeStateName(c.dev)) # {}]
      /\ \A q \in Procs \ {p} : proc'[q] = proc[q] \/ (q \in Enrolling(SafeStateName(c.dev)) /\ proc'[q] = [proc[q] EXCEPT !.met = TRUE])
      /\ UNCHANGED <<file, epoch, orphans, accepted>>
  BY StartFacts
<1>2. epoch' \in Nat /\ epoch <= epoch'
  BY <1>1, Counters
<1>3. proc'[p].rec.pair <= pairs' /\ proc'[p].rec.server <= epoch'
      /\ (proc'[p].pc \in {"open", "write"} => proc'[p].rec.server = None)
  BY <1>1 DEF Commands
<1>4. \A q \in Procs \ {p} : proc[q] = Idle => proc'[q] = Idle
  BY <1>1, KindsDiffer DEF Enrolling
<1>5. ASSUME NEW q \in Procs, proc'[q] # Idle
      PROVE  /\ proc'[q].rec.pair <= pairs' /\ proc'[q].rec.server <= epoch'
             /\ proc'[q].pc \in {"open", "write"} /\ proc'[q].then = "post" => proc'[q].rec.server = None
  BY <1>1, <1>2, <1>3, <1>4, <1>5, KnownCommand
<1>6. \A f \in Files : file'[f].kind = "record" =>
          SafeStateName(file'[f].dev) = f /\ file'[f].pair <= pairs' /\ file'[f].server <= epoch'
  BY <1>1, <1>2, KnownFiles
<1>7. /\ \A o \in orphans' : o[2] <= pairs'
      /\ \A f \in Files : \A k \in accepted'[f] : k <= pairs'
  BY <1>1, KnownPosts
<1> QED BY <1>5, <1>6, <1>7 DEF Known

(* A step that moves one command and leaves the counters alone. *)
LEMMA KnownMove ==
    ASSUME Typed, Known, NEW p \in Procs, \A q \in Procs \ {p} : proc'[q] = proc[q],
           UNCHANGED <<pairs, epoch>>,
           \/ proc'[p] = Idle
           \/ /\ proc'[p].rec.pair <= pairs /\ proc'[p].rec.server <= epoch
              /\ proc'[p].pc \in {"open", "write"} /\ proc'[p].then = "post" => proc'[p].rec.server = None,
           \A f \in Files : \/ file'[f] = file[f]
                            \/ file'[f].kind # "record"
                            \/ proc[p] # Idle /\ f = FileOf(p) /\ file'[f] = proc[p].rec,
           \A o \in orphans' : o \in orphans \/ (o[2] \in Pairs /\ o[2] <= pairs),
           \A f \in Files : \A k \in accepted'[f] : k \in accepted[f] \/ (k \in Pairs /\ k <= pairs)
    PROVE  Known'
<1>1. pairs' \in Nat /\ epoch' \in Nat /\ pairs <= pairs' /\ epoch <= epoch'
  BY Counters
<1>2. ASSUME NEW q \in Procs, proc'[q] # Idle
      PROVE  /\ proc'[q].rec.pair <= pairs' /\ proc'[q].rec.server <= epoch'
             /\ proc'[q].pc \in {"open", "write"} /\ proc'[q].then = "post" => proc'[q].rec.server = None
  BY <1>1, <1>2, KnownCommand
<1>3. ASSUME NEW f \in Files, file'[f].kind = "record"
      PROVE  SafeStateName(file'[f].dev) = f /\ file'[f].pair <= pairs' /\ file'[f].server <= epoch'
  <2>1. CASE file'[f] = file[f]
    BY <1>1, <1>3, <2>1, KnownFiles
  <2>2. CASE proc[p] # Idle /\ f = FileOf(p) /\ file'[f] = proc[p].rec
    BY <2>2, Working DEF Known
  <2> QED BY <1>3, <2>1, <2>2
<1>4. /\ \A o \in orphans' : o[2] <= pairs'
      /\ \A f \in Files : \A k \in accepted'[f] : k <= pairs'
  BY <1>1, KnownPosts
<1> QED BY <1>2, <1>3, <1>4 DEF Known

LEMMA KnownNext ==
    ASSUME Typed, Known, [Next]_vars
    PROVE  Known'
<1>1. CASE UNCHANGED vars
  BY <1>1 DEF vars, Known
<1>2. ASSUME NEW p \in Procs, NEW d \in Devices, EnrollNew(p, d) \/ ReEnroll(p, d)
      PROVE  Known'
  <2>1. Generate(p, d)
    BY <1>2 DEF EnrollNew, ReEnroll
  <2>2. PICK c \in Commands : /\ pairs < MaxPairs /\ pairs' = pairs + 1
                              /\ c.pc = "open" /\ c.pc \in Steps /\ c.rec = NewRecord(d)
                              /\ SafeStateName(c.rec.dev) = SafeStateName(c.dev) /\ Start(p, c)
    BY <2>1, GenerateFacts
  <2>3. c.rec.pair = pairs + 1 /\ c.rec.server = None
    BY <2>2, NewRecordFacts
  <2>4. c.rec.server <= epoch /\ pairs' \in Nat /\ pairs <= pairs' /\ c.rec.pair <= pairs'
    BY <2>2, <2>3, Counters DEF None
  <2> QED BY <2>2, <2>3, <2>4, KnownStart
<1>3. ASSUME NEW p \in Procs, NEW d \in Devices, EnrollExisting(p, d)
      PROVE  Known'
  <2>1. PICK c \in Commands : /\ c.pc = "post" /\ c.pc \in Steps
                              /\ c.rec.pair <= pairs /\ c.rec.server <= epoch
                              /\ SafeStateName(c.rec.dev) = SafeStateName(c.dev)
                              /\ Start(p, c) /\ pairs' = pairs
    BY <1>3, ExistingFacts
  <2>2. pairs' \in Nat /\ pairs <= pairs' /\ c.rec.pair <= pairs'
    BY <2>1, Counters
  <2> QED BY <2>1, <2>2, KnownStart
<1>4. ASSUME NEW p \in Procs, NEW d \in Devices, Request(p, d)
      PROVE  Known'
  <2>1. PICK c \in Commands :
          /\ c.pc = "ask" /\ c.rec.pair <= pairs /\ c.rec.server <= epoch
          /\ SafeStateName(c.rec.dev) = SafeStateName(c.dev) /\ Become(p, c)
          /\ UNCHANGED <<file, pairs, kills, epoch, table, orphans, accepted, strayed, hurt>>
    BY <1>4, RequestFacts
  <2>2. proc'[p] = c /\ \A q \in Procs \ {p} : proc'[q] = proc[q]
    BY <2>1, BecomeFacts
  <2> QED BY <2>1, <2>2, KnownMove
<1>5. ASSUME NEW p \in Procs, Open(p) PROVE Known'
  <2>1. /\ proc'[p].rec.pair <= pairs /\ proc'[p].rec.server <= epoch
        /\ proc'[p].pc \in {"open", "write"} /\ proc'[p].then = "post" => proc'[p].rec.server = None
    <3>1. proc[p] \in Commands /\ proc[p].pc = "open"
      BY <1>5, OpenFacts, Working
    <3>2. proc'[p].rec = proc[p].rec /\ proc'[p].then = proc[p].then
      BY <1>5, <3>1, OpenFacts DEF Commands
    <3> QED BY <1>5, <3>1, <3>2, OpenFacts DEF Known
  <2>2. \A f \in Files : file'[f] = file[f] \/ file'[f].kind # "record"
    BY <1>5, OpenFacts, KindsDiffer DEF Typed, TypeOK
  <2> QED BY <1>5, <2>1, <2>2, OpenFacts, KnownMove
<1>6. ASSUME NEW p \in Procs, Write(p) PROVE Known'
  <2>1. PICK c \in Commands :
          /\ proc[p] # Idle /\ c.pc = "post" /\ c.rec = proc[p].rec
          /\ SafeStateName(c.rec.dev) = SafeStateName(c.dev)
          /\ Become(p, IF proc[p].then = "idle" THEN Idle ELSE c)
          /\ file' = [file EXCEPT ![FileOf(p)] = IF Covers(proc[p].rec, @) THEN proc[p].rec ELSE Garbled]
          /\ UNCHANGED <<pairs, kills, epoch, table, orphans, strayed>>
          /\ \/ UNCHANGED accepted
             \/ accepted' = [accepted EXCEPT ![FileOf(p)] = {}]
    BY <1>6, WriteFacts
  <2>2. (proc'[p] = Idle \/ proc'[p] = c) /\ \A q \in Procs \ {p} : proc'[q] = proc[q]
    BY <2>1, BecomeFacts
  <2>3. c.rec.pair <= pairs /\ c.rec.server <= epoch
    BY <2>1 DEF Known
  <2>4. \A f \in Files : \/ file'[f] = file[f]
                         \/ file'[f].kind # "record"
                         \/ proc[p] # Idle /\ f = FileOf(p) /\ file'[f] = proc[p].rec
    BY <2>1, KindsDiffer DEF Typed, TypeOK
  <2>5. \A f \in Files : \A k \in accepted'[f] : k \in accepted[f]
    BY <2>1 DEF Typed, TypeOK
  <2> QED BY <2>1, <2>2, <2>3, <2>4, <2>5, KnownMove
<1>7. ASSUME NEW p \in Procs, Enrolled(p) PROVE Known'
  <2>1. /\ proc[p] \in Commands /\ proc[p].rec \in Records /\ proc[p].rec.pair <= pairs
        /\ proc[p].dev \in Devices /\ proc[p].rec.pair \in Pairs
    BY <1>7, EnrolledFacts, Working DEF Known
  <2>2. proc'[p].rec.pair <= pairs /\ proc'[p].rec.server <= epoch /\ proc'[p].pc = "save"
    BY <1>7, <2>1, EnrolledFacts, Counters
  <2>3. \A f \in Files : \A k \in accepted'[f] : k \in accepted[f] \/ (k \in Pairs /\ k <= pairs)
    BY <1>7, <2>1, EnrolledFacts, EnrolsPosts
  <2> QED BY <1>7, <2>2, <2>3, EnrolledFacts, KnownMove
<1>8. ASSUME NEW p \in Procs,
             \/ AnswerLost(p) \/ PostLost(p) \/ SaveFails(p) \/ Kill(p)
             \/ Served(p) \/ BadSignature(p) \/ Refused(p)
      PROVE  Known'
  <2>1. proc[p].rec.pair <= pairs /\ proc[p].dev \in Devices /\ proc[p].rec.pair \in Pairs
    BY <1>8, EndFacts, Working DEF Known
  <2>2. \A f \in Files : \A k \in accepted'[f] : k \in accepted[f] \/ (k \in Pairs /\ k <= pairs)
    <3>1. CASE AnswerLost(p)
      BY <2>1, <3>1, EnrolsPosts DEF AnswerLost
    <3> QED BY <1>8, <3>1, EndFacts
  <2>3. \A o \in orphans' : o \in orphans \/ (o[2] \in Pairs /\ o[2] <= pairs)
    <3>1. CASE AnswerLost(p)
      BY <3>1 DEF AnswerLost
    <3> QED BY <1>8, <2>1, <3>1, EndFacts
  <2> QED BY <1>8, <2>2, <2>3, EndFacts, KnownMove
<1>9. ASSUME NEW p \in Procs, Save(p) PROVE Known'
  <2>1. PICK c \in Commands :
          /\ c.then = "idle" /\ c.rec.pair <= pairs /\ c.rec.server = proc[p].rec.server
          /\ proc[p] # Idle /\ SafeStateName(c.rec.dev) = SafeStateName(c.dev) /\ Become(p, c)
          /\ UNCHANGED <<file, pairs, kills, epoch, table, orphans, accepted, strayed, hurt>>
    BY <1>9, SaveFacts
  <2>2. proc'[p] = c /\ \A q \in Procs \ {p} : proc'[q] = proc[q]
    BY <2>1, BecomeFacts
  <2>3. c.rec.server <= epoch
    BY <2>1 DEF Known
  <2> QED BY <2>1, <2>2, <2>3, KnownMove
<1>10. CASE OrphanArrives
  <2>1. PICK o \in orphans : /\ ServerEnrolls(o[1], o[2]) /\ orphans' = orphans \ {o}
                             /\ UNCHANGED <<file, proc, pairs, epoch>>
    BY <1>10 DEF OrphanArrives, ServerEnrolls
  <2>2. \A f \in Files : \A k \in accepted'[f] : k \in accepted[f] \/ (k \in Pairs /\ k <= pairs)
    BY <2>1, OrphanTypes, EnrolsPosts DEF Known
  <2>3. /\ \A q \in orphans' : q[2] <= pairs'
        /\ \A f \in Files : \A k \in accepted'[f] : k <= pairs'
    BY <2>1, <2>2, KnownPosts, Counters
  <2> QED BY <2>1, <2>3 DEF Known
<1>11. CASE OrphanLost
  BY <1>11 DEF OrphanLost, Known
<1>12. CASE ServerRestart
  <2>1. pairs' \in Nat /\ epoch' \in Nat /\ pairs <= pairs' /\ epoch <= epoch'
        /\ UNCHANGED <<file, proc, accepted>> /\ orphans' = {}
    BY <1>12, Counters DEF ServerRestart
  <2>2. ASSUME NEW q \in Procs, proc'[q] # Idle
        PROVE  /\ proc'[q].rec.pair <= pairs' /\ proc'[q].rec.server <= epoch'
               /\ proc'[q].pc \in {"open", "write"} /\ proc'[q].then = "post" => proc'[q].rec.server = None
    BY <2>1, <2>2, KnownCommand
  <2>3. \A f \in Files : file'[f].kind = "record" =>
          SafeStateName(file'[f].dev) = f /\ file'[f].pair <= pairs' /\ file'[f].server <= epoch'
    BY <2>1, KnownFiles
  <2>4. /\ \A o \in orphans' : o[2] <= pairs'
        /\ \A f \in Files : \A k \in accepted'[f] : k <= pairs'
    BY <2>1, KnownPosts
  <2> QED BY <2>2, <2>3, <2>4 DEF Known
<1> QED BY <1>1, <1>2, <1>3, <1>4, <1>5, <1>6, <1>7, <1>8, <1>9, <1>10, <1>11, <1>12 DEF Next, Step
-----------------------------------------------------------------------------
(* Command p moves on at its file, or is no longer an enrolling command;   *)
(* the others stay where they are.                                         *)
MovesOn(p) ==
    /\ \A q \in Procs \ {p} : proc'[q] = proc[q]
    /\ \/ proc'[p].pc \notin Steps
       \/ /\ proc[p].pc \in Steps
          /\ proc'[p].dev = proc[p].dev /\ proc'[p].met = proc[p].met

LEMMA MovesOnFacts ==
    ASSUME NEW p \in Procs, MovesOn(p), NEW q \in Procs, proc'[q].pc \in Steps
    PROVE  /\ proc[q].pc \in Steps /\ FileOf(q)' = FileOf(q) /\ proc'[q].met = proc[q].met
           /\ proc'[q].dev = proc[q].dev
BY DEF MovesOn, FileOf

(* Every step that is not the start of an enrolling command moves one      *)
(* command on or none.                                                     *)
LEMMA Movers ==
    ASSUME Typed, Known, NEW p \in Procs,
           \/ \E d \in Devices : Request(p, d)
           \/ Step(p) \/ Kill(p)
    PROVE  MovesOn(p)
<1>1. ASSUME NEW d \in Devices, Request(p, d) PROVE MovesOn(p)
  <2>1. PICK c \in Commands :
          /\ c.pc = "ask" /\ SafeStateName(c.rec.dev) = SafeStateName(c.dev) /\ Become(p, c)
    BY <1>1, RequestFacts
  <2>2. proc'[p] = c /\ \A q \in Procs \ {p} : proc'[q] = proc[q]
    BY <2>1, BecomeFacts
  <2> QED BY <2>1, <2>2 DEF MovesOn, Steps
<1>2. CASE Open(p)
  BY <1>2, OpenFacts DEF MovesOn, Steps
<1>3. CASE Write(p)
  <2>1. PICK c \in Commands :
          /\ proc[p].pc = "write" /\ c.dev = proc[p].dev /\ c.met = proc[p].met
          /\ SafeStateName(c.rec.dev) = SafeStateName(c.dev)
          /\ Become(p, IF proc[p].then = "idle" THEN Idle ELSE c)
    BY <1>3, WriteFacts
  <2>2. (proc'[p] = Idle \/ proc'[p] = c) /\ \A q \in Procs \ {p} : proc'[q] = proc[q]
    BY <2>1, BecomeFacts
  <2> QED BY <2>1, <2>2, KindsDiffer DEF MovesOn, Steps
<1>4. CASE Enrolled(p)
  BY <1>4, EnrolledFacts DEF MovesOn, Steps
<1>5. CASE \/ AnswerLost(p) \/ PostLost(p) \/ SaveFails(p) \/ Kill(p)
           \/ Served(p) \/ BadSignature(p) \/ Refused(p)
  BY <1>5, EndFacts, KindsDiffer DEF MovesOn, Steps
<1>6. CASE Save(p)
  <2>1. PICK c \in Commands :
          /\ proc[p].pc = "save" /\ c.dev = proc[p].dev /\ c.met = proc[p].met
          /\ SafeStateName(c.rec.dev) = SafeStateName(c.dev) /\ Become(p, c)
    BY <1>6, SaveFacts
  <2>2. proc'[p] = c /\ \A q \in Procs \ {p} : proc'[q] = proc[q]
    BY <2>1, BecomeFacts
  <2> QED BY <2>1, <2>2 DEF MovesOn, Steps
<1> QED BY <1>1, <1>2, <1>3, <1>4, <1>5, <1>6 DEF Step

(* A file is repaired only by a command that is alone there; no other      *)
(* step takes a file out of hurt.                                          *)
LEMMA RepairFacts ==
    ASSUME Typed, Known, NEW p \in Procs,
           \/ \E d \in Devices : Request(p, d)
           \/ Step(p) \/ Kill(p)
    PROVE  \/ hurt \subseteq hurt'
           \/ /\ Write(p) /\ Unmet(p) /\ proc[p].then = "idle"
              /\ hurt' = hurt \ {FileOf(p)}
              /\ accepted' = [accepted EXCEPT ![FileOf(p)] = {}]
              /\ \A o \in orphans : SafeStateName(o[1]) # FileOf(p)
<1>1. ASSUME NEW d \in Devices, Request(p, d) PROVE hurt \subseteq hurt'
  BY <1>1 DEF Request
<1>2. CASE Write(p)
  <2>1. \/ hurt' = hurt
        \/ /\ proc[p].pc = "write" /\ proc[p].then = "idle" /\ ~proc[p].met
           /\ \A o \in orphans : SafeStateName(o[1]) # FileOf(p)
           /\ hurt' = hurt \ {FileOf(p)}
           /\ accepted' = [accepted EXCEPT ![FileOf(p)] = {}]
    BY <1>2, WriteFacts
  <2> QED BY <1>2, <2>1 DEF Unmet, Steps
<1>3. CASE Step(p) /\ ~Write(p)
  BY <1>3 DEF Step, Open, Enrolled, AnswerLost, PostLost, Save, SaveFails,
              Served, BadSignature, Refused, Asking
<1>4. CASE Kill(p)
  BY <1>4 DEF Kill
<1> QED BY <1>1, <1>2, <1>3, <1>4

LEMMA MeetingsMove ==
    ASSUME Typed, Meetings, NEW p \in Procs, MovesOn(p),
           hurt \subseteq hurt' \/ (Unmet(p) /\ hurt' = hurt \ {FileOf(p)})
    PROVE  Meetings'
<1>1. ASSUME NEW a \in Procs, NEW b \in Procs,
             Unmet(a)', proc'[b].pc \in Steps, FileOf(b)' = FileOf(a)'
      PROVE  b = a
  BY <1>1, MovesOnFacts DEF Meetings, Unmet
<1>2. ASSUME NEW a \in Procs, proc'[a].pc \in Steps, proc'[a].met
      PROVE  FileOf(a)' \in hurt' /\ ~Single
  <2>1. proc[a].pc \in Steps /\ proc[a].met /\ FileOf(a)' = FileOf(a)
    BY <1>2, MovesOnFacts
  <2>2. FileOf(a) \in hurt /\ ~Single
    BY <2>1 DEF Meetings
  <2>3. ASSUME Unmet(p) PROVE FileOf(a) # FileOf(p)
    BY <2>1, <2>3 DEF Meetings, Unmet
  <2> QED BY <2>1, <2>2, <2>3
<1> QED BY <1>1, <1>2 DEF Meetings

LEMMA MeetingsStart ==
    ASSUME Typed, Meetings, NEW p \in Procs, NEW c \in Commands, c.pc \in Steps,
           SafeStateName(c.rec.dev) = SafeStateName(c.dev), Start(p, c)
    PROVE  Meetings'
<1> DEFINE f == SafeStateName(c.dev)
           others == Enrolling(f)
<1>1. /\ proc[p] = Idle
      /\ proc'[p] = [c EXCEPT !.met = others # {}]
      /\ \A q \in Procs \ {p} :
            IF q \in others THEN proc'[q] = [proc[q] EXCEPT !.met = TRUE] ELSE proc'[q] = proc[q]
      /\ hurt' = IF others = {} THEN hurt ELSE hurt \cup {f}
  BY StartFacts
<1>2. /\ proc'[p].pc \in Steps /\ proc'[p].dev = c.dev /\ FileOf(p)' = f
      /\ proc'[p].met = (others # {})
  BY <1>1 DEF Commands, FileOf
<1>3. p \notin others /\ \A q \in others : proc[q] \in Commands /\ q \in Procs /\ FileOf(q) = f /\ proc[q].pc \in Steps
  BY <1>1, Working, KindsDiffer DEF Enrolling, Steps
<1>4. \A q \in others : /\ proc'[q].pc = proc[q].pc /\ proc'[q].dev = proc[q].dev
                        /\ proc'[q].met = TRUE /\ FileOf(q)' = f
  <2>1. SUFFICES ASSUME NEW q \in others
                 PROVE  /\ proc'[q].pc = proc[q].pc /\ proc'[q].dev = proc[q].dev
                        /\ proc'[q].met = TRUE /\ FileOf(q)' = f
    OBVIOUS
  <2>2. proc'[q] = [proc[q] EXCEPT !.met = TRUE] /\ proc[q] \in Commands
    BY <1>1, <1>3
  <2>3. proc'[q].pc = proc[q].pc /\ proc'[q].dev = proc[q].dev /\ proc'[q].met = TRUE
    BY <2>2 DEF Commands
  <2> QED BY <1>3, <2>3 DEF FileOf
<1>5. \A q \in Procs \ {p} : proc[q].pc \in Steps /\ FileOf(q) = f => q \in others
  BY DEF Enrolling, Steps
<1>6. \A q \in Procs \ {p} : q \notin others => proc'[q] = proc[q] /\ FileOf(q)' = FileOf(q)
  BY <1>1 DEF FileOf
<1>7. ASSUME NEW a \in Procs, NEW b \in Procs,
             Unmet(a)', proc'[b].pc \in Steps, FileOf(b)' = FileOf(a)'
      PROVE  b = a
  <2>1. CASE a = p
    <3>1. others = {}
      BY <1>2, <1>7, <2>1 DEF Unmet
    <3> QED BY <1>2, <1>5, <1>6, <1>7, <2>1, <3>1
  <2>2. CASE a # p
    <3>1. a \notin others
      BY <1>4, <1>7 DEF Unmet
    <3>2. Unmet(a) /\ FileOf(a)' = FileOf(a) /\ FileOf(a) # f
      BY <1>5, <1>6, <1>7, <2>2, <3>1 DEF Unmet
    <3>3. b # p /\ b \notin others
      BY <1>2, <1>4, <1>7, <3>2
    <3> QED BY <1>6, <1>7, <3>2, <3>3 DEF Meetings
  <2> QED BY <2>1, <2>2
<1>8. ASSUME NEW a \in Procs, proc'[a].pc \in Steps, proc'[a].met
      PROVE  FileOf(a)' \in hurt' /\ ~Single
  <2>1. CASE others # {}
    <3>1. ~Single
      BY <1>3, <2>1 DEF Single
    <3> QED BY <1>1, <1>2, <1>4, <1>6, <1>8, <2>1, <3>1 DEF Meetings
  <2>2. CASE others = {}
    BY <1>1, <1>2, <1>6, <1>8, <2>2 DEF Meetings
  <2> QED BY <2>1, <2>2
<1> QED BY <1>7, <1>8 DEF Meetings

LEMMA StartsOf ==
    ASSUME Typed, Known, NEW p \in Procs, NEW d \in Devices,
           EnrollNew(p, d) \/ EnrollExisting(p, d) \/ ReEnroll(p, d)
    PROVE  \E c \in Commands :
              /\ c.pc \in Steps /\ c.dev = d /\ SafeStateName(c.rec.dev) = SafeStateName(c.dev)
              /\ Start(p, c)
              /\ \/ c.pc = "open" /\ c.then = "post" /\ c.rec = NewRecord(d) /\ pairs < MaxPairs
                 \/ c.pc = "post" /\ c.rec = file[SafeStateName(d)] /\ c.rec.kind = "record"
<1>1. CASE EnrollNew(p, d) \/ ReEnroll(p, d)
  <2>1. Generate(p, d)
    BY <1>1 DEF EnrollNew, ReEnroll
  <2>2. PICK c \in Commands :
          /\ pairs < MaxPairs
          /\ c.pc = "open" /\ c.dev = d /\ c.rec = NewRecord(d) /\ c.then = "post"
          /\ c.pc \in Steps /\ SafeStateName(c.rec.dev) = SafeStateName(c.dev)
          /\ Start(p, c)
    <3> HIDE DEF Typed, Known
    <3> QED BY <2>1, GenerateFacts, ZenonT(30)
  <2> QED BY <2>2
<1>2. CASE EnrollExisting(p, d)
  <2>1. file[SafeStateName(d)].kind = "record"
    BY <1>2, ExistingFacts
  <2>2. PICK c \in Commands :
          /\ c.pc = "post" /\ c.dev = d /\ c.rec = file[SafeStateName(d)] /\ c.pc \in Steps
          /\ SafeStateName(c.rec.dev) = SafeStateName(c.dev) /\ Start(p, c)
    BY <1>2, ExistingFacts
  <2> QED BY <2>1, <2>2
<1> QED BY <1>1, <1>2

LEMMA MeetingsNext ==
    ASSUME Typed, Known, Meetings, [Next]_vars
    PROVE  Meetings'
<1>1. CASE UNCHANGED vars
  BY <1>1 DEF vars, Meetings, Unmet, FileOf
<1>2. ASSUME NEW p \in Procs, NEW d \in Devices,
             EnrollNew(p, d) \/ EnrollExisting(p, d) \/ ReEnroll(p, d)
      PROVE  Meetings'
  BY <1>2, StartsOf, MeetingsStart
<1>3. ASSUME NEW p \in Procs, (\E d \in Devices : Request(p, d)) \/ Step(p) \/ Kill(p)
      PROVE  Meetings'
  BY <1>3, Movers, RepairFacts, MeetingsMove
<1>4. CASE OrphanArrives \/ OrphanLost \/ ServerRestart
  BY <1>4 DEF OrphanArrives, OrphanLost, ServerRestart, Meetings, Unmet, FileOf
<1> QED BY <1>1, <1>2, <1>3, <1>4 DEF Next
-----------------------------------------------------------------------------
(* What a command knows of its file stays true while others move.          *)
LEMMA AloneFrame ==
    ASSUME NEW q \in Procs, Unmet(q), Alone(q), proc'[q] = proc[q],
           file'[FileOf(q)] = file[FileOf(q)],
           \/ /\ epoch' = epoch /\ (strayed => strayed')
              /\ table'[proc[q].dev] = table[proc[q].dev] \/ strayed'
           \/ proc[q].rec.server # epoch'
    PROVE  Alone(q)'
BY DEF Alone, Answering, FileOf

(* Two enrolling commands at different files have different devices, and   *)
(* one that has met none is alone at its file.                             *)
LEMMA OtherFiles ==
    ASSUME Meetings, NEW p \in Procs, NEW q \in Procs, q # p, Unmet(q), proc[p].pc \in Steps
    PROVE  FileOf(q) # FileOf(p) /\ proc[q].dev # proc[p].dev
BY DEF Meetings, FileOf

LEMMA AloneStart ==
    ASSUME Typed, Meetings, UnmetIsAlone, NEW p \in Procs, NEW c \in Commands, c.pc \in Steps,
           SafeStateName(c.rec.dev) = SafeStateName(c.dev), Start(p, c),
           \/ c.pc = "open" /\ c.then = "post"
           \/ c.pc = "post" /\ c.rec = file[SafeStateName(c.dev)]
    PROVE  UnmetIsAlone'
<1> DEFINE others == Enrolling(SafeStateName(c.dev))
<1>1. /\ proc'[p] = [c EXCEPT !.met = others # {}]
      /\ \A q \in Procs \ {p} :
            IF q \in others THEN proc'[q] = [proc[q] EXCEPT !.met = TRUE] ELSE proc'[q] = proc[q]
      /\ UNCHANGED <<file, epoch, table, strayed>>
  BY StartFacts
<1>2. \A q \in others : proc[q] \in Commands
  BY Working, KindsDiffer DEF Enrolling, Steps
<1>3. Alone(p)'
  <2>1. /\ proc'[p].pc = c.pc /\ proc'[p].dev = c.dev /\ proc'[p].rec = c.rec
        /\ proc'[p].then = c.then
    BY <1>1 DEF Commands
  <2> QED BY <1>1, <2>1 DEF Alone, Answering, FileOf
<1>4. ASSUME NEW q \in Procs \ {p}, Unmet(q)' PROVE Alone(q)'
  <2>1. q \notin others
    BY <1>1, <1>2, <1>4 DEF Unmet, Commands
  <2>2. proc'[q] = proc[q] /\ Unmet(q)
    BY <1>1, <1>4, <2>1 DEF Unmet
  <2> QED BY <1>1, <2>2, AloneFrame DEF UnmetIsAlone
<1> QED BY <1>3, <1>4 DEF UnmetIsAlone

(* A step of p leaves the others alone when it changes only p's file and   *)
(* only the entry of p's device.                                           *)
LEMMA AloneMove ==
    ASSUME Typed, Meetings, UnmetIsAlone, NEW p \in Procs, MovesOn(p), UNCHANGED <<epoch, strayed>>,
           file' = file \/ (proc[p].pc \in Steps /\ \A f \in Files : f # FileOf(p) => file'[f] = file[f]),
           table' = table \/ (proc[p].pc \in Steps /\ \A d \in Devices : d # proc[p].dev => table'[d] = table[d]),
           Unmet(p)' => Alone(p)'
    PROVE  UnmetIsAlone'
<1>1. ASSUME NEW q \in Procs \ {p}, Unmet(q)' PROVE Alone(q)'
  <2>1. proc'[q] = proc[q] /\ Unmet(q) /\ Alone(q)
    BY <1>1 DEF MovesOn, Unmet, UnmetIsAlone
  <2>2. FileOf(q) \in Files /\ proc[q].dev \in Devices
    BY <2>1, NotIdle, Working DEF Unmet
  <2>3. file'[FileOf(q)] = file[FileOf(q)] /\ table'[proc[q].dev] = table[proc[q].dev]
    BY <2>1, <2>2, OtherFiles
  <2> QED BY <2>1, <2>3, AloneFrame
<1> QED BY <1>1 DEF UnmetIsAlone

LEMMA AloneNext ==
    ASSUME Typed, Known, Meetings, UnmetIsAlone, [Next]_vars
    PROVE  UnmetIsAlone'
<1>1. CASE UNCHANGED vars
  BY <1>1 DEF vars, UnmetIsAlone, Unmet, Alone, Answering, FileOf
<1>2. ASSUME NEW p \in Procs, NEW d \in Devices,
             EnrollNew(p, d) \/ EnrollExisting(p, d) \/ ReEnroll(p, d)
      PROVE  UnmetIsAlone'
  BY <1>2, StartsOf, AloneStart
<1>3. ASSUME NEW p \in Procs, NEW d \in Devices, Request(p, d)
      PROVE  UnmetIsAlone'
  <2>1. PICK c \in Commands :
          /\ c.pc = "ask" /\ SafeStateName(c.rec.dev) = SafeStateName(c.dev) /\ Become(p, c)
          /\ UNCHANGED <<file, epoch, table, strayed>>
    BY <1>3, RequestFacts
  <2>2. ~Unmet(p)'
    BY <2>1, BecomeFacts DEF Unmet, Steps
  <2> QED BY <1>3, <2>1, <2>2, Movers, AloneMove
<1>4. ASSUME NEW p \in Procs, Open(p) PROVE UnmetIsAlone'
  <2>1. /\ proc[p].pc = "open" /\ proc[p].pc \in Steps /\ FileOf(p) \in Files
        /\ proc'[p].pc = "write" /\ proc'[p].dev = proc[p].dev /\ proc'[p].met = proc[p].met
        /\ proc'[p].rec = proc[p].rec /\ proc'[p].then = proc[p].then
        /\ file' = [file EXCEPT ![FileOf(p)] = Empty]
        /\ UNCHANGED <<epoch, table, strayed>>
    BY <1>4, OpenFacts, Working DEF Steps
  <2>2. Unmet(p)' => Alone(p)'
    <3>1. SUFFICES ASSUME Unmet(p)' PROVE Alone(p)'
      OBVIOUS
    <3>2. Alone(p)
      BY <2>1, <3>1 DEF UnmetIsAlone, Unmet
    <3>3. FileOf(p)' = FileOf(p) /\ file'[FileOf(p)] = Empty
      BY <2>1 DEF FileOf, Typed, TypeOK
    <3> QED BY <2>1, <3>2, <3>3 DEF Alone, Answering
  <2>3. \A f \in Files : f # FileOf(p) => file'[f] = file[f]
    BY <2>1 DEF Typed, TypeOK
  <2> QED BY <1>4, <2>1, <2>2, <2>3, Movers, AloneMove DEF Step
<1>5. ASSUME NEW p \in Procs, Write(p) PROVE UnmetIsAlone'
  <2>1. PICK c \in Commands :
          /\ proc[p] # Idle /\ proc[p].pc = "write"
          /\ c.pc = "post" /\ c.dev = proc[p].dev /\ c.rec = proc[p].rec
          /\ c.then = "idle" /\ c.met = proc[p].met
          /\ SafeStateName(c.rec.dev) = SafeStateName(c.dev)
          /\ Become(p, IF proc[p].then = "idle" THEN Idle ELSE c)
          /\ file' = [file EXCEPT ![FileOf(p)] = IF Covers(proc[p].rec, @) THEN proc[p].rec ELSE Garbled]
          /\ UNCHANGED <<epoch, table, strayed>>
    BY <1>5, WriteFacts
  <2>2. proc'[p] = Idle \/ proc'[p] = c
    BY <2>1, BecomeFacts
  <2>3. FileOf(p) \in Files /\ proc[p].pc \in Steps
    BY <2>1, Working DEF Steps
  <2>4. Unmet(p)' => Alone(p)'
    <3>1. SUFFICES ASSUME Unmet(p)' PROVE Alone(p)'
      OBVIOUS
    <3>2. proc'[p] = c
      BY <2>2, <3>1, KindsDiffer DEF Unmet, Steps
    <3>3. Alone(p)
      BY <2>1, <2>3, <3>1, <3>2 DEF UnmetIsAlone, Unmet
    <3>4. file'[FileOf(p)] = proc[p].rec /\ FileOf(p)' = FileOf(p)
      BY <2>1, <2>3, <3>2, <3>3 DEF Alone, Covers, FileOf, Typed, TypeOK
    <3> QED BY <2>1, <3>2, <3>4 DEF Alone, Answering
  <2>5. \A f \in Files : f # FileOf(p) => file'[f] = file[f]
    BY <2>1, <2>3 DEF Typed, TypeOK
  <2> QED BY <1>5, <2>1, <2>3, <2>4, <2>5, Movers, AloneMove DEF Step
<1>6. ASSUME NEW p \in Procs, Enrolled(p) PROVE UnmetIsAlone'
  <2>1. /\ proc[p].pc = "post" /\ proc[p].pc \in Steps /\ proc[p].dev \in Devices
        /\ proc[p].rec \in Records /\ proc[p].rec.kind = "record"
        /\ proc'[p].pc = "save" /\ proc'[p].dev = proc[p].dev /\ proc'[p].met = proc[p].met
        /\ proc'[p].rec.pair = proc[p].rec.pair /\ proc'[p].rec.server = epoch
        /\ table' = [table EXCEPT ![proc[p].dev] = proc[p].rec.pair]
        /\ UNCHANGED <<file, epoch, strayed>>
    BY <1>6, EnrolledFacts, Working DEF Steps, ServerEnrolls, Records
  <2>2. Unmet(p)' => Alone(p)'
    <3>1. SUFFICES ASSUME Unmet(p)' PROVE Alone(p)'
      OBVIOUS
    <3>2. file[FileOf(p)] = proc[p].rec
      BY <2>1, <3>1 DEF UnmetIsAlone, Unmet, Alone
    <3>3. FileOf(p)' = FileOf(p) /\ table'[proc[p].dev] = proc[p].rec.pair
      BY <2>1 DEF FileOf, Typed, TypeOK
    <3> QED BY <2>1, <3>2, <3>3 DEF Alone, Answering
  <2>3. \A d \in Devices : d # proc[p].dev => table'[d] = table[d]
    BY <2>1 DEF Typed, TypeOK
  <2> QED BY <1>6, <2>1, <2>2, <2>3, Movers, AloneMove DEF Step
<1>7. ASSUME NEW p \in Procs, Save(p) PROVE UnmetIsAlone'
  <2>1. PICK c \in Commands :
          /\ proc[p].pc = "save" /\ file[FileOf(p)].kind = "record"
          /\ c.rec.pair = file[FileOf(p)].pair /\ c.rec.server = proc[p].rec.server
          /\ c.pc = "open" /\ c.dev = proc[p].dev /\ c.then = "idle" /\ c.met = proc[p].met
          /\ SafeStateName(c.rec.dev) = SafeStateName(c.dev)
          /\ Become(p, c)
          /\ UNCHANGED <<file, epoch, table, strayed>>
    BY <1>7, SaveFacts
  <2>2. proc'[p] = c
    BY <2>1, BecomeFacts
  <2>3. Unmet(p)' => Alone(p)'
    <3>1. SUFFICES ASSUME Unmet(p)' PROVE Alone(p)'
      OBVIOUS
    <3>2. Alone(p)
      BY <2>1, <2>2, <3>1 DEF UnmetIsAlone, Unmet, Steps
    <3> QED BY <2>1, <2>2, <3>2 DEF Alone, Answering, FileOf
  <2> QED BY <1>7, <2>1, <2>3, Movers, AloneMove DEF Step
<1>8. ASSUME NEW p \in Procs,
             \/ AnswerLost(p) \/ PostLost(p) \/ SaveFails(p) \/ Kill(p)
             \/ Served(p) \/ BadSignature(p) \/ Refused(p)
      PROVE  UnmetIsAlone'
  <2>1. ~Unmet(p)' /\ UNCHANGED <<file, epoch, strayed>>
    BY <1>8, EndFacts, KindsDiffer DEF Unmet, Steps
  <2>2. table' = table \/ (proc[p].pc \in Steps /\ \A d \in Devices : d # proc[p].dev => table'[d] = table[d])
    <3>1. CASE AnswerLost(p)
      BY <3>1 DEF AnswerLost, ServerEnrolls, Typed, TypeOK, Steps
    <3> QED BY <1>8, <3>1, EndFacts
  <2> QED BY <1>8, <2>1, <2>2, Movers, AloneMove DEF Step
<1>9. CASE OrphanArrives \/ OrphanLost \/ ServerRestart
  <2>1. ASSUME NEW q \in Procs, Unmet(q)' PROVE Alone(q)'
    <3>1. /\ proc' = proc /\ file' = file
          /\ \/ epoch' = epoch /\ strayed'
             \/ epoch' = epoch /\ strayed' = strayed /\ table' = table
             \/ epoch' = epoch + 1
      BY <1>9 DEF OrphanArrives, OrphanLost, ServerRestart, ServerEnrolls
    <3>2. Unmet(q) /\ Alone(q)
      BY <2>1, <3>1 DEF Unmet, UnmetIsAlone
    <3>3. proc[q].rec.server <= epoch /\ proc[q].rec.server \in Nat /\ epoch \in Nat
      BY <3>2, NotIdle, Working, Counters DEF Unmet, Known
    <3> QED BY <3>1, <3>2, <3>3, AloneFrame
  <2> QED BY <2>1 DEF UnmetIsAlone
<1> QED BY <1>1, <1>2, <1>3, <1>4, <1>5, <1>6, <1>7, <1>8, <1>9 DEF Next, Step
-----------------------------------------------------------------------------
(* What the file vouches for. *)
LEMMA VouchedFrame ==
    ASSUME Vouched, NEW f \in Files, file'[f] = file[f], epoch' = epoch,
           strayed => strayed', f \notin hurt' => f \notin hurt,
           strayed' \/ \A d \in Devices : SafeStateName(d) = f => table'[d] = table[d]
    PROVE  (Whole(f) /\ file[f].kind = "record" /\ file[f].server = epoch =>
               strayed \/ \E d \in Devices : SafeStateName(d) = f /\ table[d] = file[f].pair)'
BY DEF Vouched, Whole

(* At a whole file an enrolling command has met no other. *)
LEMMA WholeUnmet ==
    ASSUME Typed, Meetings, NEW p \in Procs, proc[p].pc \in Steps, Whole(FileOf(p))
    PROVE  Unmet(p)
<1>1. proc[p].met \in BOOLEAN
  BY NotIdle, Working
<1> QED BY <1>1 DEF Meetings, Whole, Unmet

LEMMA VouchedPost ==
    ASSUME Typed, Known, Meetings, UnmetIsAlone, Vouched, NEW p \in Procs, proc[p].pc = "post",
           table' = [table EXCEPT ![proc[p].dev] = proc[p].rec.pair],
           UNCHANGED <<file, epoch, strayed, hurt>>
    PROVE  Vouched'
<1>1. proc[p].dev \in Devices /\ proc[p].pc \in Steps /\ FileOf(p) = SafeStateName(proc[p].dev)
  BY NotIdle, Working DEF Steps
<1>2. ASSUME NEW f \in Files, Whole(f), file[f].kind = "record", file[f].server = epoch
      PROVE  strayed \/ \E d \in Devices : SafeStateName(d) = f /\ table'[d] = file[f].pair
  <2>1. CASE f = FileOf(p)
    <3>1. file[f] = proc[p].rec
      BY <1>1, <1>2, <2>1, WholeUnmet DEF UnmetIsAlone, Alone
    <3>2. table'[proc[p].dev] = file[f].pair
      BY <1>1, <3>1 DEF Typed, TypeOK
    <3> QED BY <1>1, <2>1, <3>2
  <2>2. CASE f # FileOf(p)
    <3>1. \A d \in Devices : SafeStateName(d) = f => table'[d] = table[d]
      BY <1>1, <2>2 DEF Typed, TypeOK
    <3> QED BY <1>2, <3>1 DEF Vouched
  <2> QED BY <2>1, <2>2
<1>3. \A f \in Files : Whole(f)' = Whole(f)
  BY DEF Whole
<1> QED BY <1>2, <1>3 DEF Vouched

LEMMA VouchedNext ==
    ASSUME Typed, Known, Meetings, UnmetIsAlone, Vouched, [Next]_vars
    PROVE  Vouched'
<1>1. CASE UNCHANGED vars
  BY <1>1 DEF vars, Vouched, Whole
<1>2. ASSUME NEW p \in Procs, NEW d \in Devices,
             EnrollNew(p, d) \/ EnrollExisting(p, d) \/ ReEnroll(p, d)
      PROVE  Vouched'
  <2>1. PICK c \in Commands : /\ c.pc \in Steps /\ SafeStateName(c.rec.dev) = SafeStateName(c.dev)
                              /\ Start(p, c)
    BY <1>2, StartsOf
  <2>2. UNCHANGED <<file, epoch, table, strayed>> /\ hurt \subseteq hurt'
    BY <2>1, StartFacts
  <2> QED BY <2>2, VouchedFrame DEF Vouched
<1>3. ASSUME NEW p \in Procs, NEW d \in Devices, Request(p, d) PROVE Vouched'
  BY <1>3 DEF Request, serverVars, Vouched, Whole
<1>4. ASSUME NEW p \in Procs, Open(p) PROVE Vouched'
  <2>1. /\ file' = [file EXCEPT ![FileOf(p)] = Empty]
        /\ UNCHANGED <<epoch, table, strayed, hurt>>
    BY <1>4, OpenFacts
  <2>2. \A f \in Files : file'[f] = file[f] \/ file'[f].kind # "record"
    BY <2>1, KindsDiffer DEF Typed, TypeOK
  <2> QED BY <2>1, <2>2, VouchedFrame DEF Vouched
<1>5. ASSUME NEW p \in Procs, Write(p) PROVE Vouched'
  <2> DEFINE f == FileOf(p)
  <2>1. /\ proc[p] # Idle /\ proc[p].pc = "write" /\ f \in Files /\ f = SafeStateName(proc[p].dev)
        /\ proc[p].dev \in Devices /\ proc[p].rec \in Records /\ proc[p].pc \in Steps
        /\ proc[p].then \in {"idle", "post"}
    BY <1>5, WriteFacts, Working DEF Steps
  <2>2. /\ file' = [file EXCEPT ![f] = IF Covers(proc[p].rec, @) THEN proc[p].rec ELSE Garbled]
        /\ UNCHANGED <<epoch, table, strayed>>
        /\ hurt' = hurt \/ (~proc[p].met /\ hurt' = hurt \ {f})
    BY <1>5, WriteFacts
  <2>3. CASE Unmet(p)
    <3>1. Alone(p)
      BY <2>3 DEF UnmetIsAlone
    <3>2. file'[f] = proc[p].rec
      BY <2>1, <2>2, <3>1 DEF Alone, Covers, Typed, TypeOK
    <3>3. proc[p].rec.server = epoch => strayed \/ table[proc[p].dev] = proc[p].rec.pair
      <4>1. CASE proc[p].then = "idle"
        BY <2>1, <3>1, <4>1 DEF Alone, Answering
      <4>2. CASE proc[p].then = "post"
        <5>1. proc[p].rec.server = None
          BY <2>1, <4>2 DEF Known
        <5>2. epoch # None
          BY BoundsAssumption DEF Typed, TypeOK, Epochs, None
        <5> QED BY <5>1, <5>2
      <4> QED BY <2>1, <4>1, <4>2
    <3>4. \A g \in Files : g # f => file'[g] = file[g] /\ (g \notin hurt' => g \notin hurt)
      BY <2>2 DEF Typed, TypeOK
    <3>5. \A g \in Files : g # f =>
             (Whole(g) /\ file[g].kind = "record" /\ file[g].server = epoch =>
                strayed \/ \E d \in Devices : SafeStateName(d) = g /\ table[d] = file[g].pair)'
      BY <2>2, <3>4, VouchedFrame
    <3> QED BY <2>1, <2>2, <3>2, <3>3, <3>5 DEF Vouched
  <2>4. CASE ~Unmet(p)
    <3>1. proc[p].met /\ f \in hurt /\ ~Single /\ hurt' = hurt
      BY <2>1, <2>2, <2>4 DEF Unmet, Meetings
    <3>2. \A g \in Files : g # f => file'[g] = file[g]
      BY <2>2 DEF Typed, TypeOK
    <3>3. ASSUME NEW g \in Files, g = f PROVE ~Whole(g)'
      BY <3>1, <3>3 DEF Whole
    <3>4. \A g \in Files : g # f =>
             (Whole(g) /\ file[g].kind = "record" /\ file[g].server = epoch =>
                strayed \/ \E d \in Devices : SafeStateName(d) = g /\ table[d] = file[g].pair)'
      BY <2>2, <3>1, <3>2, VouchedFrame
    <3> QED BY <3>3, <3>4 DEF Vouched
  <2> QED BY <2>3, <2>4
<1>6. ASSUME NEW p \in Procs, Enrolled(p) PROVE Vouched'
  BY <1>6, EnrolledFacts, VouchedPost DEF ServerEnrolls
<1>7. ASSUME NEW p \in Procs, Save(p) PROVE Vouched'
  BY <1>7 DEF Save, serverVars, Vouched, Whole
<1>8. ASSUME NEW p \in Procs,
             \/ PostLost(p) \/ SaveFails(p) \/ Kill(p)
             \/ Served(p) \/ BadSignature(p) \/ Refused(p)
      PROVE  Vouched'
  <2>1. UNCHANGED <<file, epoch, table, strayed>> /\ hurt \subseteq hurt'
    BY <1>8 DEF PostLost, SaveFails, Kill, Served, BadSignature, Refused, Asking, serverVars
  <2> QED BY <2>1, VouchedFrame DEF Vouched
<1>9. ASSUME NEW p \in Procs, AnswerLost(p) PROVE Vouched'
  BY <1>9, VouchedPost DEF AnswerLost, ServerEnrolls
<1>10. CASE OrphanArrives
  BY <1>10 DEF OrphanArrives, Vouched
<1>11. CASE OrphanLost
  BY <1>11 DEF OrphanLost, Vouched, Whole
<1>12. CASE ServerRestart
  <2>1. file' = file /\ epoch' = epoch + 1
    BY <1>12 DEF ServerRestart
  <2>2. ASSUME NEW f \in Files, file[f].kind = "record" PROVE file[f].server # epoch'
    <3>1. file[f].server <= epoch /\ file[f].server \in Nat /\ epoch \in Nat
      BY <2>2, FileRecord, Counters DEF Known
    <3> QED BY <2>1, <3>1
  <2> QED BY <2>1, <2>2 DEF Vouched
<1> QED BY <1>1, <1>2, <1>3, <1>4, <1>5, <1>6, <1>7, <1>8, <1>9, <1>10, <1>11, <1>12 DEF Next, Step
-----------------------------------------------------------------------------
(* The pairs a server has for a file, or may get, after a post.            *)
LEMMA PostedEnrols ==
    ASSUME Typed, NEW d \in Devices, NEW k \in Pairs, ServerEnrolls(d, k), orphans' = orphans,
           NEW f \in Files
    PROVE  \/ Posted(f)' \subseteq Posted(f)
           \/ f = SafeStateName(d) /\ Posted(f)' \subseteq Posted(f) \cup {k}
<1>1. accepted'[f] = accepted[f] \/ (f = SafeStateName(d) /\ accepted'[f] = accepted[f] \cup {k})
  BY DEF ServerEnrolls, Typed, TypeOK
<1> QED BY <1>1 DEF Posted

LEMMA PostedOrphan ==
    ASSUME NEW d \in Devices, NEW k \in Pairs, accepted' = accepted, NEW f \in Files,
           orphans' = orphans \/ orphans' = orphans \cup {<<d, k>>}
    PROVE  \/ Posted(f)' \subseteq Posted(f)
           \/ f = SafeStateName(d) /\ Posted(f)' \subseteq Posted(f) \cup {k}
<1>1. \A o \in orphans' : o \in orphans \/ (o[1] = d /\ o[2] = k)
  OBVIOUS
<1>2. CASE f = SafeStateName(d)
  BY <1>1, <1>2 DEF Posted
<1>3. CASE f # SafeStateName(d)
  BY <1>1, <1>3 DEF Posted
<1> QED BY <1>2, <1>3

LEMMA PostedTypes ==
    ASSUME Typed, Known, NEW f \in Files, NEW k \in Posted(f)
    PROVE  k \in Nat /\ k <= pairs
<1>1. CASE k \in accepted[f]
  BY <1>1, Counters DEF Known, Typed, TypeOK
<1>2. CASE \E o \in orphans : k = o[2]
  BY <1>2, OrphanTypes, Counters DEF Known
<1> QED BY <1>1, <1>2 DEF Posted

LEMMA SavedStart ==
    ASSUME Typed, Known, Saved, NEW p \in Procs, NEW c \in Commands, c.pc \in Steps,
           SafeStateName(c.rec.dev) = SafeStateName(c.dev), Start(p, c),
           \/ c.rec.pair = pairs + 1
           \/ c.rec = file[SafeStateName(c.dev)] /\ c.rec.kind = "record"
    PROVE  Saved'
<1> DEFINE others == Enrolling(SafeStateName(c.dev))
<1>1. /\ proc'[p] = [c EXCEPT !.met = others # {}]
      /\ \A q \in Procs \ {p} :
            IF q \in others THEN proc'[q] = [proc[q] EXCEPT !.met = TRUE] ELSE proc'[q] = proc[q]
      /\ UNCHANGED <<file, orphans, accepted>>
      /\ hurt' = IF others = {} THEN hurt ELSE hurt \cup {SafeStateName(c.dev)}
  BY StartFacts
<1>2. \A q \in others : proc[q] \in Commands
  BY Working, KindsDiffer DEF Enrolling, Steps
<1>3. proc'[p].pc = c.pc /\ proc'[p].dev = c.dev /\ proc'[p].rec = c.rec
  BY <1>1 DEF Commands
<1>4. \A q \in Procs \ {p} :
         \/ proc'[q] = proc[q]
         \/ proc'[q].pc = proc[q].pc /\ proc'[q].dev = proc[q].dev /\ proc'[q].rec = proc[q].rec
  <2>1. ASSUME NEW q \in others, q # p, proc'[q] = [proc[q] EXCEPT !.met = TRUE]
        PROVE  proc'[q].pc = proc[q].pc /\ proc'[q].dev = proc[q].dev /\ proc'[q].rec = proc[q].rec
    BY <1>2, <2>1 DEF Commands
  <2> QED BY <1>1, <2>1
<1>5. ASSUME NEW f \in Files \ hurt', NEW k \in Posted(f), SavedAt(f, k)
      PROVE  SavedAt(f, k)'
  <2>1. ASSUME f = SafeStateName(c.dev) PROVE k <= c.rec.pair
    <3>1. CASE c.rec.pair = pairs + 1
      BY <3>1, PostedTypes, Counters
    <3>2. CASE c.rec = file[f] /\ c.rec.kind = "record"
      BY <1>5, <3>2 DEF SavedAt
    <3> QED BY <2>1, <3>1, <3>2
  <2>2. ASSUME NEW q \in Procs, proc'[q].pc \in Steps, SafeStateName(proc'[q].dev) = f
        PROVE  k <= proc'[q].rec.pair
    <3>1. CASE q = p
      BY <1>3, <2>1, <2>2, <3>1
    <3>2. CASE q # p
      BY <1>4, <1>5, <2>2, <3>2 DEF SavedAt, FileOf
    <3> QED BY <3>1, <3>2
  <2> QED BY <1>1, <1>5, <2>2 DEF SavedAt, FileOf
<1>6. \A f \in Files : Posted(f)' = Posted(f)
  BY <1>1 DEF Posted
<1>7. \A f \in Files \ hurt' : f \in Files \ hurt
  BY <1>1
<1> QED BY <1>5, <1>6, <1>7 DEF Saved

(* Command p moves on: at a file that is not hurt it posts only the pair   *)
(* that is in the file, writes there only its own record, and keeps its    *)
(* pair.                                                                   *)
LEMMA SavedMove ==
    ASSUME Typed, Known, Meetings, UnmetIsAlone, Saved, NEW p \in Procs, MovesOn(p),
           \A f \in Files : f \in hurt => f \in hurt' \/ Posted(f)' = {},
           proc'[p].pc \in Steps => proc'[p].rec.pair = proc[p].rec.pair \/ FileOf(p) \in hurt',
           \A f \in Files : \/ file'[f] = file[f] \/ file'[f] = Empty \/ f \in hurt'
                            \/ f = FileOf(p) /\ proc[p].pc \in Steps /\ file'[f] = proc[p].rec,
           \A f \in Files : \/ Posted(f)' \subseteq Posted(f)
                            \/ /\ proc[p].pc = "post" /\ f = FileOf(p) /\ file'[f] = file[f]
                               /\ Posted(f)' \subseteq Posted(f) \cup {proc[p].rec.pair}
    PROVE  Saved'
<1> SUFFICES ASSUME NEW f \in Files \ hurt', NEW k \in Posted(f)' PROVE SavedAt(f, k)'
  BY DEF Saved
<1>1. f \notin hurt
  OBVIOUS
<1>2. ASSUME SavedAt(f, k) PROVE SavedAt(f, k)'
  <2>1. file'[f] # Absent /\ (file'[f].kind = "record" => k <= file'[f].pair)
    <3>1. CASE file'[f] = file[f] \/ file'[f] = Empty
      BY <1>2, <3>1, KindsDiffer DEF SavedAt
    <3>2. CASE f = FileOf(p) /\ proc[p].pc \in Steps /\ file'[f] = proc[p].rec
      <4>1. proc[p].rec \in Records
        BY <3>2, NotIdle, Working
      <4>2. k <= proc[p].rec.pair
        BY <1>2, <3>2 DEF SavedAt
      <4> QED BY <3>2, <4>1, <4>2, KindsDiffer
    <3> QED BY <3>1, <3>2
  <2>2. ASSUME NEW q \in Procs, proc'[q].pc \in Steps, FileOf(q)' = f
        PROVE  k <= proc'[q].rec.pair
    <3>1. proc[q].pc \in Steps /\ FileOf(q) = f
      BY <2>2, MovesOnFacts
    <3>2. proc'[q].rec.pair = proc[q].rec.pair
      BY <2>2, <3>1 DEF MovesOn
    <3> QED BY <1>2, <3>1, <3>2 DEF SavedAt
  <2> QED BY <2>1, <2>2 DEF SavedAt
<1>3. CASE k \in Posted(f)
  BY <1>1, <1>2, <1>3 DEF Saved
<1>4. CASE k \notin Posted(f)
  <2>1. proc[p].pc = "post" /\ f = FileOf(p) /\ k = proc[p].rec.pair /\ proc[p].pc \in Steps
    BY <1>4 DEF Steps
  <2>2. Unmet(p)
    <3>1. proc[p].met \in BOOLEAN
      BY <2>1, NotIdle, Working
    <3> QED BY <1>1, <2>1, <3>1 DEF Meetings, Unmet
  <2>3. file[f] = proc[p].rec
    BY <2>1, <2>2 DEF UnmetIsAlone, Alone
  <2>4. \A q \in Procs : proc[q].pc \in Steps /\ FileOf(q) = f => q = p
    BY <2>1, <2>2 DEF Meetings
  <2>5. proc[p].rec \in Records /\ proc[p].rec.pair \in Nat
    BY <2>1, NotIdle, Working, Counters
  <2>6. SavedAt(f, k)
    BY <2>1, <2>3, <2>4, <2>5, KindsDiffer DEF SavedAt
  <2> QED BY <1>2, <2>6
<1> QED BY <1>3, <1>4

LEMMA SavedNext ==
    ASSUME Typed, Known, Meetings, UnmetIsAlone, Saved, [Next]_vars
    PROVE  Saved'
<1>1. CASE UNCHANGED vars
  BY <1>1 DEF vars, Saved, SavedAt, Posted, FileOf
<1>2. ASSUME NEW p \in Procs, NEW d \in Devices,
             EnrollNew(p, d) \/ EnrollExisting(p, d) \/ ReEnroll(p, d)
      PROVE  Saved'
  <2>1. PICK c \in Commands :
              /\ c.pc \in Steps /\ c.dev = d /\ SafeStateName(c.rec.dev) = SafeStateName(c.dev)
              /\ Start(p, c)
              /\ \/ c.rec = NewRecord(d) /\ pairs < MaxPairs
                 \/ c.rec = file[SafeStateName(d)] /\ c.rec.kind = "record"
    BY <1>2, StartsOf
  <2>2. pairs < MaxPairs => NewRecord(d).pair = pairs + 1
    BY NewRecordFacts
  <2> QED BY <2>1, <2>2, SavedStart
<1>3. ASSUME NEW p \in Procs, NEW d \in Devices, Request(p, d) PROVE Saved'
  <2>1. PICK c \in Commands :
          /\ c.pc = "ask" /\ SafeStateName(c.rec.dev) = SafeStateName(c.dev) /\ Become(p, c)
          /\ UNCHANGED <<file, orphans, accepted, hurt>>
    BY <1>3, RequestFacts
  <2>2. proc'[p].pc \notin Steps
    BY <2>1, BecomeFacts DEF Steps
  <2>3. \A f \in Files : Posted(f)' = Posted(f)
    BY <2>1 DEF Posted
  <2> QED BY <1>3, <2>1, <2>2, <2>3, Movers, SavedMove
<1>4. ASSUME NEW p \in Procs, Open(p) PROVE Saved'
  <2>1. /\ proc'[p].rec = proc[p].rec /\ file' = [file EXCEPT ![FileOf(p)] = Empty]
        /\ UNCHANGED <<orphans, accepted, hurt>>
    BY <1>4, OpenFacts
  <2>2. \A f \in Files : file'[f] = file[f] \/ file'[f] = Empty
    BY <2>1 DEF Typed, TypeOK
  <2>3. \A f \in Files : Posted(f)' = Posted(f)
    BY <2>1 DEF Posted
  <2> QED BY <1>4, <2>1, <2>2, <2>3, Movers, SavedMove DEF Step
<1>5. ASSUME NEW p \in Procs, Write(p) PROVE Saved'
  <2>1. PICK c \in Commands :
          /\ proc[p] # Idle /\ proc[p].pc = "write"
          /\ c.pc = "post" /\ c.dev = proc[p].dev /\ c.rec = proc[p].rec
          /\ SafeStateName(c.rec.dev) = SafeStateName(c.dev)
          /\ Become(p, IF proc[p].then = "idle" THEN Idle ELSE c)
          /\ file' = [file EXCEPT ![FileOf(p)] = IF Covers(proc[p].rec, @) THEN proc[p].rec ELSE Garbled]
          /\ orphans' = orphans
          /\ \/ UNCHANGED <<hurt, accepted>>
             \/ /\ \A o \in orphans : SafeStateName(o[1]) # FileOf(p)
                /\ hurt' = hurt \ {FileOf(p)}
                /\ accepted' = [accepted EXCEPT ![FileOf(p)] = {}]
    BY <1>5, WriteFacts
  <2>2. proc'[p].pc \in Steps => proc'[p].rec = proc[p].rec
    BY <2>1, BecomeFacts, KindsDiffer DEF Steps
  <2>3. FileOf(p) \in Files /\ proc[p].pc \in Steps /\ proc[p].met \in BOOLEAN
    BY <2>1, Working DEF Steps
  <2>4. ASSUME NEW f \in Files
        PROVE  /\ Posted(f)' \subseteq Posted(f)
               /\ f \in hurt => f \in hurt' \/ Posted(f)' = {}
    <3>1. CASE UNCHANGED <<hurt, accepted>>
      BY <2>1, <3>1 DEF Posted
    <3>2. CASE /\ \A o \in orphans : SafeStateName(o[1]) # FileOf(p)
               /\ hurt' = hurt \ {FileOf(p)}
               /\ accepted' = [accepted EXCEPT ![FileOf(p)] = {}]
      <4>1. accepted'[f] = IF f = FileOf(p) THEN {} ELSE accepted[f]
        BY <3>2 DEF Typed, TypeOK
      <4>2. f = FileOf(p) => Posted(f)' = {}
        BY <2>1, <3>2, <4>1 DEF Posted
      <4>3. f # FileOf(p) => Posted(f)' = Posted(f)
        BY <2>1, <4>1 DEF Posted
      <4> QED BY <3>2, <4>2, <4>3
    <3> QED BY <2>1, <3>1, <3>2
  <2>5. ASSUME NEW f \in Files
        PROVE  \/ file'[f] = file[f] \/ f \in hurt'
               \/ f = FileOf(p) /\ proc[p].pc \in Steps /\ file'[f] = proc[p].rec
    <3>1. CASE f # FileOf(p)
      BY <2>1, <3>1 DEF Typed, TypeOK
    <3>2. CASE f = FileOf(p) /\ Unmet(p)
      <4>1. file[f] = Empty
        BY <2>1, <3>2 DEF UnmetIsAlone, Alone
      <4> QED BY <2>1, <2>3, <3>2, <4>1 DEF Covers, Typed, TypeOK
    <3>3. CASE f = FileOf(p) /\ ~Unmet(p)
      <4>1. f \in hurt /\ proc[p].met
        BY <2>3, <3>3 DEF Unmet, Meetings
      <4> QED BY <1>5, <4>1 DEF Write
    <3> QED BY <3>1, <3>2, <3>3
  <2> QED BY <1>5, <2>2, <2>4, <2>5, Movers, SavedMove DEF Step
<1>6. ASSUME NEW p \in Procs, Enrolled(p) PROVE Saved'
  <2>1. /\ proc[p] # Idle /\ proc[p].pc = "post" /\ proc'[p].rec.pair = proc[p].rec.pair
        /\ ServerEnrolls(proc[p].dev, proc[p].rec.pair)
        /\ UNCHANGED <<file, orphans, hurt>>
    BY <1>6, EnrolledFacts
  <2>2. proc[p].dev \in Devices /\ proc[p].rec.pair \in Pairs /\ FileOf(p) = SafeStateName(proc[p].dev)
    BY <2>1, Working
  <2> QED BY <1>6, <2>1, <2>2, PostedEnrols, Movers, SavedMove DEF Step
<1>7. ASSUME NEW p \in Procs, Save(p) PROVE Saved'
  <2>1. PICK c \in Commands :
          /\ proc[p] # Idle /\ proc[p].pc = "save"
          /\ c.rec.pair = file[FileOf(p)].pair
          /\ SafeStateName(c.rec.dev) = SafeStateName(c.dev) /\ Become(p, c)
          /\ UNCHANGED <<file, orphans, accepted, hurt>>
    BY <1>7, SaveFacts
  <2>2. proc'[p] = c
    BY <2>1, BecomeFacts
  <2>3. proc'[p].rec.pair = proc[p].rec.pair \/ FileOf(p) \in hurt'
    <3>1. proc[p].pc \in Steps /\ proc[p].met \in BOOLEAN
      BY <2>1, Working DEF Steps
    <3>2. CASE Unmet(p)
      BY <2>1, <2>2, <3>2 DEF UnmetIsAlone, Alone, Answering
    <3>3. CASE ~Unmet(p)
      BY <2>1, <3>1, <3>3 DEF Unmet, Meetings
    <3> QED BY <3>2, <3>3
  <2>4. \A f \in Files : Posted(f)' = Posted(f)
    BY <2>1 DEF Posted
  <2> QED BY <1>7, <2>1, <2>3, <2>4, Movers, SavedMove DEF Step
<1>8. ASSUME NEW p \in Procs,
             \/ PostLost(p) \/ SaveFails(p) \/ Kill(p)
             \/ Served(p) \/ BadSignature(p) \/ Refused(p)
      PROVE  Saved'
  <2>1. /\ proc[p] # Idle /\ proc'[p].pc \notin Steps /\ file' = file
        /\ hurt \subseteq hurt'
    BY <1>8, EndFacts, KindsDiffer DEF Steps
  <2>2. /\ accepted' = accepted
        /\ \/ orphans' = orphans
           \/ /\ proc[p].pc = "post"
              /\ orphans' = orphans \cup {<<proc[p].dev, proc[p].rec.pair>>}
    BY <1>8 DEF PostLost, SaveFails, Kill, Served, BadSignature, Refused, Asking, serverVars
  <2>3. proc[p].dev \in Devices /\ proc[p].rec.pair \in Pairs /\ FileOf(p) = SafeStateName(proc[p].dev)
    BY <2>1, Working
  <2>4. \A f \in Files : \/ Posted(f)' \subseteq Posted(f)
                         \/ /\ proc[p].pc = "post" /\ f = FileOf(p)
                            /\ Posted(f)' \subseteq Posted(f) \cup {proc[p].rec.pair}
    <3>1. CASE orphans' = orphans
      BY <2>2, <3>1 DEF Posted
    <3>2. CASE proc[p].pc = "post" /\ orphans' = orphans \cup {<<proc[p].dev, proc[p].rec.pair>>}
      BY <2>2, <2>3, <3>2, PostedOrphan
    <3> QED BY <2>2, <3>1, <3>2
  <2> QED BY <1>8, <2>1, <2>4, Movers, SavedMove DEF Step
<1>9. ASSUME NEW p \in Procs, AnswerLost(p) PROVE Saved'
  <2>1. /\ proc[p] # Idle /\ proc[p].pc = "post" /\ proc'[p].pc \notin Steps
        /\ ServerEnrolls(proc[p].dev, proc[p].rec.pair)
        /\ UNCHANGED <<file, orphans, hurt>>
    BY <1>9, EndFacts, KindsDiffer DEF AnswerLost, Steps
  <2>2. proc[p].dev \in Devices /\ proc[p].rec.pair \in Pairs /\ FileOf(p) = SafeStateName(proc[p].dev)
    BY <2>1, Working
  <2> QED BY <1>9, <2>1, <2>2, PostedEnrols, Movers, SavedMove DEF Step
<1>10. CASE OrphanArrives \/ OrphanLost \/ ServerRestart
  <2>1. UNCHANGED <<file, proc, hurt>>
    BY <1>10 DEF OrphanArrives, OrphanLost, ServerRestart
  <2>2. ASSUME NEW f \in Files PROVE Posted(f)' \subseteq Posted(f)
    <3>1. CASE OrphanArrives
      <4>1. PICK o \in orphans : ServerEnrolls(o[1], o[2]) /\ orphans' = orphans \ {o}
        BY <3>1 DEF OrphanArrives
      <4>2. \/ accepted'[f] = accepted[f]
            \/ f = SafeStateName(o[1]) /\ accepted'[f] = accepted[f] \cup {o[2]}
        BY <4>1 DEF ServerEnrolls, Typed, TypeOK
      <4> QED BY <4>1, <4>2 DEF Posted
    <3>2. CASE OrphanLost \/ ServerRestart
      BY <3>2 DEF OrphanLost, ServerRestart, Posted
    <3> QED BY <1>10, <3>1, <3>2
  <2>3. \A f \in Files : \A k : SavedAt(f, k)' = SavedAt(f, k)
    BY <2>1 DEF SavedAt, FileOf
  <2> QED BY <2>1, <2>2, <2>3 DEF Saved
<1> QED BY <1>1, <1>2, <1>3, <1>4, <1>5, <1>6, <1>7, <1>8, <1>9, <1>10 DEF Next, Step
-----------------------------------------------------------------------------
(* Unreadable files. *)
Readable(s) == s \notin {Empty, Garbled}

LEMMA UnreadableMove ==
    ASSUME Typed, UnreadableOnlyIfHurt, NEW p \in Procs,
           \A q \in Procs \ {p} : proc[q].pc = "write" =>
               proc'[q].pc = "write" /\ proc'[q].dev = proc[q].dev,
           \A f \in Files : f \in hurt => f \in hurt' \/ Readable(file'[f]),
           proc[p].pc = "write" => FileOf(p) \in hurt' \/ Readable(file'[FileOf(p)]),
           \A f \in Files : \/ file'[f] = file[f] \/ Readable(file'[f]) \/ f \in hurt'
                            \/ f = FileOf(p)' /\ proc'[p].pc = "write"
    PROVE  UnreadableOnlyIfHurt'
<1> SUFFICES ASSUME NEW f \in Files, ~Readable(file'[f]), f \notin hurt'
             PROVE  \E q \in Procs : proc'[q].pc = "write" /\ FileOf(q)' = f
  BY DEF UnreadableOnlyIfHurt, Readable
<1>1. CASE file'[f] = file[f]
  <2>1. PICK q \in Procs : proc[q].pc = "write" /\ FileOf(q) = f
    BY <1>1 DEF UnreadableOnlyIfHurt, Readable
  <2> QED BY <2>1 DEF FileOf
<1>2. CASE file'[f] # file[f]
  BY <1>2
<1> QED BY <1>1, <1>2

LEMMA UnreadableNext ==
    ASSUME Typed, Known, Meetings, UnmetIsAlone, UnreadableOnlyIfHurt, [Next]_vars
    PROVE  UnreadableOnlyIfHurt'
<1>1. CASE UNCHANGED vars
  BY <1>1 DEF vars, UnreadableOnlyIfHurt, FileOf
<1>2. ASSUME NEW p \in Procs, NEW d \in Devices,
             EnrollNew(p, d) \/ EnrollExisting(p, d) \/ ReEnroll(p, d)
      PROVE  UnreadableOnlyIfHurt'
  <2>1. PICK c \in Commands :
              c.pc \in Steps /\ SafeStateName(c.rec.dev) = SafeStateName(c.dev) /\ Start(p, c)
    BY <1>2, StartsOf
  <2>2. /\ proc[p] = Idle /\ file' = file /\ hurt \subseteq hurt'
        /\ \A q \in Procs \ {p} : proc'[q] = proc[q] \/ proc'[q] = [proc[q] EXCEPT !.met = TRUE]
    BY <2>1, StartFacts
  <2>3. ASSUME NEW q \in Procs \ {p}, proc[q].pc = "write"
        PROVE  proc'[q].pc = "write" /\ proc'[q].dev = proc[q].dev
    <3>1. proc[q] \in Commands
      BY <2>3, NotIdle, Working DEF Steps
    <3> QED BY <2>2, <2>3, <3>1 DEF Commands
  <2> QED BY <2>2, <2>3, UnreadableMove, KindsDiffer
<1>3. ASSUME NEW p \in Procs, NEW d \in Devices, Request(p, d) PROVE UnreadableOnlyIfHurt'
  <2>1. PICK c \in Commands :
          /\ proc[p] = Idle /\ SafeStateName(c.rec.dev) = SafeStateName(c.dev) /\ Become(p, c)
          /\ UNCHANGED <<file, hurt>>
    BY <1>3, RequestFacts
  <2>2. \A q \in Procs \ {p} : proc'[q] = proc[q]
    BY <2>1, BecomeFacts
  <2> QED BY <2>1, <2>2, UnreadableMove, KindsDiffer
<1>4. ASSUME NEW p \in Procs, Open(p) PROVE UnreadableOnlyIfHurt'
  <2>1. /\ proc[p].pc = "open" /\ proc'[p].pc = "write" /\ proc'[p].dev = proc[p].dev
        /\ \A q \in Procs \ {p} : proc'[q] = proc[q]
        /\ file' = [file EXCEPT ![FileOf(p)] = Empty] /\ hurt' = hurt
    BY <1>4, OpenFacts
  <2>2. \A f \in Files : file'[f] = file[f] \/ f = FileOf(p)'
    BY <2>1 DEF Typed, TypeOK, FileOf
  <2> QED BY <2>1, <2>2, UnreadableMove
<1>5. ASSUME NEW p \in Procs, Write(p) PROVE UnreadableOnlyIfHurt'
  <2>1. PICK c \in Commands :
          /\ proc[p] # Idle /\ proc[p].pc = "write"
          /\ SafeStateName(c.rec.dev) = SafeStateName(c.dev)
          /\ Become(p, IF proc[p].then = "idle" THEN Idle ELSE c)
          /\ file' = [file EXCEPT ![FileOf(p)] = IF Covers(proc[p].rec, @) THEN proc[p].rec ELSE Garbled]
          /\ hurt' = hurt \/ (~proc[p].met /\ hurt' = hurt \ {FileOf(p)})
    BY <1>5, WriteFacts
  <2>2. \A q \in Procs \ {p} : proc'[q] = proc[q]
    BY <2>1, BecomeFacts
  <2>3. /\ FileOf(p) \in Files /\ proc[p].rec \in Records /\ proc[p].pc \in Steps
        /\ proc[p].met \in BOOLEAN
    BY <2>1, Working DEF Steps
  <2>4. \A f \in Files : f # FileOf(p) => file'[f] = file[f] /\ (f \in hurt => f \in hurt')
    BY <2>1 DEF Typed, TypeOK
  <2>5. Readable(file'[FileOf(p)]) \/ (hurt' = hurt /\ FileOf(p) \in hurt)
    <3>1. CASE Unmet(p)
      <4>1. file[FileOf(p)] = Empty
        BY <2>1, <3>1 DEF UnmetIsAlone, Alone
      <4>2. file'[FileOf(p)] = proc[p].rec
        BY <2>1, <2>3, <4>1 DEF Covers, Typed, TypeOK
      <4> QED BY <2>3, <4>2, KindsDiffer DEF Readable
    <3>2. CASE ~Unmet(p)
      BY <2>1, <2>3, <3>2 DEF Unmet, Meetings
    <3> QED BY <3>1, <3>2
  <2> QED BY <2>2, <2>4, <2>5, UnreadableMove
<1>6. ASSUME NEW p \in Procs, Enrolled(p) PROVE UnreadableOnlyIfHurt'
  BY <1>6, EnrolledFacts, UnreadableMove
<1>7. ASSUME NEW p \in Procs, Save(p) PROVE UnreadableOnlyIfHurt'
  <2>1. PICK c \in Commands :
          /\ proc[p].pc = "save" /\ SafeStateName(c.rec.dev) = SafeStateName(c.dev) /\ Become(p, c)
          /\ UNCHANGED <<file, hurt>>
    BY <1>7, SaveFacts
  <2>2. \A q \in Procs \ {p} : proc'[q] = proc[q]
    BY <2>1, BecomeFacts
  <2> QED BY <2>1, <2>2, UnreadableMove
<1>8. ASSUME NEW p \in Procs,
             \/ AnswerLost(p) \/ PostLost(p) \/ SaveFails(p) \/ Kill(p)
             \/ Served(p) \/ BadSignature(p) \/ Refused(p)
      PROVE  UnreadableOnlyIfHurt'
  <2>1. /\ \A q \in Procs \ {p} : proc'[q] = proc[q]
        /\ file' = file /\ hurt \subseteq hurt'
        /\ proc[p].pc = "write" => FileOf(p) \in hurt'
    BY <1>8, EndFacts
  <2> QED BY <2>1, UnreadableMove
<1>9. CASE OrphanArrives \/ OrphanLost \/ ServerRestart
  BY <1>9 DEF OrphanArrives, OrphanLost, ServerRestart, UnreadableOnlyIfHurt, FileOf
<1> QED BY <1>1, <1>2, <1>3, <1>4, <1>5, <1>6, <1>7, <1>8, <1>9 DEF Next, Step
-----------------------------------------------------------------------------
(* Requests.  Only Request makes a command ask. *)
LEMMA AskedNext ==
    ASSUME Typed, Known, Vouched, Asked, [Next]_vars
    PROVE  Asked'
<1> SUFFICES ASSUME Single, Injective, NEW q \in Procs,
                    proc'[q].pc = "ask", proc'[q].rec.server = epoch'
             PROVE  table'[proc'[q].dev] = proc'[q].rec.pair \/ strayed'
  BY DEF Asked, Single, Injective
<1>a. proc[q].pc = "ask" /\ proc[q].rec.server = epoch =>
         table[proc[q].dev] = proc[q].rec.pair \/ strayed
  BY DEF Asked
<1>1. CASE UNCHANGED vars
  BY <1>1, <1>a DEF vars
<1>2. ASSUME NEW p \in Procs, NEW d \in Devices,
             EnrollNew(p, d) \/ EnrollExisting(p, d) \/ ReEnroll(p, d)
      PROVE  FALSE
  <2>1. PICK c \in Commands :
              c.pc \in Steps /\ SafeStateName(c.rec.dev) = SafeStateName(c.dev) /\ Start(p, c)
    BY <1>2, StartsOf
  <2>2. \E b : proc'[p] = [c EXCEPT !.met = b]
    BY <2>1, StartFacts
  <2>3. proc'[p].pc = c.pc
    BY <2>2 DEF Commands
  <2> QED BY <2>1, <2>3 DEF Single, Steps
<1>3. ASSUME NEW p \in Procs, NEW d \in Devices, Request(p, d)
      PROVE  table'[proc'[q].dev] = proc'[q].rec.pair \/ strayed'
  <2> DEFINE f == SafeStateName(d)
  <2>1. PICK c \in Commands :
          /\ file[f].kind = "record" /\ c.dev = d /\ c.rec = file[f]
          /\ SafeStateName(c.rec.dev) = SafeStateName(c.dev) /\ Become(p, c)
          /\ UNCHANGED <<file, epoch, table, strayed>>
    BY <1>3, RequestFacts
  <2>2. q = p /\ proc'[q] = c
    BY <2>1, BecomeFacts DEF Single
  <2>3. f \in Files /\ Whole(f) /\ file[f].server = epoch
    BY <2>1, <2>2, FileNames DEF Whole
  <2>4. strayed \/ \E e \in Devices : SafeStateName(e) = f /\ table[e] = file[f].pair
    BY <2>1, <2>3 DEF Vouched
  <2>5. \A e \in Devices : SafeStateName(e) = f => e = d
    BY DEF Injective
  <2> QED BY <2>1, <2>2, <2>4, <2>5
<1>4. ASSUME NEW p \in Procs, Step(p) \/ Kill(p) PROVE FALSE
  <2>1. q = p
    BY DEF Single
  <2>2. CASE Open(p)
    BY <2>1, <2>2, OpenFacts
  <2>3. CASE Write(p)
    <3>1. PICK c \in Commands :
            /\ c.pc = "post" /\ SafeStateName(c.rec.dev) = SafeStateName(c.dev)
            /\ Become(p, IF proc[p].then = "idle" THEN Idle ELSE c)
      BY <2>3, WriteFacts
    <3> QED BY <2>1, <3>1, BecomeFacts, KindsDiffer
  <2>4. CASE Enrolled(p)
    BY <2>1, <2>4, EnrolledFacts
  <2>5. CASE Save(p)
    <3>1. PICK c \in Commands :
            /\ c.pc = "open" /\ SafeStateName(c.rec.dev) = SafeStateName(c.dev) /\ Become(p, c)
      BY <2>5, SaveFacts
    <3> QED BY <2>1, <3>1, BecomeFacts
  <2>6. CASE \/ AnswerLost(p) \/ PostLost(p) \/ SaveFails(p) \/ Kill(p)
             \/ Served(p) \/ BadSignature(p) \/ Refused(p)
    BY <2>1, <2>6, EndFacts, KindsDiffer
  <2> QED BY <1>4, <2>2, <2>3, <2>4, <2>5, <2>6 DEF Step
<1>5. CASE OrphanArrives \/ OrphanLost
  BY <1>5, <1>a DEF OrphanArrives, OrphanLost, ServerEnrolls
<1>6. CASE ServerRestart
  <2>1. proc' = proc /\ epoch' = epoch + 1
    BY <1>6 DEF ServerRestart
  <2>2. proc[q] # Idle
    BY <2>1, KindsDiffer
  <2>3. proc[q].rec.server <= epoch /\ proc[q].rec.server \in Nat /\ epoch \in Nat
    BY <2>2, Working, Counters DEF Known
  <2> QED BY <2>1, <2>3
<1> QED BY <1>1, <1>2, <1>3, <1>4, <1>5, <1>6 DEF Next
-----------------------------------------------------------------------------
(* The inductive invariant. *)
IInv ==
    /\ Typed /\ Known /\ Meetings /\ UnmetIsAlone
    /\ Vouched /\ Saved /\ UnreadableOnlyIfHurt /\ Asked

LEMMA InitIInv == Init => IInv
<1> SUFFICES ASSUME Init PROVE IInv
  OBVIOUS
<1>1. \A p \in Procs : proc[p] = Idle /\ proc[p].pc = "idle"
  BY KindsDiffer DEF Init
<1>2. \A f \in Files : file[f] = Absent /\ accepted[f] = {}
  BY DEF Init
<1>3. Typed
  <2>1. pairs \in 0..MaxPairs /\ kills \in 0..MaxKills /\ epoch \in Epochs
    BY BoundsAssumption DEF Init, Epochs
  <2>2. Commanded /\ \A p \in Procs : proc[p] = Idle
    BY <1>1 DEF Init, Commanded
  <2> QED BY <2>1, <2>2 DEF Init, Typed, TypeOK
<1>4. Known
  BY <1>1, <1>2, KindsDiffer DEF Init, Known
<1>5. Meetings /\ UnmetIsAlone
  BY <1>1 DEF Meetings, UnmetIsAlone, Unmet, Steps
<1>6. Vouched /\ UnreadableOnlyIfHurt
  BY <1>2, KindsDiffer DEF Vouched, UnreadableOnlyIfHurt
<1>7. \A f \in Files : Posted(f) = {}
  BY <1>2 DEF Init, Posted
<1>8. Saved
  BY <1>7 DEF Saved
<1>9. Asked
  BY <1>1 DEF Asked
<1> QED BY <1>3, <1>4, <1>5, <1>6, <1>8, <1>9 DEF IInv

LEMMA NextIInv == IInv /\ [Next]_vars => IInv'
<1> SUFFICES ASSUME IInv, [Next]_vars PROVE IInv'
  OBVIOUS
<1>1. Typed' /\ Known' /\ Meetings' /\ UnmetIsAlone'
  BY TypedNext, KnownNext, MeetingsNext, AloneNext DEF IInv
<1>2. Vouched' /\ Saved' /\ UnreadableOnlyIfHurt' /\ Asked'
  BY VouchedNext, SavedNext, UnreadableNext, AskedNext DEF IInv
<1> QED BY <1>1, <1>2 DEF IInv

(* Every reachable state satisfies the inductive invariant. *)
THEOREM Invariance == Spec => []IInv
BY InitIInv, NextIInv, PTL DEF Spec

(* The state always has its types, and a command writes a record only to   *)
(* the file that the record's own device id names (credentials_path).      *)
THEOREM TypeCorrectness == Spec => []TypeOK
<1>1. IInv => TypeOK
  BY DEF IInv, Typed
<1> QED BY <1>1, Invariance, PTL

(* A record with the key of the present server process has the pair that   *)
(* process knows, except where commands met or one was killed writing, or  *)
(* the post of a command that had ended has arrived                        *)
(* (save_enrollment_response).                                             *)
THEOREM RecordVouches == Spec => []RecordMatchesServer
<1>1. IInv => RecordMatchesServer
  BY DEF IInv, Vouched, Whole, RecordMatchesServer
<1> QED BY <1>1, Invariance, PTL

(* No server gets a pair whose secret half was never on disk               *)
(* (save_device_credentials before the post).                              *)
THEOREM SecretsFirst == Spec => []SecretsOnDiskFirst
<1>1. ASSUME IInv PROVE SecretsOnDiskFirst
  <2>1. ASSUME NEW f \in Files \ hurt, NEW k \in accepted[f]
        PROVE  file[f] # Absent /\ (file[f].kind = "record" => file[f].pair >= k)
    <3>1. k \in Posted(f) /\ SavedAt(f, k)
      BY <1>1 DEF IInv, Saved, Posted
    <3>2. k \in Nat /\ (file[f].kind = "record" => file[f].pair \in Nat)
      BY <1>1, <3>1, PostedTypes, FileRecord, Counters DEF IInv
    <3> QED BY <3>1, <3>2 DEF SavedAt
  <2> QED BY <2>1 DEF SecretsOnDiskFirst
<1>2. IInv => SecretsOnDiskFirst
  BY <1>1
<1> QED BY <1>2, Invariance, PTL

(* A state file does not parse only while it is being written or where     *)
(* commands met or one was killed writing (fs::write).                     *)
THEOREM UnreadableExplained == Spec => []UnreadableOnlyIfHurt
<1>1. IInv => UnreadableOnlyIfHurt
  BY DEF IInv
<1> QED BY <1>1, Invariance, PTL

(* Where one command runs at a time and file names are distinct, a request *)
(* that the command lets through is refused only after a server restart or *)
(* a late post (run_request).                                              *)
THEOREM RefusalExplained ==
    ASSUME Single, Injective
    PROVE  Spec => RefusedOnlyAfterRestart
<1>1. ASSUME IInv, [Next]_vars
      PROVE  [\A p \in Procs : Refused(p) => epoch # proc[p].rec.server \/ strayed]_vars
  BY <1>1 DEF IInv, Asked, Refused, Asking
<1>2. IInv /\ [Next]_vars =>
         [\A p \in Procs : Refused(p) => epoch # proc[p].rec.server \/ strayed]_vars
  BY <1>1
<1> QED BY <1>2, Invariance, PTL DEF Spec, RefusedOnlyAfterRestart
=============================================================================
