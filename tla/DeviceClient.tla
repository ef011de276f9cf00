---------------------------- MODULE DeviceClient ----------------------------
(***************************************************************************)
(* The device command line (client_iot): its state files and the commands  *)
(* enroll, re-enroll and request, against a server that keeps its device   *)
(* table and its signature key in memory.                                  *)
(*                                                                         *)
(* Nothing in the code orders two commands, and device ids that differ     *)
(* only in unsafe characters have one state file.  A command can be killed *)
(* at any point and so inside fs::write, which truncates before it writes; *)
(* the post of a command that has ended may still reach the server.  The   *)
(* server can restart, which empties its table and changes its key.  Key   *)
(* pairs and server processes are numbered in the order they come into     *)
(* being.                                                                  *)
(***************************************************************************)
EXTENDS Naturals

CONSTANTS
    Procs,          \* commands that may run at a time
    Devices,        \* device ids, as sequences of characters
    SafeChars,      \* the characters that a file name keeps
    MaxPairs,       \* bound on the key pairs generated
    MaxEpoch,       \* bound on server restarts
    MaxKills        \* bound on killed commands

ASSUME BoundsAssumption == MaxPairs \in Nat /\ MaxEpoch \in Nat /\ MaxKills \in Nat

SafeStateName(d) == [i \in DOMAIN d |-> IF d[i] \in SafeChars THEN d[i] ELSE "_"]

Files == {SafeStateName(d) : d \in Devices}

VARIABLES
    file,           \* the state files
    proc,           \* the command of each process, or Idle
    pairs,          \* key pairs generated so far; the last one is pair number pairs
    kills,          \* commands killed so far
    epoch,          \* number of the server process; stands for its signature key
    table,          \* the pair the server has for each device, or None
    orphans,        \* posts under way whose command has ended
    accepted,       \* history: per file, the pairs the server has enrolled since the
                    \* file was last repaired
    strayed,        \* history: an orphan reached the present server process
    hurt            \* history: files where two enrolling commands met, or one was
                    \* killed while writing, since one ran alone to its end

vars == <<file, proc, pairs, kills, epoch, table, orphans, accepted, strayed, hurt>>
serverVars == <<epoch, table, orphans, accepted, strayed>>

None == 0

Absent == [kind |-> "absent"]
Empty == [kind |-> "empty"]
Garbled == [kind |-> "garbled"]
Record(d, k, s) == [kind |-> "record", dev |-> d, pair |-> k, server |-> s]

(* A command: where it stands, the device id it was given, the record it   *)
(* uses or is about to write, where it goes after the file is written, and *)
(* whether it met another enrolling command at its file.                   *)
Idle == [pc |-> "idle"]
At(pc, d, r, then, met) == [pc |-> pc, dev |-> d, rec |-> r, then |-> then, met |-> met]

(* credentials_path. *)
\* Variant: the file is named by the device id as it stands.
FileOfRaw(p) == proc[p].dev

FileOf(p) == SafeStateName(proc[p].dev)

(* The commands that have written file f or are going to. *)
Enrolling(f) ==
    {p \in Procs : proc[p].pc \in {"open", "write", "post", "save"} /\ FileOf(p) = f}

Init ==
    /\ file = [f \in Files |-> Absent]
    /\ proc = [p \in Procs |-> Idle]
    /\ pairs = 0
    /\ kills = 0
    /\ epoch = 1
    /\ table = [d \in Devices |-> None]
    /\ orphans = {}
    /\ accepted = [f \in Files |-> {}]
    /\ strayed = FALSE
    /\ hurt = {}

Become(p, c) == proc' = [proc EXCEPT ![p] = c]
-----------------------------------------------------------------------------
(* An enrolling command c starts; the history notes whom it meets at its   *)
(* file.                                                                   *)
Start(p, c) ==
    LET f == SafeStateName(c.dev)
        others == Enrolling(f)
    IN  /\ proc[p] = Idle
        /\ proc' = [q \in Procs |->
                      IF q = p THEN [c EXCEPT !.met = others # {}]
                      ELSE IF q \in others THEN [proc[q] EXCEPT !.met = TRUE]
                      ELSE proc[q]]
        /\ hurt' = IF others = {} THEN hurt ELSE hurt \cup {f}
        /\ UNCHANGED <<file, kills, serverVars>>

(* save_device_credentials: the new record has no server key yet, whatever *)
(* the file holds.                                                         *)
\* Variant: the new record keeps the server key of the old one.
NewRecordKeepsServer(d) ==
    LET old == file[SafeStateName(d)]
    IN  Record(d, pairs + 1, IF old.kind = "record" THEN old.server ELSE None)

NewRecord(d) == Record(d, pairs + 1, None)

(* DevicePq::new; the pair is saved, then posted. *)
\* Variant: it is posted before it is saved.
GenerateUnsaved(p, d) ==
    /\ pairs < MaxPairs
    /\ pairs' = pairs + 1
    /\ Start(p, At("post", d, NewRecord(d), "idle", FALSE))

Generate(p, d) ==
    /\ pairs < MaxPairs
    /\ pairs' = pairs + 1
    /\ Start(p, At("open", d, NewRecord(d), "post", FALSE))

(* enroll finds no state file. *)
EnrollNew(p, d) == file[SafeStateName(d)] = Absent /\ Generate(p, d)

(* enroll finds one: the saved pair is posted again, under the device id   *)
(* of the command, whichever id the record has.  (A file that does not     *)
(* parse makes enroll and request fail before they change anything.)       *)
EnrollExisting(p, d) ==
    LET r == file[SafeStateName(d)]
    IN  r.kind = "record" /\ Start(p, At("post", d, r, "idle", FALSE)) /\ UNCHANGED pairs

(* re-enroll (and run_once): a new pair, whatever the file holds. *)
ReEnroll(p, d) == Generate(p, d)

(* fs::write truncates the file, ... *)
Open(p) ==
    /\ proc[p].pc = "open"
    /\ file' = [file EXCEPT ![FileOf(p)] = Empty]
    /\ proc' = [proc EXCEPT ![p].pc = "write"]
    /\ UNCHANGED <<pairs, kills, serverVars, hurt>>

(* ... and then writes it from the start.  What another command wrote      *)
(* since the truncation is overwritten, but for its end if that is longer: *)
(* a record is longer with the server's keys than without.                 *)
Covers(new, old) ==
    \/ old = Empty
    \/ new.server # None
    \/ old.kind = "record" /\ old.server = None

(* The pair is saved and is posted next; or the command is done, and has   *)
(* repaired the file if it met no other and no old post is under way.      *)
Write(p) ==
    LET f == FileOf(p)
        done == proc[p].then = "idle"
        repaired == /\ done /\ ~proc[p].met /\ f \in hurt
                    /\ \A o \in orphans : SafeStateName(o[1]) # f
    IN  /\ proc[p].pc = "write"
        /\ file' = [file EXCEPT ![f] = IF Covers(proc[p].rec, @) THEN proc[p].rec ELSE Garbled]
        /\ Become(p, IF done THEN Idle
                     ELSE At("post", proc[p].dev, proc[p].rec, "idle", proc[p].met))
        /\ hurt' = IF repaired THEN hurt \ {f} ELSE hurt
        /\ accepted' = IF repaired THEN [accepted EXCEPT ![f] = {}] ELSE accepted
        /\ UNCHANGED <<pairs, kills, epoch, table, orphans, strayed>>

(* The server's enroll: the entry is replaced. *)
ServerEnrolls(d, k) ==
    /\ table' = [table EXCEPT ![d] = k]
    /\ accepted' = [accepted EXCEPT ![SafeStateName(d)] = @ \cup {k}]
    /\ UNCHANGED epoch

(* The enrolment is posted and the server answers with its key, ... *)
Enrolled(p) ==
    /\ proc[p].pc = "post"
    /\ ServerEnrolls(proc[p].dev, proc[p].rec.pair)
    /\ proc' = [proc EXCEPT ![p].pc = "save", ![p].rec.server = epoch]
    /\ UNCHANGED <<file, pairs, kills, orphans, strayed, hurt>>

(* ... the answer is lost, ... *)
AnswerLost(p) ==
    /\ proc[p].pc = "post"
    /\ ServerEnrolls(proc[p].dev, proc[p].rec.pair)
    /\ Become(p, Idle)
    /\ UNCHANGED <<file, pairs, kills, orphans, strayed, hurt>>

(* ... or the connection breaks before the server has the post, which is   *)
(* lost or only late.                                                      *)
PostLost(p) ==
    /\ proc[p].pc = "post"
    /\ Become(p, Idle)
    /\ orphans' \in {orphans, orphans \cup {<<proc[p].dev, proc[p].rec.pair>>}}
    /\ UNCHANGED <<file, pairs, kills, epoch, table, accepted, strayed, hurt>>

(* save_enrollment_response: the file is read again, and the record it     *)
(* holds now is going to be written back with the server's key.            *)
\* Variant: the server's answer is not saved.
SaveForgotten(p) ==
    /\ proc[p].pc = "save"
    /\ Become(p, Idle)
    /\ UNCHANGED <<file, pairs, kills, serverVars, hurt>>

\* Variant: the file is opened for writing before it is read.
SaveTruncated(p) ==
    /\ proc[p].pc = "save"
    /\ Become(p, Idle)
    /\ file' = [file EXCEPT ![FileOf(p)] = Empty]
    /\ UNCHANGED <<pairs, kills, serverVars, hurt>>

Save(p) ==
    LET r == file[FileOf(p)]
    IN  /\ proc[p].pc = "save"
        /\ r.kind = "record"
        /\ Become(p, At("open", proc[p].dev, [r EXCEPT !.server = proc[p].rec.server],
                        "idle", proc[p].met))
        /\ UNCHANGED <<file, pairs, kills, serverVars, hurt>>

(* Another command is writing the file, or has garbled it. *)
SaveFails(p) ==
    /\ proc[p].pc = "save"
    /\ file[FileOf(p)].kind # "record"
    /\ Become(p, Idle)
    /\ UNCHANGED <<file, pairs, kills, serverVars, hurt>>

(* request: refused by the command itself unless the record has the key of *)
(* a server.                                                               *)
Request(p, d) ==
    LET r == file[SafeStateName(d)]
    IN  /\ proc[p] = Idle
        /\ r.kind = "record" /\ r.server # None
        /\ Become(p, At("ask", d, r, "idle", FALSE))
        /\ UNCHANGED <<file, pairs, kills, serverVars, hurt>>

Asking(p) == proc[p].pc = "ask" /\ Become(p, Idle) /\ UNCHANGED <<file, pairs, kills, serverVars, hurt>>

(* The server knows the pair and signs its answer with its present key;    *)
(* the client takes the answer if that is the key it saved, ...            *)
Served(p) == Asking(p) /\ table[proc[p].dev] = proc[p].rec.pair /\ epoch = proc[p].rec.server

(* ... and fails to verify it if not. *)
BadSignature(p) == Asking(p) /\ table[proc[p].dev] = proc[p].rec.pair /\ epoch # proc[p].rec.server

(* The server does not know the device, or knows another pair: 401.  (A    *)
(* request lost or refused for another reason changes no more than these.) *)
Refused(p) == Asking(p) /\ table[proc[p].dev] # proc[p].rec.pair

(* The command is killed where it stands, perhaps with its post under way. *)
Kill(p) ==
    /\ proc[p] # Idle
    /\ kills < MaxKills
    /\ kills' = kills + 1
    /\ Become(p, Idle)
    /\ \/ UNCHANGED orphans
       \/ /\ proc[p].pc = "post"
          /\ orphans' = orphans \cup {<<proc[p].dev, proc[p].rec.pair>>}
    /\ hurt' = IF proc[p].pc = "write" THEN hurt \cup {FileOf(p)} ELSE hurt
    /\ UNCHANGED <<file, pairs, epoch, table, accepted, strayed>>

(* A post outlives its command, and arrives or not. *)
OrphanArrives ==
    \E o \in orphans :
        /\ ServerEnrolls(o[1], o[2])
        /\ orphans' = orphans \ {o}
        /\ strayed' = TRUE
        /\ UNCHANGED <<file, proc, pairs, kills, hurt>>

OrphanLost ==
    \E o \in orphans :
        /\ orphans' = orphans \ {o}
        /\ UNCHANGED <<file, proc, pairs, kills, epoch, table, accepted, strayed, hurt>>

(* The server restarts.  Posts under way are lost with their connections   *)
(* (PostLost, for a command that still waits).                             *)
ServerRestart ==
    /\ epoch < 1 + MaxEpoch
    /\ epoch' = epoch + 1
    /\ table' = [d \in Devices |-> None]
    /\ orphans' = {}
    /\ strayed' = FALSE
    /\ UNCHANGED <<file, proc, pairs, kills, accepted, hurt>>

Step(p) ==
    \/ Open(p) \/ Write(p) \/ Enrolled(p) \/ AnswerLost(p) \/ PostLost(p)
    \/ Save(p) \/ SaveFails(p)
    \/ Served(p) \/ BadSignature(p) \/ Refused(p)

Next ==
    \/ \E p \in Procs :
          \/ \E d \in Devices :
                EnrollNew(p, d) \/ EnrollExisting(p, d) \/ ReEnroll(p, d) \/ Request(p, d)
          \/ Step(p)
          \/ Kill(p)
    \/ OrphanArrives \/ OrphanLost \/ ServerRestart

Spec == Init /\ [][Next]_vars

(* Commands end; the user keeps running enroll; not every answer is lost. *)
FairSpec ==
    /\ Spec
    /\ \A p \in Procs :
          /\ WF_vars(Step(p))
          /\ SF_vars(Enrolled(p))
          /\ \A d \in Devices : SF_vars(EnrollNew(p, d)) /\ SF_vars(EnrollExisting(p, d))
-----------------------------------------------------------------------------
Pairs == 1..MaxPairs
Epochs == 1..(1 + MaxEpoch)
Records == [kind : {"record"}, dev : Devices, pair : Pairs, server : Epochs \cup {None}]

(* Types of the state; a command writes a record only to the file that the *)
(* record's own device id names.                                           *)
TypeOK ==
    /\ file \in [Files -> {Absent, Empty, Garbled} \cup Records]
    /\ \A p \in Procs :
          \/ proc[p] = Idle
          \/ /\ proc[p] \in [pc : {"open", "write", "post", "save", "ask"}, dev : Devices,
                             rec : Records, then : {"idle", "post"}, met : BOOLEAN]
             /\ SafeStateName(proc[p].rec.dev) = FileOf(p)
    /\ pairs \in 0..MaxPairs
    /\ kills \in 0..MaxKills
    /\ epoch \in Epochs
    /\ table \in [Devices -> Pairs \cup {None}]
    /\ orphans \subseteq Devices \X Pairs
    /\ accepted \in [Files -> SUBSET Pairs]
    /\ strayed \in BOOLEAN
    /\ hurt \subseteq Files

(* The record vouches for the server: if it holds the key of the present   *)
(* server process, that process has the record's pair for a device of this *)
(* file -- unless the post of a command that had ended has arrived since,  *)
(* or two commands that enrol have met at the file, or one was killed as   *)
(* it wrote, and none has yet run alone to its end, which repairs it.      *)
RecordMatchesServer ==
    \A f \in Files :
        file[f].kind = "record" /\ file[f].server = epoch =>
            \/ \E d \in Devices : SafeStateName(d) = f /\ table[d] = file[f].pair
            \/ strayed
            \/ f \in hurt

(* Credentials are saved before they are posted: whatever is killed or     *)
(* lost, no server has a pair whose secret half was never on disk, except  *)
(* by commands that met at one file and overwrote each other.              *)
SecretsOnDiskFirst ==
    \A f \in Files : \A k \in accepted[f] :
        \/ file[f] # Absent /\ (file[f].kind = "record" => file[f].pair >= k)
        \/ f \in hurt

(* A state file that does not parse is being written, or a command was     *)
(* killed as it wrote it, or two enrolling commands met there: lost posts, *)
(* server restarts, requests and failed commands leave it readable.        *)
UnreadableOnlyIfHurt ==
    \A f \in Files :
        file[f] \in {Empty, Garbled} =>
            f \in hurt \/ \E p \in Procs : proc[p].pc = "write" /\ FileOf(p) = f

(* A request that the command lets through is refused with 401 only if the *)
(* server restarted since the record was saved or the post of a command    *)
(* that had ended has arrived.                                             *)
RefusedOnlyAfterRestart ==
    [][\A p \in Procs : Refused(p) => epoch # proc[p].rec.server \/ strayed]_vars

Usable(d) ==
    LET r == file[SafeStateName(d)]
    IN  r.kind = "record" /\ r.server = epoch /\ table[d] = r.pair

(* Running enroll again and again repairs every failure, an answer lost or *)
(* a command killed or a server restarted, except a file torn by a kill    *)
(* inside fs::write, which only re-enroll replaces.                        *)
EnrollRepairs ==
    \A d \in Devices :
        []<>(Usable(d) \/ (file[SafeStateName(d)] = Empty /\ \A p \in Procs : proc[p] = Idle))
=============================================================================
