------------------------------ MODULE BulkEnrol ------------------------------
(***************************************************************************)
(* benchmark_client enroll: Count devices are enrolled one after another   *)
(* with new key pairs, and after each answer its credentials are appended  *)
(* to the users file.  The first failure ends the command.                 *)
(*                                                                         *)
(* The ids are the same in every run, and runs append to the same file     *)
(* until the user takes a fresh one.  A record and its newline are two     *)
(* writes.  The command can be killed, a post can outlive it, and the      *)
(* server can restart, which empties its table.  Key pairs are numbered in *)
(* the order they are generated.                                           *)
(***************************************************************************)
EXTENDS Naturals, Sequences

CONSTANTS
    Count,          \* devices enrolled by a run
    MaxPairs,       \* bound on the key pairs generated
    MaxFiles,       \* bound on the users files taken
    MaxRestarts,    \* bound on server restarts
    MaxBreaks       \* bound on kills, lost posts and failed writes

ASSUME BulkBounds ==
    /\ Count \in Nat \ {0} /\ MaxPairs \in Nat /\ MaxFiles \in Nat \ {0}
    /\ MaxRestarts \in Nat /\ MaxBreaks \in Nat

Devices == 1..Count

VARIABLES
    lines,          \* the users file: of each line the pieces written to it
    unended,        \* its last line has no newline yet
    run,            \* the enroll command: where it stands, its device and pair
    pairs, files, restarts, breaks,     \* how many there have been
    table,          \* the pair the server has for each device, or None
    orphans,        \* posts under way whose command has ended
    lost,           \* history: pairs posted by a run that ended before it appended them,
                    \* and pairs of a users file that the user has replaced
    cut,            \* history: a run ended inside append_user on this users file
    origin          \* history: "none" when no run has used the file; "clean" when one has,
                    \* begun in the present server process; "stale" when the server has
                    \* restarted since the file was used, and "reenrolled" when one run has
                    \* used it again since; "mixed" otherwise: after more runs in one
                    \* process, or a late post

fileVars == <<lines, unended>>
bulkVars == <<lines, unended, run, pairs, files, restarts, breaks, table, orphans, lost, cut, origin>>

None == 0
Torn == [dev |-> None, pair |-> None]       \* part of a record
Idle == [pc |-> "idle", dev |-> 1, pair |-> None]

BulkInit ==
    /\ lines = <<>> /\ unended = FALSE
    /\ run = Idle
    /\ pairs = 0 /\ files = 1 /\ restarts = 0 /\ breaks = 0
    /\ table = [d \in Devices |-> None]
    /\ orphans = {} /\ lost = {} /\ cut = FALSE
    /\ origin = "none"
-----------------------------------------------------------------------------
(* The user takes a fresh users file. *)
FreshFile ==
    /\ run = Idle
    /\ files < MaxFiles
    /\ files' = files + 1
    /\ lines' = <<>> /\ unended' = FALSE
    /\ lost' = lost \cup ({table[d] : d \in Devices} \ {None}) /\ cut' = FALSE
    /\ origin' = "none"
    /\ UNCHANGED <<run, pairs, restarts, breaks, table, orphans>>

(* enroll_many starts, or goes on to device d: a new pair is posted. *)
NextPost(d) ==
    /\ pairs < MaxPairs
    /\ pairs' = pairs + 1
    /\ run' = [pc |-> "post", dev |-> d, pair |-> pairs']

StartRun ==
    /\ run = Idle
    /\ NextPost(1)
    /\ origin' = CASE origin = "none" -> "clean"
                   [] origin = "stale" -> "reenrolled"
                   [] OTHER -> "mixed"
    /\ UNCHANGED <<fileVars, files, restarts, breaks, table, orphans, lost, cut>>

(* The server's enroll replaces the entry and answers. *)
Enrolled ==
    /\ run.pc = "post"
    /\ table' = [table EXCEPT ![run.dev] = run.pair]
    /\ run' = [run EXCEPT !.pc = "append"]
    /\ UNCHANGED <<fileVars, pairs, files, restarts, breaks, orphans, lost, cut, origin>>

(* append_user: the record goes to the end of the file, ... *)
Written(piece) ==
    /\ lines' = IF unended THEN [lines EXCEPT ![Len(lines)] = Append(@, piece)]
                ELSE Append(lines, <<piece>>)
    /\ unended' = TRUE

\* Variant: the file is opened without append and is overwritten from its start.
AppendUserFirst ==
    /\ run.pc = "append"
    /\ lines' = <<<<[dev |-> run.dev, pair |-> run.pair]>>>> \o
                (IF lines = <<>> THEN <<>> ELSE Tail(lines))
    /\ unended' = TRUE
    /\ run' = [run EXCEPT !.pc = "newline"]
    /\ UNCHANGED <<pairs, files, restarts, breaks, table, orphans, lost, cut, origin>>

AppendUser ==
    /\ run.pc = "append"
    /\ Written([dev |-> run.dev, pair |-> run.pair])
    /\ run' = [run EXCEPT !.pc = "newline"]
    /\ UNCHANGED <<pairs, files, restarts, breaks, table, orphans, lost, cut, origin>>

\* Variant: write! instead of writeln!.
EndLineMissing ==
    /\ run.pc = "newline"
    /\ IF run.dev < Count THEN NextPost(run.dev + 1) ELSE run' = Idle /\ UNCHANGED pairs
    /\ UNCHANGED <<fileVars, files, restarts, breaks, table, orphans, lost, cut, origin>>

(* ... then its newline; the next device follows, if there is one. *)
EndLine ==
    /\ run.pc = "newline"
    /\ unended' = FALSE
    /\ IF run.dev < Count THEN NextPost(run.dev + 1) ELSE run' = Idle /\ UNCHANGED pairs
    /\ UNCHANGED <<lines, files, restarts, breaks, table, orphans, lost, cut, origin>>

(* The run ends where it stands: killed, or its post or its write failed.  *)
(* The post may have reached the server, may reach it later or never, and  *)
(* a write may stop half-way.                                              *)
Break ==
    /\ run # Idle
    /\ breaks < MaxBreaks
    /\ breaks' = breaks + 1
    /\ run' = Idle
    /\ lost' = IF run.pc = "newline" THEN lost ELSE lost \cup {run.pair}
    /\ cut' = (cut \/ run.pc \in {"append", "newline"})
    /\ \/ UNCHANGED <<fileVars, table, orphans>>
       \/ /\ run.pc = "post"
          /\ table' = [table EXCEPT ![run.dev] = run.pair]
          /\ UNCHANGED <<fileVars, orphans>>
       \/ /\ run.pc = "post"
          /\ orphans' = orphans \cup {[dev |-> run.dev, pair |-> run.pair]}
          /\ UNCHANGED <<fileVars, table>>
       \/ run.pc = "append" /\ Written(Torn) /\ UNCHANGED <<table, orphans>>
    /\ UNCHANGED <<pairs, files, restarts, origin>>

(* A late post arrives. *)
OrphanArrives ==
    \E o \in orphans :
        /\ table' = [table EXCEPT ![o.dev] = o.pair]
        /\ orphans' = orphans \ {o}
        /\ origin' = IF origin \in {"clean", "reenrolled"} THEN "mixed" ELSE origin
        /\ UNCHANGED <<fileVars, run, pairs, files, restarts, breaks, lost, cut>>

(* The server restarts; late posts are lost with their connections. *)
ServerRestart ==
    /\ restarts < MaxRestarts
    /\ restarts' = restarts + 1
    /\ table' = [d \in Devices |-> None]
    /\ orphans' = {}
    /\ origin' = IF origin = "none" THEN "none"
                 ELSE IF run = Idle THEN "stale" ELSE "mixed"
    /\ UNCHANGED <<fileVars, run, pairs, files, breaks, lost, cut>>

BulkStep == Enrolled \/ AppendUser \/ EndLine

BulkNext == FreshFile \/ StartRun \/ BulkStep \/ Break \/ OrphanArrives \/ ServerRestart
-----------------------------------------------------------------------------
(* load_users: every line must hold one record. *)
\* Variant: a record that was cut short is taken.
ParsesLenient(line) == Len(line) = 1

Parses(line) == Len(line) = 1 /\ line[1] # Torn

Readable == \A i \in DOMAIN lines : Parses(lines[i])

(* rebuild_device_context: the pair of the line replaces the one that      *)
(* DevicePq::new has made.                                                 *)
\* Variant: it does not.
LoadUsersUnset == [i \in DOMAIN lines |-> [lines[i][1] EXCEPT !.pair = None]]

LoadUsers == [i \in DOMAIN lines |-> lines[i][1]]

(* What the file knows of device d: the pair in its last record for it. *)
LastPair(d) ==
    LET own == {i \in DOMAIN lines : \E j \in DOMAIN lines[i] : lines[i][j].dev = d}
    IN  IF own = {} THEN None
        ELSE LET i == CHOOSE i \in own : \A k \in own : k <= i
                 js == {j \in DOMAIN lines[i] : lines[i][j].dev = d}
             IN  lines[i][CHOOSE j \in js : \A k \in js : k <= j].pair
=============================================================================
