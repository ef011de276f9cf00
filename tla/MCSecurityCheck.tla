-------------------------- MODULE MCSecurityCheck --------------------------
(* A small instance of SecurityCheck for TLC: real 64-bit sizes, short ids *)
(* and nonces, and environments that set the first two names of a setting. *)
EXTENDS SecurityCheck, TLC

CONSTANTS own, other

Bytes == 0..255

AllSizes == {32, 33, 2097152}

LittleEndian ==
    [n \in AllSizes |->
        LET rest[i \in 0..7] == IF i = 0 THEN n ELSE rest[i - 1] \div 256
        IN  [i \in 1..8 |-> rest[i - 1] % 256]]

OwnId == <<115>>
OwnTamperedId == <<115, 45>>
UnregisteredId == <<117>>
Ids == {OwnId, OwnTamperedId, UnregisteredId}

FreshNonces == [i \in 1..8 |-> <<0, i>>]
AllNonces == {FreshNonces[i] : i \in 1..8}

(* The second has the bytes of the first, split at other places. *)
SealedParts ==
    {[ct |-> <<1, 0>>, aeadNonce |-> <<2>>, entropyCt |-> <<3>>],
     [ct |-> <<1>>, aeadNonce |-> <<0, 2>>, entropyCt |-> <<3>>],
     [ct |-> <<1, 0>>, aeadNonce |-> <<4>>, entropyCt |-> <<3>>],
     [ct |-> <<0, 0>>, aeadNonce |-> <<0>>, entropyCt |-> <<0, 0>>]}

ScriptRequests ==
    {[Script[k].req EXCEPT !.n = c] : k \in 1..Last, c \in {"allowed", "too large"}}

OwnEnrolments == {OwnEnrolment}

Numerals ==
    "0" :> 0 @@ "16" :> 16 @@ "4194304" :> 4194304

AllNames ==
    UNION {{names[i] : i \in DOMAIN names} :
              names \in {ModeNames, ReseedNames, SeedNames, PoolNames, MaxNames}}

Environment(mode, mode2, seed, pool, pool2, max, max2) ==
    [name \in AllNames |->
        CASE name = ModeNames[1] -> mode [] name = ModeNames[2] -> mode2
          [] name = SeedNames[1] -> seed
          [] name = PoolNames[1] -> pool [] name = PoolNames[2] -> pool2
          [] name = MaxNames[1] -> max [] name = MaxNames[2] -> max2
          [] OTHER -> Unset]

Environments ==
    {Environment(mode, mode2, seed, pool, pool2, max, max2) :
        mode \in {Unset, "hybrid_csprng", "fast"}, mode2 \in {Unset, "hybrid_pool"},
        seed \in {Unset, "0"}, pool \in {Unset, "many"}, pool2 \in {"0"},
        max \in {Unset, "4194304", "4MiB"}, max2 \in {"16"}}
=============================================================================
