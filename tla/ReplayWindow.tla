---------------------------- MODULE ReplayWindow ----------------------------
(***************************************************************************)
(* What the nonce cache of the auth server promises: a nonce a device has  *)
(* used is not accepted from that device again before the end of the       *)
(* replay window that its last acceptance opened.  Nothing is said of how  *)
(* the windows are stored, swept or bounded.                               *)
(*                                                                         *)
(* The window is anchored at the instant the request was stamped, which    *)
(* the implementation reads before it waits for its lock: the anchor may   *)
(* lie in the past, never in the future.                                   *)
(***************************************************************************)
EXTENDS Naturals

CONSTANTS
    Devices,    \* device identifiers
    Nonces,     \* client nonces
    TTL,        \* length of the replay window, in clock ticks
    MaxTime     \* bound on the clock

VARIABLES
    clock,      \* the server's monotonic clock
    last        \* last[d][x]: end of the window of x's latest acceptance, or 0

vars == <<clock, last>>

Init ==
    /\ clock = 0
    /\ last = [d \in Devices |-> [x \in Nonces |-> 0]]

Tick ==
    /\ clock < MaxTime
    /\ clock' = clock + 1
    /\ UNCHANGED last

Accept(d, x) ==
    /\ last[d][x] <= clock
    /\ \E stamp \in 0..clock : last' = [last EXCEPT ![d][x] = stamp + TTL]
    /\ UNCHANGED clock

Next == Tick \/ \E d \in Devices, x \in Nonces : Accept(d, x)

Spec == Init /\ [][Next]_vars
=============================================================================
