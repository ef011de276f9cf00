---------------------------- MODULE MCAuthServer ----------------------------
(* Small instances of AuthServer for TLC. *)
EXTENDS AuthServer, TLC

CONSTANTS d1, k1, k2, x1, x2

Request(n, x, ok, k) == [dev |-> d1, n |-> n, nonce |-> x, decodes |-> ok, signer |-> k]
Enrolment(ok, kem, sig) == [dev |-> d1, decodes |-> ok, keys |-> [kem |-> kem, sig |-> sig]]

(* Each nonce is signed by one of the two pairs, so that either pair is    *)
(* nobody to the server until it is enrolled.                              *)
MixedRequests ==
    {Request("allowed", x1, TRUE, k1), Request("allowed", x2, TRUE, k2),
     Request("allowed", x2, FALSE, k1), Request("too large", x2, TRUE, k1)}

(* Two pairs, and an enrolment that does not decode. *)
MixedEnrolments ==
    {Enrolment(TRUE, k1, k1), Enrolment(TRUE, k2, k2), Enrolment(FALSE, k2, k2)}

Symmetry == Permutations(Tasks)
=============================================================================
