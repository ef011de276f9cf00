--------------------------- MODULE MCDeviceClient ---------------------------
(* Small instances of DeviceClient for TLC. *)
EXTENDS DeviceClient, TLC

LettersAndDigits == {"a"}

OneDevice == {<<"a", "/">>}

(* Two ids with one file name, "a_". *)
TwoDevices == {<<"a", "/">>, <<"a", ":">>}

Symmetry == Permutations(Procs)
=============================================================================
