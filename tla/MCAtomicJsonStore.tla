-------------------------- MODULE MCAtomicJsonStore --------------------------
(* Model values and fault sets for the runs of AtomicJsonStore. *)
EXTENDS AtomicJsonStore

CONSTANTS c1, c2, c3

TwoClients == {c1, c2}
ThreeClients == {c1, c2, c3}

AllFaults == Fault
OnlyCrashes == {"crash"}
=============================================================================
