----------------------------- MODULE MCEndpoints -----------------------------
(* Instances of Endpoints for TLC *)
EXTENDS Endpoints

TwoPorts == {8080, 9090}

(* The first local slice lists up to two pods *)
SomePods == [e \in Slices |-> IF e = "l1" THEN {"l1a", "l1b"} ELSE {e}]

=============================================================================
