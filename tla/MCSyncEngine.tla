---------------------------- MODULE MCSyncEngine ----------------------------
(* Instances of SyncEngine for TLC. *)
EXTENDS SyncEngine, TLC

CONSTANTS d1, d2, b1, b2

NoBlobs(d, n) == {}

\* The first device adds one image after another.
TwoImages(d, n) == IF d = d1 THEN (IF n = 1 THEN {b1} ELSE {b2}) ELSE {}

\* Both devices add the same image.
SameImage(d, n) == IF n = 1 THEN {b1} ELSE {}

OneOne == [d \in Device |-> 1]
TwoOne == (d1 :> 2) @@ (d2 :> 1)
TwoNone == (d1 :> 2) @@ (d2 :> 0)
OneNone == (d1 :> 1) @@ (d2 :> 0)

\* An interruption and a loss happen together only while each device has
\* written at most one change set; either of them alone, in all of the history.
FewFaults == interrupts + removals <= 1 \/ \A d \in Device : authored[d] <= 1
=============================================================================
