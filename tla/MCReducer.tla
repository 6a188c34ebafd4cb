------------------------------ MODULE MCReducer -----------------------------
(***************************************************************************)
(* Instances of Reducer for TLC.  The clocks stand still while the few     *)
(* change sets of a run are written, and the one of device 2 is ahead.     *)
(***************************************************************************)
EXTENDS Reducer

CONSTANT x

Devices == {1, 2, 3}
Clocks == [d \in Device |-> IF d = 2 THEN {1} ELSE {0}]

\* Every device writes, the first one twice.
EachWrites == [d \in Device |-> IF d = 1 THEN 2 ELSE 1]
=============================================================================
