---------------------------- MODULE SharedJournal ----------------------------
(***************************************************************************)
(* What the sync engine promises about history, with no segments, provider *)
(* or cycle: every device owns one journal, parts of it become shared, and *)
(* every device takes up every other journal from its beginning, never     *)
(* past what its owner has shared and never leaving a hole.                *)
(***************************************************************************)
EXTENDS Integers

CONSTANTS Device, Quota

VARIABLES
  authored,     \* how many change sets each device has authored
  shared,       \* the change sets that have left their device
  applied       \* applied[d][w]: the sequence numbers of w's journal d has applied

vars == <<authored, shared, applied>>

Init ==
  /\ authored = [d \in Device |-> 0]
  /\ shared = {}
  /\ applied = [d \in Device |-> [w \in Device |-> {}]]

Author(d) ==
  /\ authored[d] < Quota[d]
  /\ authored' = [authored EXCEPT ![d] = @ + 1]
  /\ UNCHANGED <<shared, applied>>

\* Only what its author has applied to itself leaves the device.
Share(d, a, b) ==
  /\ a .. b \subseteq applied[d][d]
  /\ shared' = shared \cup { [by |-> d, seq |-> n] : n \in a .. b }
  /\ UNCHANGED <<authored, applied>>

Apply(d, w, n) ==
  /\ applied[d][w] \subseteq 1 .. n
  /\ \A m \in 1 .. n \ applied[d][w] :
       IF d = w THEN m <= authored[w] ELSE [by |-> w, seq |-> m] \in shared
  /\ applied' = [applied EXCEPT ![d][w] = 1 .. n]
  /\ UNCHANGED <<authored, shared>>

Next ==
  \/ \E d \in Device : \/ Author(d)
                       \/ \E a, b \in 1 .. Quota[d] : Share(d, a, b)
  \/ \E d, w \in Device : \E n \in 1 .. Quota[w] : Apply(d, w, n)

Spec == Init /\ [][Next]_vars
==============================================================================
