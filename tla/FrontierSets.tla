---------------------------- MODULE FrontierSets ----------------------------
(***************************************************************************)
(* What a writer frontier promises, without gaps or maxima: each lane is   *)
(* the set of the sequence numbers it has observed, a lane only grows, the *)
(* applied lane is always a prefix 1..n, and nothing is applied or         *)
(* published before it is received.  Order and repetition of the ranges    *)
(* cannot matter, because union is commutative and idempotent.             *)
(***************************************************************************)
EXTENDS Integers

CONSTANT MaxSeq

VARIABLES received, applied, published, head

vars == <<received, applied, published, head>>

Init ==
  /\ received = {}
  /\ applied = {}
  /\ published = {}
  /\ head = 0

Receive(a, b) ==
  /\ received' = received \cup (a .. b)
  /\ UNCHANGED <<applied, published, head>>

Apply(b) ==
  /\ 1 .. b \subseteq received
  /\ applied \subseteq 1 .. b
  /\ applied' = 1 .. b
  /\ UNCHANGED <<received, published, head>>

Publish(a, b) ==
  /\ a .. b \subseteq received
  /\ published' = published \cup (a .. b)
  /\ UNCHANGED <<received, applied, head>>

\* The head always names the end of the applied prefix.
SetHead(s) ==
  /\ applied = 1 .. s
  /\ s \in applied
  /\ head' = s
  /\ UNCHANGED <<received, applied, published>>

Next ==
  \/ \E a, b \in 1 .. MaxSeq : a <= b /\ Receive(a, b)
  \/ \E b \in 1 .. MaxSeq : Apply(b)
  \/ \E a, b \in 1 .. MaxSeq : a <= b /\ Publish(a, b)
  \/ \E s \in 1 .. MaxSeq : SetHead(s)

Spec == Init /\ [][Next]_vars
=============================================================================
