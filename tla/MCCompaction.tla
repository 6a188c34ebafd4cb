---------------------------- MODULE MCCompaction ----------------------------
(* Instances of Compaction for TLC. *)
EXTENDS Compaction, TLC

CONSTANTS a, b

FirstAhead == (a :> 1) @@ (b :> 0)
SecondAhead == (a :> 0) @@ (b :> 1)

OneOne == (a :> 1) @@ (b :> 1)

(* Steps that touch only the device's own state commute with every step of *)
(* the others, and no property relates the local states of two devices: it *)
(* is enough to look at the runs where such steps go undisturbed.          *)
OwnSteps(d) ==
  \/ phase[d] \notin {"idle", "publish-segments", "publish-snapshot", "prune"}
  \/ phase[d] \in {"publish-segments", "publish-snapshot"} /\ todo[d] = {}
  \/ item[d] # None

Undisturbed(d) ==
  \A e \in Device \ {d} :
    <<phase'[e], applied'[e], item'[e]>> = <<phase[e], applied[e], item[e]>>

OwnStepsFirst == \A d \in Device : OwnSteps(d) => Undisturbed(d)
=============================================================================
