---------------------------- MODULE MCMessagePool ----------------------------
(* MessagePool for TLC: publishers and objects are interchangeable.          *)
EXTENDS MessagePool

(* Second publications go to another topic and have no callback, so that a   *)
(* recycled object changes both.                                             *)
MCTopicOf == [plan \in Plans |-> IF plan[2] = 2 THEN "b" ELSE "a"]
MCWithCallback == {plan \in Plans : plan[2] # 2}

Symmetry == Permutations(Callers) \cup Permutations(Objects)
=============================================================================
