---------------------------- MODULE MCMultiDispatch ----------------------------
(* MultiDispatch for TLC: two workers with a topic each.  A publisher's      *)
(* second message goes to one topic and all its others to the other, so that *)
(* three of its four meet at one worker's queue of two cells.                *)
EXTENDS MultiDispatch

MCHandlerCalls == [policy_ \in Policies |-> 0]
MCTopicOf == [m \in Messages |-> IF m[2] = 2 THEN "b" ELSE "a"]
MCWorkerOf == [t \in Topics |-> IF t = "a" THEN 0 ELSE 1]
=============================================================================
