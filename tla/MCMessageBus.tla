----------------------------- MODULE MCMessageBus -----------------------------
(* MessageBus for TLC.  Where the dispatcher is a publisher its handlers     *)
(* publish once under the policies that make them wait, but for Block, where *)
(* the dispatcher would wait for itself.  Other publishers are               *)
(* interchangeable.                                                          *)
EXTENDS MessageBus, TLC

MCHandlerCalls == [policy_ \in Policies |->
                     IF policy_ \in {"DropOldest", "BlockTimeout"} THEN 1 ELSE 0]
Symmetry == Permutations(Publishers)
=============================================================================
