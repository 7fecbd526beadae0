---------------------------- MODULE MCSubscriptions ----------------------------
(* Subscriptions for TLC: every pattern matches every topic.                  *)
EXTENDS Subscriptions


MCMatches == [p \in Patterns |-> Topics]
=============================================================================
