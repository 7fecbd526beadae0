----------------------------- MODULE MCMatchers -----------------------------
(* Matchers for TLC: one name is the beginning of the other. *)
EXTENDS Matchers

MCOneLevel == <<"*">>
MCAnyLevels == <<"#">>
MCNames == {<<"a">>, <<"a", "b">>}
=============================================================================
