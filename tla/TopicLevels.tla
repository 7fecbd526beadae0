----------------------------- MODULE TopicLevels -----------------------------
(***************************************************************************)
(* Topics and patterns level by level, and which topics a pattern matches: *)
(* what the comments of topic_matcher.h and subscribe() promise, with no   *)
(* reference to how topicMatches or WildcardTrie find out.                 *)
(***************************************************************************)
EXTENDS Integers, Sequences

CONSTANTS OneLevel,   \* '*': exactly one level
          AnyLevels   \* '#': zero or more trailing levels

Wildcards == {OneLevel, AnyLevels}
ASSUME WildcardsDiffer == OneLevel # AnyLevels

(* '#' must be the last level. *)
HashIsLast(levels) == \A i \in DOMAIN levels : levels[i] = AnyLevels => i = Len(levels)

LevelMatches(level, actual) == level = OneLevel \/ level = actual

(* The levels of a pattern match those of a topic. *)
LevelsMatch(pattern, topic) ==
  LET hash == pattern # <<>> /\ pattern[Len(pattern)] = AnyLevels
      fixed == IF hash THEN Len(pattern) - 1 ELSE Len(pattern)
  IN  /\ IF hash THEN Len(topic) >= fixed ELSE Len(topic) = fixed
      /\ \A i \in 1..fixed : LevelMatches(pattern[i], topic[i])
=============================================================================
