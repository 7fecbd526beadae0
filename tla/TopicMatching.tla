---------------------------- MODULE TopicMatching ----------------------------
(***************************************************************************)
(* The functions on topic text: topicMatches, isWildcard and isValidTopic  *)
(* (topic_matcher.h), splitLevels (wildcard_trie.h) and the check of a     *)
(* pattern in subscribe().  A text is a sequence of characters, and the    *)
(* loops over positions are recursive functions of the positions.          *)
(*                                                                         *)
(* The state is a pattern and a topic that grow character by character, so *)
(* that the properties speak of every text.  Matchers compares the         *)
(* functions with the trie.                                                *)
(***************************************************************************)
EXTENDS Integers, Sequences, SequencesExt

CONSTANTS Letters,             \* characters other than '/', '*' and '#'
          MaxPattern, MaxTopic \* bounds on the lengths

Slash == "/"
Star == "*"
Hash == "#"

(* A level is a text of its own: "*" and "#" are levels of one character. *)
INSTANCE TopicLevels WITH OneLevel <- <<Star>>, AnyLevels <- <<Hash>>

VARIABLES pattern, topic
vars == <<pattern, topic>>

(* isWildcard *)
IsWildcard(s) == \E i \in DOMAIN s : s[i] \in {Star, Hash}

(* The position of the next '/' at or after i, or the one after the end. *)
LevelEnd(s, i) == CHOOSE e \in i..(Len(s) + 1) :
                    /\ e = Len(s) + 1 \/ s[e] = Slash
                    /\ \A k \in i..(e - 1) : s[k] # Slash

(* splitLevels: a text that ends in '/' has no empty last level. *)
SplitLevels(s) ==
  LET from[i \in 1..(Len(s) + 1)] ==
        IF i > Len(s) THEN <<>>
        ELSE LET e == LevelEnd(s, i)
             IN  <<SubSeq(s, i, e - 1)>> \o (IF e > Len(s) THEN <<>> ELSE from[e + 1])
  IN  from[1]

(* Mutant: '/#' does not match the topic that ends before it. *)
MatchesEndNoParent(p, i, t, j) ==
  \/ i <= Len(p) /\ p[i] = Hash
  \/ i > Len(p) /\ j > Len(t)

(* topicMatches after its loop: at least one of the two texts is used up. *)
MatchesEnd(p, i, t, j) ==
  \/ i <= Len(p) /\ p[i] = Hash
  \/ i + 1 <= Len(p) /\ p[i] = Slash /\ p[i + 1] = Hash
  \/ i > Len(p) /\ j > Len(t)

SkipSlash(s, i) == IF i <= Len(s) /\ s[i] = Slash THEN i + 1 ELSE i

TopicMatches(p, t) ==
  LET from[at \in (1..(Len(p) + 1)) \X (1..(Len(t) + 1))] ==
        LET i == at[1]
            j == at[2]
        IN  IF i > Len(p) \/ j > Len(t) THEN MatchesEnd(p, i, t, j)
            ELSE \/ p[i] = Hash
                 \/ /\ p[i] = Star
                    /\ from[<<SkipSlash(p, i + 1), SkipSlash(t, LevelEnd(t, j))>>]
                 \/ /\ p[i] \notin {Star, Hash}
                    /\ p[i] = t[j]
                    /\ from[<<i + 1, j + 1>>]
  IN  from[<<1, 1>>]

AtLevelStart(s, i) == i = 1 \/ s[i - 1] = Slash

(* isValidTopic: the characters from position i on are accepted. *)
IsValidTopic(s) ==
  LET from[at \in (1..(Len(s) + 1)) \X BOOLEAN \X BOOLEAN] ==
        LET i == at[1]
            in_segment == at[2]
            last_was_wildcard == at[3]
        IN  IF i > Len(s) THEN TRUE
            ELSE CASE s[i] = Slash -> ~last_was_wildcard /\ i # Len(s)
                                       /\ from[<<i + 1, FALSE, FALSE>>]
                   [] s[i] = Hash  -> ~in_segment /\ AtLevelStart(s, i) /\ i = Len(s)
                   [] s[i] = Star  -> ~in_segment /\ AtLevelStart(s, i)
                                       /\ from[<<i + 1, TRUE, TRUE>>]
                   [] OTHER        -> ~last_was_wildcard /\ from[<<i + 1, TRUE, FALSE>>]
  IN  s # <<>> /\ from[<<1, FALSE, FALSE>>]

-----------------------------------------------------------------------------
Init == pattern = <<>> /\ topic = <<>>

GrowPattern ==
  /\ Len(pattern) < MaxPattern
  /\ \E c \in Letters \cup {Slash, Star, Hash} : pattern' = Append(pattern, c)
  /\ UNCHANGED topic

(* Topics are published without wildcards. *)
GrowTopic ==
  /\ Len(topic) < MaxTopic
  /\ \E c \in Letters \cup {Slash} : topic' = Append(topic, c)
  /\ UNCHANGED pattern

Next == GrowPattern \/ GrowTopic

Spec == Init /\ [][Next]_vars
-----------------------------------------------------------------------------
(* Well-formed: a level holds no wildcard unless it is one ...               *)
WholeLevels(s) ==
  \A k \in DOMAIN SplitLevels(s) :
    LET level == SplitLevels(s)[k] IN IsWildcard(level) => level \in Wildcards

WellFormed(s) ==
  /\ s # <<>> /\ s[Len(s)] # Slash
  /\ WholeLevels(s)
  /\ HashIsLast(SplitLevels(s))

Agrees(p, t) == TopicMatches(p, t) <=> LevelsMatch(SplitLevels(p), SplitLevels(t))

(* "'*' matches exactly one level", "'#' matches zero or more levels" (lines  *)
(* 9-12): where the pattern has no empty level topicMatches, which walks      *)
(* characters, finds what the levels say, and so agrees with WildcardTrie,    *)
(* which walks levels.                                                        *)
MatchesNamedLevels ==
  /\ WellFormed(pattern) /\ WellFormed(topic)
  /\ \A k \in DOMAIN SplitLevels(pattern) : SplitLevels(pattern)[k] # <<>>
  => Agrees(pattern, topic)

(* "Trailing slash not allowed" (line 74), "'*' must be entire segment" (line *)
(* 95): isValidTopic accepts no text that is not well-formed, and refuses     *)
(* none that is and has no wildcard, which is a topic to publish on.          *)
ValidTopics ==
  /\ IsValidTopic(pattern) => WellFormed(pattern)
  /\ WellFormed(pattern) /\ ~IsWildcard(pattern) => IsValidTopic(pattern)

(* "Returns true if the topic/pattern is valid according to MQTT rules"       *)
(* (line 56), of which "sensor/*/temp" is the example for '*' (line 9).       *)
ValidPatterns == WellFormed(pattern) => IsValidTopic(pattern)
=============================================================================
