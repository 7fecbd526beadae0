------------------------------ MODULE Matchers ------------------------------
(***************************************************************************)
(* The two matchers side by side: WildcardTrie, by which the bus finds the *)
(* handlers of a message, and topicMatches (topic_matcher.h), by which an  *)
(* application finds out the same of a pattern and a topic.  The levels in *)
(* the trie are texts here, those that splitLevels makes of the text of a  *)
(* pattern or a topic.                                                     *)
(***************************************************************************)
EXTENDS WildcardTrie

Text == INSTANCE TopicMatching
          WITH Letters <- UNION {ToSet(name) : name \in Names},
               MaxPattern <- MaxDepth, MaxTopic <- MaxDepth, pattern <- <<>>, topic <- <<>>

(* The text that has these levels *)
TextOf(levels) ==
  IF levels = <<>> THEN <<>>
  ELSE FoldLeft(LAMBDA text, level : text \o <<Text!Slash>> \o level, Head(levels), Tail(levels))

NamedTopics == {TextOf(levels) : levels \in {path \in Paths : ToSet(path) \subseteq Names}}

(* "Structure mirrors MQTT topic levels" (wildcard_trie.h, line 30) and     *)
(* "MQTT-style topic wildcard matching" (topic_matcher.h, line 8) are one   *)
(* promise: whatever was inserted and removed before, the walk over levels  *)
(* finds for a topic the subscriptions whose pattern topicMatches, which    *)
(* walks characters, says that it matches.                                  *)
MatchersAgree ==
  \A topic \in NamedTopics, type \in Types :
    ToSet(Match(Text!SplitLevels(topic), type)) =
      {e \in Live : /\ inserted[e].type = type
                    /\ Text!TopicMatches(TextOf(inserted[e].pattern), topic)}
=============================================================================
