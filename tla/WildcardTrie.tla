---------------------------- MODULE WildcardTrie ----------------------------
(***************************************************************************)
(* WildcardTrie (wildcard_trie.h): the trie of wildcard patterns.  A node  *)
(* is the path of levels that leads to it.  insert() and remove() work on  *)
(* a clone of the snapshot under write_mutex_ and publish it with one      *)
(* store, so each is one step and a snapshot is a value of the state;      *)
(* match() is a function of a snapshot.  Who reads which snapshot when is  *)
(* the subject of module Subscriptions.                                    *)
(***************************************************************************)
EXTENDS TopicLevels, FiniteSets, SequencesExt

CONSTANTS Names,       \* levels that are no wildcards
          Types,       \* the types of messages
          MaxDepth,    \* bound on the levels of patterns and topics
          MaxEntries   \* bound on the entries inserted

ASSUME NamesAreNotWildcards == Names \cap Wildcards = {}
ASSUME BoundsAssumption == MaxDepth \in Nat /\ MaxEntries \in Nat

Levels == Names \cup Wildcards
Root == <<>>
Paths == UNION {[1..n -> Levels] : n \in 0..MaxDepth}

(* publish() takes any text as a topic, with wildcards as levels too. *)
Topics == Paths

(* What subscribe() inserts: '#' is its last level, if anywhere. *)
Patterns == {p \in Paths : HashIsLast(p) /\ \E i \in DOMAIN p : p[i] \in Wildcards}

VARIABLES
  nodes,        \* the nodes of the snapshot, the root included
  entries,      \* the entries of each node, in order
  entry_count,
  inserted,     \* pattern and type of each subscription, by its id
  removed       \* the ids removed

vars == <<nodes, entries, entry_count, inserted, removed>>

Ids == 1..MaxEntries
Live == DOMAIN inserted \ removed

Init ==
  /\ nodes = {Root}
  /\ entries = [p \in Paths |-> <<>>]
  /\ entry_count = 0
  /\ inserted = <<>>
  /\ removed = {}

Parent(p) == SubSeq(p, 1, Len(p) - 1)
Children(snapshot, p) == {q \in snapshot : Len(q) = Len(p) + 1 /\ Parent(q) = p}

-----------------------------------------------------------------------------
(* insert(): the nodes on the way are found or created. *)
Insert(pattern, type) ==
  /\ Len(inserted) < MaxEntries
  /\ LET id == Len(inserted) + 1 IN
       /\ inserted' = Append(inserted, [pattern |-> pattern, type |-> type])
       /\ nodes' = nodes \cup Prefixes(pattern)
       /\ entries' = [entries EXCEPT ![pattern] = Append(@, id)]
  /\ entry_count' = entry_count + 1
  /\ UNCHANGED removed

(* Mutant: only the node that lost its entry goes. *)
PrunedLeaf(snapshot, kept, p) ==
  {q \in {p} : kept[q] = <<>> /\ Children(snapshot, q) = {}}

(* removeFrom on the way back: the nodes that lead to p and have neither *)
(* entries nor children once those below them are gone.                  *)
Pruned(snapshot, kept, p) ==
  {q \in Prefixes(p) : /\ q # Root
                       /\ \A r \in Prefixes(p) : Len(r) >= Len(q) => kept[r] = <<>>
                       /\ \A r \in Prefixes(p) : Len(r) >= Len(q) =>
                            Children(snapshot, r) \subseteq Prefixes(p)}

(* Mutant: the number of entries is left as it was. *)
CountKept == entry_count

CountLess == entry_count - 1

(* remove(id): the entry is erased, and the nodes it leaves empty. *)
RemoveId(id) ==
  /\ \E p \in nodes : \E i \in DOMAIN entries[p] :
       /\ entries[p][i] = id
       /\ entries' = [entries EXCEPT ![p] = RemoveAt(@, i)]
       /\ nodes' = nodes \ Pruned(nodes, entries', p)
  /\ entry_count' = CountLess
  /\ removed' = removed \cup {id}
  /\ UNCHANGED inserted

(* remove() of an id that is not there publishes nothing. *)
RemoveNothing(id) ==
  /\ \A p \in nodes : id \notin ToSet(entries[p])
  /\ UNCHANGED vars

Next ==
  \/ \E pattern \in Patterns, type \in Types : Insert(pattern, type)
  \/ \E id \in Ids : RemoveId(id) \/ RemoveNothing(id)

Spec == Init /\ [][Next]_vars

-----------------------------------------------------------------------------
(* match()                                                                 *)

(* The entries at a node that are of the message's type, in their order *)
OfType(p, type) ==
  LET out[n \in 0..Len(entries[p])] ==
        IF n = 0 THEN <<>>
        ELSE IF inserted[entries[p][n]].type = type THEN Append(out[n - 1], entries[p][n])
        ELSE out[n - 1]
  IN  out[Len(entries[p])]

(* The entries at a child, if there is such a node. *)
AtChild(p, level, type) ==
  IF Append(p, level) \in nodes THEN OfType(Append(p, level), type) ELSE <<>>

(* Mutant: '#' is looked for only while levels of the topic are left. *)
HashEntriesBelow(p, topic, type) ==
  IF Len(p) < Len(topic) THEN AtChild(p, AnyLevels, type) ELSE <<>>

HashEntries(p, topic, type) == AtChild(p, AnyLevels, type)

(* matchNode: what is pushed to the result from each node on.  The children *)
(* that are visited are the one of the topic's next level, then '*'.        *)
MatchNode(topic, type) ==
  LET match[p \in nodes] ==
        HashEntries(p, topic, type) \o
          IF Len(p) >= Len(topic) THEN OfType(p, type)
          ELSE LET exact == Append(p, topic[Len(p) + 1])
                   star == Append(p, OneLevel)
               IN  (IF exact \in nodes THEN match[exact] ELSE <<>>) \o
                   (IF star \in nodes THEN match[star] ELSE <<>>)
  IN  match[Root]

Match(topic, type) == IF entry_count = 0 THEN <<>> ELSE MatchNode(topic, type)

-----------------------------------------------------------------------------
(* The entries are in the trie where their patterns lead, each once, and    *)
(* entry_count, on which match() and empty() rely to skip the trie, counts  *)
(* them (insert, remove).                                                   *)
TypeOK ==
  /\ nodes \subseteq Paths /\ Root \in nodes
  /\ \A p \in nodes : Prefixes(p) \subseteq nodes
  /\ \A p \in Paths : /\ IsInjective(entries[p])
                      /\ ToSet(entries[p]) = {e \in Live : inserted[e].pattern = p}
  /\ entry_count = Cardinality(Live)

(* match() finds the live subscriptions of the message's type whose pattern *)
(* matches the topic and no other, whatever was inserted and removed before *)
(* and wherever the topic itself has a wildcard; and it finds each once, if *)
(* the topic has none (matchNode, removeFrom).                              *)
MatchesExactly ==
  \A topic \in Topics, type \in Types :
    /\ ToSet(Match(topic, type)) =
         {e \in Live : inserted[e].type = type /\ LevelsMatch(inserted[e].pattern, topic)}
    /\ ToSet(topic) \subseteq Names => IsInjective(Match(topic, type))

(* "Prune empty nodes on the way back" (line 278): every node but the root  *)
(* leads to an entry, so that subscribing and unsubscribing for ever does   *)
(* not let the trie grow.                                                   *)
NoDeadNodes ==
  \A p \in nodes \ {Root} : \E q \in nodes : p \in Prefixes(q) /\ entries[q] # <<>>
=============================================================================
