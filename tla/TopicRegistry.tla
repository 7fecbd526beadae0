---------------------------- MODULE TopicRegistry ----------------------------
(***************************************************************************)
(* TopicRegistry (topic_registry.h): topic texts and the ids that stand    *)
(* for them.  resolve() looks a text up under a shared lock and, if it is  *)
(* new, again under the exclusive lock before it registers it; between the *)
(* two locks other threads register what they like.  A critical section is *)
(* one step.  Ids do not wrap here: 2^32 texts are out of reach.           *)
(***************************************************************************)
EXTENDS Integers, FiniteSets

CONSTANTS Callers,   \* threads that resolve topics
          Topics,    \* topic texts
          NoTopic    \* the empty view

kInvalidTopicId == 0

ASSUME NoTopicAssumption == NoTopic \notin Topics

VARIABLES
  map,      \* map_: the id of each registered text
  id_to_sv, \* id_to_sv_: the view of each id
  next_id,
  asked,    \* the text each thread resolves, NoTopic outside resolve()
  tid       \* what its last resolve() returned, kInvalidTopicId before

registryVars == <<map, id_to_sv, next_id, asked, tid>>

Registered == DOMAIN map

RegistryInit ==
  /\ map = [topic \in {} |-> kInvalidTopicId]
  /\ id_to_sv = [id \in {} |-> NoTopic]
  /\ next_id = 1
  /\ asked = [c \in Callers |-> NoTopic]
  /\ tid = [c \in Callers |-> kInvalidTopicId]

(* resolve(): the fast path answers at once ... *)
Find(c, topic) ==
  /\ asked[c] = NoTopic
  /\ topic \in Registered
  /\ tid' = [tid EXCEPT ![c] = map[topic]]
  /\ UNCHANGED <<map, id_to_sv, next_id, asked>>

(* ... or goes on to the exclusive lock, which it does not hold yet. *)
FindNothing(c, topic) ==
  /\ asked[c] = NoTopic
  /\ topic \notin Registered
  /\ asked' = [asked EXCEPT ![c] = topic]
  /\ tid' = [tid EXCEPT ![c] = kInvalidTopicId]
  /\ UNCHANGED <<map, id_to_sv, next_id>>

Answer(c, id) ==
  /\ tid' = [tid EXCEPT ![c] = id]
  /\ asked' = [asked EXCEPT ![c] = NoTopic]

Extended(f, x, y) == [z \in DOMAIN f \cup {x} |-> IF z = x THEN y ELSE f[z]]

(* Mutant: no second look.  emplace() keeps the entry that is there, while *)
(* the id is new.                                                          *)
RegisterUnchecked(c) ==
  /\ asked[c] # NoTopic
  /\ map' = IF asked[c] \in Registered THEN map ELSE Extended(map, asked[c], next_id)
  /\ id_to_sv' = Extended(id_to_sv, next_id, asked[c])
  /\ next_id' = next_id + 1
  /\ Answer(c, next_id)

(* Mutant: no second look, and operator[] instead of emplace(). *)
RegisterOverwrites(c) ==
  /\ asked[c] # NoTopic
  /\ map' = Extended(map, asked[c], next_id)
  /\ id_to_sv' = Extended(id_to_sv, next_id, asked[c])
  /\ next_id' = next_id + 1
  /\ Answer(c, next_id)

Register(c) ==
  /\ asked[c] # NoTopic
  /\ asked[c] \notin Registered
  /\ map' = Extended(map, asked[c], next_id)
  /\ id_to_sv' = Extended(id_to_sv, next_id, asked[c])
  /\ next_id' = next_id + 1
  /\ Answer(c, next_id)

(* The double check: another thread has registered it meanwhile. *)
FindRegistered(c) ==
  /\ asked[c] # NoTopic
  /\ asked[c] \in Registered
  /\ Answer(c, map[asked[c]])
  /\ UNCHANGED <<map, id_to_sv, next_id>>

(* The view of an id, empty for one not in use *)
to_string(id) == IF id \in DOMAIN id_to_sv THEN id_to_sv[id] ELSE NoTopic

RegistryNext ==
  \E c \in Callers :
    \/ \E topic \in Topics : Find(c, topic) \/ FindNothing(c, topic)
    \/ Register(c)
    \/ FindRegistered(c)

RegistrySpec == RegistryInit /\ [][RegistryNext]_registryVars
-----------------------------------------------------------------------------
RegistryTypeOK ==
  /\ Registered \subseteq Topics
  /\ map \in [Registered -> Nat \ {kInvalidTopicId}]
  /\ id_to_sv \in [DOMAIN id_to_sv -> Topics]
  /\ next_id \in Nat \ {kInvalidTopicId}
  /\ asked \in [Callers -> Topics \cup {NoTopic}]
  /\ tid \in [Callers -> Nat]

(* "Topic string <-> ID registry" (line 14): map_ and id_to_sv_ are inverse *)
(* to each other, so that no two texts share an id, no text has two, and    *)
(* the view of an id is the text it was given for, however calls of         *)
(* resolve() overlap; and an id that was returned stays in use.             *)
OneIdPerTopic ==
  /\ \A topic \in Registered : map[topic] \in DOMAIN id_to_sv /\ id_to_sv[map[topic]] = topic
  /\ \A id \in DOMAIN id_to_sv : id_to_sv[id] \in Registered /\ map[id_to_sv[id]] = id
  /\ \A c \in Callers : tid[c] # kInvalidTopicId => tid[c] \in DOMAIN id_to_sv

(* What makes it inductive: ids in use are below next_id_. *)
IdsBelowNext == \A id \in DOMAIN id_to_sv : id \in Nat /\ id < next_id

(* "Returns a stable TopicId" (line 22): what is registered never changes.  *)
StableIds ==
  [][/\ \A topic \in Registered : topic \in DOMAIN map' /\ map'[topic] = map[topic]
     /\ \A id \in DOMAIN id_to_sv : id \in DOMAIN id_to_sv' /\ id_to_sv'[id] = id_to_sv[id]
    ]_registryVars
=============================================================================
