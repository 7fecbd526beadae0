--------------------------- MODULE MessagePoolProofs ---------------------------
(***************************************************************************)
(* Proofs about MessagePool for every set of threads, topics, objects and  *)
(* policies and every capacity, and about TopicRegistry for all threads    *)
(* and topics.  Publishers and topic handles use the registry as           *)
(* TopicRegistry says, so that what is proved of the registry holds here.  *)
(* The reference count of a message object is the number of pointers to    *)
(* it, and every object is in use, in the pool or deleted.  MessageFlow,   *)
(* in which a message is a value, is implemented.                          *)
(***************************************************************************)
EXTENDS MessagePool, FiniteSetTheorems, SequenceTheorems, TLAPS

-----------------------------------------------------------------------------
(* The registry, whoever calls resolve()                                   *)

(* What every step of resolve() preserves. *)
RegistryInv == RegistryTypeOK /\ OneIdPerTopic /\ IdsBelowNext

(* The id that Register() takes is not in use. *)
LEMMA NextIdIsNew ==
  ASSUME IdsBelowNext, next_id \in Nat
  PROVE  next_id \notin DOMAIN id_to_sv
  BY DEF IdsBelowNext

(* An empty registry is well formed. *)
LEMMA RegistryInitInv == RegistryInit => RegistryInv
<1> SUFFICES ASSUME RegistryInit PROVE RegistryInv
  OBVIOUS
<1> USE DEF RegistryInit, Registered, kInvalidTopicId
<1>1. RegistryTypeOK
  BY DEF RegistryTypeOK
<1>2. OneIdPerTopic
  BY DEF OneIdPerTopic
<1>3. IdsBelowNext
  BY DEF IdsBelowNext
<1>4. QED
  BY <1>1, <1>2, <1>3 DEF RegistryInv

(* Answers that register nothing *)
LEMMA AnswerInv ==
  ASSUME RegistryInv, NEW c \in Callers, NEW id \in DOMAIN id_to_sv \cup {kInvalidTopicId},
         NEW a \in Topics \cup {NoTopic},
         UNCHANGED <<map, id_to_sv, next_id>>,
         tid' = [tid EXCEPT ![c] = id],
         asked' = [asked EXCEPT ![c] = a]
  PROVE  RegistryInv'
<1>1. id \in Nat
  BY DEF RegistryInv, IdsBelowNext, kInvalidTopicId
<1>2. RegistryTypeOK'
  BY <1>1 DEF RegistryInv, RegistryTypeOK, Registered
<1>3. OneIdPerTopic'
  <2>1. \A d \in Callers : tid'[d] = IF d = c THEN id ELSE tid[d]
    BY DEF RegistryInv, RegistryTypeOK
  <2>2. QED
    BY <2>1 DEF RegistryInv, OneIdPerTopic, Registered
<1>4. IdsBelowNext'
  BY DEF RegistryInv, IdsBelowNext
<1>5. QED
  BY <1>2, <1>3, <1>4 DEF RegistryInv

(* The fast path, with an answer ... *)
LEMMA FindInv ==
  ASSUME RegistryInv, NEW c \in Callers, NEW topic \in Topics, Find(c, topic)
  PROVE  RegistryInv'
<1>1. map[topic] \in DOMAIN id_to_sv
  BY DEF Find, RegistryInv, OneIdPerTopic
<1>2. asked' = [asked EXCEPT ![c] = NoTopic]
  BY DEF Find, RegistryInv, RegistryTypeOK
<1>3. QED
  BY <1>1, <1>2, AnswerInv DEF Find

(* ... and without *)
LEMMA FindNothingInv ==
  ASSUME RegistryInv, NEW c \in Callers, NEW topic \in Topics, FindNothing(c, topic)
  PROVE  RegistryInv'
  BY AnswerInv DEF FindNothing

(* The second look finds what another thread has registered. *)
LEMMA FindRegisteredInv ==
  ASSUME RegistryInv, NEW c \in Callers, FindRegistered(c)
  PROVE  RegistryInv'
<1>1. map[asked[c]] \in DOMAIN id_to_sv
  BY DEF FindRegistered, RegistryInv, OneIdPerTopic
<1>2. QED
  BY <1>1, AnswerInv DEF FindRegistered, Answer

(* A new text gets an id that no text has. *)
LEMMA RegisterInv ==
  ASSUME RegistryInv, NEW c \in Callers, Register(c)
  PROVE  RegistryInv'
<1> DEFINE topic == asked[c]
<1>1. topic \in Topics /\ topic \notin Registered
  BY DEF Register, RegistryInv, RegistryTypeOK
<1>2. next_id \in Nat \ {0} /\ next_id \notin DOMAIN id_to_sv
  BY NextIdIsNew DEF RegistryInv, RegistryTypeOK, kInvalidTopicId
<1>3. /\ DOMAIN map' = Registered \cup {topic}
      /\ map'[topic] = next_id
      /\ \A z \in Registered : map'[z] = map[z]
  BY <1>1 DEF Register, Registered, Extended
<1>4. /\ DOMAIN id_to_sv' = DOMAIN id_to_sv \cup {next_id}
      /\ id_to_sv'[next_id] = topic
      /\ \A z \in DOMAIN id_to_sv : id_to_sv'[z] = id_to_sv[z]
  BY <1>2 DEF Register, Extended
<1>5. \A d \in Callers : tid'[d] = IF d = c THEN next_id ELSE tid[d]
  BY DEF Register, Answer, RegistryInv, RegistryTypeOK
<1>6. RegistryTypeOK'
  <2>1. Registered' \subseteq Topics
    BY <1>1, <1>3 DEF Registered, RegistryInv, RegistryTypeOK
  <2>2. map' \in [Registered' -> Nat \ {kInvalidTopicId}]
    BY <1>2 DEF Register, Extended, Registered, RegistryInv, RegistryTypeOK, kInvalidTopicId
  <2>3. id_to_sv' \in [DOMAIN id_to_sv' -> Topics]
    BY <1>1 DEF Register, Extended, RegistryInv, RegistryTypeOK
  <2>4. next_id' \in Nat \ {kInvalidTopicId}
    BY <1>2 DEF Register, kInvalidTopicId
  <2>5. asked' \in [Callers -> Topics \cup {NoTopic}] /\ tid' \in [Callers -> Nat]
    BY <1>2 DEF Register, Answer, RegistryInv, RegistryTypeOK
  <2>6. QED
    BY <2>1, <2>2, <2>3, <2>4, <2>5 DEF RegistryTypeOK
<1>7. OneIdPerTopic'
  <2>1. ASSUME NEW t \in Registered'
        PROVE  map'[t] \in DOMAIN id_to_sv' /\ id_to_sv'[map'[t]] = t
    <3>1. CASE t = topic
      BY <3>1, <1>3, <1>4
    <3>2. CASE t \in Registered
      BY <3>2, <1>3, <1>4 DEF RegistryInv, OneIdPerTopic
    <3>3. QED
      BY <3>1, <3>2, <1>3 DEF Registered
  <2>2. ASSUME NEW id \in DOMAIN id_to_sv'
        PROVE  id_to_sv'[id] \in Registered' /\ map'[id_to_sv'[id]] = id
    <3>1. CASE id = next_id
      BY <3>1, <1>3, <1>4 DEF Registered
    <3>2. CASE id \in DOMAIN id_to_sv
      BY <3>2, <1>3, <1>4 DEF RegistryInv, OneIdPerTopic, Registered
    <3>3. QED
      BY <3>1, <3>2, <1>4
  <2>3. ASSUME NEW d \in Callers, tid'[d] # kInvalidTopicId
        PROVE  tid'[d] \in DOMAIN id_to_sv'
    BY <2>3, <1>4, <1>5 DEF RegistryInv, OneIdPerTopic
  <2>4. QED
    BY <2>1, <2>2, <2>3 DEF OneIdPerTopic
<1>8. IdsBelowNext'
  BY <1>2, <1>4 DEF Register, RegistryInv, IdsBelowNext
<1>9. QED
  BY <1>6, <1>7, <1>8 DEF RegistryInv

(* Every step of resolve(), of any thread *)
LEMMA RegistryNextInv == RegistryInv /\ [RegistryNext]_registryVars => RegistryInv'
<1> SUFFICES ASSUME RegistryInv, [RegistryNext]_registryVars PROVE RegistryInv'
  OBVIOUS
<1>1. ASSUME NEW c \in Callers, NEW topic \in Topics, Find(c, topic) \/ FindNothing(c, topic)
      PROVE  RegistryInv'
  BY <1>1, FindInv, FindNothingInv
<1>2. ASSUME NEW c \in Callers, Register(c) \/ FindRegistered(c)
      PROVE  RegistryInv'
  BY <1>2, RegisterInv, FindRegisteredInv
<1>3. CASE UNCHANGED registryVars
  BY <1>3 DEF registryVars, RegistryInv, RegistryTypeOK, OneIdPerTopic, IdsBelowNext, Registered
<1>4. QED
  BY <1>1, <1>2, <1>3 DEF RegistryNext

(* The maps of resolve() stay inverse to each other, with ids below next_id_. *)
THEOREM RegistryInvariant == RegistrySpec => []RegistryInv
  BY RegistryInitInv, RegistryNextInv, PTL DEF RegistrySpec

(* What resolve() and to_string() work on is well formed at all times. *)
THEOREM RegistryTypeOKHolds == RegistrySpec => []RegistryTypeOK
<1>1. RegistryInv => RegistryTypeOK
  BY DEF RegistryInv
<1>2. QED
  BY <1>1, RegistryInvariant, PTL

(* However calls of resolve() overlap, topics and ids correspond one to    *)
(* one, and ids returned are in use.                                       *)
THEOREM OneIdPerTopicHolds == RegistrySpec => []OneIdPerTopic
<1>1. RegistryInv => OneIdPerTopic
  BY DEF RegistryInv
<1>2. QED
  BY <1>1, RegistryInvariant, PTL

(* An id once given to a topic stays that topic's: "a stable TopicId". *)
THEOREM StableIdsHolds == RegistrySpec => StableIds
<1> DEFINE Stable ==
      /\ \A topic \in Registered : topic \in DOMAIN map' /\ map'[topic] = map[topic]
      /\ \A id \in DOMAIN id_to_sv : id \in DOMAIN id_to_sv' /\ id_to_sv'[id] = id_to_sv[id]
<1>1. ASSUME RegistryInv, [RegistryNext]_registryVars PROVE [Stable]_registryVars
  <2>1. ASSUME NEW c \in Callers, Register(c) PROVE Stable
    <3>1. next_id \notin DOMAIN id_to_sv
      BY <1>1, NextIdIsNew DEF RegistryInv, RegistryTypeOK
    <3>2. QED
      BY <2>1, <3>1 DEF Register, Registered, Extended
  <2>2. ASSUME UNCHANGED <<map, id_to_sv>> PROVE Stable
    BY <2>2 DEF Registered
  <2>3. QED
    BY <1>1, <2>1, <2>2 DEF RegistryNext, Find, FindNothing, FindRegistered
<1>2. QED
  BY <1>1, RegistryInvariant, PTL DEF RegistrySpec, StableIds

-----------------------------------------------------------------------------
(* Publishers call resolve()                                               *)

Resolving(p) == pc[p] \in {"resolve", "topic"}

(* A publisher that is about to call resolve() has a topic for it. *)
RequestInv ==
  /\ DOMAIN pc = Threads /\ DOMAIN request = Publishers
  /\ count \in [Publishers -> Nat]
  /\ \A p \in Publishers : Resolving(p) => request[p].text \in Topics

(* At first nobody resolves. *)
LEMMA RequestInitInv == Init => RequestInv
  BY DEF Init, RequestInv, Resolving, Threads

(* A publisher asks for a topic ... *)
LEMMA AskInv ==
  ASSUME RequestInv, NEW p \in Publishers, Publish(p) \/ Topic(p)
  PROVE  RequestInv'
<1>1. PICK plan \in Plans, data \in Data \cup Plans, on_drop \in Plans \cup {NoCallback} :
        request' = [request EXCEPT ![p] = Asked(TopicOf[plan], data, on_drop)]
  <2>1. CASE Publish(p)
    <3>1. count'[p] \in 1..MaxPublishes
      BY <2>1, BoundAssumption DEF Publish, RequestInv
    <3>2. <<p, count'[p]>> \in Data /\ <<p, count'[p]>> \in Plans
      BY <3>1, BoundAssumption DEF Data, Plans
    <3>3. OnDrop(<<p, count'[p]>>) \in Plans \cup {NoCallback}
      BY <3>2 DEF OnDrop
    <3>4. QED
      BY <2>1, <3>2, <3>3 DEF Publish
  <2>2. CASE Topic(p)
    <3>1. <<p, 0>> \in Plans
      BY BoundAssumption DEF Plans
    <3>2. OnDrop(<<p, 0>>) \in Plans \cup {NoCallback}
      BY <3>1 DEF OnDrop
    <3>3. QED
      BY <2>2, <3>1, <3>2 DEF Topic
  <2>3. QED
    BY <2>1, <2>2
<1>2. TopicOf[plan] \in Topics
  BY PlansAssumption
<1>3. request'[p].text \in Topics /\ \A q \in Publishers : q # p => request'[q] = request[q]
  BY <1>1, <1>2 DEF Asked, RequestInv
<1>4. \A q \in Publishers : q # p => pc'[q] = pc[q]
  BY DEF Publish, Topic, Goto, RequestInv, Threads
<1>5. DOMAIN pc' = Threads /\ DOMAIN request' = Publishers
  BY <1>1 DEF Publish, Topic, Goto, RequestInv
<1>6. count' \in [Publishers -> Nat]
  BY DEF Publish, Topic, RequestInv
<1>7. QED
  BY <1>3, <1>4, <1>5, <1>6 DEF RequestInv, Resolving

(* ... and no other step takes a publisher to resolve() or its topic away. *)
Elsewhere(t) ==
  /\ UNCHANGED <<count, request>>
  /\ DOMAIN pc' = Threads
  /\ pc'[t] = pc[t] \/ pc'[t] \notin {"resolve", "topic"}
  /\ \A q \in Threads : q # t => pc'[q] = pc[q]

(* It keeps the invariant. *)
LEMMA ElsewhereInv ==
  ASSUME RequestInv, NEW t \in Threads, Elsewhere(t)
  PROVE  RequestInv'
  BY DEF Elsewhere, RequestInv, Resolving, Threads

(* A handle needs no resolve(). *)
LEMMA PublishByHandleInv ==
  ASSUME RequestInv, NEW p \in Publishers, PublishByHandle(p)
  PROVE  RequestInv'
<1>1. \A q \in Publishers : pc'[q] = IF q = p THEN "h_acquire" ELSE pc[q]
  BY DEF PublishByHandle, Goto, RequestInv, Threads
<1>2. \A q \in Publishers : q # p => request'[q] = request[q]
  BY DEF PublishByHandle, RequestInv
<1>3. count' \in [Publishers -> Nat]
  BY DEF PublishByHandle, RequestInv
<1>4. DOMAIN pc' = Threads /\ DOMAIN request' = Publishers
  BY DEF PublishByHandle, Goto, RequestInv
<1>5. QED
  BY <1>1, <1>2, <1>3, <1>4 DEF RequestInv, Resolving

(* resolve() is called with a topic. *)
LEMMA ResolveInv ==
  ASSUME RequestInv, NEW p \in Publishers, ResolveStep(p)
  PROVE  RequestInv' /\ RegistryNext
<1>1. request[p].text \in Topics
  BY DEF ResolveStep, RequestInv, Resolving
<1>2. RegistryNext
  BY <1>1 DEF ResolveStep, RegistryNext, Publishers
<1>3. CASE UNCHANGED pc
  BY <1>2, <1>3 DEF ResolveStep, callVars, RequestInv, Resolving
<1>4. CASE Goto(p, IF pc[p] = "topic" THEN "make_handle" ELSE "acquire")
  <2>1. p \in Threads
    BY DEF Threads
  <2>2. Elsewhere(p)
    BY <1>4, <2>1 DEF ResolveStep, callVars, Goto, Elsewhere, RequestInv
  <2>3. QED
    BY <1>2, <2>1, <2>2, ElsewhereInv
<1>5. QED
  BY <1>2, <1>3, <1>4 DEF ResolveStep

(* The steps in enqueueMessage(), of a dispatcher and of MessagePtr *)
LEMMA PublisherElsewhere ==
  ASSUME RequestInv, NEW p \in Publishers,
         \/ MakeHandle(p) \/ Acquire(p) \/ Adopt(p) \/ LockPublish(p) \/ TryEnqueue(p)
         \/ QueueFull(p) \/ Evict(p) \/ NotifyDrop(p) \/ UnlockPublish(p)
  PROVE  UNCHANGED registryVars /\ Elsewhere(p)
<1> p \in Threads
  BY DEF Threads
<1> USE DEF Goto, Elsewhere, RequestInv, callVars
<1>1. CASE MakeHandle(p)
  BY <1>1 DEF MakeHandle
<1>2. CASE Acquire(p)
  BY <1>2 DEF Acquire
<1>3. CASE Adopt(p)
  BY <1>3 DEF Adopt
<1>4. CASE LockPublish(p)
  BY <1>4 DEF LockPublish
<1>5. CASE TryEnqueue(p)
  BY <1>5 DEF TryEnqueue
<1>6. CASE QueueFull(p)
  BY <1>6 DEF QueueFull
<1>7. CASE Evict(p)
  BY <1>7 DEF Evict
<1>8. CASE NotifyDrop(p)
  BY <1>8 DEF NotifyDrop
<1>9. CASE UnlockPublish(p)
  BY <1>9 DEF UnlockPublish
<1>10. QED
  BY <1>1, <1>2, <1>3, <1>4, <1>5, <1>6, <1>7, <1>8, <1>9

(* Those of a dispatcher, and the release of pointers *)
LEMMA ThreadElsewhere ==
  ASSUME RequestInv, NEW t \in Threads, Dequeue(t) \/ DispatchMessage(t) \/ ReleaseRef(t) \/ Recycle(t)
  PROVE  UNCHANGED registryVars /\ Elsewhere(t)
<1> USE DEF Goto, Elsewhere, RequestInv, callVars
<1>1. CASE Dequeue(t)
  BY <1>1 DEF Dequeue
<1>2. CASE DispatchMessage(t)
  BY <1>2 DEF DispatchMessage
<1>3. CASE ReleaseRef(t)
  BY <1>3 DEF ReleaseRef, Forget
<1>4. CASE Recycle(t)
  BY <1>4 DEF Recycle, Forget
<1>5. QED
  BY <1>1, <1>2, <1>3, <1>4

(* Every step is one of the registry or leaves it alone. *)
LEMMA RequestNextInv ==
  RequestInv /\ [Next]_vars => RequestInv' /\ [RegistryNext]_registryVars
<1> SUFFICES ASSUME RequestInv, [Next]_vars
             PROVE  RequestInv' /\ [RegistryNext]_registryVars
  OBVIOUS
<1>1. ASSUME NEW t \in Threads, UNCHANGED registryVars, Elsewhere(t)
      PROVE  RequestInv' /\ [RegistryNext]_registryVars
  BY <1>1, ElsewhereInv
<1>2. ASSUME NEW p \in Publishers, Publisher(p)
      PROVE  RequestInv' /\ [RegistryNext]_registryVars
  <2>1. CASE Publish(p) \/ Topic(p)
    BY <2>1, AskInv DEF Publish, Topic
  <2>2. CASE ResolveStep(p)
    BY <2>2, ResolveInv
  <2>3. CASE PublishByHandle(p)
    BY <2>3, PublishByHandleInv DEF PublishByHandle
  <2>4. CASE UNCHANGED registryVars /\ Elsewhere(p)
    BY <2>4, <1>1 DEF Threads
  <2>5. QED
    BY <1>2, <2>1, <2>2, <2>3, <2>4, PublisherElsewhere DEF Publisher
<1>3. CASE UNCHANGED vars
  BY <1>3 DEF vars, callVars, RequestInv, Resolving
<1>4. QED
  BY <1>1, <1>2, <1>3, ThreadElsewhere DEF Next, Threads

(* publish(), topic() and TopicHandle::publish() implement the registry's  *)
(* callers: whatever else they do, resolve() is called with topics only.   *)
THEOREM UsesTheRegistry == Spec => RegistrySpec
<1>1. Init => RegistryInit
  BY DEF Init
<1>2. QED
  BY <1>1, RequestInitInv, RequestNextInv, PTL DEF Spec, RegistrySpec

(* So topics and ids correspond one to one for the messages that carry them. *)
THEOREM PoolOneIdPerTopic == Spec => []OneIdPerTopic
  BY UsesTheRegistry, OneIdPerTopicHolds, PTL

(* The id in a handle or a queued message stays its topic's. *)
THEOREM PoolStableIds == Spec => StableIds
  BY UsesTheRegistry, StableIdsHolds, PTL
-----------------------------------------------------------------------------
(* Memory.  The MessagePtrs to an object are counted where they are: their *)
(* places in the queue and in the hands of threads.                        *)

(* The places where a sequence of MessagePtrs points to an object. *)
At(s, o) == {i \in DOMAIN s : s[i] = o}
In(s, o) == \E i \in DOMAIN s : s[i] = o

One(b) == IF b THEN 1 ELSE 0

(* A sequence points to an object finitely often. *)
LEMMA AtFinite ==
  ASSUME NEW S, NEW s \in Seq(S), NEW o
  PROVE  /\ IsFiniteSet(At(s, o)) /\ Cardinality(At(s, o)) \in Nat
         /\ Cardinality(At(s, o)) = 0 <=> ~In(s, o)
<1>1. IsFiniteSet(1..Len(s)) /\ At(s, o) \in SUBSET (1..Len(s))
  BY FS_Interval DEF At
<1>2. IsFiniteSet(At(s, o))
  BY <1>1, FS_Subset
<1>3. Cardinality(At(s, o)) \in Nat
  BY <1>2, FS_CardinalityType
<1>4. Cardinality(At(s, o)) = 0 <=> At(s, o) = {}
  BY <1>2, FS_EmptySet
<1>5. QED
  BY <1>2, <1>3, <1>4 DEF At, In

(* enqueue adds one place ... *)
LEMMA AppendAt ==
  ASSUME NEW S, NEW s \in Seq(S), NEW e \in S, NEW o
  PROVE  /\ Append(s, e) \in Seq(S) /\ Len(Append(s, e)) = Len(s) + 1
         /\ Cardinality(At(Append(s, e), o)) = Cardinality(At(s, o)) + One(e = o)
         /\ In(Append(s, e), o) <=> In(s, o) \/ e = o
<1>1. /\ Append(s, e) \in Seq(S) /\ Len(Append(s, e)) = Len(s) + 1
      /\ DOMAIN s = 1..Len(s) /\ DOMAIN Append(s, e) = 1..(Len(s) + 1)
      /\ Len(s) \in Nat
      /\ \A i \in 1..Len(s) : Append(s, e)[i] = s[i]
      /\ Append(s, e)[Len(s) + 1] = e
  BY AppendProperties
<1>2. At(Append(s, e), o) = IF e = o THEN At(s, o) \cup {Len(s) + 1} ELSE At(s, o)
  BY <1>1 DEF At
<1>3. Len(s) + 1 \notin At(s, o)
  BY <1>1 DEF At
<1>4. IsFiniteSet(At(s, o)) /\ Cardinality(At(s, o)) \in Nat
  BY AtFinite
<1>5. Cardinality(At(s, o) \cup {Len(s) + 1}) = Cardinality(At(s, o)) + 1
  BY <1>3, <1>4, FS_AddElement
<1>6. In(Append(s, e), o) <=> In(s, o) \/ e = o
  BY <1>1 DEF In
<1>7. QED
  BY <1>1, <1>2, <1>4, <1>5, <1>6 DEF One

(* ... and dequeue takes one away. *)
LEMMA TailAt ==
  ASSUME NEW S, NEW s \in Seq(S), s # <<>>, NEW o
  PROVE  /\ Head(s) \in S /\ Tail(s) \in Seq(S) /\ Len(Tail(s)) = Len(s) - 1
         /\ Cardinality(At(s, o)) = Cardinality(At(Tail(s), o)) + One(Head(s) = o)
         /\ In(s, o) <=> In(Tail(s), o) \/ Head(s) = o
<1>1. /\ Head(s) \in S /\ Tail(s) \in Seq(S) /\ Len(Tail(s)) = Len(s) - 1
      /\ \A i \in 1..Len(Tail(s)) : Tail(s)[i] = s[i + 1]
  BY HeadTailProperties
<1>2. /\ DOMAIN s = 1..Len(s) /\ Len(s) \in Nat /\ Len(s) > 0
      /\ DOMAIN Tail(s) = 1..(Len(s) - 1) /\ Head(s) = s[1]
  BY <1>1
<1> DEFINE f == [i \in At(Tail(s), o) |-> i + 1]
           T == At(s, o) \ {1}
<1>3. f \in Bijection(At(Tail(s), o), T)
  <2>1. \A i \in At(Tail(s), o) : i \in Nat /\ i + 1 \in T
    BY <1>1, <1>2 DEF At
  <2>2. \A j \in T : j - 1 \in At(Tail(s), o) /\ (j - 1) + 1 = j
    BY <1>1, <1>2 DEF At
  <2>3. f \in [At(Tail(s), o) -> T]
    BY <2>1
  <2>4. \A i, j \in At(Tail(s), o) : f[i] = f[j] => i = j
    BY <2>1
  <2>5. \A j \in T : \E i \in At(Tail(s), o) : f[i] = j
    BY <2>2
  <2>6. QED
    BY <2>3, <2>4, <2>5 DEF Bijection, Injection, Surjection, IsInjective
<1>4. IsFiniteSet(At(Tail(s), o)) /\ Cardinality(At(Tail(s), o)) \in Nat
  BY <1>1, AtFinite
<1>5. Cardinality(T) = Cardinality(At(Tail(s), o))
  <2>1. ExistsBijection(At(Tail(s), o), T)
    BY <1>3 DEF ExistsBijection
  <2>2. QED
    BY <1>4, <2>1, FS_Bijection
<1>6. IsFiniteSet(At(s, o)) /\ Cardinality(At(s, o)) \in Nat
  BY AtFinite
<1>7. Cardinality(T) = IF 1 \in At(s, o) THEN Cardinality(At(s, o)) - 1
                                         ELSE Cardinality(At(s, o))
  BY <1>6, FS_RemoveElement
<1>8. 1 \in At(s, o) <=> Head(s) = o
  BY <1>2 DEF At
<1>9. In(s, o) <=> In(Tail(s), o) \/ Head(s) = o
  <2>1. ASSUME NEW i \in DOMAIN s, i # 1
        PROVE  i - 1 \in DOMAIN Tail(s) /\ Tail(s)[i - 1] = s[i]
    BY <1>1, <1>2, <2>1
  <2>2. ASSUME NEW i \in DOMAIN Tail(s)
        PROVE  i + 1 \in DOMAIN s /\ s[i + 1] = Tail(s)[i]
    BY <1>1, <1>2
  <2>3. 1 \in DOMAIN s
    BY <1>2
  <2>4. QED
    BY <1>2, <2>1, <2>2, <2>3 DEF In
<1> HIDE DEF f, T
<1>10. QED
  BY <1>1, <1>4, <1>5, <1>6, <1>7, <1>8, <1>9 DEF One

(* The thread's last pointer is to an object with no reference yet, or with *)
(* none any more.                                                           *)
Bare(t) == pc[t] \in {"view", "h_view", "recycle"}

OwnPlaces(o) == {x \in Threads \X (1..2) : x[2] \in Counted(x[1]) /\ own[x[1]][x[2]] = o}

NoPointers == {"idle", "resolve", "topic", "make_handle", "acquire", "h_acquire"}
OnePointer == {"view", "h_view", "lock", "evict", "unlock", "dispatch"}
Steps == NoPointers \cup OnePointer \cup {"try", "notify", "release", "recycle"}

MemoryTypeOK ==
  /\ policy \in FullPolicy
  /\ freelist \in Seq(Objects) /\ Len(freelist) <= PoolCapacity
  /\ queue \in Seq(Objects) /\ Len(queue) <= QueueCapacity
  /\ allocated \subseteq Objects
  /\ ref_count \in [Objects -> Nat]
  /\ own \in [Threads -> Seq(Objects)]
  /\ pc \in [Threads -> Steps]
  /\ publish_mutex \in Publishers \cup {NoThread}

(* How many pointers a thread has at each step.  Under DropOldest a second  *)
(* one is that of the evicted message, which has made room.                 *)
PointersOf(t) ==
  /\ pc[t] \in NoPointers <=> own[t] = <<>>
  /\ pc[t] \in OnePointer => Len(own[t]) = 1
  /\ Len(own[t]) <= 2
  /\ pc[t] = "try" /\ Len(own[t]) = 2 =>
       policy = "DropOldest" /\ Len(queue) < QueueCapacity
  /\ pc[t] = "notify" => IF policy = "DropOldest"
                         THEN Len(own[t]) = 2 /\ Len(queue) < QueueCapacity
                         ELSE Len(own[t]) = 1
  /\ pc[t] = "evict" => policy = "DropOldest"
  /\ t \in Dispatchers => /\ pc[t] \in {"idle", "dispatch", "release", "recycle"}
                          /\ Len(own[t]) <= 1

PointersAt == \A t \in Threads : PointersOf(t)

(* publish_mutex_ under DropOldest: held until oldest is gone, and no longer. *)
Locked(p) == \/ pc[p] \in {"try", "evict", "notify", "unlock"}
             \/ pc[p] \in {"release", "recycle"} /\ Len(own[p]) = 2

OnePublishes ==
  policy = "DropOldest" => \A p \in Publishers : Locked(p) => publish_mutex = p

(* An object that has no reference is one thread's. *)
OneBare ==
  /\ \A t \in Threads : Bare(t) => ref_count[Last(own[t])] = 0
  /\ \A t, u \in Threads :
       Bare(t) /\ Bare(u) /\ Last(own[t]) = Last(own[u]) => t = u

(* The count is the number of pointers, and there are finitely many.  *)
Counts ==
  \A o \in Objects :
    /\ IsFiniteSet(OwnPlaces(o))
    /\ o \in allocated => ref_count[o] = Pointers(o)

(* An object is allocated while, and only while, it is in the pool or some  *)
(* MessagePtr points to it, never both.                                     *)
Somewhere ==
  \A o \in Objects :
    /\ o \in allocated <=> \/ In(freelist, o)
                           \/ In(queue, o)
                           \/ \E t \in Threads : In(own[t], o)
    /\ In(freelist, o) => ~In(queue, o) /\ \A t \in Threads : ~In(own[t], o)

MemoryInv ==
  /\ MemoryTypeOK
  /\ PointersAt
  /\ OnePublishes
  /\ OneBare
  /\ Counts
  /\ IsInjective(freelist)
  /\ Somewhere

-----------------------------------------------------------------------------
(* What one thread does to the pointers in threads' hands. *)
OthersPlaces(t, o) == {x \in OwnPlaces(o) : x[1] # t}
Mine(t, o) == One(1 \in Counted(t) /\ own[t][1] = o) + One(2 \in Counted(t) /\ own[t][2] = o)

SplitPlaces ==
  \A t \in Threads : \A o \in Objects :
    IsFiniteSet(OthersPlaces(t, o)) =>
      /\ IsFiniteSet(OwnPlaces(o))
      /\ Cardinality(OthersPlaces(t, o)) \in Nat
      /\ Cardinality(OwnPlaces(o)) = Cardinality(OthersPlaces(t, o)) + Mine(t, o)

(* A thread has at most two of the places. *)
LEMMA Split == SplitPlaces
<1> SUFFICES ASSUME NEW t \in Threads, NEW o \in Objects, IsFiniteSet(OthersPlaces(t, o))
             PROVE  /\ IsFiniteSet(OwnPlaces(o))
                    /\ Cardinality(OthersPlaces(t, o)) \in Nat
                    /\ Cardinality(OwnPlaces(o)) = Cardinality(OthersPlaces(t, o)) + Mine(t, o)
  BY DEF SplitPlaces
<1> DEFINE R == OthersPlaces(t, o)
           a == 1 \in Counted(t) /\ own[t][1] = o
           b == 2 \in Counted(t) /\ own[t][2] = o
           Ra == IF a THEN R \cup {<<t, 1>>} ELSE R
           Rab == IF b THEN Ra \cup {<<t, 2>>} ELSE Ra
<1>1. OwnPlaces(o) = Rab
  <2>1. \A x \in Threads \X (1..2) : x[1] = t => x = <<t, 1>> \/ x = <<t, 2>>
    OBVIOUS
  <2>2. <<t, 1>> \in OwnPlaces(o) <=> a
    BY DEF OwnPlaces
  <2>3. <<t, 2>> \in OwnPlaces(o) <=> b
    BY DEF OwnPlaces
  <2>4. \A x \in OwnPlaces(o) : x[1] # t <=> x \in R
    BY DEF OthersPlaces
  <2>5. R \subseteq OwnPlaces(o) /\ OwnPlaces(o) \subseteq Threads \X (1..2)
    BY DEF OthersPlaces, OwnPlaces
  <2> HIDE DEF R, a, b
  <2>6. QED
    BY <2>1, <2>2, <2>3, <2>4, <2>5
<1>2. <<t, 1>> \notin R /\ <<t, 2>> \notin R /\ <<t, 1>> # <<t, 2>>
  BY DEF OthersPlaces
<1>3. Mine(t, o) = One(a) + One(b)
  BY DEF Mine
<1>4. IsFiniteSet(R)
  OBVIOUS
<1> HIDE DEF R, a, b
<1>5. Cardinality(R) \in Nat
  BY <1>4, FS_CardinalityType
<1>6. IsFiniteSet(Ra) /\ Cardinality(Ra) = Cardinality(R) + One(a) /\ <<t, 2>> \notin Ra
  <2>1. CASE a
    BY <1>2, <1>4, <1>5, <2>1, FS_AddElement DEF One
  <2>2. CASE ~a
    BY <1>2, <1>4, <1>5, <2>2 DEF One
  <2>3. QED
    BY <2>1, <2>2
<1> HIDE DEF Ra
<1>7. IsFiniteSet(Rab) /\ Cardinality(Rab) = Cardinality(Ra) + One(b)
  <2>1. Cardinality(Ra) \in Nat
    BY <1>6, FS_CardinalityType
  <2>2. CASE b
    BY <1>6, <2>1, <2>2, FS_AddElement DEF One
  <2>3. CASE ~b
    BY <1>6, <2>1, <2>3 DEF One
  <2>4. QED
    BY <2>2, <2>3
<1>8. One(a) \in Nat /\ One(b) \in Nat
  BY DEF One
<1> HIDE DEF Rab
<1>9. QED
  BY <1>1, <1>3, <1>5, <1>6, <1>7, <1>8 DEF R

(* A step of one thread changes the number of places by what it does to    *)
(* its own.                                                                *)
LEMMA OwnStep ==
  ASSUME NEW t \in Threads, NEW o \in Objects, IsFiniteSet(OwnPlaces(o)),
         \A u \in Threads \ {t} : own'[u] = own[u] /\ pc'[u] = pc[u]
  PROVE  /\ IsFiniteSet(OwnPlaces(o)')
         /\ \E n \in Nat : /\ Cardinality(OwnPlaces(o)) = n + Mine(t, o)
                           /\ Cardinality(OwnPlaces(o)') = n + Mine(t, o)'
<1>1. SplitPlaces /\ SplitPlaces'
  BY Split, PTL
<1>2. OthersPlaces(t, o)' = OthersPlaces(t, o)
  <2>1. \A x \in Threads \X (1..2) : x[1] # t =>
          (x \in OwnPlaces(o)' <=> x \in OwnPlaces(o))
    BY DEF OwnPlaces, Counted
  <2>2. OwnPlaces(o) \subseteq Threads \X (1..2) /\ OwnPlaces(o)' \subseteq Threads \X (1..2)
    BY DEF OwnPlaces
  <2>3. QED
    BY <2>1, <2>2 DEF OthersPlaces
<1>3. IsFiniteSet(OthersPlaces(t, o))
  BY FS_Subset DEF OthersPlaces
<1>4. QED
  BY <1>1, <1>2, <1>3 DEF SplitPlaces

(* What a thread's pointers count, by their number. *)
MineAre ==
  \A t \in Threads : \A o \in Objects :
    /\ Mine(t, o) \in Nat
    /\ own[t] = <<>> => Mine(t, o) = 0
    /\ Len(own[t]) = 1 => Mine(t, o) = IF Bare(t) THEN 0 ELSE One(own[t][1] = o)
    /\ Len(own[t]) = 2 => Mine(t, o) = One(own[t][1] = o) +
                                       (IF Bare(t) THEN 0 ELSE One(own[t][2] = o))

(* It is all but the last pointer if that is bare, and all otherwise. *)
LEMMA MineIs == MemoryTypeOK => MineAre
<1> SUFFICES ASSUME MemoryTypeOK, NEW t \in Threads, NEW o \in Objects
             PROVE  /\ Mine(t, o) \in Nat
                    /\ own[t] = <<>> => Mine(t, o) = 0
                    /\ Len(own[t]) = 1 => Mine(t, o) = IF Bare(t) THEN 0 ELSE One(own[t][1] = o)
                    /\ Len(own[t]) = 2 => Mine(t, o) = One(own[t][1] = o) +
                                                       (IF Bare(t) THEN 0 ELSE One(own[t][2] = o))
  BY DEF MineAre
<1>1. own[t] \in Seq(Objects)
  BY DEF MemoryTypeOK
<1>2. DOMAIN own[t] = 1..Len(own[t]) /\ Len(own[t]) \in Nat
  BY <1>1
<1>3. Counted(t) = {i \in 1..Len(own[t]) : ~(Bare(t) /\ i = Len(own[t]))}
  BY <1>2 DEF Counted, Bare
<1>4. Mine(t, o) \in Nat
  BY DEF Mine, One
<1>5. ASSUME own[t] = <<>> PROVE Mine(t, o) = 0
  BY <1>2, <1>3, <1>5 DEF Mine, One
<1>6. ASSUME Len(own[t]) = 1
      PROVE  Mine(t, o) = IF Bare(t) THEN 0 ELSE One(own[t][1] = o)
  <2>1. 2 \notin Counted(t) /\ (1 \in Counted(t) <=> ~Bare(t))
    BY <1>3, <1>6
  <2>2. QED
    BY <2>1 DEF Mine, One
<1>7. ASSUME Len(own[t]) = 2
      PROVE  Mine(t, o) = One(own[t][1] = o) + (IF Bare(t) THEN 0 ELSE One(own[t][2] = o))
  <2>1. 1 \in Counted(t) /\ (2 \in Counted(t) <=> ~Bare(t))
    BY <1>3, <1>7
  <2>2. QED
    BY <2>1 DEF Mine, One
<1>8. QED
  BY <1>4, <1>5, <1>6, <1>7

(* The counts of a state with finitely many places *)
PlacesAre ==
  \A o \in Objects :
    IsFiniteSet(OwnPlaces(o)) =>
      /\ Cardinality(At(queue, o)) \in Nat /\ Cardinality(OwnPlaces(o)) \in Nat
      /\ Pointers(o) = Cardinality(At(queue, o)) + Cardinality(OwnPlaces(o))
      /\ Pointers(o) # 0 => In(queue, o) \/ \E t \in Threads : In(own[t], o)
      /\ Pointers(o) = 0 =>
           ~In(queue, o) /\ \A t \in Threads : \A i \in Counted(t) \cap (1..2) : own[t][i] # o

(* Something is pointed to when its count is not zero, and not otherwise. *)
LEMMA Places == MemoryTypeOK => PlacesAre
<1> SUFFICES ASSUME MemoryTypeOK, NEW o \in Objects, IsFiniteSet(OwnPlaces(o))
             PROVE  /\ Cardinality(At(queue, o)) \in Nat /\ Cardinality(OwnPlaces(o)) \in Nat
                    /\ Pointers(o) = Cardinality(At(queue, o)) + Cardinality(OwnPlaces(o))
                    /\ Pointers(o) # 0 => In(queue, o) \/ \E t \in Threads : In(own[t], o)
                    /\ Pointers(o) = 0 =>
                         /\ ~In(queue, o)
                         /\ \A t \in Threads : \A i \in Counted(t) \cap (1..2) : own[t][i] # o
  BY DEF PlacesAre
<1>1. queue \in Seq(Objects)
  BY DEF MemoryTypeOK
<1>2. Cardinality(At(queue, o)) \in Nat /\ (Cardinality(At(queue, o)) = 0 <=> ~In(queue, o))
  BY <1>1, AtFinite
<1>3. Cardinality(OwnPlaces(o)) \in Nat /\ (Cardinality(OwnPlaces(o)) = 0 <=> OwnPlaces(o) = {})
  BY FS_CardinalityType, FS_EmptySet
<1>4. Pointers(o) = Cardinality(At(queue, o)) + Cardinality(OwnPlaces(o))
  BY DEF Pointers, At, OwnPlaces
<1>5. OwnPlaces(o) # {} => \E t \in Threads : In(own[t], o)
  BY DEF OwnPlaces, In, Counted
<1>6. OwnPlaces(o) = {} =>
        \A t \in Threads : \A i \in Counted(t) \cap (1..2) : own[t][i] # o
  <2> SUFFICES ASSUME NEW t \in Threads, NEW i \in Counted(t) \cap (1..2), own[t][i] = o
               PROVE  <<t, i>> \in OwnPlaces(o)
    OBVIOUS
  <2>1. QED
    BY DEF OwnPlaces
<1>7. QED
  BY <1>2, <1>3, <1>4, <1>5, <1>6

(* A step keeps the count of an object right when it changes the count as  *)
(* it changes the pointers in the queue and in its thread's hands.         *)
LEMMA Balanced ==
  ASSUME MemoryTypeOK, MemoryTypeOK', NEW t \in Threads, NEW o \in Objects,
         \A u \in Threads \ {t} : own'[u] = own[u] /\ pc'[u] = pc[u],
         IsFiniteSet(OwnPlaces(o)), ref_count[o] = Pointers(o),
         ref_count'[o] + Cardinality(At(queue, o)) + Mine(t, o) =
           ref_count[o] + Cardinality(At(queue, o)') + Mine(t, o)'
  PROVE  IsFiniteSet(OwnPlaces(o)') /\ ref_count'[o] = Pointers(o)'
<1>1. PICK n \in Nat : /\ Cardinality(OwnPlaces(o)) = n + Mine(t, o)
                       /\ Cardinality(OwnPlaces(o)') = n + Mine(t, o)'
  BY OwnStep
<1>2. IsFiniteSet(OwnPlaces(o)')
  BY OwnStep
<1>3. PlacesAre /\ PlacesAre' /\ MineAre /\ MineAre'
  BY Places, MineIs, PTL
<1>4. /\ Pointers(o) = Cardinality(At(queue, o)) + Cardinality(OwnPlaces(o))
      /\ Pointers(o)' = Cardinality(At(queue, o)') + Cardinality(OwnPlaces(o)')
      /\ Cardinality(At(queue, o)) \in Nat /\ Cardinality(At(queue, o)') \in Nat
  BY <1>2, <1>3 DEF PlacesAre
<1>5. Mine(t, o) \in Nat /\ Mine(t, o)' \in Nat
  BY <1>3 DEF MineAre
<1>6. ref_count[o] \in Nat /\ ref_count'[o] \in Nat
  BY DEF MemoryTypeOK
<1>7. QED
  BY <1>1, <1>2, <1>4, <1>5, <1>6

(* What a thread's pointer points to exists, and is not in the pool. *)
LEMMA Held1 ==
  ASSUME MemoryInv, NEW t \in Threads, NEW o \in Objects, In(own[t], o) \/ In(queue, o)
  PROVE  o \in allocated /\ ~In(freelist, o)
  BY DEF MemoryInv, Somewhere

(* A thread has no, one or two pointers. *)
LEMMA Lengths ==
  ASSUME MemoryTypeOK, NEW t \in Threads, PointersOf(t)
  PROVE  /\ own[t] \in Seq(Objects) /\ DOMAIN own[t] = 1..Len(own[t])
         /\ \/ own[t] = <<>> /\ Len(own[t]) = 0
            \/ own[t] # <<>> /\ Len(own[t]) = 1
            \/ own[t] # <<>> /\ Len(own[t]) = 2
<1>1. own[t] \in Seq(Objects) /\ Len(own[t]) <= 2
  BY DEF MemoryTypeOK, PointersOf
<1>2. \A s \in Seq(Objects) : /\ DOMAIN s = 1..Len(s) /\ Len(s) \in Nat
                              /\ s = <<>> <=> Len(s) = 0
  OBVIOUS
<1>3. \A n \in Nat : n <= 2 => n = 0 \/ n = 1 \/ n = 2
  OBVIOUS
<1>4. QED
  BY <1>1, <1>2, <1>3

(* A bare pointer is the only one to its object. *)
LEMMA BareAlone ==
  ASSUME MemoryInv, NEW t \in Threads, Bare(t)
  PROVE  /\ Len(own[t]) \in {1, 2} /\ Last(own[t]) \in Objects
         /\ Last(own[t]) \in allocated /\ ~In(freelist, Last(own[t]))
         /\ ~In(queue, Last(own[t])) /\ ref_count[Last(own[t])] = 0
         /\ \A u \in Threads \ {t} : ~In(own[u], Last(own[t]))
         /\ Len(own[t]) = 2 => own[t][1] # Last(own[t])
<1> DEFINE o == Last(own[t])
<1>1. \A u \in Threads : /\ own[u] \in Seq(Objects) /\ Len(own[u]) \in Nat
                         /\ DOMAIN own[u] = 1..Len(own[u]) /\ Len(own[u]) <= 2
  BY DEF MemoryInv, MemoryTypeOK, PointersAt, PointersOf
<1>2. own[t] # <<>>
  BY DEF Bare, MemoryInv, PointersAt, PointersOf, NoPointers
<1>3. Len(own[t]) \in {1, 2}
  BY <1>2, Lengths DEF MemoryInv, PointersAt
<1>4. o = own[t][Len(own[t])] /\ Len(own[t]) \in DOMAIN own[t]
  BY <1>1, <1>3 DEF Last
<1>5. o \in Objects /\ In(own[t], o)
  BY <1>1, <1>4 DEF In
<1>6. o \in allocated /\ ~In(freelist, o)
  BY <1>5, Held1
<1>7. ref_count[o] = 0
  BY DEF MemoryInv, OneBare
<1> HIDE DEF o
<1>8. ~In(queue, o) /\ \A u \in Threads : \A i \in Counted(u) \cap (1..2) : own[u][i] # o
  BY <1>5, <1>6, <1>7, Places DEF MemoryInv, Counts, PlacesAre
<1>9. ASSUME NEW u \in Threads \ {t}, In(own[u], o) PROVE FALSE
  <2>1. PICK i \in DOMAIN own[u] : own[u][i] = o
    BY <1>9 DEF In
  <2>2. i \in 1..2 /\ i \notin Counted(u)
    BY <1>1, <1>8, <2>1
  <2>3. Bare(u) /\ i = Len(own[u])
    BY <2>1, <2>2 DEF Counted, Bare
  <2>4. Last(own[u]) = o
    BY <2>1, <2>3 DEF Last
  <2>5. QED
    BY <2>3, <2>4 DEF MemoryInv, OneBare, o
<1>10. Len(own[t]) = 2 => own[t][1] # o
  <2>1. Len(own[t]) = 2 => 1 \in Counted(t)
    BY <1>1 DEF Counted
  <2>2. QED
    BY <1>8, <2>1
<1>11. QED
  BY <1>3, <1>5, <1>6, <1>7, <1>8, <1>9, <1>10 DEF o

(* What is in the queue, or counted in a thread's hands, has a reference. *)
LEMMA Referenced ==
  ASSUME MemoryInv, NEW o \in Objects,
         In(queue, o) \/ \E t \in Threads : \E i \in Counted(t) \cap (1..2) : own[t][i] = o
  PROVE  /\ ref_count[o] \in Nat \ {0}
         /\ \A u \in Threads : Bare(u) => Last(own[u]) # o
<1>1. \A t \in Threads : \A i \in Counted(t) : own[t][i] = o => In(own[t], o)
  BY DEF Counted, In
<1>2. o \in allocated
  BY <1>1 DEF MemoryInv, Somewhere
<1>3. ref_count[o] = Pointers(o) /\ IsFiniteSet(OwnPlaces(o)) /\ ref_count[o] \in Nat
  BY <1>2 DEF MemoryInv, Counts, MemoryTypeOK
<1>4. PlacesAre
  BY Places DEF MemoryInv
<1>5. Pointers(o) # 0
  BY <1>3, <1>4 DEF PlacesAre
<1>6. QED
  BY <1>3, <1>5 DEF MemoryInv, OneBare

(* A step that moves no pointer. *)
LEMMA QuietMemory ==
  ASSUME MemoryInv, MemoryTypeOK', NEW t \in Threads,
         UNCHANGED <<freelist, allocated, ref_count, queue, own>>,
         \A u \in Threads \ {t} : pc'[u] = pc[u],
         ~Bare(t), ~Bare(t)'
  PROVE  OneBare' /\ Counts' /\ IsInjective(freelist)' /\ Somewhere'
<1>1. OneBare'
  BY DEF MemoryInv, OneBare, Bare
<1>2. Counts'
  <2> SUFFICES ASSUME NEW o \in Objects
               PROVE  /\ IsFiniteSet(OwnPlaces(o)')
                      /\ o \in allocated' => ref_count'[o] = Pointers(o)'
    BY DEF Counts
  <2>1. Counted(t)' = Counted(t)
    BY DEF Counted, Bare
  <2>2. \A u \in Threads : Counted(u)' = Counted(u)
    BY <2>1 DEF Counted
  <2>3. OwnPlaces(o)' = OwnPlaces(o)
    BY <2>2 DEF OwnPlaces
  <2>4. Pointers(o)' = Pointers(o)
    BY <2>2 DEF Pointers
  <2>5. QED
    BY <2>3, <2>4 DEF MemoryInv, Counts
<1>3. IsInjective(freelist)' /\ Somewhere'
  BY DEF MemoryInv, IsInjective, Somewhere, In
<1>4. QED
  BY <1>1, <1>2, <1>3

(* The steps of a publisher that move no pointer: up to pool.acquire(),    *)
(* the lock, a full queue, an eviction that finds nothing, and the call of *)
(* the drop callback.                                                      *)
LEMMA PublisherQuiet ==
  ASSUME MemoryInv, NEW p \in Publishers,
         \/ Publish(p) \/ Topic(p) \/ ResolveStep(p) \/ MakeHandle(p)
         \/ PublishByHandle(p) \/ LockPublish(p) \/ QueueFull(p)
         \/ Evict(p) /\ queue = <<>>
         \/ NotifyDrop(p)
  PROVE  MemoryInv'
<1>1. p \in Threads /\ p \notin Dispatchers
  BY DispatchersAssumption DEF Threads
<1>2. /\ UNCHANGED <<freelist, allocated, ref_count, queue, own, policy>>
      /\ publish_mutex' = IF pc[p] = "lock" THEN p ELSE publish_mutex
      /\ pc[p] = "lock" => publish_mutex = NoThread
      /\ \E step \in Steps : Goto(p, step)
      /\ pc[p] \in NoPointers => pc'[p] \in NoPointers
      /\ pc[p] = "lock" => pc'[p] = "try"
      /\ pc[p] = "try" =>
           /\ Len(queue) = QueueCapacity
           /\ pc'[p] = CASE policy = "DropOldest" -> "evict"
                         [] policy = "DropNewest" -> "notify"
                         [] OTHER -> "release"
      /\ pc[p] = "evict" => pc'[p] = "try"
      /\ pc[p] = "notify" => pc'[p] = IF policy = "DropOldest" THEN "try" ELSE "release"
      /\ pc[p] \in NoPointers \cup {"lock", "try", "evict", "notify"}
  <2> USE <1>1 DEF MemoryInv, MemoryTypeOK, poolVars, Goto, NoPointers, OnePointer, Steps
  <2>1. CASE Publish(p)         BY <2>1 DEF Publish
  <2>2. CASE Topic(p)           BY <2>2 DEF Topic
  <2>3. CASE ResolveStep(p)     BY <2>3 DEF ResolveStep
  <2>4. CASE MakeHandle(p)      BY <2>4 DEF MakeHandle
  <2>5. CASE PublishByHandle(p) BY <2>5 DEF PublishByHandle
  <2>6. CASE LockPublish(p)     BY <2>6 DEF LockPublish
  <2>7. CASE QueueFull(p)       BY <2>7 DEF QueueFull
  <2>8. CASE Evict(p) /\ queue = <<>> BY <2>8 DEF Evict
  <2>9. CASE NotifyDrop(p)      BY <2>9 DEF NotifyDrop
  <2>10. QED
    BY <2>1, <2>2, <2>3, <2>4, <2>5, <2>6, <2>7, <2>8, <2>9
<1>3. /\ pc' \in [Threads -> Steps] /\ pc'[p] \in Steps
      /\ \A u \in Threads \ {p} : pc'[u] = pc[u]
  BY <1>1, <1>2 DEF MemoryInv, MemoryTypeOK, Goto
<1>4. ~Bare(p) /\ ~Bare(p)'
  BY <1>2, <1>3 DEF Bare, NoPointers, MemoryInv, MemoryTypeOK, FullPolicy
<1>5. MemoryTypeOK'
  BY <1>2, <1>3 DEF MemoryInv, MemoryTypeOK
<1>6. PointersAt'
  <2> SUFFICES ASSUME NEW u \in Threads PROVE PointersOf(u)'
    BY DEF PointersAt
  <2>1. PointersOf(u)
    BY DEF MemoryInv, PointersAt
  <2>2. CASE u = p
    <3>1. u \notin Dispatchers /\ own'[u] = own[u] /\ policy' = policy /\ queue' = queue
      BY <1>1, <1>2, <2>2
    <3>2. CASE pc[p] \in NoPointers
      BY <1>2, <2>1, <2>2, <3>1, <3>2 DEF PointersOf, NoPointers, OnePointer
    <3>3. CASE pc[p] = "lock"
      <4>1. Len(own'[u]) = 1 /\ own[u] # <<>>
        BY <2>1, <2>2, <3>1, <3>3 DEF PointersOf, NoPointers, OnePointer
      <4>2. QED
        BY <1>2, <2>2, <3>1, <3>3, <4>1 DEF PointersOf, NoPointers, OnePointer
    <3>4. CASE pc[p] = "try"
      <4>1. Len(own[u]) # 2 /\ own[u] # <<>>
        BY <1>2, <2>1, <2>2, <3>4, CapacityAssumption
           DEF PointersOf, NoPointers, MemoryInv, MemoryTypeOK
      <4>2. Len(own[u]) = 1
        BY <2>1, <4>1, Lengths DEF MemoryInv
      <4>3. QED
        BY <1>2, <2>1, <2>2, <3>1, <3>4, <4>2
           DEF PointersOf, NoPointers, OnePointer, MemoryInv, MemoryTypeOK, FullPolicy
    <3>5. CASE pc[p] = "evict"
      <4>1. Len(own'[u]) = 1 /\ own[u] # <<>>
        BY <2>1, <2>2, <3>1, <3>5 DEF PointersOf, NoPointers, OnePointer
      <4>2. QED
        BY <1>2, <2>2, <3>1, <3>5, <4>1 DEF PointersOf, NoPointers, OnePointer
    <3>6. CASE pc[p] = "notify"
      BY <1>2, <2>1, <2>2, <3>1, <3>6 DEF PointersOf, NoPointers, OnePointer
    <3>7. QED
      BY <1>2, <3>2, <3>3, <3>4, <3>5, <3>6
  <2>3. CASE u # p
    BY <1>2, <1>3, <2>1, <2>3 DEF PointersOf
  <2>4. QED
    BY <2>2, <2>3
<1>7. OnePublishes'
  BY <1>1, <1>2, <1>3, NoThreadAssumption
     DEF MemoryInv, OnePublishes, Locked, NoPointers, NoThread, Threads
<1>8. OneBare' /\ Counts' /\ IsInjective(freelist)' /\ Somewhere'
  BY <1>1, <1>2, <1>3, <1>4, <1>5, QuietMemory
<1>9. QED
  BY <1>5, <1>6, <1>7, <1>8 DEF MemoryInv

(* The call of the handlers moves no pointer either. *)
LEMMA DispatchQuiet ==
  ASSUME MemoryInv, NEW d \in Dispatchers, DispatchMessage(d)
  PROVE  MemoryInv'
<1>1. d \in Threads /\ d \notin Publishers
  BY DispatchersAssumption DEF Threads
<1>2. /\ UNCHANGED <<freelist, allocated, ref_count, queue, own, policy, publish_mutex>>
      /\ pc[d] = "dispatch" /\ pc' = [pc EXCEPT ![d] = "release"]
  BY DEF DispatchMessage, poolVars, Goto
<1>3. MemoryTypeOK'
  BY <1>1, <1>2 DEF MemoryInv, MemoryTypeOK, Steps
<1>4. PointersAt'
  BY <1>1, <1>2 DEF MemoryInv, MemoryTypeOK, PointersAt, PointersOf, NoPointers, OnePointer
<1>5. OnePublishes'
  BY <1>1, <1>2 DEF MemoryInv, MemoryTypeOK, OnePublishes, Locked
<1>6. OneBare' /\ Counts' /\ IsInjective(freelist)' /\ Somewhere'
  <2>1. /\ \A u \in Threads \ {d} : pc'[u] = pc[u]
        /\ ~Bare(d) /\ ~Bare(d)'
    BY <1>1, <1>2 DEF MemoryInv, MemoryTypeOK, Bare
  <2>2. QED
    BY <1>1, <1>2, <1>3, <2>1, QuietMemory
<1>7. QED
  BY <1>3, <1>4, <1>5, <1>6 DEF MemoryInv

(* The pointers of a thread that has one or two *)
LEMMA Short ==
  ASSUME NEW s \in Seq(Objects)
  PROVE  /\ Len(s) = 1 => /\ s = <<s[1]>> /\ s[1] \in Objects
                          /\ Last(s) = s[1] /\ Head(s) = s[1] /\ Front(s) = <<>>
                          /\ \A x : In(s, x) <=> s[1] = x
         /\ Len(s) = 2 => /\ s[1] \in Objects /\ s[2] \in Objects
                          /\ Last(s) = s[2] /\ Head(s) = s[1] /\ Front(s) = <<s[1]>>
                          /\ \A x : In(s, x) <=> s[1] = x \/ s[2] = x
<1>1. DOMAIN s = 1..Len(s)
  OBVIOUS
<1>2. CASE Len(s) = 1
  <2>1. DOMAIN s = {1}
    BY <1>1, <1>2
  <2>2. s = <<s[1]>> /\ s[1] \in Objects /\ Last(s) = s[1] /\ Head(s) = s[1]
    BY <1>2, <2>1 DEF Last
  <2>3. Front(s) = <<>>
    BY <1>2 DEF Front
  <2>4. QED
    BY <1>2, <2>1, <2>2, <2>3 DEF In
<1>3. CASE Len(s) = 2
  <2>1. DOMAIN s = {1, 2}
    BY <1>1, <1>3
  <2>2. s[1] \in Objects /\ s[2] \in Objects /\ Last(s) = s[2] /\ Head(s) = s[1]
    BY <1>3, <2>1 DEF Last
  <2>3. Front(s) = <<s[1]>>
    <3>1. /\ SubSeq(s, 1, 1) \in Seq(Objects) /\ Len(SubSeq(s, 1, 1)) = 1
          /\ SubSeq(s, 1, 1)[1] = s[1]
      BY <1>3, <2>2
    <3>2. <<s[1]>> \in Seq(Objects) /\ Len(<<s[1]>>) = 1 /\ <<s[1]>>[1] = s[1]
      BY <2>2
    <3>3. \A i \in 1..Len(SubSeq(s, 1, 1)) : SubSeq(s, 1, 1)[i] = <<s[1]>>[i]
      BY <3>1, <3>2
    <3>4. SubSeq(s, 1, 1) = <<s[1]>>
      BY <3>1, <3>2, <3>3, SeqEqual
    <3>5. QED
      BY <1>3, <3>4 DEF Front
  <2>4. QED
    BY <1>3, <2>1, <2>2, <2>3 DEF In
<1>4. QED
  BY <1>2, <1>3

(* A sequence of one pointer *)
LEMMA Single ==
  ASSUME NEW o \in Objects
  PROVE  /\ <<o>> \in Seq(Objects) /\ Len(<<o>>) = 1 /\ <<o>>[1] = o /\ <<o>> # <<>>
         /\ Last(<<o>>) = o /\ \A x : In(<<o>>, x) <=> o = x
<1>1. /\ <<o>> \in Seq(Objects) /\ Len(<<o>>) = 1 /\ <<o>>[1] = o /\ <<o>> # <<>>
      /\ DOMAIN <<o>> = {1}
  OBVIOUS
<1>2. QED
  BY <1>1 DEF Last, In

(* The free list without its oldest entry *)
LEMMA TailInjective ==
  ASSUME NEW S, NEW s \in Seq(S), s # <<>>, IsInjective(s)
  PROVE  IsInjective(Tail(s)) /\ ~In(Tail(s), Head(s)) /\ In(s, Head(s))
<1>1. /\ Tail(s) \in Seq(S) /\ Len(Tail(s)) = Len(s) - 1
      /\ \A i \in 1..Len(Tail(s)) : Tail(s)[i] = s[i + 1]
  BY HeadTailProperties
<1>2. /\ DOMAIN s = 1..Len(s) /\ Len(s) \in Nat /\ Len(s) > 0 /\ Head(s) = s[1]
      /\ DOMAIN Tail(s) = 1..(Len(s) - 1)
  BY <1>1
<1>3. \A i \in DOMAIN Tail(s) : i + 1 \in DOMAIN s /\ Tail(s)[i] = s[i + 1] /\ i + 1 # 1
  BY <1>1, <1>2
<1>4. IsInjective(Tail(s))
  <2> SUFFICES ASSUME NEW i \in DOMAIN Tail(s), NEW j \in DOMAIN Tail(s),
                      Tail(s)[i] = Tail(s)[j]
               PROVE  i = j
    BY DEF IsInjective
  <2>1. i + 1 = j + 1
    BY <1>3 DEF IsInjective
  <2>2. i \in Int /\ j \in Int
    BY <1>2
  <2>3. QED
    BY <2>1, <2>2
<1>5. 1 \in DOMAIN s
  BY <1>2
<1>6. ~In(Tail(s), Head(s))
  BY <1>2, <1>3, <1>5 DEF In, IsInjective
<1>7. QED
  BY <1>2, <1>4, <1>5, <1>6 DEF In

(* The free list with a new entry *)
LEMMA PoolInjective ==
  ASSUME NEW S, NEW s \in Seq(S), NEW e \in S, IsInjective(s), ~In(s, e)
  PROVE  IsInjective(Append(s, e))
<1>1. /\ DOMAIN s = 1..Len(s) /\ DOMAIN Append(s, e) = 1..(Len(s) + 1)
      /\ Len(s) \in Nat
      /\ \A i \in 1..Len(s) : Append(s, e)[i] = s[i]
      /\ Append(s, e)[Len(s) + 1] = e
  BY AppendProperties
<1>2. \A i \in 1..(Len(s) + 1) : i \in 1..Len(s) \/ i = Len(s) + 1
  BY <1>1
<1>3. \A i \in 1..Len(s) : s[i] # e
  BY <1>1 DEF In
<1>4. QED
  BY <1>1, <1>2, <1>3 DEF IsInjective

(* What nothing points to *)
NoPlacesAre ==
  \A o \in Objects :
    ~In(queue, o) /\ (\A t \in Threads : \A i \in Counted(t) : own[t][i] # o)
      => IsFiniteSet(OwnPlaces(o)) /\ Pointers(o) = 0

(* It counts nothing. *)
LEMMA NoPlaces == MemoryTypeOK => NoPlacesAre
<1> SUFFICES ASSUME MemoryTypeOK, NEW o \in Objects, ~In(queue, o),
                    \A t \in Threads : \A i \in Counted(t) : own[t][i] # o
             PROVE  IsFiniteSet(OwnPlaces(o)) /\ Pointers(o) = 0
  BY DEF NoPlacesAre
<1>1. OwnPlaces(o) = {}
  BY DEF OwnPlaces
<1>2. IsFiniteSet(OwnPlaces(o)) /\ Cardinality(OwnPlaces(o)) = 0
  BY <1>1, FS_EmptySet
<1>3. Cardinality(At(queue, o)) = 0
  BY AtFinite DEF MemoryTypeOK
<1>4. Pointers(o) = Cardinality(At(queue, o)) + Cardinality(OwnPlaces(o))
  BY <1>2, Places DEF PlacesAre
<1>5. QED
  BY <1>2, <1>3, <1>4

(* Where threads' pointers are bare, and that there are such. *)
LEMMA BareIn ==
  ASSUME MemoryInv, NEW u \in Threads, Bare(u)
  PROVE  In(own[u], Last(own[u]))
<1>1. PointersOf(u) /\ MemoryTypeOK
  BY DEF MemoryInv, PointersAt
<1>2. own[u] # <<>>
  BY <1>1 DEF Bare, PointersOf, NoPointers
<1>3. QED
  BY <1>1, <1>2, Lengths, Short

(* pool.acquire() gives an object to which nothing else points. *)
LEMMA AcquireMemory ==
  ASSUME MemoryInv, NEW p \in Publishers, Acquire(p)
  PROVE  MemoryInv'
<1>1. p \in Threads /\ p \notin Dispatchers
  BY DispatchersAssumption DEF Threads
<1>2. PICK o \in Objects :
        /\ IF freelist # <<>>
           THEN o = Head(freelist) /\ freelist' = Tail(freelist) /\ UNCHANGED allocated
           ELSE o \notin allocated /\ allocated' = allocated \cup {o} /\ UNCHANGED freelist
        /\ ref_count' = [ref_count EXCEPT ![o] = 0]
        /\ own' = [own EXCEPT ![p] = <<o>>]
  BY DEF Acquire, Filled
<1>3. /\ pc[p] \in {"acquire", "h_acquire"}
      /\ pc' = [pc EXCEPT ![p] = IF pc[p] = "acquire" THEN "view" ELSE "h_view"]
      /\ UNCHANGED <<queue, policy, publish_mutex>>
  BY DEF Acquire, Goto
<1>4. own[p] = <<>> /\ \A x : ~In(own[p], x)
  BY <1>1, <1>3 DEF MemoryInv, PointersAt, PointersOf, NoPointers, In
<1>5. /\ freelist' \in Seq(Objects) /\ Len(freelist') <= PoolCapacity
      /\ IsInjective(freelist')
      /\ \A x \in Objects : In(freelist', x) <=> In(freelist, x) /\ x # o
      /\ o \in allocated' /\ allocated' \subseteq Objects
      /\ \A x \in Objects : x # o => (x \in allocated' <=> x \in allocated)
      /\ ~In(queue, o) /\ \A u \in Threads : ~In(own[u], o)
  <2>0. freelist \in Seq(Objects) /\ allocated \subseteq Objects /\ IsInjective(freelist)
    BY DEF MemoryInv, MemoryTypeOK
  <2>1. CASE freelist # <<>>
    <3>1. /\ Tail(freelist) \in Seq(Objects) /\ Len(Tail(freelist)) = Len(freelist) - 1
          /\ \A x : In(freelist, x) <=> In(Tail(freelist), x) \/ Head(freelist) = x
      BY <2>0, <2>1, TailAt
    <3>2. IsInjective(Tail(freelist)) /\ ~In(Tail(freelist), Head(freelist)) /\ In(freelist, o)
      BY <1>2, <2>0, <2>1, TailInjective
    <3>3. /\ ~In(queue, o) /\ \A u \in Threads : ~In(own[u], o)
          /\ o \in allocated
      BY <3>2 DEF MemoryInv, Somewhere
    <3>4. Len(Tail(freelist)) <= PoolCapacity
      BY <2>0, <3>1, CapacityAssumption DEF MemoryInv, MemoryTypeOK
    <3>5. QED
      BY <1>2, <2>0, <2>1, <3>1, <3>2, <3>3, <3>4
  <2>2. CASE freelist = <<>>
    <3>1. ~In(queue, o) /\ ~In(freelist, o) /\ \A u \in Threads : ~In(own[u], o)
      BY <1>2, <2>2 DEF MemoryInv, Somewhere
    <3>2. QED
      BY <1>2, <2>0, <2>2, <3>1 DEF MemoryInv, MemoryTypeOK
  <2>3. QED
    BY <2>1, <2>2
<1>6. /\ \A u \in Threads \ {p} : own'[u] = own[u] /\ pc'[u] = pc[u]
      /\ own'[p] = <<o>> /\ pc'[p] \in {"view", "h_view"}
      /\ Bare(p)' /\ Len(own'[p]) = 1 /\ own'[p] # <<>>
      /\ \A x : In(own'[p], x) <=> o = x
      /\ Last(own'[p]) = o
  BY <1>1, <1>2, <1>3, Single DEF MemoryInv, MemoryTypeOK, Bare
<1>7. MemoryTypeOK'
  <2>1. /\ ref_count' \in [Objects -> Nat]
        /\ pc' \in [Threads -> Steps]
        /\ own' \in [Threads -> Seq(Objects)]
    BY <1>2, <1>3, Single DEF MemoryInv, MemoryTypeOK, Steps, OnePointer
  <2>2. QED
    BY <1>3, <1>5, <2>1 DEF MemoryInv, MemoryTypeOK
<1>8. PointersAt'
  <2> SUFFICES ASSUME NEW u \in Threads PROVE PointersOf(u)'
    BY DEF PointersAt
  <2>1. CASE u = p
    <3>1. /\ pc'[u] \in {"view", "h_view"} /\ u \notin Dispatchers
          /\ Len(own'[u]) = 1 /\ own'[u] # <<>>
      BY <1>1, <1>6, <2>1
    <3>2. Len(own'[u]) <= 2 /\ Len(own'[u]) # 2
      BY <3>1
    <3>3. QED
      BY <3>1, <3>2 DEF PointersOf, NoPointers, OnePointer
  <2>2. CASE u # p
    <3>1. PointersOf(u) /\ own'[u] = own[u] /\ pc'[u] = pc[u]
      BY <1>6, <2>2 DEF MemoryInv, PointersAt
    <3>2. QED
      BY <1>3, <3>1 DEF PointersOf
  <2>3. QED
    BY <2>1, <2>2
<1>9. OnePublishes'
  BY <1>1, <1>3, <1>6 DEF MemoryInv, OnePublishes, Locked, Threads
<1>10. OneBare'
  <2>1. \A u \in Threads \ {p} : Bare(u)' => Bare(u) /\ Last(own'[u]) # o
    BY <1>5, <1>6, BareIn DEF Bare
  <2>2. \A u \in Threads : Bare(u) => Last(own[u]) \in Objects
    BY BareAlone
  <2>3. ref_count'[o] = 0 /\ \A x \in Objects \ {o} : ref_count'[x] = ref_count[x]
    BY <1>2 DEF MemoryInv, MemoryTypeOK
  <2>4. QED
    BY <1>6, <2>1, <2>2, <2>3 DEF MemoryInv, OneBare
<1>11. Counts'
  <2> SUFFICES ASSUME NEW x \in Objects
               PROVE  /\ IsFiniteSet(OwnPlaces(x)')
                      /\ x \in allocated' => ref_count'[x] = Pointers(x)'
    BY DEF Counts
  <2>1. IsFiniteSet(OwnPlaces(x)')
    BY <1>1, <1>6, OwnStep DEF MemoryInv, Counts
  <2>2. CASE x = o
    <3>1. \A u \in Threads : \A i \in Counted(u)' : own'[u][i] # o
      <4> SUFFICES ASSUME NEW u \in Threads, NEW i \in Counted(u)' PROVE own'[u][i] # o
        OBVIOUS
      <4>1. CASE u = p
        <5>1. DOMAIN own'[p] = {1}
          BY <1>6
        <5>2. Counted(u)' = {}
          BY <1>6, <4>1, <5>1 DEF Counted
        <5>3. QED
          BY <5>2
      <4>2. CASE u # p
        <5>1. i \in DOMAIN own[u] /\ own'[u] = own[u]
          BY <1>6, <4>2 DEF Counted
        <5>2. QED
          BY <1>5, <5>1 DEF In
      <4>3. QED
        BY <4>1, <4>2
    <3>2. Pointers(o)' = 0
      <4>1. NoPlacesAre'
        BY <1>7, NoPlaces, PTL
      <4>2. ~In(queue', o)
        BY <1>3, <1>5
      <4>3. QED
        BY <3>1, <4>1, <4>2 DEF NoPlacesAre
    <3>3. ref_count'[o] = 0
      BY <1>2 DEF MemoryInv, MemoryTypeOK
    <3>4. QED
      BY <2>1, <2>2, <3>2, <3>3
  <2>3. CASE x # o /\ x \in allocated
    <3>1. MineAre /\ MineAre'
      BY <1>7, MineIs, PTL DEF MemoryInv
    <3>2. Mine(p, x) = 0 /\ Mine(p, x)' = 0
      BY <1>1, <1>4, <1>6, <3>1 DEF MineAre
    <3>3. ref_count'[x] = ref_count[x] /\ At(queue, x)' = At(queue, x)
      BY <1>2, <1>3, <2>3 DEF MemoryInv, MemoryTypeOK, At
    <3>4. QED
      BY <1>1, <1>6, <1>7, <2>3, <3>2, <3>3, Balanced DEF MemoryInv, Counts
  <2>4. QED
    BY <1>5, <2>1, <2>2, <2>3
<1>12. Somewhere'
  <2> SUFFICES ASSUME NEW x \in Objects
               PROVE  /\ x \in allocated' <=> \/ In(freelist', x)
                                              \/ In(queue', x)
                                              \/ \E u \in Threads : In(own'[u], x)
                      /\ In(freelist', x) => ~In(queue', x) /\ \A u \in Threads : ~In(own'[u], x)
    BY DEF Somewhere
  <2>1. \A u \in Threads : In(own'[u], x) <=> In(own[u], x) \/ (u = p /\ x = o)
    BY <1>4, <1>6
  <2>2. QED
    BY <1>1, <1>3, <1>5, <2>1 DEF MemoryInv, Somewhere
<1>13. IsInjective(freelist)'
  BY <1>5 DEF IsInjective
<1>14. QED
  BY <1>7, <1>8, <1>9, <1>10, <1>11, <1>12, <1>13 DEF MemoryInv

(* The counts after a step of one thread that frees no more than it holds. *)
LEMMA CountsStep ==
  ASSUME MemoryInv, MemoryTypeOK', NEW t \in Threads,
         \A u \in Threads \ {t} : own'[u] = own[u] /\ pc'[u] = pc[u],
         allocated' \subseteq allocated,
         \A x \in allocated :
           ref_count'[x] + Cardinality(At(queue, x)) + Mine(t, x) =
             ref_count[x] + Cardinality(At(queue, x)') + Mine(t, x)'
  PROVE  Counts'
<1> SUFFICES ASSUME NEW x \in Objects
             PROVE  /\ IsFiniteSet(OwnPlaces(x)')
                    /\ x \in allocated' => ref_count'[x] = Pointers(x)'
  BY DEF Counts
<1>1. IsFiniteSet(OwnPlaces(x)) /\ (x \in allocated => ref_count[x] = Pointers(x)) /\ MemoryTypeOK
  BY DEF MemoryInv, Counts
<1>2. IsFiniteSet(OwnPlaces(x)')
  BY <1>1, OwnStep
<1>3. ASSUME x \in allocated' PROVE ref_count'[x] = Pointers(x)'
  <2>1. x \in allocated
    BY <1>3
  <2>2. QED
    BY <1>1, <2>1, Balanced
<1>4. QED
  BY <1>2, <1>3

(* The bare pointers after a step of one thread *)
LEMMA BareStep ==
  ASSUME MemoryInv, NEW t \in Threads,
         \A u \in Threads \ {t} : own'[u] = own[u] /\ pc'[u] = pc[u],
         \A u \in Threads \ {t} :
           Bare(u) => /\ ref_count'[Last(own[u])] = ref_count[Last(own[u])]
                      /\ Bare(t)' => Last(own[u]) # Last(own'[t]),
         Bare(t)' => ref_count'[Last(own'[t])] = 0
  PROVE  OneBare'
<1>1. \A u \in Threads \ {t} : Bare(u)' <=> Bare(u)
  BY DEF Bare
<1>2. QED
  BY <1>1 DEF MemoryInv, OneBare

(* The pointers of the other threads after a step of one: room that an     *)
(* eviction has made is not taken by another publisher.                    *)
LEMMA OthersPointers ==
  ASSUME MemoryInv, MemoryTypeOK', NEW t \in Threads, policy' = policy,
         \A u \in Threads \ {t} : own'[u] = own[u] /\ pc'[u] = pc[u],
         Len(queue') <= Len(queue) \/ (t \in Publishers /\ pc[t] = "try")
  PROVE  \A u \in Threads \ {t} : PointersOf(u)'
<1> SUFFICES ASSUME NEW u \in Threads, u # t PROVE PointersOf(u)'
  OBVIOUS
<1>1. PointersOf(u) /\ own'[u] = own[u] /\ pc'[u] = pc[u] /\ MemoryTypeOK
  BY DEF MemoryInv, PointersAt
<1>2. Len(queue) \in Nat /\ Len(queue') \in Nat /\ QueueCapacity \in Nat
  BY CapacityAssumption DEF MemoryInv, MemoryTypeOK
<1>3. CASE Len(queue') <= Len(queue)
  <2>1. Len(queue) < QueueCapacity => Len(queue') < QueueCapacity
    BY <1>2, <1>3
  <2>2. QED
    BY <1>1, <2>1 DEF PointersOf
<1>4. CASE t \in Publishers /\ pc[t] = "try"
  <2>1. ~(policy = "DropOldest" /\ pc[u] \in {"try", "notify"})
    <3>1. u \in Publishers \/ pc[u] \notin {"try", "notify"}
      BY <1>1 DEF PointersOf, Threads
    <3>2. QED
      BY <1>4, <3>1 DEF MemoryInv, OnePublishes, Locked
  <2>2. QED
    BY <1>1, <2>1 DEF PointersOf
<1>5. QED
  BY <1>3, <1>4

(* The first MessagePtr begins to count. *)
LEMMA AdoptMemory ==
  ASSUME MemoryInv, NEW p \in Publishers, Adopt(p)
  PROVE  MemoryInv'
<1> DEFINE o == own[p][1]
<1>1. p \in Threads /\ p \notin Dispatchers
  BY DispatchersAssumption DEF Threads
<1>2. MemoryTypeOK /\ PointersOf(p)
  BY <1>1 DEF MemoryInv, PointersAt
<1>3. pc[p] \in {"view", "h_view"} /\ Bare(p)
  BY DEF Adopt, Bare
<1>4. own[p] \in Seq(Objects) /\ Len(own[p]) = 1 /\ own[p] # <<>>
  BY <1>1, <1>2, <1>3 DEF PointersOf, NoPointers, OnePointer, MemoryTypeOK
<1>5. o \in Objects /\ Last(own[p]) = o /\ Head(own[p]) = o
  BY <1>4, Short
<1>6. /\ ref_count' = [ref_count EXCEPT ![o] = @ + 1]
      /\ pc' = [pc EXCEPT ![p] = IF policy = "DropOldest" THEN "lock" ELSE "try"]
      /\ UNCHANGED <<freelist, allocated, queue, own, policy, publish_mutex>>
  BY <1>5 DEF Adopt, Goto
<1>7. o \in allocated /\ ref_count[o] = 0
  BY <1>1, <1>3, <1>5, BareAlone
<1> HIDE DEF o
<1>8. /\ \A u \in Threads \ {p} : own'[u] = own[u] /\ pc'[u] = pc[u]
      /\ pc'[p] \in {"lock", "try"} /\ ~Bare(p)' /\ pc' \in [Threads -> Steps]
      /\ policy = "DropOldest" => pc'[p] = "lock"
  BY <1>1, <1>2, <1>6 DEF MemoryTypeOK, Bare, Steps, OnePointer
<1>9. /\ ref_count' \in [Objects -> Nat] /\ ref_count'[o] = 1
      /\ \A x \in Objects \ {o} : ref_count'[x] = ref_count[x]
  BY <1>2, <1>5, <1>6, <1>7 DEF MemoryTypeOK
<1>10. MemoryTypeOK'
  BY <1>2, <1>6, <1>8, <1>9 DEF MemoryTypeOK
<1>11. PointersAt'
  <2>1. PointersOf(p)'
    <3>1. own'[p] = own[p]
      BY <1>6
    <3>2. Len(own'[p]) = 1 /\ own'[p] # <<>>
      BY <1>4, <3>1
    <3>3. Len(own'[p]) <= 2 /\ Len(own'[p]) # 2
      BY <3>2
    <3>4. QED
      BY <1>1, <1>8, <3>2, <3>3 DEF PointersOf, NoPointers, OnePointer
  <2>2. \A u \in Threads \ {p} : PointersOf(u)'
    <3>1. Len(queue') <= Len(queue)
      BY <1>2, <1>6 DEF MemoryTypeOK
    <3>2. QED
      BY <1>1, <1>6, <1>8, <1>10, <3>1, OthersPointers
  <2>3. QED
    BY <2>1, <2>2 DEF PointersAt
<1>12. OnePublishes'
  BY <1>1, <1>6, <1>8 DEF MemoryInv, OnePublishes, Locked, Threads
<1>13. OneBare'
  <2>1. \A u \in Threads \ {p} : Bare(u) => Last(own[u]) \in Objects \ {o}
    BY <1>1, <1>3, <1>5, BareAlone DEF MemoryInv, OneBare
  <2>2. QED
    BY <1>1, <1>8, <1>9, <2>1, BareStep
<1>14. Counts'
  <2>1. ASSUME NEW x \in allocated
        PROVE  ref_count'[x] + Cardinality(At(queue, x)) + Mine(p, x) =
                 ref_count[x] + Cardinality(At(queue, x)') + Mine(p, x)'
    <3>1. MineAre /\ MineAre'
      BY <1>2, <1>10, MineIs, PTL
    <3>2. x \in Objects /\ At(queue, x)' = At(queue, x)
      BY <1>2, <1>6 DEF MemoryTypeOK, At
    <3>3. Mine(p, x) = 0 /\ Mine(p, x)' = One(o = x)
      BY <1>1, <1>3, <1>4, <1>6, <1>8, <3>1, <3>2 DEF MineAre, o
    <3>4. ref_count[x] \in Nat /\ Cardinality(At(queue, x)) \in Nat
      BY <1>2, <3>2, AtFinite DEF MemoryTypeOK
    <3>5. ref_count'[x] = ref_count[x] + One(o = x) /\ One(o = x) \in Nat
      BY <1>7, <1>9, <3>2, <3>4 DEF One
    <3>6. QED
      BY <3>2, <3>3, <3>4, <3>5
  <2>2. QED
    BY <1>1, <1>6, <1>8, <1>10, <2>1, CountsStep
<1>15. IsInjective(freelist)' /\ Somewhere'
  BY <1>6 DEF MemoryInv, IsInjective, Somewhere, In
<1>16. QED
  BY <1>10, <1>11, <1>12, <1>13, <1>14, <1>15 DEF MemoryInv

(* What a thread that has pointers has. *)
LEMMA HasPointers ==
  ASSUME MemoryInv, NEW t \in Threads, pc[t] \notin NoPointers
  PROVE  /\ MemoryTypeOK /\ PointersOf(t)
         /\ own[t] \in Seq(Objects) /\ own[t] # <<>>
         /\ Len(own[t]) = 1 \/ Len(own[t]) = 2
         /\ Last(own[t]) \in Objects /\ In(own[t], Last(own[t])) /\ Last(own[t]) \in allocated
<1>1. MemoryTypeOK /\ PointersOf(t)
  BY DEF MemoryInv, PointersAt
<1>2. own[t] # <<>>
  BY <1>1 DEF PointersOf
<1>3. own[t] \in Seq(Objects) /\ (Len(own[t]) = 1 \/ Len(own[t]) = 2)
  BY <1>1, <1>2, Lengths
<1>4. Last(own[t]) \in Objects /\ In(own[t], Last(own[t]))
  BY <1>3, Short
<1>5. Last(own[t]) \in allocated
  BY <1>4, Held1
<1>6. QED
  BY <1>1, <1>2, <1>3, <1>4, <1>5

(* try_enqueue() moves the pointer, or copies it and counts the copy. *)
LEMMA TryEnqueueMemory ==
  ASSUME MemoryInv, NEW p \in Publishers, TryEnqueue(p)
  PROVE  MemoryInv'
<1> DEFINE o == own[p][1]
           step == IF policy = "DropOldest" /\ Len(own[p]) = 1 THEN "unlock" ELSE "release"
<1>1. p \in Threads /\ p \notin Dispatchers
  BY DispatchersAssumption DEF Threads
<1>2. pc[p] = "try" /\ ~Bare(p) /\ pc[p] \notin NoPointers
  BY DEF TryEnqueue, Bare, NoPointers
<1>3. /\ MemoryTypeOK /\ PointersOf(p) /\ own[p] \in Seq(Objects) /\ own[p] # <<>>
      /\ Len(own[p]) = 1 \/ Len(own[p]) = 2
  BY <1>1, <1>2, HasPointers
<1>4. o \in Objects /\ Head(own[p]) = o /\ In(own[p], o)
  BY <1>3, Short
<1>5. /\ Len(queue) < QueueCapacity /\ queue' = Append(queue, o)
      /\ UNCHANGED <<freelist, allocated, policy, publish_mutex>>
      /\ \/ /\ policy = "ReturnFalse"
            /\ own' = [own EXCEPT ![p] = <<>>] /\ ref_count' = ref_count
            /\ pc' = [pc EXCEPT ![p] = "idle"]
         \/ /\ policy # "ReturnFalse"
            /\ ref_count' = [ref_count EXCEPT ![o] = @ + 1] /\ own' = own
            /\ pc' = [pc EXCEPT ![p] = step]
  BY <1>4 DEF TryEnqueue, Goto
<1>6. o \in allocated /\ ~In(freelist, o)
  BY <1>1, <1>4, Held1
<1>7. /\ policy = "ReturnFalse" => Len(own[p]) = 1
      /\ step \in {"release", "unlock"}
      /\ step = "unlock" => Len(own[p]) = 1
  BY <1>2, <1>3 DEF PointersOf
<1> HIDE DEF o, step
<1>8. /\ \A u \in Threads \ {p} : own'[u] = own[u] /\ pc'[u] = pc[u]
      /\ pc'[p] \in {"idle", "release", "unlock"} /\ ~Bare(p)' /\ pc' \in [Threads -> Steps]
      /\ own' \in [Threads -> Seq(Objects)]
      /\ policy = "ReturnFalse" => own'[p] = <<>> /\ pc'[p] = "idle"
      /\ policy # "ReturnFalse" => own'[p] = own[p] /\ pc'[p] = step
  <2>1. pc \in [Threads -> Steps] /\ own \in [Threads -> Seq(Objects)] /\ <<>> \in Seq(Objects)
    BY <1>3 DEF MemoryTypeOK
  <2>2. "idle" \in Steps /\ step \in Steps
    BY <1>7 DEF Steps, NoPointers, OnePointer
  <2>3. CASE policy = "ReturnFalse"
    BY <1>1, <1>5, <2>1, <2>2, <2>3 DEF Bare
  <2>4. CASE policy # "ReturnFalse"
    BY <1>7, <1>1, <1>5, <2>1, <2>2, <2>4 DEF Bare
  <2>5. QED
    BY <2>3, <2>4
<1>9. /\ ref_count' \in [Objects -> Nat]
      /\ \A x \in Objects :
           ref_count'[x] = IF policy = "ReturnFalse" THEN ref_count[x]
                                                     ELSE ref_count[x] + One(o = x)
  BY <1>3, <1>4, <1>5 DEF MemoryTypeOK, One
<1>10. /\ queue \in Seq(Objects) /\ queue' \in Seq(Objects) /\ Len(queue') = Len(queue) + 1
       /\ \A x : /\ Cardinality(At(queue', x)) = Cardinality(At(queue, x)) + One(o = x)
                 /\ In(queue', x) <=> In(queue, x) \/ o = x
  BY <1>3, <1>4, <1>5, AppendAt DEF MemoryTypeOK
<1>11. MemoryTypeOK'
  <2>1. Len(queue') <= QueueCapacity
    BY <1>3, <1>5, <1>10, CapacityAssumption DEF MemoryTypeOK
  <2>2. QED
    BY <1>3, <1>5, <1>8, <1>9, <1>10, <2>1 DEF MemoryTypeOK
<1>12. PointersAt'
  <2>1. PointersOf(p)'
    <3>1. CASE policy = "ReturnFalse"
      <4>1. own'[p] = <<>> /\ pc'[p] = "idle" /\ Len(own'[p]) = 0
        BY <1>8, <3>1
      <4>2. QED
        BY <1>1, <4>1 DEF PointersOf, NoPointers, OnePointer
    <3>2. CASE policy # "ReturnFalse"
      <4>1. own'[p] = own[p] /\ pc'[p] = step /\ Len(own[p]) <= 2
        BY <1>3, <1>8, <3>2 DEF PointersOf
      <4>2. QED
        BY <1>7, <1>1, <1>3, <4>1 DEF PointersOf, NoPointers, OnePointer
    <3>3. QED
      BY <3>1, <3>2
  <2>2. \A u \in Threads \ {p} : PointersOf(u)'
    BY <1>1, <1>2, <1>5, <1>8, <1>11, OthersPointers
  <2>3. QED
    BY <2>1, <2>2 DEF PointersAt
<1>13. OnePublishes'
  BY <1>1, <1>2, <1>5, <1>8 DEF MemoryInv, OnePublishes, Locked, Threads
<1>14. OneBare'
  <2>1. 1 \in Counted(p) \cap (1..2)
    BY <1>2, <1>3 DEF Counted, Bare
  <2>2. \A u \in Threads : Bare(u) => Last(own[u]) # o
    BY <1>1, <1>4, <2>1, Referenced DEF o
  <2>3. \A u \in Threads : Bare(u) => Last(own[u]) \in Objects
    BY BareAlone
  <2>4. \A x \in Objects \ {o} : ref_count'[x] = ref_count[x]
    <3>1. \A x \in Objects : ref_count[x] \in Nat
      BY <1>3 DEF MemoryTypeOK
    <3>2. QED
      BY <1>9, <3>1 DEF One
  <2>5. QED
    BY <1>1, <1>8, <2>2, <2>3, <2>4, BareStep
<1>15. Counts'
  <2>1. ASSUME NEW x \in allocated
        PROVE  ref_count'[x] + Cardinality(At(queue, x)) + Mine(p, x) =
                 ref_count[x] + Cardinality(At(queue, x)') + Mine(p, x)'
    <3>1. MineAre /\ MineAre'
      BY <1>3, <1>11, MineIs, PTL
    <3>2. x \in Objects /\ At(queue, x)' = At(queue', x)
      BY <1>3 DEF MemoryTypeOK, At
    <3>3. ref_count[x] \in Nat /\ Cardinality(At(queue, x)) \in Nat
      BY <1>3, <1>10, <3>2, AtFinite DEF MemoryTypeOK
    <3>4. One(o = x) \in Nat /\ Mine(p, x) \in Nat
      BY <1>1, <3>1, <3>2 DEF One, MineAre
    <3>5. CASE policy = "ReturnFalse"
      <4>1. Mine(p, x) = One(o = x) /\ Mine(p, x)' = 0
        BY <1>1, <1>2, <1>7, <1>8, <3>1, <3>2, <3>5 DEF MineAre, o
      <4>2. QED
        BY <1>9, <1>10, <3>2, <3>3, <3>4, <3>5, <4>1
    <3>6. CASE policy # "ReturnFalse"
      <4>1. Counted(p)' = Counted(p) /\ own'[p] = own[p]
        BY <1>2, <1>8, <3>6 DEF Counted, Bare
      <4>2. Mine(p, x)' = Mine(p, x)
        BY <4>1 DEF Mine
      <4>3. QED
        BY <1>9, <1>10, <3>2, <3>3, <3>4, <3>6, <4>2
    <3>7. QED
      BY <3>5, <3>6
  <2>2. QED
    BY <1>1, <1>5, <1>8, <1>11, <2>1, CountsStep
<1>16. IsInjective(freelist)'
  BY <1>5 DEF MemoryInv, IsInjective
<1>17. Somewhere'
  <2> SUFFICES ASSUME NEW x \in Objects
               PROVE  /\ x \in allocated' <=> \/ In(freelist', x)
                                              \/ In(queue', x)
                                              \/ \E u \in Threads : In(own'[u], x)
                      /\ In(freelist', x) => ~In(queue', x) /\ \A u \in Threads : ~In(own'[u], x)
    BY DEF Somewhere
  <2>1. \A u \in Threads : In(own'[u], x) => In(own[u], x)
    <3>1. ~In(<<>>, x)
      BY DEF In
    <3>2. QED
      BY <1>8, <3>1
  <2>2. \A u \in Threads : In(own[u], x) => In(own'[u], x) \/ o = x
    <3>1. policy = "ReturnFalse" => (In(own[p], x) <=> o = x)
      BY <1>3, <1>7, Short DEF o
    <3>2. QED
      BY <1>8, <3>1
  <2>3. QED
    BY <1>5, <1>6, <1>10, <2>1, <2>2 DEF MemoryInv, Somewhere
<1>18. QED
  BY <1>11, <1>12, <1>13, <1>14, <1>15, <1>16, <1>17 DEF MemoryInv

(* A thread's pointers and one more *)
LEMMA OneMore ==
  ASSUME NEW s \in Seq(Objects), NEW h \in Objects, s = <<>> \/ Len(s) = 1
  PROVE  /\ Append(s, h) \in Seq(Objects) /\ Append(s, h) # <<>> /\ Len(Append(s, h)) <= 2
         /\ \A x : In(Append(s, h), x) <=> In(s, x) \/ h = x
         /\ s = <<>> => Append(s, h) = <<h>> /\ Len(Append(s, h)) = 1 /\ Append(s, h)[1] = h
         /\ Len(s) = 1 => /\ Len(Append(s, h)) = 2
                          /\ Append(s, h)[1] = s[1] /\ Append(s, h)[2] = h
<1>1. /\ Append(s, h) \in Seq(Objects) /\ Len(Append(s, h)) = Len(s) + 1
      /\ \A x : In(Append(s, h), x) <=> In(s, x) \/ h = x
  BY AppendAt
<1>2. /\ Len(s) \in Nat
      /\ \A i \in 1..Len(s) : Append(s, h)[i] = s[i]
      /\ Append(s, h)[Len(s) + 1] = h
  BY AppendProperties
<1>3. CASE s = <<>>
  <2>1. Len(s) = 0 /\ Append(s, h) = <<h>>
    BY <1>3
  <2>2. QED
    BY <1>1, <1>2, <1>3, <2>1
<1>4. CASE Len(s) = 1
  <2>1. 1 \in 1..Len(s) /\ Len(Append(s, h)) = 2 /\ s # <<>>
    BY <1>1, <1>4
  <2>2. Append(s, h) # <<>>
    BY <2>1
  <2>3. QED
    BY <1>1, <1>2, <1>4, <2>1, <2>2
<1>5. QED
  BY <1>3, <1>4

(* try_dequeue() moves the pointer to the thread that evicts or dispatches. *)
LEMMA TakeMemory ==
  ASSUME MemoryInv, NEW t \in Threads, queue # <<>>,
         own' = [own EXCEPT ![t] = Append(own[t], Head(queue))],
         queue' = Tail(queue),
         \/ t \in Publishers /\ pc[t] = "evict" /\ pc' = [pc EXCEPT ![t] = "notify"]
         \/ t \in Dispatchers /\ pc[t] = "idle" /\ pc' = [pc EXCEPT ![t] = "dispatch"],
         UNCHANGED <<freelist, allocated, ref_count, policy, publish_mutex>>
  PROVE  MemoryInv'
<1> DEFINE h == Head(queue)
<1>1. t \notin Publishers \/ t \notin Dispatchers
  BY DispatchersAssumption
<1>2. /\ MemoryTypeOK /\ PointersOf(t) /\ own[t] \in Seq(Objects)
      /\ pc[t] = "evict" => Len(own[t]) = 1 /\ policy = "DropOldest"
      /\ pc[t] = "idle" => own[t] = <<>>
  BY DEF MemoryInv, PointersAt, MemoryTypeOK, PointersOf, NoPointers, OnePointer
<1>3. /\ queue \in Seq(Objects) /\ h \in Objects
      /\ queue' \in Seq(Objects) /\ Len(queue') = Len(queue) - 1
      /\ \A x : /\ Cardinality(At(queue, x)) = Cardinality(At(queue', x)) + One(h = x)
                /\ In(queue, x) <=> In(queue', x) \/ h = x
  BY <1>2, TailAt DEF MemoryTypeOK
<1>4. h \in allocated /\ ~In(freelist, h)
  BY <1>3, Held1
<1>5. own'[t] = Append(own[t], h)
  BY <1>2 DEF MemoryTypeOK
<1> HIDE DEF h
<1>6. /\ own'[t] \in Seq(Objects) /\ own'[t] # <<>> /\ Len(own'[t]) <= 2
      /\ \A x : In(own'[t], x) <=> In(own[t], x) \/ h = x
      /\ own[t] = <<>> => Len(own'[t]) = 1 /\ own'[t][1] = h
      /\ Len(own[t]) = 1 => Len(own'[t]) = 2 /\ own'[t][1] = own[t][1] /\ own'[t][2] = h
  BY <1>2, <1>3, <1>5, OneMore
<1>7. /\ \A u \in Threads \ {t} : own'[u] = own[u] /\ pc'[u] = pc[u]
      /\ pc' \in [Threads -> Steps] /\ own' \in [Threads -> Seq(Objects)]
      /\ ~Bare(t) /\ ~Bare(t)'
      /\ \/ pc[t] = "evict" /\ pc'[t] = "notify"
         \/ pc[t] = "idle" /\ pc'[t] = "dispatch"
  BY <1>2, <1>6 DEF MemoryTypeOK, Bare, Steps, NoPointers, OnePointer
<1>8. /\ Len(queue) \in Nat /\ Len(queue') \in Nat /\ QueueCapacity \in Nat
      /\ Len(queue') < Len(queue) /\ Len(queue') <= Len(queue) /\ Len(queue) <= QueueCapacity
      /\ Len(queue') < QueueCapacity /\ Len(queue') <= QueueCapacity
  BY <1>2, <1>3, CapacityAssumption DEF MemoryTypeOK
<1>9. MemoryTypeOK'
  BY <1>2, <1>3, <1>7, <1>8 DEF MemoryTypeOK
<1>10. PointersAt'
  <2>1. PointersOf(t)'
    <3>1. CASE pc[t] = "evict"
      <4>1. Len(own'[t]) = 2 /\ pc'[t] = "notify" /\ t \notin Dispatchers
        BY <1>2, <1>6, <1>7, <3>1 DEF PointersOf
      <4>2. QED
        BY <1>2, <1>6, <1>8, <3>1, <4>1 DEF PointersOf, NoPointers, OnePointer
    <3>2. CASE pc[t] = "idle"
      <4>1. Len(own'[t]) = 1 /\ pc'[t] = "dispatch"
        BY <1>2, <1>6, <1>7, <3>2
      <4>2. QED
        BY <1>6, <4>1 DEF PointersOf, NoPointers, OnePointer
    <3>3. QED
      BY <1>7, <3>1, <3>2
  <2>2. \A u \in Threads \ {t} : PointersOf(u)'
    BY <1>7, <1>8, <1>9, OthersPointers
  <2>3. QED
    BY <2>1, <2>2 DEF PointersAt
<1>11. OnePublishes'
  BY <1>7 DEF MemoryInv, OnePublishes, Locked, Threads
<1>12. OneBare'
  BY <1>7, BareStep
<1>13. Counts'
  <2>1. ASSUME NEW x \in allocated
        PROVE  ref_count'[x] + Cardinality(At(queue, x)) + Mine(t, x) =
                 ref_count[x] + Cardinality(At(queue, x)') + Mine(t, x)'
    <3>1. MineAre /\ MineAre'
      BY <1>2, <1>9, MineIs, PTL
    <3>2. x \in Objects /\ At(queue, x)' = At(queue', x)
      BY <1>2 DEF MemoryTypeOK, At
    <3>3. ref_count[x] \in Nat /\ Cardinality(At(queue', x)) \in Nat
      BY <1>2, <1>3, <3>2, AtFinite DEF MemoryTypeOK
    <3>4. One(h = x) \in Nat /\ Mine(t, x) \in Nat
      BY <3>1, <3>2 DEF One, MineAre
    <3>5. Mine(t, x)' = Mine(t, x) + One(h = x)
      <4>1. CASE own[t] = <<>>
        BY <1>6, <1>7, <3>1, <3>2, <3>4, <4>1 DEF MineAre
      <4>2. CASE Len(own[t]) = 1
        <5>1. Mine(t, x) = One(own[t][1] = x)
          BY <1>7, <3>1, <3>2, <4>2 DEF MineAre
        <5>2. Len(own'[t]) = 2 /\ own'[t][1] = own[t][1] /\ own'[t][2] = h
          BY <1>6, <4>2
        <5>3. Mine(t, x)' = One(own'[t][1] = x) + One(own'[t][2] = x)
          BY <1>7, <3>1, <3>2, <5>2 DEF MineAre
        <5>4. QED
          BY <5>1, <5>2, <5>3
      <4>3. QED
        BY <1>2, <1>7, <4>1, <4>2
    <3>6. QED
      BY <1>3, <3>2, <3>3, <3>4, <3>5
  <2>2. QED
    BY <1>7, <1>9, <2>1, CountsStep
<1>14. IsInjective(freelist)'
  BY DEF MemoryInv, IsInjective
<1>15. Somewhere'
  <2> SUFFICES ASSUME NEW x \in Objects
               PROVE  /\ x \in allocated' <=> \/ In(freelist', x)
                                              \/ In(queue', x)
                                              \/ \E u \in Threads : In(own'[u], x)
                      /\ In(freelist', x) => ~In(queue', x) /\ \A u \in Threads : ~In(own'[u], x)
    BY DEF Somewhere
  <2>1. \A u \in Threads : In(own'[u], x) <=> In(own[u], x) \/ (u = t /\ h = x)
    BY <1>6, <1>7
  <2>2. QED
    BY <1>3, <1>4, <2>1 DEF MemoryInv, Somewhere
<1>16. QED
  BY <1>9, <1>10, <1>11, <1>12, <1>13, <1>14, <1>15 DEF MemoryInv

(* The eviction of the oldest message *)
LEMMA EvictMemory ==
  ASSUME MemoryInv, NEW p \in Publishers, Evict(p)
  PROVE  MemoryInv'
<1>1. p \in Threads
  BY DEF Threads
<1>2. CASE queue = <<>>
  BY <1>2, PublisherQuiet
<1>3. CASE queue # <<>>
  <2>1. /\ own' = [own EXCEPT ![p] = Append(own[p], Head(queue))] /\ queue' = Tail(queue)
        /\ pc[p] = "evict" /\ pc' = [pc EXCEPT ![p] = "notify"]
        /\ UNCHANGED <<freelist, allocated, ref_count, policy, publish_mutex>>
    BY <1>3 DEF Evict, Goto, poolVars
  <2>2. QED
    BY <1>1, <1>3, <2>1, TakeMemory
<1>4. QED
  BY <1>2, <1>3

(* A dispatcher's try_dequeue() *)
LEMMA DequeueMemory ==
  ASSUME MemoryInv, NEW d \in Dispatchers, Dequeue(d)
  PROVE  MemoryInv'
<1>1. d \in Threads
  BY DEF Threads
<1>2. own[d] = <<>> /\ queue \in Seq(Objects) /\ queue # <<>>
  BY <1>1 DEF Dequeue, MemoryInv, MemoryTypeOK, PointersAt, PointersOf, NoPointers
<1>3. Append(own[d], Head(queue)) = <<Head(queue)>>
  BY <1>2
<1>4. /\ own' = [own EXCEPT ![d] = Append(own[d], Head(queue))] /\ queue' = Tail(queue)
      /\ pc[d] = "idle" /\ pc' = [pc EXCEPT ![d] = "dispatch"]
      /\ UNCHANGED <<freelist, allocated, ref_count, policy, publish_mutex>>
  BY <1>3 DEF Dequeue, Goto, poolVars
<1>5. QED
  BY <1>1, <1>2, <1>4, TakeMemory

(* What is left when a thread's last pointer goes. *)
LEMMA OneLess ==
  ASSUME NEW s \in Seq(Objects), Len(s) = 1 \/ Len(s) = 2
  PROVE  /\ Front(s) \in Seq(Objects) /\ Len(Front(s)) <= 2
         /\ \A x : In(s, x) <=> In(Front(s), x) \/ Last(s) = x
         /\ Len(s) = 1 => Front(s) = <<>> /\ Last(s) = s[1]
         /\ Len(s) = 2 => /\ Len(Front(s)) = 1 /\ Front(s) # <<>>
                          /\ Front(s)[1] = s[1] /\ Last(s) = s[2]
<1>1. ~(\E x : In(<<>>, x)) /\ <<>> \in Seq(Objects) /\ Len(<<>>) = 0
  BY DEF In
<1>2. CASE Len(s) = 1
  <2>1. /\ Front(s) = <<>> /\ Last(s) = s[1]
        /\ \A x : In(s, x) <=> s[1] = x
    BY <1>2, Short
  <2>2. Len(Front(s)) <= 2
    <3>1. Len(Front(s)) = 0
      BY <1>1, <2>1
    <3>2. QED
      BY <3>1
  <2>3. QED
    BY <1>1, <1>2, <2>1, <2>2
<1>3. CASE Len(s) = 2
  <2>1. /\ s[1] \in Objects /\ Last(s) = s[2] /\ Front(s) = <<s[1]>>
        /\ \A x : In(s, x) <=> s[1] = x \/ s[2] = x
    BY <1>3, Short
  <2>2. /\ <<s[1]>> \in Seq(Objects) /\ Len(<<s[1]>>) = 1 /\ <<s[1]>>[1] = s[1] /\ <<s[1]>> # <<>>
        /\ \A x : In(<<s[1]>>, x) <=> s[1] = x
    BY <2>1, Single
  <2>3. QED
    BY <1>3, <2>1, <2>2
<1>4. QED
  BY <1>2, <1>3

(* What the thread does when its last pointer goes. *)
LEMMA ForgetDoes ==
  ASSUME MemoryInv, NEW t \in Threads, pc[t] \in {"release", "recycle"}, Forget(t),
         UNCHANGED <<queue, policy, publish_mutex>>
  PROVE  /\ \A u \in Threads \ {t} : own'[u] = own[u] /\ pc'[u] = pc[u]
         /\ own' \in [Threads -> Seq(Objects)] /\ pc' \in [Threads -> Steps]
         /\ own'[t] = Front(own[t]) /\ ~Bare(t)'
         /\ PointersOf(t)' /\ OnePublishes'
<1>1. /\ MemoryTypeOK /\ PointersOf(t) /\ own[t] \in Seq(Objects)
      /\ Len(own[t]) = 1 \/ Len(own[t]) = 2
  BY HasPointers DEF NoPointers
<1>2. /\ Front(own[t]) \in Seq(Objects) /\ Len(Front(own[t])) <= 2
      /\ Len(own[t]) = 1 => Front(own[t]) = <<>>
      /\ Len(own[t]) = 2 => Len(Front(own[t])) = 1 /\ Front(own[t]) # <<>>
  BY <1>1, OneLess
<1>3. /\ own' = [own EXCEPT ![t] = Front(own[t])]
      /\ pc' = [pc EXCEPT ![t] = IF Len(own[t]) = 1 THEN "idle" ELSE "unlock"]
  BY DEF Forget, Goto
<1>4. own \in [Threads -> Seq(Objects)] /\ pc \in [Threads -> Steps]
  BY <1>1 DEF MemoryTypeOK
<1>5. own'[t] = Front(own[t]) /\ own' \in [Threads -> Seq(Objects)]
  BY <1>2, <1>3, <1>4
<1>6. /\ \A u \in Threads \ {t} : own'[u] = own[u] /\ pc'[u] = pc[u]
      /\ pc'[t] = IF Len(own[t]) = 1 THEN "idle" ELSE "unlock"
      /\ pc' \in [Threads -> Steps] /\ ~Bare(t)'
  BY <1>3, <1>4 DEF Bare, Steps, NoPointers, OnePointer
<1>7. PointersOf(t)'
  <2>1. CASE Len(own[t]) = 1
    <3>1. own'[t] = <<>> /\ pc'[t] = "idle" /\ Len(own'[t]) = 0
      BY <1>2, <1>5, <1>6, <2>1
    <3>2. QED
      BY <3>1 DEF PointersOf, NoPointers, OnePointer
  <2>2. CASE Len(own[t]) = 2
    <3>1. own'[t] # <<>> /\ pc'[t] = "unlock" /\ Len(own'[t]) = 1 /\ t \notin Dispatchers
      BY <1>1, <1>2, <1>5, <1>6, <2>2 DEF PointersOf
    <3>2. QED
      BY <3>1 DEF PointersOf, NoPointers, OnePointer
  <2>3. QED
    BY <1>1, <2>1, <2>2
<1>8. OnePublishes'
  <2> SUFFICES ASSUME policy = "DropOldest", NEW p \in Publishers, Locked(p)'
               PROVE  publish_mutex = p
    BY DEF OnePublishes
  <2>1. Locked(p)
    <3>1. CASE p = t
      BY <1>1, <1>6, <3>1 DEF Locked
    <3>2. CASE p # t
      BY <1>6, <3>2 DEF Locked, Threads
    <3>3. QED
      BY <3>1, <3>2
  <2>2. QED
    BY <2>1 DEF MemoryInv, OnePublishes
<1>9. QED
  BY <1>5, <1>6, <1>7, <1>8

(* MessagePtr::reset() with another pointer left, or with none *)
LEMMA ReleaseRefMemory ==
  ASSUME MemoryInv, NEW t \in Threads, ReleaseRef(t)
  PROVE  MemoryInv'
<1> DEFINE o == Last(own[t])
<1>1. pc[t] = "release" /\ ~Bare(t) /\ pc[t] \notin NoPointers
  BY DEF ReleaseRef, Bare, NoPointers
<1>2. /\ MemoryTypeOK /\ PointersOf(t) /\ own[t] \in Seq(Objects) /\ own[t] # <<>>
      /\ Len(own[t]) = 1 \/ Len(own[t]) = 2
      /\ o \in Objects /\ In(own[t], o) /\ o \in allocated
  BY <1>1, HasPointers
<1>3. /\ ref_count' = [ref_count EXCEPT ![o] = @ - 1]
      /\ UNCHANGED <<freelist, allocated, queue, policy, publish_mutex>>
      /\ \/ /\ ref_count[o] = 1
            /\ pc' = [pc EXCEPT ![t] = "recycle"]
            /\ own' = own
         \/ ref_count[o] # 1 /\ Forget(t)
  BY DEF ReleaseRef, Goto
<1>4. /\ Front(own[t]) \in Seq(Objects) /\ Len(own[t]) <= 2
      /\ \A x : In(own[t], x) <=> In(Front(own[t]), x) \/ o = x
      /\ Len(own[t]) = 1 => Front(own[t]) = <<>> /\ o = own[t][1]
      /\ Len(own[t]) = 2 => /\ Len(Front(own[t])) = 1
                            /\ Front(own[t])[1] = own[t][1] /\ o = own[t][2]
  BY <1>2, OneLess DEF PointersOf
<1>5. ref_count[o] \in Nat \ {0} /\ \A u \in Threads : Bare(u) => Last(own[u]) # o
  <2>1. DOMAIN own[t] = 1..Len(own[t])
    BY <1>2
  <2>2. Len(own[t]) \in Counted(t) \cap (1..2) /\ own[t][Len(own[t])] = o
    BY <1>1, <1>2, <1>4, <2>1 DEF Counted, Bare
  <2>3. QED
    BY <1>2, <2>2, Referenced
<1> HIDE DEF o
<1>6. /\ ref_count' \in [Objects -> Nat]
      /\ \A x \in Objects : ref_count'[x] + One(o = x) = ref_count[x]
      /\ \A x \in Objects \ {o} : ref_count'[x] = ref_count[x]
      /\ ref_count'[o] = ref_count[o] - 1
  BY <1>2, <1>3, <1>5 DEF MemoryTypeOK, One
<1>7. CASE ref_count[o] = 1 /\ pc' = [pc EXCEPT ![t] = "recycle"] /\ own' = own
  <2>1. /\ \A u \in Threads \ {t} : own'[u] = own[u] /\ pc'[u] = pc[u]
        /\ pc'[t] = "recycle" /\ Bare(t)' /\ pc' \in [Threads -> Steps] /\ own'[t] = own[t]
    BY <1>2, <1>7 DEF MemoryTypeOK, Bare, Steps
  <2>2. MemoryTypeOK'
    BY <1>2, <1>3, <1>6, <1>7, <2>1 DEF MemoryTypeOK
  <2>3. PointersAt'
    <3>1. PointersOf(t)'
      BY <1>2, <1>4, <2>1 DEF PointersOf, NoPointers, OnePointer
    <3>2. Len(queue') <= Len(queue)
      BY <1>2, <1>3 DEF MemoryTypeOK
    <3>3. \A u \in Threads \ {t} : PointersOf(u)'
      BY <1>3, <2>1, <2>2, <3>2, OthersPointers
    <3>4. QED
      BY <3>1, <3>3 DEF PointersAt
  <2>4. OnePublishes'
    BY <1>1, <1>3, <1>7, <2>1 DEF MemoryInv, OnePublishes, Locked, Threads
  <2>5. OneBare'
    <3>1. \A u \in Threads : Bare(u) => Last(own[u]) \in Objects \ {o}
      BY <1>5, BareAlone
    <3>2. Last(own'[t]) = o /\ ref_count'[o] = 0
      BY <1>6, <1>7, <2>1 DEF o
    <3>3. QED
      BY <1>6, <2>1, <3>1, <3>2, BareStep
  <2>6. Counts'
    <3>1. ASSUME NEW x \in allocated
          PROVE  ref_count'[x] + Cardinality(At(queue, x)) + Mine(t, x) =
                   ref_count[x] + Cardinality(At(queue, x)') + Mine(t, x)'
      <4>1. MineAre /\ MineAre'
        BY <1>2, <2>2, MineIs, PTL
      <4>2. x \in Objects /\ At(queue, x)' = At(queue, x)
        BY <1>2, <1>3 DEF MemoryTypeOK, At
      <4>3. /\ ref_count[x] \in Nat /\ ref_count'[x] \in Nat
            /\ Cardinality(At(queue, x)) \in Nat
        BY <1>2, <1>6, <4>2, AtFinite DEF MemoryTypeOK
      <4>4. One(o = x) \in Nat /\ Mine(t, x) \in Nat /\ Mine(t, x)' \in Nat
        BY <4>1, <4>2 DEF One, MineAre
      <4>5. Mine(t, x) = Mine(t, x)' + One(o = x)
        <5>1. CASE Len(own[t]) = 1
          <6>1. Mine(t, x) = One(own[t][1] = x) /\ Mine(t, x)' = 0
            BY <1>1, <2>1, <4>1, <4>2, <5>1 DEF MineAre
          <6>2. QED
            BY <1>4, <4>4, <5>1, <6>1
        <5>2. CASE Len(own[t]) = 2
          <6>1. Mine(t, x) = One(own[t][1] = x) + One(own[t][2] = x)
            BY <1>1, <4>1, <4>2, <5>2 DEF MineAre
          <6>2. Mine(t, x)' = One(own[t][1] = x) + 0
            BY <2>1, <4>1, <4>2, <5>2 DEF MineAre
          <6>3. One(own[t][1] = x) \in Nat
            BY DEF One
          <6>4. QED
            BY <1>4, <4>4, <5>2, <6>1, <6>2, <6>3
        <5>3. QED
          BY <1>2, <5>1, <5>2
      <4>6. QED
        BY <1>6, <4>2, <4>3, <4>4, <4>5
    <3>2. QED
      BY <1>3, <2>1, <2>2, <3>1, CountsStep
  <2>7. IsInjective(freelist)' /\ Somewhere'
    BY <1>3, <1>7 DEF MemoryInv, IsInjective, Somewhere, In
  <2>8. QED
    BY <2>2, <2>3, <2>4, <2>5, <2>6, <2>7 DEF MemoryInv
<1>8. CASE ref_count[o] # 1 /\ Forget(t)
  <2>1. /\ \A u \in Threads \ {t} : own'[u] = own[u] /\ pc'[u] = pc[u]
        /\ own' \in [Threads -> Seq(Objects)] /\ pc' \in [Threads -> Steps]
        /\ own'[t] = Front(own[t]) /\ ~Bare(t)'
        /\ PointersOf(t)' /\ OnePublishes'
    BY <1>1, <1>3, <1>8, ForgetDoes
  <2>2. MemoryTypeOK'
    BY <1>2, <1>3, <1>6, <2>1 DEF MemoryTypeOK
  <2>3. PointersAt'
    <3>1. Len(queue') <= Len(queue)
      BY <1>2, <1>3 DEF MemoryTypeOK
    <3>2. \A u \in Threads \ {t} : PointersOf(u)'
      BY <1>3, <2>1, <2>2, <3>1, OthersPointers
    <3>3. QED
      BY <2>1, <3>2 DEF PointersAt
  <2>4. OneBare'
    <3>1. \A u \in Threads : Bare(u) => Last(own[u]) \in Objects \ {o}
      BY <1>5, BareAlone
    <3>2. QED
      BY <1>6, <2>1, <3>1, BareStep
  <2>5. Counts'
    <3>1. ASSUME NEW x \in allocated
          PROVE  ref_count'[x] + Cardinality(At(queue, x)) + Mine(t, x) =
                   ref_count[x] + Cardinality(At(queue, x)') + Mine(t, x)'
      <4>1. MineAre /\ MineAre'
        BY <1>2, <2>2, MineIs, PTL
      <4>2. x \in Objects /\ At(queue, x)' = At(queue, x)
        BY <1>2, <1>3 DEF MemoryTypeOK, At
      <4>3. /\ ref_count[x] \in Nat /\ ref_count'[x] \in Nat
            /\ Cardinality(At(queue, x)) \in Nat
        BY <1>2, <1>6, <4>2, AtFinite DEF MemoryTypeOK
      <4>4. One(o = x) \in Nat /\ Mine(t, x) \in Nat /\ Mine(t, x)' \in Nat
        BY <4>1, <4>2 DEF One, MineAre
      <4>5. Mine(t, x) = Mine(t, x)' + One(o = x)
        <5>1. CASE Len(own[t]) = 1
          <6>1. own'[t] = <<>>
            BY <1>4, <2>1, <5>1
          <6>2. Mine(t, x) = One(own[t][1] = x) /\ Mine(t, x)' = 0
            BY <1>1, <4>1, <4>2, <5>1, <6>1 DEF MineAre
          <6>3. QED
            BY <1>4, <4>4, <5>1, <6>2
        <5>2. CASE Len(own[t]) = 2
          <6>1. Len(own'[t]) = 1 /\ own'[t][1] = own[t][1]
            BY <1>4, <2>1, <5>2
          <6>2. Mine(t, x) = One(own[t][1] = x) + One(own[t][2] = x)
            BY <1>1, <4>1, <4>2, <5>2 DEF MineAre
          <6>3. Mine(t, x)' = One(own'[t][1] = x)
            BY <2>1, <4>1, <4>2, <6>1 DEF MineAre
          <6>4. QED
            BY <1>4, <5>2, <6>1, <6>2, <6>3
        <5>3. QED
          BY <1>2, <5>1, <5>2
      <4>6. QED
        BY <1>6, <4>2, <4>3, <4>4, <4>5
    <3>2. QED
      BY <1>3, <2>1, <2>2, <3>1, CountsStep
  <2>6. IsInjective(freelist)'
    BY <1>3 DEF MemoryInv, IsInjective
  <2>7. ASSUME NEW x \in Objects, x = o
        PROVE  In(queue', x) \/ \E u \in Threads : In(own'[u], x)
    <3>1. ref_count'[x] # 0
      BY <1>5, <1>6, <1>8, <2>7
    <3>2. x \in allocated'
      BY <1>2, <1>3, <2>7
    <3>3. IsFiniteSet(OwnPlaces(x)') /\ Pointers(x)' # 0
      BY <2>5, <3>1, <3>2 DEF Counts
    <3>4. PlacesAre'
      BY <2>2, Places, PTL
    <3>5. QED
      BY <3>3, <3>4 DEF PlacesAre
  <2>8. Somewhere'
    <3> SUFFICES ASSUME NEW x \in Objects
                 PROVE  /\ x \in allocated' <=> \/ In(freelist', x)
                                                \/ In(queue', x)
                                                \/ \E u \in Threads : In(own'[u], x)
                        /\ In(freelist', x) =>
                             ~In(queue', x) /\ \A u \in Threads : ~In(own'[u], x)
      BY DEF Somewhere
    <3>1. \A u \in Threads : In(own'[u], x) => In(own[u], x)
      BY <1>4, <2>1
    <3>2. \A u \in Threads : In(own[u], x) => In(own'[u], x) \/ o = x
      BY <1>4, <2>1
    <3>3. QED
      BY <1>2, <1>3, <2>7, <3>1, <3>2 DEF MemoryInv, Somewhere
  <2>9. QED
    BY <2>1, <2>2, <2>3, <2>4, <2>5, <2>6, <2>8 DEF MemoryInv
<1>9. QED
  BY <1>3, <1>7, <1>8

(* ObjectPool::release() of an object to which nothing points any more *)
LEMMA RecycleMemory ==
  ASSUME MemoryInv, NEW t \in Threads, Recycle(t)
  PROVE  MemoryInv'
<1>1. pc[t] = "recycle" /\ Bare(t) /\ pc[t] \notin NoPointers
  BY DEF Recycle, Bare, NoPointers
<1>2. PICK o \in Objects : o = Last(own[t])
  BY <1>1, BareAlone
<1>3. /\ MemoryTypeOK /\ PointersOf(t) /\ own[t] \in Seq(Objects) /\ own[t] # <<>>
      /\ Len(own[t]) = 1 \/ Len(own[t]) = 2
      /\ In(own[t], o) /\ o \in allocated
  BY <1>1, <1>2, HasPointers
<1>4. /\ ~In(freelist, o) /\ ~In(queue, o) /\ \A u \in Threads \ {t} : ~In(own[u], o)
      /\ Len(own[t]) = 2 => own[t][1] # o
  BY <1>1, <1>2, BareAlone
<1>5. /\ Forget(t) /\ UNCHANGED <<ref_count, queue, policy, publish_mutex>>
      /\ \/ /\ Len(freelist) < PoolCapacity
            /\ freelist' = Append(freelist, o) /\ allocated' = allocated
         \/ allocated' = allocated \ {o} /\ freelist' = freelist
  BY <1>2 DEF Recycle
<1>6. /\ \A u \in Threads \ {t} : own'[u] = own[u] /\ pc'[u] = pc[u]
      /\ own' \in [Threads -> Seq(Objects)] /\ pc' \in [Threads -> Steps]
      /\ own'[t] = Front(own[t]) /\ ~Bare(t)'
      /\ PointersOf(t)' /\ OnePublishes'
  BY <1>1, <1>5, ForgetDoes
<1>7. /\ \A x : In(own[t], x) <=> In(own'[t], x) \/ o = x
      /\ Len(own[t]) = 1 => own'[t] = <<>>
      /\ Len(own[t]) = 2 => Len(own'[t]) = 1 /\ own'[t][1] = own[t][1]
  BY <1>2, <1>3, <1>6, OneLess
<1>8. ~In(own'[t], o)
  <2>1. CASE Len(own[t]) = 1
    <3>1. DOMAIN own'[t] = {}
      BY <1>7, <2>1
    <3>2. QED
      BY <3>1 DEF In
  <2>2. CASE Len(own[t]) = 2
    <3>1. Front(own[t]) = <<own[t][1]>> /\ own[t][1] \in Objects
      BY <1>3, <2>2, Short
    <3>2. QED
      BY <1>4, <1>6, <2>2, <3>1, Single
  <2>3. QED
    BY <1>3, <2>1, <2>2
<1>9. /\ freelist' \in Seq(Objects) /\ Len(freelist') <= PoolCapacity /\ IsInjective(freelist')
      /\ allocated' \subseteq allocated
      /\ \A x \in Objects : x # o => /\ In(freelist', x) <=> In(freelist, x)
                                     /\ x \in allocated' <=> x \in allocated
      /\ In(freelist', o) <=> o \in allocated'
  <2>1. freelist \in Seq(Objects) /\ Len(freelist) <= PoolCapacity /\ IsInjective(freelist)
    BY DEF MemoryInv, MemoryTypeOK
  <2>2. CASE Len(freelist) < PoolCapacity /\ freelist' = Append(freelist, o) /\ allocated' = allocated
    <3>1. /\ freelist' \in Seq(Objects) /\ Len(freelist') = Len(freelist) + 1
          /\ \A x : In(freelist', x) <=> In(freelist, x) \/ o = x
      BY <2>1, <2>2, AppendAt
    <3>2. IsInjective(freelist')
      BY <1>4, <2>1, <2>2, PoolInjective
    <3>3. Len(freelist') <= PoolCapacity
      BY <2>1, <2>2, <3>1, CapacityAssumption
    <3>4. QED
      BY <1>3, <2>2, <3>1, <3>2, <3>3
  <2>3. CASE allocated' = allocated \ {o} /\ freelist' = freelist
    BY <1>4, <2>1, <2>3
  <2>4. QED
    BY <1>5, <2>2, <2>3
<1>10. MemoryTypeOK'
  BY <1>3, <1>5, <1>6, <1>9 DEF MemoryTypeOK
<1>11. PointersAt'
  <2>1. Len(queue') <= Len(queue)
    BY <1>3, <1>5 DEF MemoryTypeOK
  <2>2. \A u \in Threads \ {t} : PointersOf(u)'
    BY <1>5, <1>6, <1>10, <2>1, OthersPointers
  <2>3. QED
    BY <1>6, <2>2 DEF PointersAt
<1>12. OneBare'
  BY <1>5, <1>6, BareStep
<1>13. Counts'
  <2>1. ASSUME NEW x \in allocated
        PROVE  ref_count'[x] + Cardinality(At(queue, x)) + Mine(t, x) =
                 ref_count[x] + Cardinality(At(queue, x)') + Mine(t, x)'
    <3>1. MineAre /\ MineAre'
      BY <1>3, <1>10, MineIs, PTL
    <3>2. x \in Objects /\ At(queue, x)' = At(queue, x)
      BY <1>3, <1>5 DEF MemoryTypeOK, At
    <3>3. Mine(t, x)' = Mine(t, x)
      <4>1. CASE Len(own[t]) = 1
        <5>1. Mine(t, x) = 0
          BY <1>1, <3>1, <3>2, <4>1 DEF MineAre
        <5>2. Mine(t, x)' = 0
          BY <1>7, <3>1, <3>2, <4>1 DEF MineAre
        <5>3. QED
          BY <5>1, <5>2
      <4>2. CASE Len(own[t]) = 2
        <5>1. Mine(t, x) = One(own[t][1] = x) + 0
          BY <1>1, <3>1, <3>2, <4>2 DEF MineAre
        <5>2. Len(own'[t]) = 1 /\ own'[t][1] = own[t][1]
          BY <1>7, <4>2
        <5>3. Mine(t, x)' = One(own'[t][1] = x)
          BY <1>6, <3>1, <3>2, <5>2 DEF MineAre
        <5>4. One(own[t][1] = x) \in Nat
          BY DEF One
        <5>5. QED
          BY <5>1, <5>2, <5>3, <5>4
      <4>3. QED
        BY <1>3, <4>1, <4>2
    <3>4. QED
      BY <1>5, <3>2, <3>3
  <2>2. QED
    BY <1>6, <1>9, <1>10, <2>1, CountsStep
<1>14. IsInjective(freelist)'
  BY <1>9 DEF IsInjective
<1>15. Somewhere'
  <2> SUFFICES ASSUME NEW x \in Objects
               PROVE  /\ x \in allocated' <=> \/ In(freelist', x)
                                              \/ In(queue', x)
                                              \/ \E u \in Threads : In(own'[u], x)
                      /\ In(freelist', x) => ~In(queue', x) /\ \A u \in Threads : ~In(own'[u], x)
    BY DEF Somewhere
  <2>1. CASE x = o
    <3>1. ~In(queue', x) /\ \A u \in Threads : ~In(own'[u], x)
      BY <1>4, <1>5, <1>6, <1>8, <2>1
    <3>2. QED
      BY <1>9, <2>1, <3>1
  <2>2. CASE x # o
    <3>1. \A u \in Threads : In(own'[u], x) <=> In(own[u], x)
      BY <1>6, <1>7, <2>2
    <3>2. /\ In(freelist', x) <=> In(freelist, x)
          /\ x \in allocated' <=> x \in allocated
          /\ queue' = queue
      BY <1>5, <1>9, <2>2
    <3>3. QED
      BY <3>1, <3>2 DEF MemoryInv, Somewhere
  <2>3. QED
    BY <2>1, <2>2
<1>16. QED
  BY <1>6, <1>10, <1>11, <1>12, <1>13, <1>14, <1>15 DEF MemoryInv

(* The mutex is free for another publisher, while mptr still points.  *)
LEMMA UnlockMemory ==
  ASSUME MemoryInv, NEW p \in Publishers, UnlockPublish(p)
  PROVE  MemoryInv'
<1>1. p \in Threads /\ p \notin Dispatchers
  BY DispatchersAssumption DEF Threads
<1>2. /\ pc[p] = "unlock" /\ pc' = [pc EXCEPT ![p] = "release"] /\ publish_mutex' = NoThread
      /\ UNCHANGED <<freelist, allocated, ref_count, queue, own, policy>>
  BY DEF UnlockPublish, Goto, poolVars
<1>3. /\ \A u \in Threads \ {p} : pc'[u] = pc[u]
      /\ pc'[p] = "release" /\ ~Bare(p) /\ ~Bare(p)'
  BY <1>1, <1>2 DEF MemoryInv, MemoryTypeOK, Bare
<1>4. MemoryTypeOK'
  BY <1>1, <1>2 DEF MemoryInv, MemoryTypeOK, Steps
<1>5. PointersOf(p) /\ Len(own[p]) = 1
  BY <1>1, <1>2 DEF MemoryInv, PointersAt, PointersOf, OnePointer
<1>6. PointersAt'
  <2>1. PointersOf(p)'
    BY <1>1, <1>2, <1>3, <1>5 DEF PointersOf, NoPointers, OnePointer
  <2>2. \A u \in Threads \ {p} : PointersOf(u)'
    BY <1>2, <1>3 DEF MemoryInv, PointersAt, PointersOf
  <2>3. QED
    BY <2>1, <2>2 DEF PointersAt
<1>7. OnePublishes'
  <2> SUFFICES ASSUME policy = "DropOldest", NEW q \in Publishers, Locked(q)'
               PROVE  FALSE
    BY <1>2 DEF OnePublishes
  <2>1. q # p
    BY <1>2, <1>3, <1>5 DEF Locked
  <2>2. Locked(q) /\ Locked(p)
    BY <1>2, <1>3, <2>1 DEF Locked, Threads
  <2>3. QED
    BY <2>1, <2>2 DEF MemoryInv, OnePublishes
<1>8. OneBare' /\ Counts' /\ IsInjective(freelist)' /\ Somewhere'
  BY <1>1, <1>2, <1>3, <1>4, QuietMemory
<1>9. QED
  BY <1>4, <1>6, <1>7, <1>8 DEF MemoryInv

(* Nothing is allocated, and nothing points anywhere. *)
LEMMA MemoryInit == Init => MemoryInv
<1> SUFFICES ASSUME Init PROVE MemoryInv
  OBVIOUS
<1>1. /\ policy \in Policies /\ freelist = <<>> /\ allocated = {}
      /\ ref_count = [o \in Objects |-> 0] /\ queue = <<>>
      /\ own = [t \in Threads |-> <<>>] /\ pc = [t \in Threads |-> "idle"]
      /\ publish_mutex = NoThread
  BY DEF Init
<1>2. <<>> \in Seq(Objects) /\ Len(<<>>) = 0 /\ DOMAIN <<>> = {}
  OBVIOUS
<1>3. MemoryTypeOK
  BY <1>1, <1>2, PoliciesAssumption, CapacityAssumption DEF MemoryTypeOK, Steps, NoPointers
<1>4. PointersAt
  BY <1>1, <1>2 DEF PointersAt, PointersOf, NoPointers, OnePointer
<1>5. OnePublishes /\ OneBare
  BY <1>1 DEF OnePublishes, Locked, OneBare, Bare, Threads
<1>6. Counts
  <2> SUFFICES ASSUME NEW o \in Objects PROVE IsFiniteSet(OwnPlaces(o))
    BY <1>1 DEF Counts
  <2>1. OwnPlaces(o) = {}
    BY <1>1, <1>2 DEF OwnPlaces, Counted
  <2>2. QED
    BY <2>1, FS_EmptySet
<1>7. IsInjective(freelist) /\ Somewhere
  BY <1>1, <1>2 DEF IsInjective, Somewhere, In
<1>8. QED
  BY <1>3, <1>4, <1>5, <1>6, <1>7 DEF MemoryInv

(* Every step keeps the counts and the ownership of objects. *)
LEMMA MemoryNext == MemoryInv /\ [Next]_vars => MemoryInv'
<1> SUFFICES ASSUME MemoryInv, [Next]_vars PROVE MemoryInv'
  OBVIOUS
<1>1. ASSUME NEW p \in Publishers, Publisher(p) PROVE MemoryInv'
  <2>1. CASE Acquire(p)
    BY <2>1, AcquireMemory
  <2>2. CASE Adopt(p)
    BY <2>2, AdoptMemory
  <2>3. CASE TryEnqueue(p)
    BY <2>3, TryEnqueueMemory
  <2>4. CASE Evict(p)
    BY <2>4, EvictMemory
  <2>5. CASE \/ Publish(p) \/ Topic(p) \/ ResolveStep(p) \/ MakeHandle(p)
             \/ PublishByHandle(p) \/ LockPublish(p) \/ QueueFull(p) \/ NotifyDrop(p)
    BY <2>5, PublisherQuiet
  <2>6. CASE UnlockPublish(p)
    BY <2>6, UnlockMemory
  <2>7. QED
    BY <1>1, <2>1, <2>2, <2>3, <2>4, <2>5, <2>6 DEF Publisher
<1>2. ASSUME NEW d \in Dispatchers, Dequeue(d) \/ DispatchMessage(d) PROVE MemoryInv'
  BY <1>2, DequeueMemory, DispatchQuiet
<1>3. ASSUME NEW t \in Threads, ReleaseRef(t) \/ Recycle(t) PROVE MemoryInv'
  BY <1>3, ReleaseRefMemory, RecycleMemory
<1>4. CASE UNCHANGED vars
  <2>1. UNCHANGED <<freelist, allocated, ref_count, queue, own, pc, policy, publish_mutex>>
    BY <1>4 DEF vars, poolVars
  <2>2. MemoryTypeOK' /\ PointersAt' /\ OnePublishes' /\ OneBare'
    BY <2>1
       DEF MemoryInv, MemoryTypeOK, PointersAt, PointersOf, OnePublishes, Locked, OneBare, Bare
  <2>3. Counts'
    <3>1. \A t \in Threads : Counted(t)' = Counted(t)
      BY <2>1 DEF Counted
    <3>2. ASSUME NEW o \in Objects
          PROVE  OwnPlaces(o)' = OwnPlaces(o) /\ Pointers(o)' = Pointers(o)
      BY <2>1, <3>1 DEF OwnPlaces, Pointers
    <3>3. QED
      BY <2>1, <3>2 DEF MemoryInv, Counts
  <2>4. IsInjective(freelist)' /\ Somewhere'
    BY <2>1 DEF MemoryInv, IsInjective, Somewhere, In
  <2>5. QED
    BY <2>2, <2>3, <2>4 DEF MemoryInv
<1>5. QED
  BY <1>1, <1>2, <1>3, <1>4 DEF Next

(* The inductive invariant of the objects' memory: how many MessagePtrs     *)
(* each thread has at each of its steps, and that every count agrees.       *)
THEOREM MemoryInvariant == Spec => []MemoryInv
  BY MemoryInit, MemoryNext, PTL DEF Spec

(* "Intrusive reference-counted pointer": reset() recycles an object when,  *)
(* and only when, the last pointer to it is gone, and release() never puts  *)
(* in the pool what can still be reached.                                   *)
THEOREM CountsPointersHolds == Spec => []CountsPointers
<1>1. MemoryInv => CountsPointers
  <2> SUFFICES ASSUME MemoryInv PROVE CountsPointers
    OBVIOUS
  <2>1. \A o \in allocated : o \in Objects /\ ref_count[o] = Pointers(o)
    BY DEF MemoryInv, MemoryTypeOK, Counts
  <2>2. ASSUME NEW o \in ToSet(freelist)
        PROVE  o \notin ToSet(queue) /\ \A t \in Threads : o \notin Held(t)
    <3>1. In(freelist, o) /\ o \in Objects
      BY DEF ToSet, In, MemoryInv, MemoryTypeOK
    <3>2. ~In(queue, o) /\ \A t \in Threads : ~In(own[t], o)
      BY <3>1 DEF MemoryInv, Somewhere
    <3>3. QED
      BY <3>2 DEF ToSet, In, Held
  <2>3. QED
    BY <2>1, <2>2 DEF CountsPointers, MemoryInv
<1>2. QED
  BY <1>1, MemoryInvariant, PTL

(* "Objects are cached after first use", "Deletes it if pool is full":      *)
(* every object that was made and not deleted is in the pool, or someone    *)
(* has a pointer to it and will recycle it.                                 *)
THEOREM NothingLeaksHolds == Spec => []NothingLeaks
<1>1. Spec => []RegistryTypeOK
  BY UsesTheRegistry, RegistryTypeOKHolds, PTL
<1>2. MemoryInv /\ RegistryTypeOK => NothingLeaks
  <2> SUFFICES ASSUME MemoryInv, RegistryTypeOK PROVE NothingLeaks
    OBVIOUS
  <2>1. /\ freelist \in Seq(Objects) /\ queue \in Seq(Objects)
        /\ \A t \in Threads : own[t] \in Seq(Objects)
        /\ allocated \subseteq Objects
    BY DEF MemoryInv, MemoryTypeOK
  <2>2. \A x : /\ x \in ToSet(freelist) <=> In(freelist, x)
               /\ x \in ToSet(queue) <=> In(queue, x)
               /\ \A t \in Threads : x \in Held(t) <=> In(own[t], x)
    BY DEF ToSet, In, Held
  <2>3. \A x : /\ In(freelist, x) => x \in Objects
               /\ In(queue, x) => x \in Objects
               /\ \A t \in Threads : In(own[t], x) => x \in Objects
    BY <2>1 DEF In
  <2>4. allocated = ToSet(freelist) \cup ToSet(queue) \cup UNION {Held(t) : t \in Threads}
    BY <2>1, <2>2, <2>3 DEF MemoryInv, Somewhere
  <2>5. TypeOK
    BY <2>4 DEF TypeOK, MemoryInv, MemoryTypeOK, PointersAt, PointersOf, NoPointers
  <2>6. QED
    BY <2>4, <2>5 DEF NothingLeaks
<1>3. QED
  BY <1>1, <1>2, MemoryInvariant, PTL

-----------------------------------------------------------------------------
(* Messages.  MessageFlow, in which a message is a value, is implemented:  *)
(* what a pointer leads to is what was published for as long as anybody    *)
(* reads it.                                                               *)

(* What a publisher fills in or enqueues, and a dispatcher or an evicting   *)
(* publisher has taken from the queue to read it.                           *)
Filling == {"view", "h_view"}
Entering == {"lock", "try", "evict", "notify"}
Live(t) == {i \in DOMAIN own[t] : IF i = 1 THEN pc[t] \in Filling \cup Entering \cup {"dispatch"}
                                           ELSE pc[t] = "notify"}

(* No message is in two of these places: whatever recycling reuses, only    *)
(* one of queue and threads has a live pointer to an object.                *)
Apart ==
  /\ IsInjective(queue)
  /\ \A t \in Threads : \A i \in Live(t) : ~In(queue, own[t][i])
  /\ \A t, u \in Threads : \A i \in Live(t), j \in Live(u) :
       own[t][i] = own[u][j] => t = u /\ i = j

(* The id of topic is in use, and it is that of topic. *)
IdOf(id, topic) == id \in DOMAIN id_to_sv /\ id_to_sv[id] = topic

(* What a publisher is asked to publish, and the id it gets for it *)
RequestOf(p) ==
  /\ pc[p] \in Publishing => request[p] \in Values /\ request[p].exact = {request[p].text}
  /\ asked[p] # NoTopic => pc[p] \in {"resolve", "topic"} /\ asked[p] = request[p].text
  /\ pc[p] \in {"acquire", "view", "make_handle"} => IdOf(tid[p], request[p].text)

HandleOf(p) ==
  /\ pc[p] \in {"topic", "make_handle"} =>
       request[p].text \in Topics /\ request[p].on_drop \in Callbacks
  /\ handle[p] # NoHandle =>
       /\ handle[p].topic \in Topics /\ handle[p].cached_on_drop \in Callbacks
       /\ IdOf(handle[p].tid, handle[p].topic) /\ handle[p].topic_sv = handle[p].topic
  /\ pc[p] \in {"h_acquire", "h_view"} =>
       handle[p] # NoHandle /\ handle[p].topic = request[p].text

(* A message in a live place has an id in use and the fields of a message;  *)
(* its publisher's copy has what it was asked to publish.                   *)
Carries(o) == body[o].topic_id \in DOMAIN id_to_sv /\ Value(o) \in Values

ContentOf(t) ==
  /\ pc[t] \notin Filling => \A i \in Live(t) : Carries(own[t][i])
  /\ pc[t] \in Entering => Value(own[t][1]) = request[t]
  /\ pc[t] \in Filling =>
       body[own[t][1]] = [topic_id |-> IF pc[t] = "view" THEN tid[t] ELSE handle[t].tid,
                          data |-> request[t].data, on_drop |-> NoCallback,
                          topic_sv |-> body[own[t][1]].topic_sv]

QueueCarries == \A i \in DOMAIN queue : Carries(queue[i])

Fields ==
  /\ DOMAIN asked = Publishers /\ DOMAIN tid = Publishers
  /\ DOMAIN handle = Publishers /\ DOMAIN request = Publishers
  /\ DOMAIN body = Objects /\ count \in [Publishers -> Nat]

FlowInv ==
  /\ Fields /\ Apart
  /\ QueueCarries
  /\ \A p \in Publishers : RequestOf(p) /\ HandleOf(p)
  /\ \A t \in Threads : ContentOf(t)

-----------------------------------------------------------------------------
(* Ids and views *)

(* Ids in use stay in use (StableIds). *)
IdsStay == \A id \in DOMAIN id_to_sv : id \in DOMAIN id_to_sv' /\ id_to_sv'[id] = id_to_sv[id]

(* No step of the registry takes an id back. *)
LEMMA IdsDoStay == RegistryInv /\ [RegistryNext]_registryVars => IdsStay
<1> SUFFICES ASSUME RegistryInv, [RegistryNext]_registryVars PROVE IdsStay
  OBVIOUS
<1>1. ASSUME NEW c \in Callers, Register(c) PROVE IdsStay
  <2>1. next_id \notin DOMAIN id_to_sv
    BY NextIdIsNew DEF RegistryInv, RegistryTypeOK
  <2>2. QED
    BY <1>1, <2>1 DEF Register, Extended, IdsStay
<1>2. ASSUME UNCHANGED id_to_sv PROVE IdsStay
  BY <1>2 DEF IdsStay
<1>3. QED
  BY <1>1, <1>2 DEF RegistryNext, Find, FindNothing, FindRegistered, registryVars

(* An id in use is one topic's. *)
NamedAre == \A id \in DOMAIN id_to_sv : Named(id) = {id_to_sv[id]} /\ id_to_sv[id] \in Topics

(* A registry that is well formed names each id in use once. *)
LEMMA NamedIs == RegistryInv => NamedAre
<1> SUFFICES ASSUME RegistryInv, NEW id \in DOMAIN id_to_sv
             PROVE  Named(id) = {id_to_sv[id]} /\ id_to_sv[id] \in Topics
  BY DEF NamedAre
<1>1. id_to_sv[id] \in Registered /\ map[id_to_sv[id]] = id /\ id_to_sv[id] \in Topics
  BY DEF RegistryInv, OneIdPerTopic, RegistryTypeOK
<1>2. \A topic \in Registered : map[topic] = id => topic = id_to_sv[id]
  BY DEF RegistryInv, OneIdPerTopic
<1>3. QED
  BY <1>1, <1>2 DEF Named

(* A message keeps its value while its object is left alone. *)
LEMMA KeepsValue ==
  ASSUME RegistryInv, RegistryInv', IdsStay, NEW o, Carries(o), body'[o] = body[o]
  PROVE  Carries(o)' /\ Value(o)' = Value(o)
<1>1. NamedAre /\ NamedAre'
  BY NamedIs, PTL
<1>2. body[o].topic_id \in DOMAIN id_to_sv
  BY DEF Carries
<1>3. Named(body[o].topic_id)' = Named(body[o].topic_id)
  BY <1>1, <1>2 DEF NamedAre, IdsStay
<1>4. Value(o)' = Value(o)
  BY <1>3 DEF Value
<1>5. QED
  BY <1>2, <1>4 DEF Carries, IdsStay, Values

(* The variables of MessageFlow *)
requestBar == [p \in Publishers |-> IF pc[p] \in Publishing THEN request[p] ELSE NoHandle]
queueBar == [i \in DOMAIN queue |-> Value(queue[i])]
atBar == [t \in Threads |-> IF pc[t] = "dispatch" \/ (pc[t] = "notify" /\ Len(own[t]) = 2)
                            THEN Value(Last(own[t])) ELSE NoHandle]

(* All of MessageFlow's variables are in these. *)
LEMMA FlowSame ==
  ASSUME requestBar' = requestBar, queueBar' = queueBar, atBar' = atBar, UNCHANGED flowVars
  PROVE  UNCHANGED Flow!flowVars
  BY DEF requestBar, queueBar, atBar, flowVars, Flow!flowVars

-----------------------------------------------------------------------------
(* What a step of one thread leaves to the others *)

OthersSame(t) ==
  /\ \A u \in Threads \ {t} : own'[u] = own[u] /\ pc'[u] = pc[u]
  /\ \A q \in Publishers \ {t} : /\ request'[q] = request[q] /\ handle'[q] = handle[q]
                                 /\ tid'[q] = tid[q] /\ asked'[q] = asked[q]

BodiesSame(t) ==
  /\ \A i \in DOMAIN queue : body'[queue[i]] = body[queue[i]]
  /\ \A u \in Threads \ {t} : \A i \in Live(u) : body'[own[u][i]] = body[own[u][i]]

(* The registry under a step *)
Ids == RegistryInv /\ RegistryInv' /\ IdsStay

(* What a thread reads, and which of its pointers are alive *)
LiveAre ==
  \A t \in Threads :
    /\ pc[t] \in Filling \cup {"dispatch"} =>
         Live(t) = {1} /\ Len(own[t]) = 1 /\ Last(own[t]) = own[t][1]
    /\ pc[t] \in Entering => 1 \in Live(t) /\ t \in Publishers
    /\ pc[t] \in {"lock", "try", "evict"} => Live(t) = {1}
    /\ pc[t] = "notify" /\ Len(own[t]) = 2 => Live(t) = {1, 2} /\ Last(own[t]) = own[t][2]
    /\ pc[t] = "notify" /\ Len(own[t]) # 2 =>
         Live(t) = {1} /\ Len(own[t]) = 1 /\ Last(own[t]) = own[t][1]
    /\ pc[t] \notin Filling \cup Entering \cup {"dispatch"} => Live(t) = {}
    /\ \A i \in Live(t) : own[t][i] \in Objects /\ In(own[t], own[t][i])

(* It follows from how many pointers a thread has at each step. *)
LEMMA LiveIs == MemoryInv => LiveAre
<1> SUFFICES ASSUME MemoryInv, NEW t \in Threads
    PROVE  /\ pc[t] \in Filling \cup {"dispatch"} =>
                Live(t) = {1} /\ Len(own[t]) = 1 /\ Last(own[t]) = own[t][1]
           /\ pc[t] \in Entering => 1 \in Live(t) /\ t \in Publishers
           /\ pc[t] \in {"lock", "try", "evict"} => Live(t) = {1}
           /\ pc[t] = "notify" /\ Len(own[t]) = 2 => Live(t) = {1, 2} /\ Last(own[t]) = own[t][2]
           /\ pc[t] = "notify" /\ Len(own[t]) # 2 =>
                Live(t) = {1} /\ Len(own[t]) = 1 /\ Last(own[t]) = own[t][1]
           /\ pc[t] \notin Filling \cup Entering \cup {"dispatch"} => Live(t) = {}
           /\ \A i \in Live(t) : own[t][i] \in Objects /\ In(own[t], own[t][i])
  BY DEF LiveAre
<1>1. MemoryTypeOK /\ PointersOf(t)
  BY DEF MemoryInv, PointersAt
<1>2. own[t] \in Seq(Objects) /\ DOMAIN own[t] = 1..Len(own[t])
  BY <1>1, Lengths
<1>3. /\ own[t] = <<>> <=> Len(own[t]) = 0
      /\ Len(own[t]) = 0 \/ Len(own[t]) = 1 \/ Len(own[t]) = 2
  BY <1>1, Lengths
<1>4. \A i \in Live(t) : own[t][i] \in Objects /\ In(own[t], own[t][i])
  BY <1>2 DEF Live, In
<1>5. pc[t] \notin NoPointers => Len(own[t]) # 0
  BY <1>1, <1>3 DEF PointersOf
<1>6. Len(own[t]) = 1 => DOMAIN own[t] = {1} /\ Last(own[t]) = own[t][1]
  BY <1>2, Short
<1>7. Len(own[t]) = 2 => DOMAIN own[t] = {1, 2} /\ Last(own[t]) = own[t][2]
  BY <1>2, Short
<1>8. pc[t] \in Filling \cup {"dispatch"} =>
        Live(t) = {1} /\ Len(own[t]) = 1 /\ Last(own[t]) = own[t][1]
  BY <1>1, <1>6 DEF PointersOf, OnePointer, Filling, Live
<1>9. pc[t] \in Entering => 1 \in Live(t) /\ t \in Publishers
  BY <1>1, <1>3, <1>5, <1>6, <1>7 DEF PointersOf, Entering, NoPointers, Live, Threads
<1>10. pc[t] \in {"lock", "try", "evict"} => Live(t) = {1}
  BY <1>3, <1>5, <1>6, <1>7 DEF NoPointers, Live, Entering, Filling
<1>11. pc[t] = "notify" /\ Len(own[t]) = 2 => Live(t) = {1, 2} /\ Last(own[t]) = own[t][2]
  BY <1>7 DEF Live, Entering
<1>12. pc[t] = "notify" /\ Len(own[t]) # 2 =>
         Live(t) = {1} /\ Len(own[t]) = 1 /\ Last(own[t]) = own[t][1]
  BY <1>3, <1>5, <1>6 DEF NoPointers, Live, Entering
<1>13. pc[t] \notin Filling \cup Entering \cup {"dispatch"} => Live(t) = {}
  BY <1>2 DEF Live, Entering
<1>14. QED
  BY <1>4, <1>8, <1>9, <1>10, <1>11, <1>12, <1>13

(* What MessageFlow sees of a thread *)
SeenOf(t) == IF pc[t] = "dispatch" \/ (pc[t] = "notify" /\ Len(own[t]) = 2)
             THEN Value(Last(own[t])) ELSE NoHandle
AskedOf(p) == IF pc[p] \in Publishing THEN request[p] ELSE NoHandle

(* The threads that do not step keep what they have, and see the same. *)
LEMMA OthersFlow ==
  ASSUME MemoryInv, FlowInv, Ids, NEW t \in Threads, OthersSame(t), BodiesSame(t),
         NEW u \in Threads, u # t
  PROVE  /\ Live(u)' = Live(u)
         /\ ContentOf(u)' /\ SeenOf(u)' = SeenOf(u)
         /\ u \in Publishers => RequestOf(u)' /\ HandleOf(u)' /\ AskedOf(u)' = AskedOf(u)
<1>1. LiveAre
  BY LiveIs
<1>2. own'[u] = own[u] /\ pc'[u] = pc[u]
  BY DEF OthersSame
<1>3. u \in Publishers => /\ request'[u] = request[u] /\ handle'[u] = handle[u]
                          /\ tid'[u] = tid[u] /\ asked'[u] = asked[u]
  BY DEF OthersSame
<1>4. Live(u)' = Live(u)
  BY <1>2 DEF Live
<1>5. \A i \in Live(u) : body'[own[u][i]] = body[own[u][i]]
  BY DEF BodiesSame
<1>6. ContentOf(u)
  BY DEF FlowInv
<1>7. ASSUME pc[u] \notin Filling, NEW i \in Live(u)
      PROVE  Carries(own[u][i])' /\ Value(own[u][i])' = Value(own[u][i])
  <2> DEFINE o == own[u][i]
  <2>1. Carries(o) /\ body'[o] = body[o]
    BY <1>5, <1>6, <1>7 DEF ContentOf
  <2>2. o' = o
    BY <1>2
  <2> HIDE DEF o
  <2>3. \A x : Carries(x) /\ body'[x] = body[x] => Carries(x)' /\ Value(x)' = Value(x)
    BY KeepsValue DEF Ids
  <2>4. QED
    BY <1>2, <2>1, <2>2, <2>3 DEF o, Carries, Value
<1>8. ContentOf(u)'
  <2>1. CASE pc[u] \notin Filling /\ pc[u] \notin Entering
    BY <1>2, <1>4, <1>7, <2>1 DEF ContentOf
  <2>2. CASE pc[u] \in Entering
    <3>1. pc[u] \notin Filling /\ 1 \in Live(u) /\ u \in Publishers
      BY <1>1, <2>2 DEF LiveAre, Entering, Filling
    <3>2. Value(own[u][1])' = request'[u]
      BY <1>2, <1>3, <1>6, <1>7, <2>2, <3>1 DEF ContentOf
    <3>3. QED
      BY <1>2, <1>4, <1>7, <3>1, <3>2 DEF ContentOf
  <2>3. CASE pc[u] \in Filling
    <3>1. 1 \in Live(u) /\ u \in Publishers /\ pc[u] \notin Entering
      <4>1. u \notin Dispatchers
        BY <2>3 DEF Filling, MemoryInv, PointersAt, PointersOf
      <4>2. QED
        BY <1>1, <2>3, <4>1 DEF LiveAre, Entering, Filling, Threads
    <3>2. QED
      BY <1>2, <1>3, <1>5, <1>6, <2>3, <3>1 DEF ContentOf
  <2>4. QED
    BY <2>1, <2>2, <2>3
<1>9. SeenOf(u)' = SeenOf(u)
  <2>1. CASE pc[u] = "dispatch"
    <3>1. 1 \in Live(u) /\ Last(own[u]) = own[u][1] /\ pc[u] \notin Filling
      BY <1>1, <2>1 DEF LiveAre, Filling
    <3>2. QED
      BY <1>2, <1>7, <2>1, <3>1 DEF SeenOf
  <2>2. CASE pc[u] = "notify" /\ Len(own[u]) = 2
    <3>1. 2 \in Live(u) /\ Last(own[u]) = own[u][2] /\ pc[u] \notin Filling
      BY <1>1, <2>2 DEF LiveAre, Filling
    <3>2. QED
      BY <1>2, <1>7, <2>2, <3>1 DEF SeenOf
  <2>3. QED
    BY <1>2, <2>1, <2>2 DEF SeenOf
<1>10. ASSUME u \in Publishers PROVE RequestOf(u)' /\ HandleOf(u)' /\ AskedOf(u)' = AskedOf(u)
  <2>1. RequestOf(u) /\ HandleOf(u)
    BY <1>10 DEF FlowInv
  <2>2. \A id, topic : IdOf(id, topic) => IdOf(id, topic)'
    BY DEF IdOf, Ids, IdsStay
  <2>3. RequestOf(u)'
    BY <1>2, <1>3, <1>10, <2>1, <2>2 DEF RequestOf
  <2>4. HandleOf(u)'
    BY <1>2, <1>3, <1>10, <2>1, <2>2 DEF HandleOf
  <2>5. QED
    BY <1>2, <1>3, <1>10, <2>3, <2>4 DEF AskedOf
<1>11. QED
  BY <1>4, <1>8, <1>9, <1>10

(* What is left to show of a step of thread t *)
Rest(t) ==
  /\ Fields' /\ Apart' /\ ContentOf(t)'
  /\ t \in Publishers => RequestOf(t)' /\ HandleOf(t)'

(* It is enough, and MessageFlow sees at most that thread change. *)
LEMMA FlowParts ==
  ASSUME MemoryInv, FlowInv, Ids, NEW t \in Threads, OthersSame(t), BodiesSame(t),
         Rest(t), QueueCarries'
  PROVE  /\ FlowInv'
         /\ atBar' = [atBar EXCEPT ![t] = SeenOf(t)'] /\ atBar[t] = SeenOf(t)
         /\ t \in Publishers => /\ requestBar' = [requestBar EXCEPT ![t] = AskedOf(t)']
                                /\ requestBar[t] = AskedOf(t)
         /\ t \notin Publishers => requestBar' = requestBar
<1>1. \A u \in Threads : u # t =>
        /\ ContentOf(u)' /\ SeenOf(u)' = SeenOf(u)
        /\ u \in Publishers => RequestOf(u)' /\ HandleOf(u)' /\ AskedOf(u)' = AskedOf(u)
  BY OthersFlow
<1>2. \A p \in Publishers : p # t => RequestOf(p)' /\ HandleOf(p)' /\ AskedOf(p)' = AskedOf(p)
  BY <1>1 DEF Threads
<1>3. \A u \in Threads : ContentOf(u)'
  BY <1>1 DEF Rest
<1>4. \A p \in Publishers : RequestOf(p)' /\ HandleOf(p)'
  BY <1>2 DEF Rest
<1>5. FlowInv'
  BY <1>3, <1>4 DEF Rest, FlowInv
<1>6. /\ atBar = [u \in Threads |-> SeenOf(u)] /\ atBar' = [u \in Threads |-> SeenOf(u)']
      /\ requestBar = [p \in Publishers |-> AskedOf(p)]
      /\ requestBar' = [p \in Publishers |-> AskedOf(p)']
  BY DEF atBar, requestBar, SeenOf, AskedOf
<1>7. \A u \in Threads : SeenOf(u)' = IF u = t THEN SeenOf(t)' ELSE SeenOf(u)
  BY <1>1
<1>8. \A p \in Publishers : AskedOf(p)' = IF p = t THEN AskedOf(t)' ELSE AskedOf(p)
  BY <1>2
<1>9. atBar' = [atBar EXCEPT ![t] = SeenOf(t)'] /\ atBar[t] = SeenOf(t)
  BY <1>6, <1>7, Zenon
<1>10. t \in Publishers => /\ requestBar' = [requestBar EXCEPT ![t] = AskedOf(t)']
                           /\ requestBar[t] = AskedOf(t)
  BY <1>6, <1>8, Zenon
<1>11. t \notin Publishers => requestBar' = requestBar
  BY <1>6, <1>8, Zenon
<1>12. QED
  BY <1>5, <1>9, <1>10, <1>11

(* The queue of messages: unchanged, ... *)
LEMMA QueueSame ==
  ASSUME FlowInv, Ids, NEW t \in Threads, BodiesSame(t), queue' = queue
  PROVE  queueBar' = queueBar /\ QueueCarries'
<1>1. \A x : Carries(x) /\ body'[x] = body[x] => Carries(x)' /\ Value(x)' = Value(x)
  BY KeepsValue DEF Ids
<1>2. \A i \in DOMAIN queue : Carries(queue[i])' /\ Value(queue[i])' = Value(queue[i])
  <2> SUFFICES ASSUME NEW i \in DOMAIN queue
               PROVE  Carries(queue[i])' /\ Value(queue[i])' = Value(queue[i])
    OBVIOUS
  <2>1. PICK o : o = queue[i]
    OBVIOUS
  <2>2. Carries(o) /\ body'[o] = body[o]
    BY <2>1 DEF FlowInv, QueueCarries, BodiesSame
  <2>3. Carries(o)' /\ Value(o)' = Value(o)
    BY <1>1, <2>2
  <2>4. queue'[i] = o
    BY <2>1
  <2>5. QED
    BY <2>1, <2>3, <2>4 DEF Carries, Value
<1>3. QED
  BY <1>2 DEF queueBar, QueueCarries

(* ... without its head, ... *)
LEMMA QueueTail ==
  ASSUME MemoryInv, FlowInv, Ids, NEW t \in Threads, BodiesSame(t),
         queue # <<>>, queue' = Tail(queue), NEW h, h = Head(queue)
  PROVE  /\ queueBar # <<>> /\ queueBar' = Tail(queueBar) /\ Head(queueBar) = Value(h)
         /\ QueueCarries'
         /\ Carries(h)' /\ Value(h)' = Value(h) /\ Value(h) \in Values
<1>1. queue \in Seq(Objects)
  BY DEF MemoryInv, MemoryTypeOK
<1>2. /\ Len(queue) \in Nat /\ Len(queue) > 0 /\ DOMAIN queue = 1..Len(queue)
      /\ Head(queue) = queue[1]
      /\ Tail(queue) \in Seq(Objects) /\ Len(Tail(queue)) = Len(queue) - 1
      /\ DOMAIN Tail(queue) = 1..(Len(queue) - 1)
      /\ \A i \in 1..(Len(queue) - 1) : Tail(queue)[i] = queue[i + 1]
  BY <1>1, HeadTailProperties
<1>3. \A x : Carries(x) /\ body'[x] = body[x] => Carries(x)' /\ Value(x)' = Value(x)
  BY KeepsValue DEF Ids
<1>4. \A i \in DOMAIN queue : \A x : x = queue[i] => Carries(x)' /\ Value(x)' = Value(x)
  BY <1>3 DEF FlowInv, QueueCarries, BodiesSame
<1>5. \A i \in 1..(Len(queue) - 1) : i + 1 \in DOMAIN queue /\ queue'[i] = queue[i + 1]
  BY <1>2
<1>6. ASSUME NEW i \in 1..(Len(queue) - 1)
      PROVE  \E o : /\ o = queue'[i] /\ o = queue[i + 1]
                    /\ Carries(o)' /\ Value(o)' = Value(o)
  <2>1. PICK o : o = queue[i + 1]
    OBVIOUS
  <2>2. Carries(o)' /\ Value(o)' = Value(o) /\ queue'[i] = o
    BY <1>4, <1>5, <2>1
  <2>3. QED
    BY <2>1, <2>2
<1>7. Carries(h)' /\ Value(h)' = Value(h) /\ Value(h) \in Values
  <2>1. h = queue[1] /\ 1 \in DOMAIN queue
    BY <1>2
  <2>2. Value(h) \in Values
    BY <2>1 DEF FlowInv, QueueCarries, Carries
  <2>3. QED
    BY <1>4, <2>1, <2>2
<1> DEFINE b == [i \in 1..Len(queue) |-> Value(queue[i])]
<1>8. queueBar = b
  BY <1>2 DEF queueBar
<1>9. queueBar' = [i \in 1..(Len(queue) - 1) |-> Value(queue[i + 1])]
  <2>1. \A i \in 1..(Len(queue) - 1) : Value(queue[i])' = Value(queue[i + 1])
    BY <1>6 DEF Value
  <2>2. DOMAIN queue' = 1..(Len(queue) - 1)
    BY <1>2
  <2>3. QED
    BY <2>1, <2>2 DEF queueBar
<1>10. b \in Seq({Value(queue[i]) : i \in 1..Len(queue)}) /\ Len(b) = Len(queue)
  BY <1>2
<1>11. /\ b # <<>> /\ Head(b) = b[1] /\ Len(Tail(b)) = Len(queue) - 1
       /\ Tail(b) = [i \in 1..(Len(queue) - 1) |-> b[i + 1]]
  BY <1>2, <1>10, HeadTailProperties
<1>12. Tail(b) = [i \in 1..(Len(queue) - 1) |-> Value(queue[i + 1])]
  BY <1>2, <1>11
<1>13. b[1] = Value(h)
  BY <1>2
<1>14. QueueCarries'
  <2>1. DOMAIN queue' = 1..(Len(queue) - 1)
    BY <1>2
  <2>2. \A i \in 1..(Len(queue) - 1) : Carries(queue[i])'
    BY <1>6 DEF Carries, Value
  <2>3. QED
    BY <2>1, <2>2 DEF QueueCarries
<1> HIDE DEF b
<1>15. QED
  BY <1>7, <1>8, <1>9, <1>11, <1>12, <1>13, <1>14

(* ... and with a new message. *)
LEMMA QueueAppend ==
  ASSUME MemoryInv, FlowInv, Ids, NEW t \in Threads, BodiesSame(t),
         NEW o \in Objects, Carries(o), body'[o] = body[o], queue' = Append(queue, o)
  PROVE  /\ queueBar' = Append(queueBar, Value(o)) /\ Len(queueBar) = Len(queue)
         /\ QueueCarries'
<1>1. queue \in Seq(Objects)
  BY DEF MemoryInv, MemoryTypeOK
<1>2. /\ Len(queue) \in Nat /\ DOMAIN queue = 1..Len(queue)
      /\ DOMAIN queue' = 1..(Len(queue) + 1)
      /\ \A i \in 1..Len(queue) : queue'[i] = queue[i]
      /\ queue'[Len(queue) + 1] = o
  BY <1>1, AppendProperties
<1>3. \A x : Carries(x) /\ body'[x] = body[x] => Carries(x)' /\ Value(x)' = Value(x)
  BY KeepsValue DEF Ids
<1>4. ASSUME NEW i \in 1..(Len(queue) + 1)
      PROVE  /\ Carries(queue[i])'
             /\ Value(queue[i])' = IF i \in 1..Len(queue) THEN Value(queue[i]) ELSE Value(o)
  <2>1. PICK x : x = queue'[i]
    OBVIOUS
  <2>2. x = IF i \in 1..Len(queue) THEN queue[i] ELSE o
    BY <1>2, <2>1
  <2>3. Carries(x) /\ body'[x] = body[x]
    BY <1>2, <2>2 DEF FlowInv, QueueCarries, BodiesSame
  <2>4. Carries(x)' /\ Value(x)' = Value(x)
    BY <1>3, <2>3
  <2>5. Carries(queue[i])' /\ Value(queue[i])' = Value(x)
    BY <2>1, <2>4 DEF Carries, Value
  <2>6. QED
    BY <2>2, <2>5
<1> DEFINE b == [i \in 1..Len(queue) |-> Value(queue[i])]
           V == {Value(queue[i]) : i \in 1..Len(queue)} \cup {Value(o)}
<1>5. queueBar = b
  BY <1>2 DEF queueBar
<1>6. queueBar' = [i \in 1..(Len(queue) + 1) |->
                     IF i \in 1..Len(queue) THEN Value(queue[i]) ELSE Value(o)]
  BY <1>2, <1>4 DEF queueBar
<1>7. b \in Seq(V) /\ Len(b) = Len(queue) /\ Value(o) \in V
  BY <1>2
<1>8. \A i \in 1..Len(queue) : b[i] = Value(queue[i])
  OBVIOUS
<1> HIDE DEF b, V
<1>9. Append(b, Value(o)) = [i \in 1..(Len(queue) + 1) |->
                               IF i \in 1..Len(queue) THEN Value(queue[i]) ELSE Value(o)]
  <2>1. /\ Append(b, Value(o)) \in Seq(V) /\ Len(Append(b, Value(o))) = Len(queue) + 1
        /\ \A i \in 1..Len(queue) : Append(b, Value(o))[i] = b[i]
        /\ Append(b, Value(o))[Len(queue) + 1] = Value(o)
    BY <1>7, AppendProperties
  <2>2. Append(b, Value(o)) = [i \in 1..(Len(queue) + 1) |-> Append(b, Value(o))[i]]
    <3>1. \A s \in Seq(V) : s = [i \in 1..Len(s) |-> s[i]]
      OBVIOUS
    <3>2. QED
      BY <2>1, <3>1
  <2>3. \A i \in 1..(Len(queue) + 1) :
          Append(b, Value(o))[i] = IF i \in 1..Len(queue) THEN Value(queue[i]) ELSE Value(o)
    BY <1>2, <1>8, <2>1
  <2>4. QED
    BY <2>2, <2>3
<1>10. QueueCarries'
  BY <1>2, <1>4 DEF QueueCarries
<1>11. QED
  BY <1>5, <1>6, <1>7, <1>9, <1>10

-----------------------------------------------------------------------------
(* Live pointers lead to different messages                                *)

(* Nothing new is alive. *)
LEMMA ApartQuiet ==
  ASSUME Apart, NEW t \in Threads, OthersSame(t), queue' = queue,
         Live(t)' \subseteq Live(t), \A i \in Live(t)' : own'[t][i] = own[t][i]
  PROVE  Apart'
<1>1. \A u \in Threads : /\ Live(u)' \subseteq Live(u)
                         /\ \A i \in Live(u)' : own'[u][i] = own[u][i]
  <2> SUFFICES ASSUME NEW u \in Threads, u # t
               PROVE  Live(u)' \subseteq Live(u) /\ \A i \in Live(u)' : own'[u][i] = own[u][i]
    OBVIOUS
  <2>1. own'[u] = own[u] /\ pc'[u] = pc[u]
    BY DEF OthersSame
  <2>2. QED
    BY <2>1 DEF Live
<1>2. \A u \in Threads : \A i \in Live(u)' : ~In(queue', own'[u][i])
  BY <1>1 DEF Apart
<1>3. \A u, v \in Threads : \A i \in Live(u)', j \in Live(v)' :
        own'[u][i] = own'[v][j] => u = v /\ i = j
  BY <1>1 DEF Apart
<1>4. QED
  BY <1>2, <1>3 DEF Apart, In

(* A pointer to an object that is not yet a message comes alive. *)
LEMMA ApartNew ==
  ASSUME Apart, NEW t \in Threads, OthersSame(t), queue' = queue,
         NEW o, Live(t)' = {1}, own'[t][1] = o, ~In(queue, o),
         \A u \in Threads : u # t => ~In(own[u], o)
  PROVE  Apart'
<1>1. \A u \in Threads : u # t => Live(u)' = Live(u) /\ own'[u] = own[u]
  BY DEF OthersSame, Live
<1>2. \A u \in Threads : u # t => \A i \in Live(u) : own[u][i] # o
  BY DEF Live, In
<1>3. \A u \in Threads : \A i \in Live(u)' : ~In(queue', own'[u][i])
  BY <1>1 DEF Apart
<1>4. \A u, v \in Threads : \A i \in Live(u)', j \in Live(v)' :
        own'[u][i] = own'[v][j] => u = v /\ i = j
  BY <1>1, <1>2 DEF Apart
<1>5. QED
  BY <1>3, <1>4 DEF Apart, In

(* A message moves into the queue, *)
LEMMA ApartEnqueue ==
  ASSUME MemoryInv, Apart, NEW t \in Threads, OthersSame(t),
         NEW o \in Objects, 1 \in Live(t), own[t][1] = o, Live(t)' = {}, queue' = Append(queue, o)
  PROVE  Apart'
<1>1. \A u \in Threads : u # t => Live(u)' = Live(u) /\ own'[u] = own[u]
  BY DEF OthersSame, Live
<1>2. queue \in Seq(Objects) /\ IsInjective(queue) /\ ~In(queue, o)
  BY DEF MemoryInv, MemoryTypeOK, Apart
<1>3. IsInjective(queue') /\ \A x : In(queue', x) <=> In(queue, x) \/ o = x
  BY <1>2, PoolInjective, AppendAt
<1>4. \A u \in Threads : u # t => \A i \in Live(u) : own[u][i] # o
  BY DEF Apart
<1>5. \A u \in Threads : \A i \in Live(u)' : ~In(queue', own'[u][i])
  BY <1>1, <1>3, <1>4 DEF Apart
<1>6. \A u, v \in Threads : \A i \in Live(u)', j \in Live(v)' :
        own'[u][i] = own'[v][j] => u = v /\ i = j
  BY <1>1 DEF Apart
<1>7. (\A u \in Threads : \A i \in Live(u) : ~In(queue, own[u][i]))'
  BY <1>5 DEF In
<1>8. QED
  BY <1>3, <1>6, <1>7 DEF Apart

(* and from its head to the thread that takes it. *)
LEMMA ApartTake ==
  ASSUME MemoryInv, Apart, NEW t \in Threads, OthersSame(t), queue # <<>>, queue' = Tail(queue),
         NEW n, Live(t)' = Live(t) \cup {n}, n \notin Live(t), own'[t][n] = Head(queue),
         \A i \in Live(t) : own'[t][i] = own[t][i]
  PROVE  Apart'
<1>1. \A u \in Threads : u # t => Live(u)' = Live(u) /\ own'[u] = own[u]
  BY DEF OthersSame, Live
<1>2. queue \in Seq(Objects) /\ IsInjective(queue)
  BY DEF MemoryInv, MemoryTypeOK, Apart
<1>3. /\ IsInjective(queue') /\ ~In(queue', Head(queue)) /\ In(queue, Head(queue))
      /\ \A x : In(queue', x) => In(queue, x)
  BY <1>2, TailInjective, TailAt
<1>4. \A u \in Threads : \A i \in Live(u) : own[u][i] # Head(queue) /\ ~In(queue', own[u][i])
  BY <1>3 DEF Apart
<1>5. \A u \in Threads : \A i \in Live(u)' :
        \/ u = t /\ i = n
        \/ i \in Live(u) /\ own'[u][i] = own[u][i]
  BY <1>1
<1>6. \A u \in Threads : \A i \in Live(u)' : ~In(queue', own'[u][i])
  BY <1>3, <1>4, <1>5
<1>7. \A u, v \in Threads : \A i \in Live(u)', j \in Live(v)' :
        own'[u][i] = own'[v][j] => u = v /\ i = j
  BY <1>4, <1>5 DEF Apart
<1>8. (\A u \in Threads : \A i \in Live(u) : ~In(queue, own[u][i]))'
  BY <1>6 DEF In
<1>9. QED
  BY <1>3, <1>7, <1>8 DEF Apart

-----------------------------------------------------------------------------
(* Steps of publish(), topic() and TopicHandle::publish() that have no message yet *)

(* A step of MessageFlow, or one it does not see *)
FlowStep == Flow!FlowNext \/ UNCHANGED Flow!flowVars

(* Such a step leaves all messages alone. *)
LEMMA NoMessageYet ==
  ASSUME MemoryInv, FlowInv, Ids, NEW p \in Publishers, OthersSame(p),
         UNCHANGED <<body, queue, own, flowVars>>,
         pc[p] \in NoPointers, pc'[p] \in NoPointers,
         Fields', RequestOf(p)', HandleOf(p)'
  PROVE  /\ FlowInv' /\ queueBar' = queueBar /\ atBar' = atBar
         /\ requestBar' = [requestBar EXCEPT ![p] = AskedOf(p)'] /\ requestBar[p] = AskedOf(p)
         /\ AskedOf(p)' = AskedOf(p) => UNCHANGED Flow!flowVars
<1>1. p \in Threads
  BY DEF Threads
<1>2. BodiesSame(p)
  BY DEF BodiesSame
<1>3. queueBar' = queueBar /\ QueueCarries'
  BY <1>1, <1>2, QueueSame
<1>4. /\ pc[p] \notin Filling \cup Entering \cup {"dispatch"}
      /\ pc'[p] \notin Filling \cup Entering \cup {"dispatch"}
  BY DEF NoPointers, Filling, Entering
<1>5. Live(p)' = {}
  <2>1. own[p] = <<>>
    BY <1>1 DEF MemoryInv, PointersAt, PointersOf
  <2>2. own'[p] = <<>>
    BY <2>1
  <2>3. QED
    BY <2>2 DEF Live
<1>6. Apart'
  BY <1>1, <1>5, ApartQuiet DEF FlowInv
<1>7. ContentOf(p)'
  BY <1>4, <1>5 DEF ContentOf
<1>8. Rest(p)
  BY <1>6, <1>7 DEF Rest
<1>9. /\ FlowInv' /\ atBar' = [atBar EXCEPT ![p] = SeenOf(p)'] /\ atBar[p] = SeenOf(p)
      /\ requestBar' = [requestBar EXCEPT ![p] = AskedOf(p)'] /\ requestBar[p] = AskedOf(p)
  BY <1>1, <1>2, <1>3, <1>8, FlowParts
<1>10. SeenOf(p) = NoHandle /\ SeenOf(p)' = NoHandle
  BY <1>4 DEF SeenOf, Entering
<1>11. atBar' = atBar
  BY <1>9, <1>10 DEF atBar
<1>12. AskedOf(p)' = AskedOf(p) => requestBar' = requestBar
  BY <1>9 DEF requestBar
<1>13. QED
  BY <1>3, <1>9, <1>11, <1>12, FlowSame

(* Topic asked for a publication, or a handle: a value *)
LEMMA PublishFlow ==
  ASSUME MemoryInv, FlowInv, Ids, NEW p \in Publishers, Publish(p)
  PROVE  FlowInv' /\ FlowStep
<1> DEFINE data == <<p, count'[p]>>
           v == Asked(TopicOf[data], data, OnDrop(data))
<1>1. p \in Threads /\ Fields
  BY DEF Threads, FlowInv
<1>2. /\ pc[p] = "idle" /\ count[p] < MaxPublishes
      /\ count' = [count EXCEPT ![p] = @ + 1] /\ request' = [request EXCEPT ![p] = v]
      /\ pc' = [pc EXCEPT ![p] = "resolve"]
      /\ UNCHANGED <<registryVars, body, queue, own, handle, flowVars>>
  BY DEF Publish, Goto, poolVars
<1>3. count'[p] \in 1..MaxPublishes /\ count' \in [Publishers -> Nat]
  BY <1>1, <1>2, BoundAssumption DEF Fields
<1>4. data \in Data /\ data \in Plans
  BY <1>3, BoundAssumption DEF Data, Plans
<1>5. v \in Values /\ v.exact = {v.text}
  BY <1>4, PlansAssumption DEF Asked, Values, OnDrop, Callbacks
<1> HIDE DEF v
<1>6. /\ pc'[p] = "resolve" /\ request'[p] = v
      /\ tid'[p] = tid[p] /\ asked'[p] = asked[p] /\ handle'[p] = handle[p]
      /\ \A u \in Threads \ {p} : pc'[u] = pc[u]
  BY <1>1, <1>2 DEF Fields, registryVars, MemoryInv, MemoryTypeOK
<1>7. OthersSame(p)
  BY <1>1, <1>2, <1>6 DEF OthersSame, Fields, registryVars
<1>8. Fields'
  BY <1>1, <1>2, <1>3 DEF Fields, registryVars
<1>9. asked[p] = NoTopic
  BY <1>2 DEF FlowInv, RequestOf
<1>10. RequestOf(p)'
  BY <1>5, <1>6, <1>9 DEF RequestOf
<1>11. HandleOf(p)'
  <2>1. \A id, topic : IdOf(id, topic)' = IdOf(id, topic)
    BY <1>2 DEF IdOf, registryVars
  <2>2. QED
    BY <1>6, <2>1 DEF HandleOf, FlowInv
<1>12. /\ FlowInv' /\ queueBar' = queueBar /\ atBar' = atBar
       /\ requestBar' = [requestBar EXCEPT ![p] = AskedOf(p)'] /\ requestBar[p] = AskedOf(p)
  BY <1>2, <1>6, <1>7, <1>8, <1>10, <1>11, NoMessageYet DEF NoPointers
<1>13. AskedOf(p) = NoHandle /\ AskedOf(p)' = v
  BY <1>2, <1>6 DEF AskedOf, Publishing
<1>14. Flow!Ask(p)
  BY <1>2, <1>5, <1>12, <1>13 DEF Flow!Ask, requestBar, queueBar, atBar, flowVars
<1>15. QED
  BY <1>12, <1>14 DEF FlowStep, Flow!FlowNext

(* topic() asks for a handle: for MessageFlow nothing happens. *)
LEMMA TopicFlow ==
  ASSUME MemoryInv, FlowInv, Ids, NEW p \in Publishers, Topic(p)
  PROVE  FlowInv' /\ FlowStep
<1> DEFINE v == Asked(TopicOf[<<p, 0>>], <<p, 0>>, OnDrop(<<p, 0>>))
<1>1. p \in Threads /\ Fields
  BY DEF Threads, FlowInv
<1>2. /\ pc[p] = "idle" /\ handle[p] = NoHandle
      /\ request' = [request EXCEPT ![p] = v]
      /\ pc' = [pc EXCEPT ![p] = "topic"]
      /\ UNCHANGED <<registryVars, body, queue, own, handle, count, flowVars>>
  BY DEF Topic, Goto, poolVars
<1>3. <<p, 0>> \in Plans
  BY BoundAssumption DEF Plans
<1>4. v.text \in Topics /\ v.on_drop \in Callbacks
  BY <1>3, PlansAssumption DEF Asked, OnDrop, Callbacks
<1> HIDE DEF v
<1>5. /\ pc'[p] = "topic" /\ request'[p] = v
      /\ tid'[p] = tid[p] /\ asked'[p] = asked[p] /\ handle'[p] = NoHandle
      /\ \A u \in Threads \ {p} : pc'[u] = pc[u]
  BY <1>1, <1>2 DEF Fields, registryVars, MemoryInv, MemoryTypeOK
<1>6. OthersSame(p)
  BY <1>1, <1>2, <1>5 DEF OthersSame, Fields, registryVars
<1>7. Fields'
  BY <1>1, <1>2 DEF Fields, registryVars
<1>8. asked[p] = NoTopic
  BY <1>2 DEF FlowInv, RequestOf
<1>9. RequestOf(p)'
  BY <1>5, <1>8 DEF RequestOf, Publishing
<1>10. HandleOf(p)'
  BY <1>4, <1>5 DEF HandleOf
<1>11. AskedOf(p)' = AskedOf(p)
  BY <1>2, <1>5 DEF AskedOf, Publishing
<1>12. QED
  BY <1>2, <1>5, <1>6, <1>7, <1>9, <1>10, <1>11, NoMessageYet DEF NoPointers, FlowStep

(* TopicHandle::publish() *)
LEMMA PublishByHandleFlow ==
  ASSUME MemoryInv, FlowInv, Ids, NEW p \in Publishers, PublishByHandle(p)
  PROVE  FlowInv' /\ FlowStep
<1> DEFINE v == Asked(handle[p].topic, <<p, count'[p]>>, handle[p].cached_on_drop)
<1>1. p \in Threads /\ Fields /\ HandleOf(p)
  BY DEF Threads, FlowInv
<1>2. /\ pc[p] = "idle" /\ handle[p] # NoHandle /\ count[p] < MaxPublishes
      /\ count' = [count EXCEPT ![p] = @ + 1] /\ request' = [request EXCEPT ![p] = v]
      /\ pc' = [pc EXCEPT ![p] = "h_acquire"]
      /\ UNCHANGED <<registryVars, body, queue, own, handle, flowVars>>
  BY DEF PublishByHandle, Goto, poolVars
<1>3. count'[p] \in 1..MaxPublishes /\ count' \in [Publishers -> Nat]
  BY <1>1, <1>2, BoundAssumption DEF Fields
<1>4. <<p, count'[p]>> \in Data
  BY <1>3 DEF Data
<1>5. v \in Values /\ v.exact = {v.text} /\ v.text = handle[p].topic
  BY <1>1, <1>2, <1>4 DEF Asked, Values, HandleOf
<1> HIDE DEF v
<1>6. /\ pc'[p] = "h_acquire" /\ request'[p] = v
      /\ tid'[p] = tid[p] /\ asked'[p] = asked[p] /\ handle'[p] = handle[p]
      /\ \A u \in Threads \ {p} : pc'[u] = pc[u]
  BY <1>1, <1>2 DEF Fields, registryVars, MemoryInv, MemoryTypeOK
<1>7. OthersSame(p)
  BY <1>1, <1>2, <1>6 DEF OthersSame, Fields, registryVars
<1>8. Fields'
  BY <1>1, <1>2, <1>3 DEF Fields, registryVars
<1>9. asked[p] = NoTopic
  BY <1>2 DEF FlowInv, RequestOf
<1>10. RequestOf(p)'
  BY <1>5, <1>6, <1>9 DEF RequestOf
<1>11. HandleOf(p)'
  <2>1. \A id, topic : IdOf(id, topic)' = IdOf(id, topic)
    BY <1>2 DEF IdOf, registryVars
  <2>2. QED
    BY <1>1, <1>2, <1>5, <1>6, <2>1 DEF HandleOf
<1>12. /\ FlowInv' /\ queueBar' = queueBar /\ atBar' = atBar
       /\ requestBar' = [requestBar EXCEPT ![p] = AskedOf(p)'] /\ requestBar[p] = AskedOf(p)
  BY <1>2, <1>6, <1>7, <1>8, <1>10, <1>11, NoMessageYet DEF NoPointers
<1>13. AskedOf(p) = NoHandle /\ AskedOf(p)' = v
  BY <1>2, <1>6 DEF AskedOf, Publishing
<1>14. Flow!Ask(p)
  BY <1>2, <1>5, <1>12, <1>13 DEF Flow!Ask, requestBar, queueBar, atBar, flowVars
<1>15. QED
  BY <1>12, <1>14 DEF FlowStep, Flow!FlowNext

(* resolve() answers with the id of the topic, or looks again. *)
LEMMA ResolveAnswers ==
  ASSUME FlowInv, Ids, NEW p \in Publishers, NEW next, NEW text, text = request[p].text,
         \/ FindNothing(p, text) /\ UNCHANGED pc
         \/ /\ Find(p, text) \/ Register(p) \/ FindRegistered(p)
            /\ Goto(p, next)
  PROVE  \/ /\ asked' = [asked EXCEPT ![p] = text] /\ pc' = pc
            /\ tid' = [tid EXCEPT ![p] = kInvalidTopicId]
         \/ /\ pc' = [pc EXCEPT ![p] = next]
            /\ asked' = [asked EXCEPT ![p] = NoTopic]
            /\ \E id \in DOMAIN id_to_sv' :
                 tid' = [tid EXCEPT ![p] = id] /\ id_to_sv'[id] = text
<1>1. Fields /\ RequestOf(p)
  BY DEF FlowInv
<1>2. CASE FindNothing(p, text) /\ UNCHANGED pc
  BY <1>2 DEF FindNothing
<1>3. CASE Find(p, text) /\ Goto(p, next)
  <2>1. map[text] \in DOMAIN id_to_sv' /\ id_to_sv'[map[text]] = text
    BY <1>3 DEF Find, Ids, RegistryInv, OneIdPerTopic
  <2>2. asked[p] = NoTopic /\ asked' = asked
    BY <1>3 DEF Find
  <2>3. asked' = [asked EXCEPT ![p] = NoTopic]
    BY <1>1, <2>2 DEF Ids, RegistryInv, RegistryTypeOK
  <2>4. QED
    BY <1>3, <2>1, <2>3 DEF Find, Goto
<1>4. CASE Register(p) /\ Goto(p, next)
  <2>1. asked[p] = text
    BY <1>1, <1>4 DEF Register, RequestOf
  <2>2. id_to_sv' = Extended(id_to_sv, next_id, text)
    BY <1>4, <2>1 DEF Register
  <2>3. next_id \in DOMAIN id_to_sv' /\ id_to_sv'[next_id] = text
    BY <2>2 DEF Extended
  <2>4. QED
    BY <1>4, <2>3 DEF Register, Answer, Goto
<1>5. CASE FindRegistered(p) /\ Goto(p, next)
  <2>1. asked[p] = text
    BY <1>1, <1>5 DEF FindRegistered, RequestOf
  <2>2. map[text] \in DOMAIN id_to_sv' /\ id_to_sv'[map[text]] = text
    BY <1>5, <2>1 DEF FindRegistered, Ids, RegistryInv, OneIdPerTopic
  <2>3. QED
    BY <1>5, <2>1, <2>2 DEF FindRegistered, Answer, Goto
<1>6. QED
  BY <1>2, <1>3, <1>4, <1>5

(* MessageFlow sees nothing of it. *)
LEMMA ResolveFlow ==
  ASSUME MemoryInv, FlowInv, Ids, NEW p \in Publishers, ResolveStep(p)
  PROVE  FlowInv' /\ FlowStep
<1>1. p \in Threads /\ Fields /\ RequestOf(p) /\ HandleOf(p)
  BY DEF Threads, FlowInv
<1>2. /\ pc[p] \in {"resolve", "topic"}
      /\ UNCHANGED <<body, queue, own, handle, count, request, flowVars>>
  BY DEF ResolveStep, poolVars, callVars
<1>3. pc \in [Threads -> Steps] /\ asked \in [Publishers -> Topics \cup {NoTopic}]
      /\ tid \in [Publishers -> Nat]
  BY DEF MemoryInv, MemoryTypeOK, Ids, RegistryInv, RegistryTypeOK, Publishers
<1> PICK text : text = request[p].text
  OBVIOUS
<1> PICK next : next = IF pc[p] = "topic" THEN "make_handle" ELSE "acquire"
  OBVIOUS
<1>4. \/ /\ asked' = [asked EXCEPT ![p] = text] /\ pc' = pc
         /\ tid' = [tid EXCEPT ![p] = kInvalidTopicId]
      \/ /\ pc' = [pc EXCEPT ![p] = next]
         /\ asked' = [asked EXCEPT ![p] = NoTopic]
         /\ \E id \in DOMAIN id_to_sv' :
              tid' = [tid EXCEPT ![p] = id] /\ id_to_sv'[id] = text
  BY ResolveAnswers DEF ResolveStep
<1>5. /\ DOMAIN asked' = Publishers /\ DOMAIN tid' = Publishers
      /\ \A q \in Publishers \ {p} : asked'[q] = asked[q] /\ tid'[q] = tid[q]
      /\ \A u \in Threads \ {p} : pc'[u] = pc[u]
  BY <1>3, <1>4
<1>6. \/ pc'[p] = pc[p] /\ asked'[p] = text
      \/ /\ pc'[p] = next /\ asked'[p] = NoTopic
         /\ tid'[p] \in DOMAIN id_to_sv' /\ id_to_sv'[tid'[p]] = text
  BY <1>1, <1>3, <1>4
<1>7. OthersSame(p) /\ Fields'
  BY <1>1, <1>2, <1>5 DEF OthersSame, Fields
<1>8. request'[p] = request[p] /\ handle'[p] = handle[p]
  BY <1>2
<1>9. RequestOf(p)'
  <2>1. pc'[p] \in Publishing => pc[p] \in Publishing
    BY <1>2, <1>6 DEF Publishing
  <2>2. pc'[p] \in {"acquire", "view", "make_handle"} => IdOf(tid[p], request[p].text)'
    BY <1>2, <1>6, <1>8 DEF IdOf
  <2>3. QED
    BY <1>1, <1>2, <1>6, <1>8, <2>1, <2>2 DEF RequestOf
<1>10. HandleOf(p)'
  <2>1. \A id, topic : IdOf(id, topic) => IdOf(id, topic)'
    BY DEF IdOf, Ids, IdsStay
  <2>2. pc[p] # "topic" => pc'[p] \notin {"topic", "make_handle"}
    BY <1>2, <1>6
  <2>3. QED
    BY <1>1, <1>2, <1>6, <1>8, <2>1, <2>2 DEF HandleOf
<1>11. AskedOf(p)' = AskedOf(p)
  BY <1>2, <1>6, <1>8 DEF AskedOf, Publishing
<1>12. pc[p] \in NoPointers /\ pc'[p] \in NoPointers
  BY <1>2, <1>6 DEF NoPointers
<1>13. QED
  BY <1>2, <1>7, <1>9, <1>10, <1>11, <1>12, NoMessageYet DEF FlowStep

(* What topic() returns has the id and the view of its topic. *)
LEMMA MakeHandleFlow ==
  ASSUME MemoryInv, FlowInv, Ids, NEW p \in Publishers, MakeHandle(p)
  PROVE  FlowInv' /\ FlowStep
<1> DEFINE h == [tid |-> tid[p], topic_sv |-> to_string(tid[p]), topic |-> request[p].text,
                 cached_on_drop |-> request[p].on_drop]
<1>1. p \in Threads /\ Fields /\ RequestOf(p) /\ HandleOf(p)
  BY DEF Threads, FlowInv
<1>2. /\ pc[p] = "make_handle"
      /\ handle' = [handle EXCEPT ![p] = h]
      /\ pc' = [pc EXCEPT ![p] = "idle"]
      /\ UNCHANGED <<registryVars, body, queue, own, count, request, flowVars>>
  BY DEF MakeHandle, Goto, poolVars
<1>3. /\ h.topic \in Topics /\ h.cached_on_drop \in Callbacks
      /\ IdOf(h.tid, h.topic) /\ h.topic_sv = h.topic
  BY <1>1, <1>2 DEF RequestOf, HandleOf, IdOf, to_string
<1> HIDE DEF h
<1>4. /\ pc'[p] = "idle" /\ handle'[p] = h /\ request'[p] = request[p]
      /\ tid'[p] = tid[p] /\ asked'[p] = asked[p]
      /\ \A u \in Threads \ {p} : pc'[u] = pc[u]
  BY <1>1, <1>2 DEF Fields, registryVars, MemoryInv, MemoryTypeOK
<1>5. OthersSame(p) /\ Fields'
  BY <1>1, <1>2, <1>4 DEF OthersSame, Fields, registryVars
<1>6. asked[p] = NoTopic
  BY <1>1, <1>2 DEF RequestOf
<1>7. RequestOf(p)'
  BY <1>4, <1>6 DEF RequestOf, Publishing
<1>8. HandleOf(p)'
  <2>1. \A id, topic : IdOf(id, topic)' = IdOf(id, topic)
    BY <1>2 DEF IdOf, registryVars
  <2>2. IdOf(handle[p].tid, handle[p].topic)'
    BY <1>2, <1>3, <1>4 DEF IdOf, registryVars
  <2>3. QED
    BY <1>3, <1>4, <2>2 DEF HandleOf
<1>9. AskedOf(p)' = AskedOf(p)
  BY <1>2, <1>4 DEF AskedOf, Publishing
<1>10. QED
  BY <1>2, <1>4, <1>5, <1>7, <1>8, <1>9, NoMessageYet DEF NoPointers, FlowStep

-----------------------------------------------------------------------------
(* Making a message                                                        *)

(* reset() of an object that nothing points to *)
LEMMA AcquireFlow ==
  ASSUME MemoryInv, FlowInv, Ids, NEW p \in Publishers, Acquire(p)
  PROVE  FlowInv' /\ FlowStep
<1>1. p \in Threads /\ p \notin Dispatchers /\ Fields /\ RequestOf(p) /\ HandleOf(p)
  BY DispatchersAssumption DEF Threads, FlowInv
<1>2. PICK o \in Objects :
        /\ IF freelist # <<>>
           THEN o = Head(freelist) /\ freelist' = Tail(freelist) /\ UNCHANGED allocated
           ELSE o \notin allocated /\ allocated' = allocated \cup {o} /\ UNCHANGED freelist
        /\ Filled(o, IF pc[p] = "acquire" THEN tid[p] ELSE handle[p].tid, request[p].data)
        /\ own' = [own EXCEPT ![p] = <<o>>]
  BY DEF Acquire
<1>3. /\ pc[p] \in {"acquire", "h_acquire"}
      /\ pc' = [pc EXCEPT ![p] = IF pc[p] = "acquire" THEN "view" ELSE "h_view"]
      /\ UNCHANGED <<registryVars, queue, callVars, flowVars>>
  BY DEF Acquire, Goto
<1>4. /\ pc \in [Threads -> Steps] /\ own \in [Threads -> Seq(Objects)]
      /\ freelist \in Seq(Objects)
  BY DEF MemoryInv, MemoryTypeOK
<1>5. ~In(queue, o) /\ \A u \in Threads : ~In(own[u], o)
  <2>1. freelist # <<>> => In(freelist, Head(freelist))
    <3>1. freelist # <<>> => 1 \in DOMAIN freelist /\ Head(freelist) = freelist[1]
      BY <1>4
    <3>2. QED
      BY <3>1 DEF In
  <2>2. In(freelist, o) \/ o \notin allocated
    BY <1>2, <2>1
  <2>3. QED
    BY <2>2 DEF MemoryInv, Somewhere
<1>6. /\ own'[p] = <<o>> /\ own'[p][1] = o /\ DOMAIN own'[p] = {1}
      /\ pc'[p] = IF pc[p] = "acquire" THEN "view" ELSE "h_view"
      /\ \A u \in Threads \ {p} : own'[u] = own[u] /\ pc'[u] = pc[u]
  BY <1>1, <1>2, <1>3, <1>4
<1>7. OthersSame(p)
  BY <1>3, <1>6 DEF OthersSame, registryVars, callVars
<1>8. \A x \in Objects : x # o => body'[x] = body[x]
  BY <1>1, <1>2 DEF Filled, Fields
<1>9. BodiesSame(p)
  <2>1. \A i \in DOMAIN queue : queue[i] \in Objects /\ queue[i] # o
    BY <1>5 DEF MemoryInv, MemoryTypeOK, In
  <2>2. \A u \in Threads : \A i \in Live(u) : own[u][i] \in Objects /\ own[u][i] # o
    BY <1>5, LiveIs DEF LiveAre, Live, In
  <2>3. QED
    BY <1>8, <2>1, <2>2 DEF BodiesSame
<1>10. Fields'
  BY <1>1, <1>2, <1>3 DEF Fields, Filled, registryVars, callVars
<1>11. Live(p)' = {1}
  BY <1>6 DEF Live, Filling
<1>12. Apart'
  BY <1>1, <1>3, <1>5, <1>6, <1>7, <1>11, ApartNew DEF FlowInv
<1>13. /\ request'[p] = request[p] /\ handle'[p] = handle[p]
       /\ tid'[p] = tid[p] /\ asked'[p] = asked[p]
       /\ \A id, topic : IdOf(id, topic)' = IdOf(id, topic)
  BY <1>3 DEF registryVars, callVars, IdOf
<1>14. ContentOf(p)'
  <2>1. body'[o] = [topic_id |-> IF pc[p] = "acquire" THEN tid[p] ELSE handle[p].tid,
                    data |-> request[p].data, on_drop |-> NoCallback,
                    topic_sv |-> IF o \in allocated THEN body[o].topic_sv ELSE NoTopic]
    BY <1>1, <1>2 DEF Filled, Fields
  <2>2. body'[o] = [topic_id |-> IF pc[p] = "acquire" THEN tid[p] ELSE handle[p].tid,
                    data |-> request[p].data, on_drop |-> NoCallback,
                    topic_sv |-> body'[o].topic_sv]
    BY <2>1
  <2>3. pc'[p] \in Filling /\ pc'[p] \notin Entering /\ (pc'[p] = "view" <=> pc[p] = "acquire")
    BY <1>3, <1>6 DEF Filling, Entering
  <2>4. body'[own'[p][1]] = [topic_id |-> IF pc'[p] = "view" THEN tid'[p] ELSE handle'[p].tid,
                             data |-> request'[p].data, on_drop |-> NoCallback,
                             topic_sv |-> body'[own'[p][1]].topic_sv]
    BY <1>6, <1>13, <2>2, <2>3
  <2>5. QED
    BY <2>3, <2>4 DEF ContentOf
<1>15. RequestOf(p)'
  BY <1>1, <1>3, <1>6, <1>13 DEF RequestOf, Publishing
<1>16. HandleOf(p)'
  BY <1>1, <1>3, <1>6, <1>13 DEF HandleOf
<1>17. queueBar' = queueBar /\ QueueCarries'
  BY <1>1, <1>3, <1>9, QueueSame
<1>18. /\ FlowInv' /\ atBar' = [atBar EXCEPT ![p] = SeenOf(p)'] /\ atBar[p] = SeenOf(p)
       /\ requestBar' = [requestBar EXCEPT ![p] = AskedOf(p)'] /\ requestBar[p] = AskedOf(p)
  BY <1>1, <1>7, <1>9, <1>10, <1>12, <1>14, <1>15, <1>16, <1>17, FlowParts DEF Rest
<1>19. SeenOf(p)' = SeenOf(p) /\ AskedOf(p)' = AskedOf(p)
  BY <1>3, <1>6, <1>13 DEF SeenOf, AskedOf, Publishing
<1>20. atBar' = atBar /\ requestBar' = requestBar
  BY <1>18, <1>19 DEF atBar, requestBar
<1>21. QED
  BY <1>3, <1>17, <1>18, <1>20, FlowSame DEF FlowStep

(* The view and the callback complete it: it is what was asked for. *)
LEMMA AdoptFlow ==
  ASSUME MemoryInv, FlowInv, Ids, NEW p \in Publishers, Adopt(p)
  PROVE  FlowInv' /\ FlowStep
<1>1. p \in Threads /\ Fields /\ RequestOf(p) /\ HandleOf(p) /\ ContentOf(p)
  BY DEF Threads, FlowInv
<1>2. /\ pc[p] \in {"view", "h_view"}
      /\ pc' = [pc EXCEPT ![p] = IF policy = "DropOldest" THEN "lock" ELSE "try"]
      /\ UNCHANGED <<registryVars, queue, own, callVars, flowVars>>
  BY DEF Adopt, Goto
<1>3. pc \in [Threads -> Steps]
  BY DEF MemoryInv, MemoryTypeOK
<1>4. Live(p) = {1} /\ own[p][1] \in Objects /\ In(own[p], own[p][1]) /\ Len(own[p]) = 1
  BY <1>1, <1>2, LiveIs DEF LiveAre, Filling
<1> PICK o \in Objects : o = own[p][1]
  BY <1>4
<1> DEFINE id == IF pc[p] = "view" THEN tid[p] ELSE handle[p].tid
           sv == IF pc[p] = "view" THEN to_string(tid[p]) ELSE handle[p].topic_sv
           r == request[p]
           old == body[o].topic_sv
<1>5. Head(own[p]) = o
  BY <1>1, <1>4, Short DEF MemoryInv, MemoryTypeOK
<1>6. body[o] = [topic_id |-> id, data |-> r.data, on_drop |-> NoCallback, topic_sv |-> old]
  BY <1>1, <1>2 DEF ContentOf, Filling
<1>7. IdOf(id, r.text) /\ sv = r.text /\ r \in Values /\ r.exact = {r.text}
  BY <1>1, <1>2 DEF RequestOf, HandleOf, IdOf, to_string, Publishing
<1>8. body'[o] = [topic_id |-> id, data |-> r.data, on_drop |-> r.on_drop, topic_sv |-> sv]
  <2>1. body' = [body EXCEPT ![o].topic_sv = sv,
                             ![o].on_drop = IF pc[p] = "view" /\ r.on_drop = NoCallback
                                            THEN @ ELSE r.on_drop]
    BY <1>5 DEF Adopt
  <2> HIDE DEF id, sv, r, old
  <2>2. body'[o] = [body[o] EXCEPT !.topic_sv = sv,
                                   !.on_drop = IF pc[p] = "view" /\ r.on_drop = NoCallback
                                               THEN @ ELSE r.on_drop]
    BY <1>1, <2>1 DEF Fields
  <2>3. PICK b : b = body[o]
    OBVIOUS
  <2>4. b = [topic_id |-> id, data |-> r.data, on_drop |-> NoCallback, topic_sv |-> old]
    BY <1>6, <2>3
  <2>5. body'[o] = [b EXCEPT !.topic_sv = sv,
                             !.on_drop = IF pc[p] = "view" /\ r.on_drop = NoCallback
                                         THEN @ ELSE r.on_drop]
    BY <2>2, <2>3
  <2>6. body'[o] = [topic_id |-> id, data |-> r.data, topic_sv |-> sv,
                    on_drop |-> IF pc[p] = "view" /\ r.on_drop = NoCallback
                                THEN NoCallback ELSE r.on_drop]
    BY <2>4, <2>5
  <2>7. QED
    BY <2>6
<1>9. \A x \in Objects : x # o => body'[x] = body[x]
  BY <1>1, <1>5 DEF Adopt, Fields
<1>10. Value(o)' = r /\ Carries(o)'
  <2>1. id \in DOMAIN id_to_sv' /\ id_to_sv'[id] = r.text
    BY <1>7 DEF Ids, IdsStay, IdOf
  <2>2. NamedAre'
    BY NamedIs, PTL DEF Ids
  <2>3. \A x \in DOMAIN id_to_sv' : {topic \in Registered' : map'[topic] = x} = {id_to_sv'[x]}
    BY <2>2 DEF NamedAre, Named
  <2>4. Value(o)' = [exact |-> {topic \in Registered' : map'[topic] = body'[o].topic_id},
                     text |-> body'[o].topic_sv, data |-> body'[o].data,
                     on_drop |-> body'[o].on_drop]
    BY DEF Value, Named
  <2> HIDE DEF id, sv, r, old
  <2>5. body'[o].topic_id = id /\ body'[o].topic_sv = r.text /\ body'[o].data = r.data
        /\ body'[o].on_drop = r.on_drop
    BY <1>7, <1>8
  <2>6. {topic \in Registered' : map'[topic] = body'[o].topic_id} = r.exact
    BY <1>7, <2>1, <2>3, <2>5
  <2>7. Value(o)' = [exact |-> r.exact, text |-> r.text, data |-> r.data, on_drop |-> r.on_drop]
    BY <2>4, <2>5, <2>6
  <2>8. r = [exact |-> r.exact, text |-> r.text, data |-> r.data, on_drop |-> r.on_drop]
    BY <1>7 DEF Values
  <2>9. Value(o)' = r
    BY <2>7, <2>8
  <2>10. QED
    BY <1>7, <2>1, <2>5, <2>9 DEF Carries, Values
<1>11. /\ pc'[p] \in {"lock", "try"}
       /\ \A u \in Threads \ {p} : own'[u] = own[u] /\ pc'[u] = pc[u]
  BY <1>1, <1>2, <1>3
<1>12. OthersSame(p) /\ Fields'
  <2>1. OthersSame(p)
    BY <1>2, <1>11 DEF OthersSame, registryVars, callVars
  <2>2. DOMAIN body' = Objects
    BY <1>1 DEF Adopt, Fields
  <2>3. QED
    BY <1>1, <1>2, <2>1, <2>2 DEF Fields, registryVars, callVars
<1>13. BodiesSame(p)
  <2>1. ~In(queue, o) /\ \A u \in Threads \ {p} : \A i \in Live(u) : own[u][i] # o
    BY <1>1, <1>4 DEF FlowInv, Apart
  <2>2. \A i \in DOMAIN queue : queue[i] \in Objects /\ queue[i] # o
    BY <2>1 DEF MemoryInv, MemoryTypeOK, In
  <2>3. \A u \in Threads : \A i \in Live(u) : own[u][i] \in Objects
    BY LiveIs DEF LiveAre
  <2>4. QED
    BY <1>9, <2>1, <2>2, <2>3 DEF BodiesSame
<1>14. Live(p)' = {1} /\ own'[p][1] = o
  <2>1. DOMAIN own[p] = {1}
    BY <1>1, <1>4 DEF MemoryInv, MemoryTypeOK
  <2>2. DOMAIN own'[p] = {1} /\ own'[p] = own[p]
    BY <1>2, <2>1
  <2>3. QED
    BY <1>11, <2>2 DEF Live, Filling, Entering
<1>15. Apart'
  BY <1>1, <1>2, <1>4, <1>12, <1>14, ApartQuiet DEF FlowInv
<1>16. /\ request'[p] = request[p] /\ handle'[p] = handle[p]
       /\ tid'[p] = tid[p] /\ asked'[p] = asked[p]
       /\ \A i, topic : IdOf(i, topic)' = IdOf(i, topic)
  BY <1>2 DEF registryVars, callVars, IdOf
<1>17. ContentOf(p)'
  <2>1. pc'[p] \notin Filling
    BY <1>11 DEF Filling
  <2>2. (Carries(own[p][1]))' /\ Value(own[p][1])' = request'[p]
    BY <1>10, <1>14, <1>16 DEF Carries, Value
  <2>3. QED
    BY <1>14, <2>1, <2>2 DEF ContentOf
<1>18. RequestOf(p)'
  BY <1>1, <1>2, <1>11, <1>16 DEF RequestOf, Publishing
<1>19. HandleOf(p)'
  BY <1>1, <1>11, <1>16 DEF HandleOf
<1>20. queueBar' = queueBar /\ QueueCarries'
  BY <1>1, <1>2, <1>13, QueueSame
<1>21. /\ FlowInv' /\ atBar' = [atBar EXCEPT ![p] = SeenOf(p)'] /\ atBar[p] = SeenOf(p)
       /\ requestBar' = [requestBar EXCEPT ![p] = AskedOf(p)'] /\ requestBar[p] = AskedOf(p)
  BY <1>1, <1>12, <1>13, <1>15, <1>17, <1>18, <1>19, <1>20, FlowParts DEF Rest
<1>22. SeenOf(p)' = SeenOf(p) /\ AskedOf(p)' = AskedOf(p)
  BY <1>2, <1>11, <1>16 DEF SeenOf, AskedOf, Publishing
<1>23. atBar' = atBar /\ requestBar' = requestBar
  BY <1>21, <1>22 DEF atBar, requestBar
<1>24. QED
  BY <1>2, <1>20, <1>21, <1>23, FlowSame DEF FlowStep

-----------------------------------------------------------------------------
(* Reading and passing on a message                                        *)

(* What MessageFlow sees change in a step of thread t *)
SeesOnly(t) ==
  /\ atBar' = [atBar EXCEPT ![t] = SeenOf(t)'] /\ atBar[t] = SeenOf(t)
  /\ t \in Publishers => /\ requestBar' = [requestBar EXCEPT ![t] = AskedOf(t)']
                         /\ requestBar[t] = AskedOf(t)
  /\ t \notin Publishers => requestBar' = requestBar

(* t is, or will be, at the steps of enqueueMessage(), of a dispatcher or of *)
(* a release, and makes nothing alive but what it takes from the queue.      *)
LEMMA PassesOn ==
  ASSUME MemoryInv, MemoryInv', FlowInv, Ids, NEW t \in Threads, OthersSame(t), BodiesSame(t),
         UNCHANGED <<registryVars, callVars>>, DOMAIN body' = Objects,
         Apart', QueueCarries',
         \/ pc[t] \notin Filling \cup NoPointers
         \/ pc[t] = "idle",
         pc'[t] \notin (Filling \cup NoPointers) \ {"idle"},
         \A i \in Live(t)' :
           \/ i \in Live(t) /\ own'[t][i] = own[t][i] /\ body'[own[t][i]] = body[own[t][i]]
           \/ i = Len(own'[t]) /\ pc'[t] \in {"notify", "dispatch"} /\ (Carries(Last(own[t])))',
         pc'[t] \in Entering => pc[t] \in Entering /\ own'[t][1] = own[t][1]
                                /\ body'[own[t][1]] = body[own[t][1]]
  PROVE  FlowInv' /\ SeesOnly(t)
<1>1. Fields /\ ContentOf(t) /\ LiveAre /\ LiveAre'
  <2>1. LiveAre /\ LiveAre'
    BY LiveIs, PTL
  <2>2. QED
    BY <2>1 DEF FlowInv
<1>2. \A x : Carries(x) /\ body'[x] = body[x] => Carries(x)' /\ Value(x)' = Value(x)
  BY KeepsValue DEF Ids
<1>3. Fields'
  BY <1>1 DEF Fields, registryVars, callVars
<1>4. pc'[t] \notin Filling
  BY DEF Filling, NoPointers
<1>5. ASSUME NEW i \in Live(t), pc[t] \notin Filling, NEW x, x = own[t][i], body'[x] = body[x]
      PROVE  Carries(x)' /\ Value(x)' = Value(x)
  BY <1>1, <1>2, <1>5 DEF ContentOf
<1>6. Live(t) # {} => pc[t] \notin {"idle"}
  BY <1>1 DEF LiveAre, Filling, Entering
<1>7. \A i \in Live(t)' : (Carries(own[t][i]))'
  <2> SUFFICES ASSUME NEW i \in Live(t)' PROVE (Carries(own[t][i]))'
    OBVIOUS
  <2>1. PICK x : x = own'[t][i]
    OBVIOUS
  <2>2. CASE i \in Live(t) /\ own'[t][i] = own[t][i] /\ body'[own[t][i]] = body[own[t][i]]
    <3>1. pc[t] \notin Filling
      BY <1>6, <2>2
    <3>2. x = own[t][i] /\ body'[x] = body[x]
      BY <2>1, <2>2
    <3>3. Carries(x)'
      BY <1>5, <2>2, <3>1, <3>2
    <3>4. QED
      BY <2>1, <3>3 DEF Carries, Value
  <2>3. CASE i = Len(own'[t]) /\ pc'[t] \in {"notify", "dispatch"} /\ (Carries(Last(own[t])))'
    <3>1. Last(own'[t]) = own'[t][i]
      BY <2>3 DEF Last
    <3>2. QED
      BY <2>3, <3>1 DEF Carries, Value
  <2>4. QED
    BY <2>2, <2>3
<1>8. pc'[t] \in Entering => (Value(own[t][1]) = request[t])'
  <2> SUFFICES ASSUME pc'[t] \in Entering PROVE (Value(own[t][1]) = request[t])'
    OBVIOUS
  <2>1. /\ pc[t] \in Entering /\ own'[t][1] = own[t][1] /\ body'[own[t][1]] = body[own[t][1]]
    OBVIOUS
  <2>2. 1 \in Live(t) /\ t \in Publishers /\ pc[t] \notin Filling
    BY <1>1, <2>1 DEF LiveAre, Entering, Filling
  <2>3. PICK x : x = own[t][1]
    OBVIOUS
  <2>4. Value(x)' = Value(x)
    BY <1>5, <2>1, <2>2, <2>3
  <2>5. Value(x) = request[t] /\ request'[t] = request[t]
    BY <1>1, <2>1, <2>3 DEF ContentOf, callVars
  <2>6. own'[t][1] = x
    BY <2>1, <2>3
  <2>7. QED
    BY <2>4, <2>5, <2>6 DEF Value
<1>9. ContentOf(t)'
  BY <1>4, <1>7, <1>8 DEF ContentOf
<1>10. ASSUME t \in Publishers PROVE RequestOf(t)' /\ HandleOf(t)'
  <2>1. RequestOf(t) /\ HandleOf(t)
    BY <1>10 DEF FlowInv
  <2>2. /\ request'[t] = request[t] /\ handle'[t] = handle[t] /\ asked'[t] = asked[t]
        /\ \A i, topic : IdOf(i, topic)' = IdOf(i, topic)
    BY DEF registryVars, callVars, IdOf
  <2>3. asked[t] = NoTopic
    BY <2>1 DEF RequestOf, NoPointers
  <2>4. pc'[t] \in Publishing => pc[t] \in Publishing
    BY <1>4 DEF Publishing, Entering, NoPointers, Filling
  <2>5. pc'[t] \notin {"acquire", "view", "make_handle", "topic", "h_acquire", "h_view"}
    BY DEF Filling, NoPointers
  <2>6. RequestOf(t)'
    BY <2>1, <2>2, <2>3, <2>4, <2>5 DEF RequestOf
  <2>7. HandleOf(t)'
    BY <2>1, <2>2, <2>5 DEF HandleOf
  <2>8. QED
    BY <2>6, <2>7
<1>11. QED
  BY <1>3, <1>9, <1>10, FlowParts DEF Rest, SeesOnly

(* ... with the queue as it is *)
LEMMA Keeps ==
  ASSUME MemoryInv, MemoryInv', FlowInv, Ids, NEW t \in Threads, OthersSame(t), BodiesSame(t),
         UNCHANGED <<registryVars, callVars, queue>>, DOMAIN body' = Objects,
         pc[t] \notin Filling \cup NoPointers,
         pc'[t] \notin (Filling \cup NoPointers) \ {"idle"},
         \A i \in Live(t)' :
           i \in Live(t) /\ own'[t][i] = own[t][i] /\ body'[own[t][i]] = body[own[t][i]],
         pc'[t] \in Entering => pc[t] \in Entering /\ own'[t][1] = own[t][1]
                                /\ body'[own[t][1]] = body[own[t][1]]
  PROVE  /\ FlowInv' /\ SeesOnly(t) /\ queueBar' = queueBar
         /\ /\ SeenOf(t)' = SeenOf(t) /\ AskedOf(t)' = AskedOf(t)
            /\ UNCHANGED flowVars
            => UNCHANGED Flow!flowVars
<1>1. queueBar' = queueBar /\ QueueCarries'
  BY QueueSame
<1>2. Apart'
  BY ApartQuiet DEF FlowInv
<1>3. FlowInv' /\ SeesOnly(t)
  BY <1>1, <1>2, PassesOn
<1>4. SeenOf(t)' = SeenOf(t) => atBar' = atBar
  BY <1>3 DEF SeesOnly, atBar
<1>5. AskedOf(t)' = AskedOf(t) => requestBar' = requestBar
  BY <1>3 DEF SeesOnly, requestBar
<1>6. QED
  BY <1>1, <1>3, <1>4, <1>5, FlowSame

(* What the steps of enqueueMessage() have in common *)
LEMMA PublisherFrame ==
  ASSUME MemoryInv, FlowInv, NEW t \in Threads, NEW step, pc' = [pc EXCEPT ![t] = step],
         NEW s, own' = [own EXCEPT ![t] = s], UNCHANGED <<registryVars, callVars>>
  PROVE  OthersSame(t) /\ pc'[t] = step /\ own'[t] = s
  BY DEF MemoryInv, MemoryTypeOK, OthersSame, registryVars, callVars

(* A step that writes no object *)
LEMMA SameBodies ==
  ASSUME FlowInv, NEW t, UNCHANGED body
  PROVE  BodiesSame(t) /\ DOMAIN body' = Objects /\ \A x : body'[x] = body[x]
  BY DEF FlowInv, Fields, BodiesSame

(* An unchanged sequence of pointers *)
LEMMA OwnSame ==
  ASSUME MemoryInv, NEW t, UNCHANGED own
  PROVE  own' = [own EXCEPT ![t] = own[t]]
  BY DEF MemoryInv, MemoryTypeOK

(* lock_guard of publish_mutex_ *)
LEMMA LockPublishFlow ==
  ASSUME MemoryInv, MemoryInv', FlowInv, Ids, NEW p \in Publishers, LockPublish(p)
  PROVE  FlowInv' /\ FlowStep
<1>1. /\ pc[p] = "lock" /\ pc' = [pc EXCEPT ![p] = "try"]
      /\ UNCHANGED <<registryVars, body, queue, own, callVars, flowVars>>
  BY DEF LockPublish, Goto, poolVars
<1>2. p \in Threads
  BY DEF Threads
<1>3. OthersSame(p) /\ pc'[p] = "try" /\ own'[p] = own[p]
  BY <1>1, <1>2, OwnSame, PublisherFrame
<1>4. BodiesSame(p) /\ DOMAIN body' = Objects /\ \A x : body'[x] = body[x]
  BY <1>1, SameBodies
<1>5. LiveAre /\ LiveAre'
  BY LiveIs, PTL
<1>6. Live(p) = {1} /\ Live(p)' = {1}
  BY <1>1, <1>2, <1>3, <1>5 DEF LiveAre
<1>7. SeenOf(p)' = SeenOf(p) /\ AskedOf(p)' = AskedOf(p)
  BY <1>1, <1>3 DEF SeenOf, AskedOf, Publishing, callVars
<1>8. pc[p] \notin Filling \cup NoPointers /\ pc'[p] \notin Filling \cup NoPointers
      /\ pc[p] \in Entering
  BY <1>1, <1>3 DEF Filling, NoPointers, Entering
<1>9. QED
  BY <1>1, <1>2, <1>3, <1>4, <1>6, <1>7, <1>8, Keeps DEF FlowStep

(* The queue is full: the publication is refused, or goes on to drop one. *)
LEMMA QueueFullFlow ==
  ASSUME MemoryInv, MemoryInv', FlowInv, Ids, NEW p \in Publishers, QueueFull(p)
  PROVE  FlowInv' /\ FlowStep
<1> DEFINE step == CASE policy = "DropOldest" -> "evict"
                     [] policy = "DropNewest" -> "notify"
                     [] OTHER -> "release"
<1>1. /\ pc[p] = "try" /\ pc' = [pc EXCEPT ![p] = step] /\ Len(queue) = QueueCapacity
      /\ UNCHANGED <<registryVars, body, queue, own, callVars, flowVars>>
  BY DEF QueueFull, Goto, poolVars
<1>2. p \in Threads
  BY DEF Threads
<1>3. OthersSame(p) /\ pc'[p] = step /\ own'[p] = own[p]
  BY <1>1, <1>2, OwnSame, PublisherFrame
<1>4. step \in {"evict", "notify", "release"}
  OBVIOUS
<1> HIDE DEF step
<1>5. BodiesSame(p) /\ DOMAIN body' = Objects /\ \A x : body'[x] = body[x]
  BY <1>1, SameBodies
<1>6. LiveAre /\ LiveAre'
  BY LiveIs, PTL
<1>7. Len(own[p]) # 2 /\ own[p] \in Seq(Objects)
  <2>1. PointersOf(p) /\ queue \in Seq(Objects)
    BY <1>2 DEF MemoryInv, PointersAt, MemoryTypeOK
  <2>2. Len(queue) \in Nat /\ Len(queue) = QueueCapacity
    BY <1>1, <2>1
  <2>3. QED
    BY <1>1, <1>2, <2>1, <2>2 DEF PointersOf, MemoryInv, MemoryTypeOK
<1>8. Live(p) = {1} /\ Live(p)' \subseteq {1}
  BY <1>1, <1>2, <1>3, <1>4, <1>6, <1>7 DEF LiveAre, Filling, Entering
<1>9. /\ pc[p] \notin Filling \cup NoPointers /\ pc'[p] \notin Filling \cup NoPointers
      /\ pc[p] \in Entering
  BY <1>1, <1>3, <1>4 DEF Filling, NoPointers, Entering
<1>10. /\ FlowInv' /\ SeesOnly(p) /\ queueBar' = queueBar
       /\ /\ SeenOf(p)' = SeenOf(p) /\ AskedOf(p)' = AskedOf(p)
          /\ UNCHANGED flowVars
          => UNCHANGED Flow!flowVars
  BY <1>1, <1>2, <1>3, <1>5, <1>8, <1>9, Keeps
<1>11. SeenOf(p)' = NoHandle /\ SeenOf(p) = NoHandle
  BY <1>1, <1>3, <1>4, <1>7 DEF SeenOf
<1>12. CASE pc'[p] # "release"
  <2>1. AskedOf(p)' = AskedOf(p)
    BY <1>1, <1>3, <1>4, <1>12 DEF AskedOf, Publishing, callVars
  <2>2. QED
    BY <1>1, <1>10, <1>11, <2>1 DEF FlowStep
<1>13. CASE pc'[p] = "release"
  <2>1. AskedOf(p) = request[p] /\ AskedOf(p)' = NoHandle /\ request[p] \in Values
    BY <1>1, <1>13 DEF AskedOf, Publishing, FlowInv, RequestOf
  <2>2. Flow!Refuse(p)
    <3>1. /\ requestBar[p] # NoHandle /\ requestBar' = [requestBar EXCEPT ![p] = NoHandle]
          /\ atBar' = atBar
      BY <1>10, <1>11, <2>1, NoHandleAssumption DEF SeesOnly, atBar
    <3>2. QED
      BY <1>1, <1>10, <3>1 DEF Flow!Refuse, Flow!Answered, requestBar, queueBar, atBar, flowVars
  <2>3. QED
    BY <1>10, <2>2 DEF FlowStep, Flow!FlowNext
<1>14. QED
  BY <1>12, <1>13

(* The queue has room: the message is accepted, as it was published. *)
LEMMA TryEnqueueFlow ==
  ASSUME MemoryInv, MemoryInv', FlowInv, Ids, NEW p \in Publishers, TryEnqueue(p)
  PROVE  FlowInv' /\ FlowStep
<1> DEFINE step == IF policy = "ReturnFalse" THEN "idle"
                   ELSE IF policy = "DropOldest" /\ Len(own[p]) = 1 THEN "unlock" ELSE "release"
           s == IF policy = "ReturnFalse" THEN <<>> ELSE own[p]
<1>1. p \in Threads
  BY DEF Threads
<1>2. own' = [own EXCEPT ![p] = s]
  BY OwnSame DEF TryEnqueue
<1>3. /\ pc[p] = "try" /\ pc' = [pc EXCEPT ![p] = step] /\ Len(queue) < QueueCapacity
      /\ queue' = Append(queue, Head(own[p]))
      /\ UNCHANGED <<registryVars, body, callVars, flowVars>>
  BY DEF TryEnqueue, Goto
<1>4. OthersSame(p) /\ pc'[p] = step
  BY <1>1, <1>2, <1>3, PublisherFrame
<1>5. step \in {"idle", "release", "unlock"}
  OBVIOUS
<1> HIDE DEF step, s
<1>6. BodiesSame(p) /\ DOMAIN body' = Objects /\ \A x : body'[x] = body[x]
  BY <1>3, SameBodies
<1>7. LiveAre /\ LiveAre'
  BY LiveIs, PTL
<1>8. Live(p) = {1} /\ own[p][1] \in Objects /\ Live(p)' = {}
  BY <1>1, <1>3, <1>4, <1>5, <1>7 DEF LiveAre, Filling, Entering
<1> PICK o \in Objects : o = own[p][1]
  BY <1>8
<1>9. Head(own[p]) = o
  <2>1. own[p] \in Seq(Objects) /\ (Len(own[p]) = 1 \/ Len(own[p]) = 2)
    BY <1>1, <1>3, HasPointers DEF NoPointers
  <2>2. QED
    BY <2>1, Short
<1>10. Carries(o) /\ Value(o) = request[p] /\ request[p] \in Values
  <2>1. ContentOf(p) /\ RequestOf(p)
    BY <1>1 DEF FlowInv
  <2>2. QED
    BY <1>3, <1>8, <2>1 DEF ContentOf, RequestOf, Filling, Entering, Publishing
<1>11. /\ queueBar' = Append(queueBar, Value(o)) /\ Len(queueBar) = Len(queue) /\ QueueCarries'
  BY <1>1, <1>3, <1>6, <1>9, <1>10, QueueAppend
<1>12. Apart'
  BY <1>1, <1>3, <1>4, <1>8, <1>9, ApartEnqueue DEF FlowInv
<1>13. /\ pc[p] \notin Filling \cup NoPointers /\ pc'[p] \notin (Filling \cup NoPointers) \ {"idle"}
       /\ pc'[p] \notin Entering
  BY <1>3, <1>4, <1>5 DEF Filling, NoPointers, Entering
<1>14. FlowInv' /\ SeesOnly(p)
  BY <1>1, <1>3, <1>4, <1>6, <1>8, <1>11, <1>12, <1>13, PassesOn
<1>15. /\ SeenOf(p) = NoHandle /\ SeenOf(p)' = NoHandle
       /\ AskedOf(p) = request[p] /\ AskedOf(p)' = NoHandle
  BY <1>3, <1>4, <1>5 DEF SeenOf, AskedOf, Publishing
<1>16. Flow!Accept(p)
  <2>1. /\ requestBar[p] # NoHandle /\ requestBar' = [requestBar EXCEPT ![p] = NoHandle]
        /\ queueBar' = Append(queueBar, requestBar[p]) /\ Len(queueBar) < QueueCapacity
        /\ atBar' = atBar
    BY <1>3, <1>10, <1>11, <1>14, <1>15, NoHandleAssumption DEF SeesOnly, atBar
  <2>2. QED
    BY <1>3, <2>1 DEF Flow!Accept, Flow!Answered, requestBar, queueBar, atBar, flowVars
<1>17. QED
  BY <1>14, <1>16 DEF FlowStep, Flow!FlowNext

-----------------------------------------------------------------------------
(* Taking a message from the queue, and dropping or handling it            *)

(* try_dequeue(): the thread reads what was at the head of the queue. *)
LEMMA TakeFlow ==
  ASSUME MemoryInv, MemoryInv', FlowInv, Ids, NEW t \in Threads,
         queue # <<>>, queue' = Tail(queue),
         own' = [own EXCEPT ![t] = Append(own[t], Head(queue))],
         \/ t \in Publishers /\ pc[t] = "evict" /\ pc' = [pc EXCEPT ![t] = "notify"]
         \/ t \in Dispatchers /\ pc[t] = "idle" /\ pc' = [pc EXCEPT ![t] = "dispatch"],
         UNCHANGED <<registryVars, body, callVars, flowVars>>
  PROVE  FlowInv' /\ Flow!Take(t)
<1>1. t \in Publishers => t \notin Dispatchers
  BY DispatchersAssumption
<1>2. /\ MemoryTypeOK /\ own[t] \in Seq(Objects)
      /\ pc[t] = "evict" => Len(own[t]) = 1
      /\ pc[t] = "idle" => own[t] = <<>>
  BY DEF MemoryInv, PointersAt, MemoryTypeOK, PointersOf, NoPointers, OnePointer
<1>3. Head(queue) \in Objects
  BY <1>2, TailAt DEF MemoryTypeOK
<1> PICK h \in Objects : h = Head(queue)
  BY <1>3
<1>4. OthersSame(t) /\ own'[t] = Append(own[t], h)
  BY PublisherFrame
<1>5. \/ pc[t] = "evict" /\ pc'[t] = "notify" /\ t \in Publishers
      \/ pc[t] = "idle" /\ pc'[t] = "dispatch" /\ t \in Dispatchers
  BY <1>2 DEF MemoryTypeOK
<1>6. /\ own[t] = <<>> => own'[t] = <<h>> /\ Len(own'[t]) = 1 /\ own'[t][1] = h
      /\ Len(own[t]) = 1 => Len(own'[t]) = 2 /\ own'[t][1] = own[t][1] /\ own'[t][2] = h
  BY <1>2, <1>4, OneMore
<1>7. BodiesSame(t) /\ DOMAIN body' = Objects /\ \A x : body'[x] = body[x]
  BY SameBodies
<1>8. LiveAre /\ LiveAre'
  BY LiveIs, PTL
<1> PICK n : n = IF pc[t] = "evict" THEN 2 ELSE 1
  OBVIOUS
<1>9. /\ Live(t)' = Live(t) \cup {n} /\ n \notin Live(t)
      /\ own'[t][n] = h /\ n = Len(own'[t]) /\ Last(own'[t]) = h
      /\ \A i \in Live(t) : own'[t][i] = own[t][i]
  <2>1. CASE pc[t] = "evict"
    <3>1. Len(own'[t]) = 2 /\ own'[t][1] = own[t][1] /\ own'[t][2] = h
      BY <1>2, <1>6, <2>1
    <3>2. Live(t) = {1}
      BY <1>8, <2>1 DEF LiveAre
    <3>3. Live(t)' = {1, 2} /\ Last(own'[t]) = own'[t][2]
      BY <1>5, <1>8, <2>1, <3>1 DEF LiveAre
    <3>4. QED
      BY <2>1, <3>1, <3>2, <3>3
  <2>2. CASE pc[t] = "idle"
    <3>1. Len(own'[t]) = 1 /\ own'[t][1] = h
      BY <1>2, <1>6, <2>2
    <3>2. Live(t) = {}
      BY <1>8, <2>2 DEF LiveAre, Filling, Entering
    <3>3. Live(t)' = {1} /\ Last(own'[t]) = own'[t][1]
      BY <1>5, <1>8, <2>2 DEF LiveAre
    <3>4. QED
      BY <2>2, <3>1, <3>2, <3>3
  <2>3. QED
    BY <1>5, <2>1, <2>2
<1>10. /\ queueBar # <<>> /\ queueBar' = Tail(queueBar) /\ Head(queueBar) = Value(h)
       /\ QueueCarries' /\ Carries(h)' /\ Value(h)' = Value(h) /\ Value(h) \in Values
  BY <1>7, QueueTail
<1>11. Apart'
  BY <1>4, <1>9, ApartTake DEF FlowInv
<1>12. (Carries(Last(own[t])))' /\ (Value(Last(own[t])))' = Value(h)
  BY <1>9, <1>10 DEF Carries, Value
<1>13. /\ pc[t] \notin Filling \cup NoPointers \/ pc[t] = "idle"
       /\ pc'[t] \notin (Filling \cup NoPointers) \ {"idle"}
       /\ pc'[t] \in Entering => pc[t] \in Entering /\ own'[t][1] = own[t][1]
  BY <1>2, <1>5, <1>6 DEF Filling, NoPointers, Entering
<1>14. \A i \in Live(t)' :
         \/ i \in Live(t) /\ own'[t][i] = own[t][i] /\ body'[own[t][i]] = body[own[t][i]]
         \/ i = Len(own'[t]) /\ pc'[t] \in {"notify", "dispatch"} /\ (Carries(Last(own[t])))'
  BY <1>5, <1>7, <1>9, <1>12
<1>15. FlowInv' /\ SeesOnly(t)
  BY <1>4, <1>7, <1>10, <1>11, <1>13, <1>14, PassesOn
<1>16. SeenOf(t) = NoHandle /\ SeenOf(t)' = Value(h)
  <2>1. SeenOf(t) = NoHandle
    BY <1>5 DEF SeenOf
  <2>2. pc'[t] = "dispatch" \/ (pc'[t] = "notify" /\ Len(own'[t]) = 2)
    BY <1>2, <1>5, <1>6
  <2>3. QED
    BY <1>12, <2>1, <2>2 DEF SeenOf
<1>17. requestBar' = requestBar
  <2>1. CASE t \in Publishers
    <3>1. AskedOf(t)' = AskedOf(t)
      BY <1>1, <1>5, <2>1 DEF AskedOf, Publishing, callVars
    <3>2. QED
      BY <1>15, <2>1, <3>1 DEF SeesOnly, requestBar
  <2>2. CASE t \notin Publishers
    BY <1>15, <2>2 DEF SeesOnly
  <2>3. QED
    BY <2>1, <2>2
<1>18. /\ atBar[t] = NoHandle /\ atBar' = [atBar EXCEPT ![t] = Head(queueBar)]
  BY <1>10, <1>15, <1>16 DEF SeesOnly
<1>19. Flow!Take(t)
  BY <1>10, <1>17, <1>18 DEF Flow!Take, requestBar, queueBar, atBar, flowVars
<1>20. QED
  BY <1>15, <1>19

(* enqueueMessage() makes room under DropOldest, or finds it made. *)
LEMMA EvictFlow ==
  ASSUME MemoryInv, MemoryInv', FlowInv, Ids, NEW p \in Publishers, Evict(p)
  PROVE  FlowInv' /\ FlowStep
<1>1. p \in Threads
  BY DEF Threads
<1>2. CASE queue = <<>>
  <2>1. /\ pc[p] = "evict" /\ pc' = [pc EXCEPT ![p] = "try"]
        /\ UNCHANGED <<registryVars, body, queue, own, callVars, flowVars>>
    BY <1>2 DEF Evict, Goto, poolVars
  <2>2. OthersSame(p) /\ pc'[p] = "try" /\ own'[p] = own[p]
    BY <1>1, <2>1, OwnSame, PublisherFrame
  <2>3. BodiesSame(p) /\ DOMAIN body' = Objects /\ \A x : body'[x] = body[x]
    BY <2>1, SameBodies
  <2>4. LiveAre /\ LiveAre'
    BY LiveIs, PTL
  <2>5. Live(p) = {1} /\ Live(p)' = {1}
    BY <1>1, <2>1, <2>2, <2>4 DEF LiveAre
  <2>6. SeenOf(p)' = SeenOf(p) /\ AskedOf(p)' = AskedOf(p)
    BY <2>1, <2>2 DEF SeenOf, AskedOf, Publishing, callVars
  <2>7. pc[p] \notin Filling \cup NoPointers /\ pc'[p] \notin Filling \cup NoPointers
        /\ pc[p] \in Entering
    BY <2>1, <2>2 DEF Filling, NoPointers, Entering
  <2>8. QED
    BY <1>1, <2>1, <2>2, <2>3, <2>5, <2>6, <2>7, Keeps DEF FlowStep
<1>3. CASE queue # <<>>
  <2>1. /\ own' = [own EXCEPT ![p] = Append(own[p], Head(queue))] /\ queue' = Tail(queue)
        /\ pc[p] = "evict" /\ pc' = [pc EXCEPT ![p] = "notify"]
        /\ UNCHANGED <<registryVars, body, callVars, flowVars>>
    BY <1>3 DEF Evict, Goto, poolVars
  <2>2. QED
    BY <1>1, <1>3, <2>1, TakeFlow DEF FlowStep, Flow!FlowNext
<1>4. QED
  BY <1>2, <1>3

(* A dispatcher takes the oldest message. *)
LEMMA DequeueFlow ==
  ASSUME MemoryInv, MemoryInv', FlowInv, Ids, NEW d \in Dispatchers, Dequeue(d)
  PROVE  FlowInv' /\ FlowStep
<1>1. d \in Threads
  BY DEF Threads
<1>2. own[d] = <<>> /\ queue \in Seq(Objects) /\ queue # <<>>
  BY <1>1 DEF Dequeue, MemoryInv, MemoryTypeOK, PointersAt, PointersOf, NoPointers
<1>3. Append(own[d], Head(queue)) = <<Head(queue)>>
  BY <1>2
<1>4. /\ own' = [own EXCEPT ![d] = Append(own[d], Head(queue))] /\ queue' = Tail(queue)
      /\ pc[d] = "idle" /\ pc' = [pc EXCEPT ![d] = "dispatch"]
      /\ UNCHANGED <<registryVars, body, callVars, flowVars>>
  BY <1>3 DEF Dequeue, Goto, poolVars
<1>5. QED
  BY <1>1, <1>2, <1>4, TakeFlow DEF FlowStep, Flow!FlowNext

(* notify_drop(): the callback of the message that is dropped is called     *)
(* with what was published with it.                                         *)
LEMMA NotifyDropFlow ==
  ASSUME MemoryInv, MemoryInv', FlowInv, Ids, NEW p \in Publishers, NotifyDrop(p)
  PROVE  FlowInv' /\ FlowStep
<1> DEFINE step == IF policy = "DropOldest" THEN "try" ELSE "release"
<1>1. p \in Threads /\ Fields /\ Apart /\ ContentOf(p) /\ RequestOf(p)
  BY DEF Threads, FlowInv
<1>2. /\ pc[p] = "notify" /\ pc' = [pc EXCEPT ![p] = step]
      /\ UNCHANGED <<registryVars, queue, own, callVars, handled>>
  BY DEF NotifyDrop, Goto
<1>3. OthersSame(p) /\ pc'[p] = step /\ own'[p] = own[p]
  <2>1. own' = [own EXCEPT ![p] = own[p]]
    BY <1>2, OwnSame
  <2> HIDE DEF step
  <2>2. QED
    BY <1>1, <1>2, <2>1, PublisherFrame
<1>4. LiveAre /\ LiveAre'
  BY LiveIs, PTL
<1>5. policy = "DropOldest" <=> Len(own[p]) = 2
  BY <1>1, <1>2 DEF MemoryInv, PointersAt, PointersOf
<1> PICK n : n = IF policy = "DropOldest" THEN 2 ELSE 1
  OBVIOUS
<1>6. n \in Live(p) /\ Last(own[p]) = own[p][n] /\ Live(p) = IF n = 2 THEN {1, 2} ELSE {1}
  BY <1>1, <1>2, <1>4, <1>5 DEF LiveAre
<1>7. Last(own[p]) \in Objects
  BY <1>1, <1>4, <1>6 DEF LiveAre
<1> PICK o \in Objects : o = Last(own[p])
  BY <1>7
<1>8. /\ dropped' = IF body[o].on_drop = NoCallback THEN dropped ELSE dropped \cup {Value(o)}
      /\ body' = [body EXCEPT ![o].on_drop = NoCallback]
  BY DEF NotifyDrop
<1>9. DOMAIN body' = Objects /\ \A x \in Objects : x # o => body'[x] = body[x]
  BY <1>1, <1>8 DEF Fields
<1>10. BodiesSame(p)
  <2>1. ~In(queue, o) /\ \A u \in Threads \ {p} : \A i \in Live(u) : own[u][i] # o
    BY <1>1, <1>6 DEF Apart
  <2>2. \A i \in DOMAIN queue : queue[i] \in Objects /\ queue[i] # o
    BY <2>1 DEF MemoryInv, MemoryTypeOK, In
  <2>3. \A u \in Threads : \A i \in Live(u) : own[u][i] \in Objects
    BY <1>4 DEF LiveAre
  <2>4. QED
    BY <1>9, <2>1, <2>2, <2>3 DEF BodiesSame
<1>11. \A i \in Live(p) : i # n => body'[own[p][i]] = body[own[p][i]]
  <2>1. \A i \in Live(p) : own[p][i] \in Objects /\ (i # n => own[p][i] # o)
    BY <1>1, <1>4, <1>6 DEF Apart, LiveAre
  <2>2. QED
    BY <1>9, <2>1
<1>12. Carries(o) /\ Value(o) \in Values /\ Value(o).on_drop = body[o].on_drop
  <2>1. Carries(o)
    BY <1>1, <1>2, <1>6 DEF ContentOf, Filling
  <2>2. QED
    BY <2>1 DEF Carries, Value
<1>13. /\ step \in {"try", "release"} /\ pc[p] \in Entering
       /\ pc[p] \notin Filling \cup NoPointers /\ pc'[p] \notin Filling \cup NoPointers
  BY <1>2, <1>3 DEF Filling, NoPointers, Entering
<1>14. Live(p)' = IF policy = "DropOldest" THEN {1} ELSE {}
  <2>1. CASE policy = "DropOldest"
    BY <1>1, <1>3, <1>4, <2>1 DEF LiveAre
  <2>2. CASE policy # "DropOldest"
    <3>1. pc'[p] \notin Filling \cup Entering \cup {"dispatch"}
      BY <1>3, <2>2 DEF Filling, Entering
    <3>2. QED
      BY <1>1, <1>4, <2>2, <3>1 DEF LiveAre
  <2>3. QED
    BY <2>1, <2>2
<1>15. pc'[p] \in Entering => policy = "DropOldest"
  BY <1>3 DEF Entering
<1>16. FlowInv' /\ SeesOnly(p) /\ queueBar' = queueBar
  BY <1>1, <1>2, <1>3, <1>6, <1>9, <1>10, <1>11, <1>13, <1>14, <1>15, Keeps
<1>17. SeenOf(p)' = NoHandle
  BY <1>3 DEF SeenOf
<1> HIDE DEF step
<1>18. CASE policy = "DropOldest"
  <2>1. SeenOf(p) = Value(o) /\ AskedOf(p)' = AskedOf(p)
    BY <1>2, <1>3, <1>5, <1>18 DEF SeenOf, AskedOf, Publishing, callVars, step
  <2>2. atBar[p] = Value(o) /\ atBar' = [atBar EXCEPT ![p] = NoHandle]
        /\ requestBar' = requestBar
    BY <1>16, <1>17, <2>1 DEF SeesOnly, requestBar
  <2>3. Flow!DropOldest(p)
    <3>1. atBar[p] # NoHandle
      BY <1>12, <2>2, NoHandleAssumption
    <3>2. Flow!Notify(atBar[p])
      BY <1>8, <1>12, <2>2 DEF Flow!Notify
    <3>3. QED
      BY <1>2, <1>16, <2>2, <3>1, <3>2
         DEF Flow!DropOldest, Flow!Done, Flow!Notify, requestBar, queueBar, atBar, flowVars
  <2>4. QED
    BY <1>16, <2>3 DEF FlowStep, Flow!FlowNext
<1>19. CASE policy # "DropOldest"
  <2>1. own[p][1] = o
    BY <1>6, <1>19
  <2>2. Value(o) = request[p]
    BY <1>1, <1>13, <2>1 DEF ContentOf
  <2>3. SeenOf(p) = NoHandle /\ AskedOf(p) = Value(o) /\ AskedOf(p)' = NoHandle
    BY <1>2, <1>3, <1>5, <1>19, <2>2 DEF SeenOf, AskedOf, Publishing, step
  <2>4. requestBar[p] = Value(o) /\ requestBar' = [requestBar EXCEPT ![p] = NoHandle]
        /\ atBar' = atBar
    BY <1>16, <1>17, <2>3 DEF SeesOnly, atBar
  <2>5. Flow!DropNewest(p)
    <3>1. requestBar[p] # NoHandle
      BY <1>12, <2>4, NoHandleAssumption
    <3>2. Flow!Notify(requestBar[p])
      BY <1>8, <1>12, <2>4 DEF Flow!Notify
    <3>3. QED
      BY <1>2, <1>16, <2>4, <3>1, <3>2
         DEF Flow!DropNewest, Flow!Answered, Flow!Notify, requestBar, queueBar, atBar, flowVars
  <2>6. QED
    BY <1>16, <2>5 DEF FlowStep, Flow!FlowNext
<1>20. QED
  BY <1>18, <1>19

(* Handlers are called with what was published. *)
LEMMA DispatchFlow ==
  ASSUME MemoryInv, MemoryInv', FlowInv, Ids, NEW d \in Dispatchers, DispatchMessage(d)
  PROVE  FlowInv' /\ FlowStep
<1>1. d \in Threads /\ d \notin Publishers /\ ContentOf(d)
  BY DispatchersAssumption DEF Threads, FlowInv
<1>2. /\ pc[d] = "dispatch" /\ pc' = [pc EXCEPT ![d] = "release"]
      /\ handled' = handled \cup {Value(Head(own[d]))}
      /\ UNCHANGED <<registryVars, body, queue, own, callVars, dropped>>
  BY DEF DispatchMessage, Goto, poolVars
<1>3. OthersSame(d) /\ pc'[d] = "release" /\ own'[d] = own[d]
  BY <1>1, <1>2, OwnSame, PublisherFrame
<1>4. BodiesSame(d) /\ DOMAIN body' = Objects /\ \A x : body'[x] = body[x]
  BY <1>2, SameBodies
<1>5. LiveAre /\ LiveAre'
  BY LiveIs, PTL
<1>6. Live(d) = {1} /\ Last(own[d]) = own[d][1] /\ Live(d)' = {}
  BY <1>1, <1>2, <1>3, <1>5 DEF LiveAre, Filling, Entering
<1>7. Head(own[d]) = own[d][1]
  BY <1>1, <1>2, HasPointers, Short DEF NoPointers
<1> PICK o : o = own[d][1]
  OBVIOUS
<1>8. Value(o) \in Values
  BY <1>1, <1>2, <1>6 DEF ContentOf, Carries, Filling
<1>9. /\ pc[d] \notin Filling \cup NoPointers /\ pc'[d] \notin Filling \cup NoPointers
      /\ pc'[d] \notin Entering
  BY <1>2, <1>3 DEF Filling, NoPointers, Entering
<1>10. FlowInv' /\ SeesOnly(d) /\ queueBar' = queueBar
  BY <1>1, <1>2, <1>3, <1>4, <1>6, <1>9, Keeps
<1>11. SeenOf(d) = Value(o) /\ SeenOf(d)' = NoHandle
  BY <1>2, <1>3, <1>6 DEF SeenOf
<1>12. /\ atBar[d] = Value(o) /\ atBar' = [atBar EXCEPT ![d] = NoHandle]
       /\ requestBar' = requestBar
  BY <1>1, <1>10, <1>11 DEF SeesOnly
<1>13. atBar[d] # NoHandle
  BY <1>8, <1>12, NoHandleAssumption
<1>14. handled' = handled \cup {atBar[d]}
  BY <1>2, <1>7, <1>12
<1>15. Flow!Handle(d)
  BY <1>2, <1>10, <1>12, <1>13, <1>14
     DEF Flow!Handle, Flow!Done, requestBar, queueBar, atBar, flowVars
<1>16. QED
  BY <1>10, <1>15 DEF FlowStep, Flow!FlowNext

-----------------------------------------------------------------------------
(* Releasing a message                                                     *)

(* Nobody reads the message any more through the pointer that goes. *)
LEMMA LetGoFlow ==
  ASSUME MemoryInv, MemoryInv', FlowInv, Ids, NEW t \in Threads, OthersSame(t),
         pc[t] \in {"release", "recycle", "unlock"},
         pc'[t] \in {"release", "recycle", "unlock", "idle"},
         UNCHANGED <<registryVars, body, queue, callVars, flowVars>>
  PROVE  FlowInv' /\ FlowStep
<1>1. BodiesSame(t) /\ DOMAIN body' = Objects /\ \A x : body'[x] = body[x]
  BY SameBodies
<1>2. LiveAre /\ LiveAre'
  BY LiveIs, PTL
<1>3. Live(t)' = {}
  BY <1>2 DEF LiveAre, Filling, Entering
<1>4. SeenOf(t)' = SeenOf(t) /\ AskedOf(t)' = AskedOf(t)
  BY DEF SeenOf, AskedOf, Publishing
<1>5. /\ pc[t] \notin Filling \cup NoPointers
      /\ pc'[t] \notin (Filling \cup NoPointers) \ {"idle"} /\ pc'[t] \notin Entering
  BY DEF Filling, NoPointers, Entering
<1>6. QED
  BY <1>1, <1>3, <1>4, <1>5, Keeps DEF FlowStep

(* MessagePtr::reset() and ObjectPool::release() *)
LEMMA ReleaseFlow ==
  ASSUME MemoryInv, MemoryInv', FlowInv, Ids, NEW t \in Threads, ReleaseRef(t) \/ Recycle(t)
  PROVE  FlowInv' /\ FlowStep
<1>1. /\ pc[t] \in {"release", "recycle"}
      /\ UNCHANGED <<registryVars, body, queue, policy, callVars, flowVars>>
  BY DEF ReleaseRef, Recycle
<1>2. pc \in [Threads -> Steps] /\ own \in [Threads -> Seq(Objects)]
  BY DEF MemoryInv, MemoryTypeOK
<1>3. \/ pc' = [pc EXCEPT ![t] = "recycle"] /\ own' = own
      \/ Forget(t)
  BY DEF ReleaseRef, Recycle, Goto
<1>4. /\ \A u \in Threads \ {t} : own'[u] = own[u] /\ pc'[u] = pc[u]
      /\ pc'[t] \in {"release", "recycle", "unlock", "idle"}
  <2>1. CASE pc' = [pc EXCEPT ![t] = "recycle"] /\ own' = own
    BY <1>2, <2>1
  <2>2. CASE Forget(t)
    BY <1>2, <2>2 DEF Forget, Goto
  <2>3. QED
    BY <1>3, <2>1, <2>2
<1>5. OthersSame(t)
  BY <1>1, <1>4 DEF OthersSame, registryVars, callVars
<1>6. QED
  BY <1>1, <1>4, <1>5, LetGoFlow

(* The end of lk *)
LEMMA UnlockPublishFlow ==
  ASSUME MemoryInv, MemoryInv', FlowInv, Ids, NEW p \in Publishers, UnlockPublish(p)
  PROVE  FlowInv' /\ FlowStep
<1>1. /\ pc[p] = "unlock" /\ pc' = [pc EXCEPT ![p] = "release"]
      /\ UNCHANGED <<registryVars, body, queue, own, callVars, flowVars>>
  BY DEF UnlockPublish, Goto, poolVars
<1>2. p \in Threads
  BY DEF Threads
<1>3. OthersSame(p) /\ pc'[p] = "release"
  BY <1>1, <1>2, OwnSame, PublisherFrame
<1>4. QED
  BY <1>1, <1>2, <1>3, LetGoFlow

-----------------------------------------------------------------------------
(* MessagePool implements MessageFlow                                      *)

(* Nothing is published, queued or taken at first. *)
LEMMA FlowInit == Init => FlowInv /\ Flow!FlowInit
<1> SUFFICES ASSUME Init PROVE FlowInv /\ Flow!FlowInit
  OBVIOUS
<1>1. /\ \A t \in Threads : own[t] = <<>> /\ pc[t] = "idle"
      /\ queue = <<>> /\ DOMAIN queue = {}
      /\ \A p \in Publishers : handle[p] = NoHandle /\ asked[p] = NoTopic
  BY DEF Init, RegistryInit, Publishers
<1>2. \A t \in Threads : Live(t) = {}
  BY <1>1 DEF Live
<1>3. Fields
  BY DEF Init, RegistryInit, Fields, Publishers
<1>4. Apart
  BY <1>1, <1>2 DEF Apart, IsInjective
<1>5. QueueCarries
  BY <1>1 DEF QueueCarries
<1>6. \A t \in Threads : ContentOf(t)
  BY <1>1, <1>2 DEF ContentOf, Filling, Entering
<1>7. \A p \in Publishers : pc[p] = "idle"
  BY <1>1 DEF Threads
<1>8. \A p \in Publishers : RequestOf(p) /\ HandleOf(p)
  BY <1>1, <1>7 DEF RequestOf, HandleOf, Publishing
<1>9. FlowInv
  BY <1>3, <1>4, <1>5, <1>6, <1>8 DEF FlowInv
<1>10. requestBar = [p \in Publishers |-> NoHandle]
  BY <1>7 DEF requestBar, Publishing
<1>11. atBar = [t \in Threads |-> NoHandle]
  BY <1>1 DEF atBar
<1>12. queueBar = <<>>
  BY <1>1 DEF queueBar
<1>13. Flow!FlowInit
  BY <1>10, <1>11, <1>12 DEF Init, Flow!FlowInit, requestBar, queueBar, atBar, Threads
<1>14. QED
  BY <1>9, <1>13

(* Nothing happens. *)
LEMMA StillFlow ==
  ASSUME FlowInv, UNCHANGED vars
  PROVE  FlowInv' /\ FlowStep
<1>1. UNCHANGED <<map, id_to_sv, asked, tid, body, queue, own, pc, callVars, flowVars>>
  BY DEF vars, registryVars, poolVars
<1>2. /\ \A t \in Threads : Live(t)' = Live(t)
      /\ \A x : Value(x)' = Value(x) /\ Carries(x)' = Carries(x)
      /\ \A x, y : IdOf(x, y)' = IdOf(x, y)
  BY <1>1 DEF Live, Value, Carries, IdOf, Named, Registered, Values
<1>3. Fields' /\ Apart' /\ QueueCarries'
  <2>1. Fields'
    BY <1>1 DEF FlowInv, Fields, callVars
  <2>2. Apart'
    BY <1>1, <1>2 DEF FlowInv, Apart, In, IsInjective
  <2>3. QueueCarries'
    BY <1>1, <1>2 DEF FlowInv, QueueCarries, Carries, Value
  <2>4. QED
    BY <2>1, <2>2, <2>3
<1>4. \A p \in Publishers : RequestOf(p)' /\ HandleOf(p)'
  BY <1>1, <1>2 DEF FlowInv, RequestOf, HandleOf, callVars
<1>5. \A t \in Threads : ContentOf(t)'
  <2> SUFFICES ASSUME NEW t \in Threads PROVE ContentOf(t)'
    OBVIOUS
  <2>1. ContentOf(t) /\ Live(t)' = Live(t) /\ own'[t] = own[t] /\ pc'[t] = pc[t]
    BY <1>1, <1>2 DEF FlowInv
  <2>2. \A i : Carries(own[t][i])' = Carries(own[t][i]) /\ Value(own[t][i])' = Value(own[t][i])
    BY <1>1 DEF Carries, Value, Values, Named, Registered
  <2>3. /\ request'[t] = request[t] /\ handle'[t] = handle[t] /\ tid'[t] = tid[t]
        /\ body'[own'[t][1]] = body[own[t][1]]
    BY <1>1, <2>1 DEF callVars
  <2>4. QED
    BY <2>1, <2>2, <2>3 DEF ContentOf
<1>6. requestBar' = requestBar /\ queueBar' = queueBar /\ atBar' = atBar
  BY <1>1, <1>2 DEF requestBar, queueBar, atBar, callVars, Value
<1>7. QED
  BY <1>1, <1>3, <1>4, <1>5, <1>6, FlowSame DEF FlowInv, FlowStep

(* Every step is one of MessageFlow or invisible to it. *)
LEMMA FlowNextStep ==
  ASSUME MemoryInv, MemoryInv', RegistryInv, RegistryInv', FlowInv,
         [Next]_vars, [RegistryNext]_registryVars
  PROVE  FlowInv' /\ [Flow!FlowNext]_(Flow!flowVars)
<1>1. Ids
  BY IdsDoStay DEF Ids
<1>2. ASSUME NEW p \in Publishers, Publisher(p) PROVE FlowInv' /\ FlowStep
  <2>1. CASE Publish(p) \/ Topic(p) \/ PublishByHandle(p)
    BY <1>1, <2>1, PublishFlow, TopicFlow, PublishByHandleFlow
  <2>2. CASE ResolveStep(p) \/ MakeHandle(p)
    BY <1>1, <2>2, ResolveFlow, MakeHandleFlow
  <2>3. CASE Acquire(p) \/ Adopt(p)
    BY <1>1, <2>3, AcquireFlow, AdoptFlow
  <2>4. CASE LockPublish(p) \/ TryEnqueue(p) \/ QueueFull(p)
    BY <1>1, <2>4, LockPublishFlow, TryEnqueueFlow, QueueFullFlow
  <2>5. CASE Evict(p) \/ NotifyDrop(p) \/ UnlockPublish(p)
    BY <1>1, <2>5, EvictFlow, NotifyDropFlow, UnlockPublishFlow
  <2>6. QED
    BY <1>2, <2>1, <2>2, <2>3, <2>4, <2>5 DEF Publisher
<1>3. ASSUME NEW d \in Dispatchers, Dequeue(d) \/ DispatchMessage(d) PROVE FlowInv' /\ FlowStep
  BY <1>1, <1>3, DequeueFlow, DispatchFlow
<1>4. ASSUME NEW t \in Threads, ReleaseRef(t) \/ Recycle(t) PROVE FlowInv' /\ FlowStep
  BY <1>1, <1>4, ReleaseFlow
<1>5. ASSUME UNCHANGED vars PROVE FlowInv' /\ FlowStep
  BY <1>5, StillFlow
<1>6. FlowInv' /\ FlowStep
  BY <1>2, <1>3, <1>4, <1>5 DEF Next
<1>7. QED
  BY <1>6 DEF FlowStep

(* What the steps that show it need of the registry *)
LEMMA PoolRegistryInv == Spec => []RegistryInv /\ [][RegistryNext]_registryVars
  BY UsesTheRegistry, RegistryInvariant, PTL DEF RegistrySpec

(* The inductive invariant of what messages carry: no message is in two     *)
(* live places, the id of each is in use, and what a publisher has filled   *)
(* in is what it was asked to publish, while reset() has left no callback.  *)
THEOREM FlowInvariant == Spec => []FlowInv
<1>1. Init => FlowInv
  BY FlowInit
<1>2. /\ MemoryInv /\ MemoryInv' /\ RegistryInv /\ RegistryInv' /\ FlowInv
      /\ [Next]_vars /\ [RegistryNext]_registryVars
      => FlowInv'
  BY FlowNextStep
<1>3. QED
  BY <1>1, <1>2, MemoryInvariant, PoolRegistryInv, PTL DEF Spec

(* Handlers get the topic and the data that were published, and a drop      *)
(* callback is the one given with that publication and called once, in      *)
(* whatever objects the messages were and whatever was there before.        *)
THEOREM ImplementsFlowHolds == Spec => ImplementsFlow
<1>1. Init => Flow!FlowInit
  BY FlowInit
<1>2. /\ MemoryInv /\ MemoryInv' /\ RegistryInv /\ RegistryInv' /\ FlowInv
      /\ [Next]_vars /\ [RegistryNext]_registryVars
      => [Flow!FlowNext]_(Flow!flowVars)
  BY FlowNextStep
<1>3. QED
  BY <1>1, <1>2, MemoryInvariant, PoolRegistryInv, FlowInvariant, PTL
     DEF Spec, ImplementsFlow, Flow!FlowSpec
=============================================================================
