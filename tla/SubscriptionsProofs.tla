-------------------------- MODULE SubscriptionsProofs --------------------------
(***************************************************************************)
(* Proofs about subscribe(), unsubscribe() and dispatchMessage(), for any  *)
(* threads, topics, patterns and types and any number of subscriptions and *)
(* messages: a subscription is in force between the two calls and nothing  *)
(* is left of it afterwards; a dispatch calls the handlers it should, and  *)
(* each of them once.                                                      *)
(*                                                                         *)
(* The inductive invariant SubsInv has one part for each subscription,     *)
(* thread and dispatcher, so that a step that works on one subscription    *)
(* leaves the parts of the others as they are.                             *)
(***************************************************************************)
EXTENDS Subscriptions, SequenceTheorems, WellFoundedInduction, TLAPS

Adding == {"find", "create", "add", "insert", "register"}
Removing == {"remove", "remove_wild", "publish_trie"}

(* Where dispatches find a subscription, and nowhere *)
InPlace(id) == IF IsWildcard(id) THEN id \in trie \cap live
               ELSE slots[info[id].key] # NoSlot /\ id \in Subscribers(slots[info[id].key])
Gone(id) == id \notin trie \cup live \cup sub_to_topic /\ \A s \in DOMAIN slot : id \notin Subscribers(s)

(* The slots of different topics are different, and no list has an id twice. *)
SlotsApart ==
  /\ \A j, k \in Topics : slots[j] = slots[k] /\ slots[j] # NoSlot => j = k
  /\ \A s \in DOMAIN slot : IsInjective(slot[s].subs)

(* A subscription is only in the slot of its topic, or in the trie, and it *)
(* is there while sub_to_topic_ has it.                                    *)
SubOf(id) ==
  /\ \A s \in DOMAIN slot : id \in Subscribers(s) =>
       /\ id \in 1..next_id /\ ~IsWildcard(id)
       /\ slots[info[id].key] = s /\ info[id].type = slot[s].type
  /\ id \in trie \cup live => id \in 1..next_id /\ IsWildcard(id)
  /\ id \in returned => id \in 1..next_id
  /\ id \in sub_to_topic => id \in returned /\ InPlace(id)
  /\ id \in returned \ cancelling => id \in sub_to_topic
  /\ id \in cancelled => Gone(id)

(* What a thread inside subscribe() or unsubscribe() works on. *)
CallOf(t) ==
  /\ op[t] \in Adding => arg[t] \in (1..next_id) \ returned
  /\ op[t] \in {"find", "create", "add"} =>
       ~IsWildcard(arg[t]) /\ \A s \in DOMAIN slot : arg[t] \notin Subscribers(s)
  /\ op[t] = "add" => /\ found[t] = slots[info[arg[t]].key] /\ found[t] # NoSlot
                      /\ slot[found[t]].type = info[arg[t]].type
  /\ op[t] = "insert" => IsWildcard(arg[t])
  /\ op[t] = "register" => InPlace(arg[t])
  /\ op[t] \in Removing \cup {"erase"} => arg[t] \in cancelling
  /\ op[t] \in Removing => arg[t] \notin sub_to_topic \cup cancelled
  /\ op[t] = "remove" => ~IsWildcard(arg[t]) /\ slots[info[arg[t]].key] # NoSlot
  /\ op[t] \in {"remove_wild", "publish_trie"} => IsWildcard(arg[t])
  /\ op[t] = "publish_trie" => arg[t] \notin live

(* No two threads add, or remove, the same subscription. *)
CallsApart ==
  \A t, u \in Threads :
    /\ arg[t] = arg[u]
    /\ (op[t] \in Adding /\ op[u] \in Adding) \/ (op[t] \in Removing /\ op[u] \in Removing)
    => t = u

(* The subscriptions a dispatch has called or is going to call *)
Got(d) == ToSet(called[d]) \cup ToSet(todo[d]) \cup matched[d]

DispatchOf(d) ==
  /\ expected[d] \subseteq returned /\ gone[d] \subseteq cancelled
  /\ dpc[d] \in {"idle", "find", "load", "match", "next"} => todo[d] = <<>>
  /\ dpc[d] \notin {"next", "run_wild"} => matched[d] = {}
  /\ dpc[d] \in {"find", "load"} => called[d] = <<>>
  /\ dpc[d] = "load" => /\ at[d] # NoSlot /\ at[d] = slots[msg[d].topic]
                        /\ slot[at[d]].type = msg[d].type
  /\ calling[d] # NoId => dpc[d] \in {"run", "run_wild"} /\ calling[d] \in ToSet(called[d])
  /\ IsInjective(called[d]) /\ IsInjective(todo[d])
  /\ ToSet(called[d]) \cap ToSet(todo[d]) = {}
  /\ matched[d] \cap (ToSet(called[d]) \cup ToSet(todo[d])) = {}
  /\ \A id \in Got(d) : id \in 1..next_id /\ id \notin gone[d] /\ Wanted(d, id)
  /\ dpc[d] \in {"find", "load", "run", "match"} => \A id \in Got(d) : ~IsWildcard(id)
  /\ \A id \in matched[d] : IsWildcard(id)
  /\ \A id \in expected[d] \ cancelling : Wanted(d, id) =>
       /\ dpc[d] \in {"run", "match", "next", "run_wild"} /\ ~IsWildcard(id) => id \in Got(d)
       /\ dpc[d] \in {"next", "run_wild"} /\ IsWildcard(id) => id \in Got(d)

SubsInv ==
  /\ TypeOK
  /\ SlotsApart
  /\ \A id \in Ids : SubOf(id)
  /\ \A t \in Threads : CallOf(t)
  /\ CallsApart
  /\ \A d \in Dispatchers : DispatchOf(d)

-----------------------------------------------------------------------------
(* Sequences                                                               *)

(* Every set of natural numbers that is not empty has a least element: the *)
(* proofs about the loop of removeSubscriber (Without) are by induction on *)
(* the number of subscribers it has copied.                                *)
LEMMA Least ==
  ASSUME NEW T, T \subseteq Nat, T # {}
  PROVE  \E m \in T : \A n \in T : m <= n
<1> DEFINE R == OpToRel(<, Nat)
<1>1. IsWellFoundedOn(R, Nat)
  BY NatLessThanWellFounded
<1>2. PICK m \in T : \A n \in T : ~ (<<n, m>> \in R)
  BY <1>1, WFMin
<1>3. ASSUME NEW n \in T PROVE m <= n
  <2>1. n \in Nat /\ m \in Nat
    OBVIOUS
  <2>2. n < m => <<n, m>> \in R
    BY <2>1 DEF OpToRel
  <2>3. ~(n < m)
    BY <1>2, <2>2
  <2>4. QED
    BY <2>1, <2>3
<1>4. QED
  BY <1>3

(* A list with an element more at its end *)
LEMMA Appended ==
  ASSUME NEW S, NEW s \in Seq(S), NEW e \in S
  PROVE  /\ Append(s, e) \in Seq(S) /\ ToSet(Append(s, e)) = ToSet(s) \cup {e}
         /\ IsInjective(s) /\ e \notin ToSet(s) => IsInjective(Append(s, e))
<1>1. /\ DOMAIN s = 1..Len(s) /\ DOMAIN Append(s, e) = 1..(Len(s) + 1)
      /\ Len(s) \in Nat /\ Append(s, e) \in Seq(S)
      /\ \A i \in 1..Len(s) : Append(s, e)[i] = s[i]
      /\ Append(s, e)[Len(s) + 1] = e
  BY AppendProperties
<1>2. \A i \in 1..(Len(s) + 1) : i \in 1..Len(s) \/ i = Len(s) + 1
  BY <1>1
<1>3. 1..Len(s) \subseteq 1..(Len(s) + 1) /\ Len(s) + 1 \in 1..(Len(s) + 1)
  BY <1>1
<1>4. ToSet(Append(s, e)) = ToSet(s) \cup {e}
  BY <1>1, <1>2, <1>3 DEF ToSet
<1>5. ASSUME IsInjective(s), e \notin ToSet(s) PROVE IsInjective(Append(s, e))
  BY <1>1, <1>2, <1>5 DEF IsInjective, ToSet
<1>6. QED
  BY <1>1, <1>4, <1>5

(* A list without its first element *)
LEMMA Behead ==
  ASSUME NEW S, NEW s \in Seq(S), s # <<>>
  PROVE  /\ Head(s) \in S /\ Tail(s) \in Seq(S)
         /\ ToSet(s) = ToSet(Tail(s)) \cup {Head(s)}
         /\ IsInjective(s) => IsInjective(Tail(s)) /\ Head(s) \notin ToSet(Tail(s))
<1>1. /\ Head(s) \in S /\ Tail(s) \in Seq(S) /\ Len(Tail(s)) = Len(s) - 1
      /\ \A i \in 1..Len(Tail(s)) : Tail(s)[i] = s[i + 1]
  BY HeadTailProperties
<1>2. /\ DOMAIN s = 1..Len(s) /\ Len(s) \in Nat /\ Len(s) > 0 /\ Head(s) = s[1]
      /\ DOMAIN Tail(s) = 1..(Len(s) - 1)
  BY <1>1
<1>3. /\ \A i \in 1..(Len(s) - 1) : i + 1 \in 1..Len(s) /\ i + 1 # 1
      /\ \A i \in 1..Len(s) : i = 1 \/ (i - 1 \in 1..(Len(s) - 1) /\ (i - 1) + 1 = i)
      /\ 1 \in 1..Len(s)
  BY <1>2
<1>4. ToSet(s) = ToSet(Tail(s)) \cup {Head(s)}
  <2>1. ASSUME NEW x \in ToSet(s) PROVE x \in ToSet(Tail(s)) \cup {Head(s)}
    <3>1. PICK i \in 1..Len(s) : x = s[i]
      BY <1>2 DEF ToSet
    <3>2. CASE i = 1
      BY <3>1, <3>2, <1>2
    <3>3. CASE i - 1 \in 1..(Len(s) - 1) /\ (i - 1) + 1 = i
      BY <3>1, <3>3, <1>1, <1>2 DEF ToSet
    <3>4. QED
      BY <3>2, <3>3, <1>3
  <2>2. ToSet(Tail(s)) \subseteq ToSet(s)
    BY <1>1, <1>2, <1>3 DEF ToSet
  <2>3. Head(s) \in ToSet(s)
    BY <1>2, <1>3 DEF ToSet
  <2>4. QED
    BY <2>1, <2>2, <2>3
<1>5. ASSUME IsInjective(s) PROVE IsInjective(Tail(s)) /\ Head(s) \notin ToSet(Tail(s))
  <2>1. \A i \in 1..(Len(s) - 1) : Tail(s)[i] # s[1]
    BY <1>1, <1>2, <1>3, <1>5 DEF IsInjective
  <2>2. \A i, j \in 1..(Len(s) - 1) : Tail(s)[i] = Tail(s)[j] => i + 1 = j + 1
    BY <1>1, <1>2, <1>3, <1>5 DEF IsInjective
  <2>3. \A i, j \in 1..(Len(s) - 1) : i + 1 = j + 1 => i = j
    BY <1>2
  <2>4. QED
    BY <1>2, <2>1, <2>2, <2>3 DEF IsInjective, ToSet
<1>6. QED
  BY <1>1, <1>4, <1>5

(* Lists of no element and of one *)
LEMMA Short ==
  /\ ToSet(<<>>) = {} /\ IsInjective(<<>>)
  /\ \A e : ToSet(<<e>>) = {e} /\ IsInjective(<<e>>)
<1>1. DOMAIN <<>> = {} /\ \A e : DOMAIN <<e>> = {1} /\ <<e>>[1] = e
  OBVIOUS
<1>2. QED
  BY <1>1 DEF ToSet, IsInjective

(* What the loop of removeSubscriber has copied of the first n subscribers,  *)
(* given what it had copied of fewer: f                                      *)
Copied(s, id, f, n) ==
  IF n = 0 THEN <<>> ELSE IF s[n] = id THEN f[n - 1] ELSE Append(f[n - 1], s[n])

Loop(s, id) == CHOOSE f : f = [n \in 0..Len(s) |-> Copied(s, id, f, n)]

(* The loop of removeSubscriber has a result. *)
LEMMA LoopDefined ==
  ASSUME NEW S, NEW s \in Seq(S), NEW id
  PROVE  Loop(s, id) = [n \in 0..Len(s) |-> Copied(s, id, Loop(s, id), n)]
<1> DEFINE Runs(m) == \E f : f = [n \in 0..m |-> Copied(s, id, f, n)]
           Bad == {m \in 0..Len(s) : ~Runs(m)}
<1>1. Len(s) \in Nat
  OBVIOUS
<1>2. ASSUME Bad # {} PROVE FALSE
  <2>1. PICK b \in Bad : \A n \in Bad : b <= n
    <3>1. Bad \subseteq Nat
      BY <1>1
    <3> HIDE DEF Bad
    <3>2. QED
      BY <1>2, <3>1, Least
  <2>2. b \in 0..Len(s) /\ b \in Nat /\ ~Runs(b)
    BY <1>1
  <2>3. CASE b = 0
    <3> DEFINE f == [n \in 0..0 |-> <<>>]
    <3>1. f = [n \in 0..0 |-> Copied(s, id, f, n)]
      BY DEF Copied
    <3>2. QED
      BY <2>2, <2>3, <3>1
  <2>4. CASE b # 0
    <3>1. b - 1 \in 0..Len(s) /\ b - 1 \in Nat /\ ~(b <= b - 1)
      BY <1>1, <2>2, <2>4
    <3>2. b - 1 \notin Bad
      BY <2>1, <3>1
    <3>3. PICK f : f = [n \in 0..(b - 1) |-> Copied(s, id, f, n)]
      BY <3>1, <3>2
    <3> DEFINE g == [n \in 0..b |-> Copied(s, id, f, n)]
    <3>4. \A n \in 0..(b - 1) : g[n] = f[n]
      <4>1. \A n \in 0..(b - 1) : f[n] = Copied(s, id, f, n)
        BY <3>3
      <4>2. 0..(b - 1) \subseteq 0..b
        BY <2>2
      <4>3. QED
        BY <4>1, <4>2
    <3>5. ASSUME NEW n \in 0..b PROVE Copied(s, id, f, n) = Copied(s, id, g, n)
      <4>1. CASE n = 0
        BY <4>1 DEF Copied
      <4>2. CASE n # 0
        <5>1. n - 1 \in 0..(b - 1)
          BY <2>2, <4>2
        <5>2. g[n - 1] = f[n - 1]
          BY <3>4, <5>1
        <5> HIDE DEF g
        <5>3. QED
          BY <5>2 DEF Copied
      <4>3. QED
        BY <4>1, <4>2
    <3>6. g = [n \in 0..b |-> Copied(s, id, g, n)]
      <4> DEFINE h == [n \in 0..b |-> Copied(s, id, g, n)]
      <4>1. DOMAIN h = 0..b /\ \A n \in 0..b : h[n] = Copied(s, id, g, n)
        BY DEF h
      <4>2. DOMAIN g = 0..b /\ \A n \in 0..b : g[n] = Copied(s, id, f, n)
        BY DEF g
      <4>3. g = h
        BY <3>5
      <4>4. QED
        BY <4>3
    <3>7. QED
      BY <2>2, <3>6
  <2>5. QED
    BY <2>3, <2>4
<1>3. Runs(Len(s))
  BY <1>1, <1>2
<1>4. QED
  BY <1>3 DEF Loop

(* The loop of removeSubscriber: all the others stay in the list, once each. *)
LEMMA WithoutIs ==
  ASSUME NEW S, NEW s \in Seq(S), NEW id
  PROVE  /\ Without(s, id) \in Seq(S)
         /\ ToSet(Without(s, id)) = ToSet(s) \ {id}
         /\ IsInjective(s) => IsInjective(Without(s, id))
<1> DEFINE f == Loop(s, id)
           To(n) == {s[i] : i \in 1..n}
           Right(n) == /\ f[n] \in Seq(S) /\ ToSet(f[n]) = To(n) \ {id}
                       /\ IsInjective(s) => IsInjective(f[n])
           Bad == {n \in 0..Len(s) : ~Right(n)}
<1>1. Len(s) \in Nat /\ DOMAIN s = 1..Len(s) /\ \A i \in 1..Len(s) : s[i] \in S
  OBVIOUS
<1>2. \A n \in 0..Len(s) : f[n] = Copied(s, id, f, n)
  <2>1. f = [n \in 0..Len(s) |-> Copied(s, id, f, n)]
    BY LoopDefined
  <2> HIDE DEF f
  <2>2. QED
    BY <2>1
<1> HIDE DEF f
<1>3. ASSUME Bad # {} PROVE FALSE
  <2>1. PICK b \in Bad : \A n \in Bad : b <= n
    <3>1. Bad \subseteq Nat
      BY <1>1
    <3> HIDE DEF Bad
    <3>2. QED
      BY <1>3, <3>1, Least
  <2>2. b \in 0..Len(s) /\ b \in Nat /\ ~Right(b)
    BY <1>1
  <2>3. CASE b = 0
    <3>1. f[b] = <<>>
      BY <1>2, <2>2, <2>3 DEF Copied
    <3>2. To(b) = {}
      BY <2>3
    <3>3. <<>> \in Seq(S) /\ ToSet(<<>>) = {} /\ IsInjective(<<>>)
      BY Short
    <3>4. QED
      BY <2>2, <3>1, <3>2, <3>3
  <2>4. CASE b # 0
    <3>1. b - 1 \in 0..Len(s) /\ ~(b <= b - 1) /\ b \in 1..Len(s) /\ 1..(b - 1) = (1..b) \ {b}
      BY <1>1, <2>2, <2>4
    <3>2. Right(b - 1)
      BY <2>1, <3>1
    <3>3. f[b] = IF s[b] = id THEN f[b - 1] ELSE Append(f[b - 1], s[b])
      BY <1>2, <2>2, <2>4 DEF Copied
    <3>4. To(b) = To(b - 1) \cup {s[b]} /\ s[b] \in S
      BY <1>1, <3>1
    <3>5. IsInjective(s) => s[b] \notin To(b - 1)
      BY <1>1, <3>1 DEF IsInjective
    <3> HIDE DEF To
    <3>6. CASE s[b] = id
      BY <2>2, <3>2, <3>3, <3>4, <3>6
    <3>7. CASE s[b] # id
      <4>1. /\ Append(f[b - 1], s[b]) \in Seq(S)
            /\ ToSet(Append(f[b - 1], s[b])) = ToSet(f[b - 1]) \cup {s[b]}
            /\ IsInjective(f[b - 1]) /\ s[b] \notin ToSet(f[b - 1])
                 => IsInjective(Append(f[b - 1], s[b]))
        BY <3>2, <3>4, Appended
      <4>2. QED
        BY <2>2, <3>2, <3>3, <3>4, <3>5, <3>7, <4>1
    <3>8. QED
      BY <3>6, <3>7
  <2>5. QED
    BY <2>3, <2>4
<1>4. Right(Len(s))
  <2>1. Len(s) \in 0..Len(s)
    BY <1>1
  <2> HIDE DEF Right
  <2>2. QED
    BY <1>3, <2>1
<1>5. To(Len(s)) = ToSet(s)
  BY <1>1 DEF ToSet
<1>6. Without(s, id) = f[Len(s)]
  BY DEF Without, f, Loop, Copied
<1>7. QED
  BY <1>4, <1>5, <1>6

-----------------------------------------------------------------------------
(* What a step leaves as it is                                             *)

(* Ids, slots and what they are for never change once they exist. *)
Grows ==
  /\ next_id <= next_id'
  /\ \A id \in 1..next_id : info'[id] = info[id]
  /\ returned \subseteq returned' /\ cancelling \subseteq cancelling' /\ cancelled \subseteq cancelled'
  /\ \A k \in Topics : slots[k] # NoSlot => slots'[k] = slots[k]
  /\ DOMAIN slot \subseteq DOMAIN slot'
  /\ \A s \in DOMAIN slot : slot'[s].type = slot[s].type

(* A step of a call leaves another subscription where it is. *)
Same(id) ==
  /\ id \in returned' <=> id \in returned
  /\ id \in cancelled' <=> id \in cancelled
  /\ id \in sub_to_topic' <=> id \in sub_to_topic
  /\ id \in trie' <=> id \in trie
  /\ id \in live' <=> id \in live
  /\ \A s \in DOMAIN slot' : id \in Subscribers(s)' <=> s \in DOMAIN slot /\ id \in Subscribers(s)

(* The ids, in an interval that grows *)
LEMMA IdsStay ==
  ASSUME TypeOK, TypeOK', Grows, NEW id \in 1..next_id
  PROVE  /\ id \in 1..next_id' /\ info'[id] = info[id] /\ info[id].key \in Topics \cup Patterns
         /\ IsWildcard(id)' <=> IsWildcard(id)
         /\ ~IsWildcard(id) => info[id].key \in Topics
<1>1. next_id \in Nat /\ next_id' \in Nat /\ next_id <= next_id'
  BY SubscriptionBounds DEF TypeOK, Grows
<1>2. id \in 1..next_id'
  BY <1>1
<1>3. info'[id] = info[id] /\ info[id].key \in Topics \cup Patterns
  BY DEF TypeOK, Grows
<1>4. QED
  BY <1>2, <1>3 DEF IsWildcard

(* A slot that is in the map is one of the slots. *)
LEMMA SlotsExist ==
  ASSUME TypeOK, NEW k \in Topics, slots[k] # NoSlot
  PROVE  slots[k] \in DOMAIN slot
<1>1. slots[k] \in 0..Len(slot) /\ DOMAIN slot = 1..Len(slot) /\ Len(slot) \in Nat
  BY DEF TypeOK
<1>2. QED
  BY <1>1 DEF NoSlot

(* A subscription stays where it is found. *)
LEMMA InPlaceKept ==
  ASSUME TypeOK, TypeOK', Grows, NEW id \in 1..next_id, Same(id), InPlace(id)
  PROVE  InPlace(id)'
<1>1. /\ info'[id] = info[id] /\ (IsWildcard(id)' <=> IsWildcard(id))
      /\ ~IsWildcard(id) => info[id].key \in Topics
  BY IdsStay
<1>2. CASE IsWildcard(id)
  BY <1>1, <1>2 DEF InPlace, Same
<1>3. CASE ~IsWildcard(id)
  <2>1. slots[info[id].key] # NoSlot /\ id \in Subscribers(slots[info[id].key])
    BY <1>3 DEF InPlace
  <2> DEFINE k == info[id].key
  <2>2. slots[k] \in DOMAIN slot
    BY <1>1, <1>3, <2>1, SlotsExist
  <2>3. slots'[k] = slots[k] /\ slots[k] \in DOMAIN slot'
    BY <1>1, <1>3, <2>1, <2>2 DEF Grows
  <2>4. PICK s \in DOMAIN slot' : s = slots[k]
    BY <2>3
  <2>5. id \in Subscribers(s)'
    BY <2>1, <2>2, <2>4 DEF Same
  <2>6. slots'[info'[id].key] = s
    BY <1>1, <2>3, <2>4
  <2>7. id \in Subscribers(slots[info[id].key])'
    BY <2>5, <2>6 DEF Subscribers
  <2>8. QED
    BY <1>1, <1>3, <2>1, <2>4, <2>6, <2>7 DEF InPlace
<1>4. QED
  BY <1>2, <1>3

(* What is invariant of a subscription stays so while others are worked on. *)
LEMMA SubKept ==
  ASSUME TypeOK, TypeOK', Grows, NEW id \in Ids, Same(id), SubOf(id)
  PROVE  SubOf(id)'
<1>1. ASSUME NEW s \in DOMAIN slot', id \in Subscribers(s)'
      PROVE  /\ id \in 1..next_id' /\ ~IsWildcard(id)'
             /\ slots'[info'[id].key] = s /\ info'[id].type = slot'[s].type
  <2>1. s \in DOMAIN slot /\ id \in Subscribers(s)
    BY <1>1 DEF Same
  <2>2. /\ id \in 1..next_id /\ ~IsWildcard(id)
        /\ slots[info[id].key] = s /\ info[id].type = slot[s].type
    BY <2>1 DEF SubOf
  <2>3. s # NoSlot
    BY <2>1 DEF TypeOK, NoSlot
  <2>4. /\ id \in 1..next_id' /\ info'[id] = info[id] /\ ~IsWildcard(id)'
        /\ info[id].key \in Topics
    BY <2>2, IdsStay
  <2>5. QED
    BY <2>1, <2>2, <2>3, <2>4 DEF Grows
<1>2. ASSUME id \in 1..next_id PROVE id \in 1..next_id' /\ (IsWildcard(id)' <=> IsWildcard(id))
  BY <1>2, IdsStay
<1>3. id \in sub_to_topic => InPlace(id)'
  BY InPlaceKept DEF SubOf
<1>4. id \in trie' \cup live' => id \in 1..next_id' /\ IsWildcard(id)'
  BY <1>2 DEF SubOf, Same
<1>5. id \in returned' => id \in 1..next_id'
  BY <1>2 DEF SubOf, Same
<1>6. id \in sub_to_topic' => id \in returned' /\ InPlace(id)'
  BY <1>3 DEF SubOf, Same
<1>7. id \in returned' \ cancelling' => id \in sub_to_topic'
  BY DEF SubOf, Same, Grows
<1>8. id \in cancelled' => Gone(id)'
  BY DEF SubOf, Same, Gone
<1>9. QED
  BY <1>1, <1>4, <1>5, <1>6, <1>7, <1>8 DEF SubOf

(* Likewise what is invariant of a thread that does not move *)
LEMMA CallKept ==
  ASSUME TypeOK, TypeOK', Grows, \A id \in Ids : SubOf(id), NEW u \in Threads, CallOf(u),
         op'[u] = op[u], arg'[u] = arg[u], found'[u] = found[u],
         op[u] \in {"idle", "erase"} \/ Same(arg[u])
  PROVE  CallOf(u)'
<1> USE DEF Adding, Removing
<1>1. CASE op[u] = "idle"
  BY <1>1 DEF CallOf
<1>2. CASE op[u] = "erase"
  BY <1>2 DEF CallOf, Grows
<1>3. CASE op[u] \in Adding \cup Removing /\ Same(arg[u])
  <2> PICK i : i = arg[u] /\ i = arg'[u]
    OBVIOUS
  <2>1. i \in 1..next_id
    <3>1. CASE op[u] \in Adding
      BY <3>1 DEF CallOf
    <3>2. CASE op[u] \in Removing
      <4>1. i \in returned /\ i \in Ids
        BY <3>2 DEF CallOf, TypeOK
      <4>2. QED
        BY <4>1 DEF SubOf
    <3>3. QED
      BY <1>3, <3>1, <3>2
  <2>2. /\ i \in 1..next_id' /\ info'[i] = info[i] /\ (IsWildcard(i)' <=> IsWildcard(i))
        /\ ~IsWildcard(i) => info[i].key \in Topics
    BY <2>1, IdsStay
  <2>3. InPlace(i) => InPlace(i)'
    BY <1>3, <2>1, InPlaceKept
  <2>4. op[u] \in Adding => i \in (1..next_id') \ returned'
    BY <1>3, <2>2 DEF CallOf, Same
  <2>5. op[u] \in {"find", "create", "add"} =>
          ~IsWildcard(i)' /\ \A s \in DOMAIN slot' : i \notin Subscribers(s)'
    BY <1>3, <2>2 DEF CallOf, Same
  <2>6. op[u] = "add" => /\ found[u] = slots'[info'[i].key] /\ found[u] # NoSlot
                         /\ slot'[found[u]].type = info'[i].type
    <3>1. SUFFICES ASSUME op[u] = "add"
                   PROVE  /\ found[u] = slots'[info'[i].key] /\ found[u] # NoSlot
                          /\ slot'[found[u]].type = info'[i].type
      OBVIOUS
    <3>2. /\ found[u] = slots[info[i].key] /\ found[u] # NoSlot /\ ~IsWildcard(i)
          /\ slot[found[u]].type = info[i].type
      BY <3>1 DEF CallOf
    <3>3. info[i].key \in Topics /\ found[u] \in DOMAIN slot
      BY <2>2, <3>2, SlotsExist
    <3>4. QED
      BY <2>2, <3>2, <3>3 DEF Grows
  <2>7. op[u] = "remove" => ~IsWildcard(i)' /\ slots'[info'[i].key] # NoSlot
    BY <2>2 DEF CallOf, Grows
  <2>8. op[u] = "register" => InPlace(i)'
    BY <2>3 DEF CallOf
  <2>9. op[u] \in Removing => i \notin sub_to_topic' \cup cancelled' /\ i \in cancelling'
    BY <1>3 DEF CallOf, Same, Grows
  <2>10. /\ op[u] = "insert" => IsWildcard(i)'
         /\ op[u] \in {"remove_wild", "publish_trie"} => IsWildcard(i)'
         /\ op[u] = "publish_trie" => i \notin live'
    BY <1>3, <2>2 DEF CallOf, Same
  <2>11. op'[u] = op[u] /\ found'[u] = found[u] /\ arg'[u] = i
    OBVIOUS
  <2>12. /\ op'[u] \in Adding => arg'[u] \in (1..next_id') \ returned'
         /\ op'[u] \in Removing \cup {"erase"} => arg'[u] \in cancelling'
         /\ op'[u] \in Removing => arg'[u] \notin sub_to_topic' \cup cancelled'
         /\ op'[u] = "publish_trie" => arg'[u] \notin live'
    BY <1>3, <2>4, <2>9, <2>10, <2>11
  <2>13. /\ op'[u] \in {"find", "create", "add"} =>
               ~IsWildcard(arg[u])' /\ \A s \in DOMAIN slot' : arg'[u] \notin Subscribers(s)'
         /\ op'[u] = "insert" => IsWildcard(arg[u])'
         /\ op'[u] = "remove" => ~IsWildcard(arg[u])' /\ slots'[info'[arg'[u]].key] # NoSlot
         /\ op'[u] \in {"remove_wild", "publish_trie"} => IsWildcard(arg[u])'
    BY <2>5, <2>7, <2>10, <2>11 DEF IsWildcard, Subscribers
  <2>14. op'[u] = "register" => InPlace(arg[u])'
    BY <2>8, <2>11 DEF InPlace, IsWildcard, Subscribers
  <2>15. op'[u] = "add" => /\ found'[u] = slots'[info'[arg'[u]].key] /\ found'[u] # NoSlot
                           /\ slot'[found'[u]].type = info'[arg'[u]].type
    BY <2>6, <2>11
  <2>16. QED
    BY <2>12, <2>13, <2>14, <2>15 DEF CallOf
<1>4. op[u] \in Adding \cup Removing \cup {"idle", "erase"}
  BY DEF TypeOK, OpSteps
<1>5. QED
  BY <1>1, <1>2, <1>3, <1>4

(* What is wanted by a dispatch does not depend on what changes. *)
LEMMA WantedStays ==
  ASSUME TypeOK, TypeOK', Grows, NEW d \in Dispatchers, msg'[d] = msg[d], NEW id \in 1..next_id
  PROVE  (Wanted(d, id)' <=> Wanted(d, id)) /\ (IsWildcard(id)' <=> IsWildcard(id))
  BY IdsStay DEF Wanted, IsWildcard

(* Likewise what is invariant of a dispatcher that does not move *)
DispatcherSame(d) ==
  /\ dpc'[d] = dpc[d] /\ msg'[d] = msg[d] /\ at'[d] = at[d] /\ todo'[d] = todo[d]
  /\ matched'[d] = matched[d] /\ calling'[d] = calling[d] /\ called'[d] = called[d]
  /\ expected'[d] = expected[d] /\ gone'[d] = gone[d]

LEMMA DispatchKept ==
  ASSUME TypeOK, TypeOK', Grows, \A id \in Ids : SubOf(id), NEW d \in Dispatchers, DispatchOf(d),
         DispatcherSame(d)
  PROVE  DispatchOf(d)'
<1>1. Got(d)' = Got(d)
  BY DEF Got, DispatcherSame
<1>2. \A id \in Got(d) : id \in 1..next_id /\ id \in 1..next_id'
  BY IdsStay DEF DispatchOf
<1>3. \A id \in Got(d) : (Wanted(d, id)' <=> Wanted(d, id)) /\ (IsWildcard(id)' <=> IsWildcard(id))
  BY <1>2, WantedStays DEF DispatcherSame
<1>4. \A id \in expected[d] : id \in returned /\ id \in 1..next_id
  BY DEF DispatchOf, SubOf, TypeOK
<1>5. \A id \in expected[d] : (Wanted(d, id)' <=> Wanted(d, id)) /\ (IsWildcard(id)' <=> IsWildcard(id))
  BY <1>4, WantedStays DEF DispatcherSame
<1>6. expected'[d] \subseteq returned' /\ gone'[d] \subseteq cancelled'
  BY DEF DispatchOf, DispatcherSame, Grows
<1>7. dpc[d] = "load" => /\ at[d] # NoSlot /\ at[d] = slots'[msg[d].topic]
                         /\ slot'[at[d]].type = msg[d].type
  <2>1. SUFFICES ASSUME dpc[d] = "load"
                 PROVE  /\ at[d] # NoSlot /\ at[d] = slots'[msg[d].topic]
                        /\ slot'[at[d]].type = msg[d].type
    OBVIOUS
  <2>2. at[d] # NoSlot /\ at[d] = slots[msg[d].topic] /\ slot[at[d]].type = msg[d].type
    BY <2>1 DEF DispatchOf
  <2>3. msg[d].topic \in Topics
    BY DEF TypeOK
  <2>4. at[d] \in DOMAIN slot
    BY <2>2, <2>3, SlotsExist
  <2>5. QED
    BY <2>2, <2>3, <2>4 DEF Grows
<1>8. \A id \in Got(d) : id \in 1..next_id' /\ id \notin gone[d] /\ Wanted(d, id)'
  BY <1>2, <1>3 DEF DispatchOf
<1>9. /\ dpc[d] \in {"find", "load", "run", "match"} => \A id \in Got(d) : ~IsWildcard(id)'
      /\ \A id \in matched[d] : IsWildcard(id)'
  BY <1>3 DEF DispatchOf, Got
<1>10. \A id \in expected[d] \ cancelling' : Wanted(d, id)' =>
         /\ dpc[d] \in {"run", "match", "next", "run_wild"} /\ ~IsWildcard(id)' => id \in Got(d)
         /\ dpc[d] \in {"next", "run_wild"} /\ IsWildcard(id)' => id \in Got(d)
  BY <1>5 DEF DispatchOf, Grows
<1>11. QED
  BY <1>1, <1>6, <1>7, <1>8, <1>9, <1>10 DEF DispatchOf, DispatcherSame

-----------------------------------------------------------------------------
(* The types                                                               *)

StateTypes ==
  /\ next_id \in 0..MaxIds
  /\ slots \in [Topics -> 0..Len(slot)]
  /\ slot \in Seq([type : Types, subs : Seq(Ids)])
  /\ trie \subseteq Ids /\ live \subseteq Ids /\ sub_to_topic \subseteq Ids
  /\ info \in [1..next_id -> [key : Topics \cup Patterns, type : Types]]
  /\ cancelling \subseteq returned /\ returned \subseteq Ids
  /\ cancelled \subseteq cancelling

CallTypes ==
  /\ op \in [Threads -> OpSteps]
  /\ arg \in [Threads -> {NoId} \cup Ids]
  /\ found \in [Threads -> 0..Len(slot)]

DispatchTypes ==
  /\ dpc \in [Dispatchers -> DispatchSteps]
  /\ msg \in [Dispatchers -> [topic : Topics, type : Types]]
  /\ at \in [Dispatchers -> 0..Len(slot)]
  /\ todo \in [Dispatchers -> Seq(Ids)]
  /\ matched \in [Dispatchers -> SUBSET Ids]
  /\ calling \in [Dispatchers -> {NoId} \cup Ids]
  /\ sent \in [Dispatchers -> 0..MaxMessages]
  /\ called \in [Dispatchers -> Seq(Ids)]
  /\ expected \in [Dispatchers -> SUBSET Ids]
  /\ gone \in [Dispatchers -> SUBSET Ids]

Types3 == StateTypes /\ CallTypes /\ DispatchTypes

(* The type invariant, by the three kinds of variables *)
LEMMA TypesAre == TypeOK <=> Types3
  BY DEF TypeOK, Types3, StateTypes, CallTypes, DispatchTypes

(* Calls do not move dispatchers. *)
DispatchersStay == UNCHANGED <<dispatchVars, called, expected, gone>>

LEMMA DispatchTypesKept ==
  ASSUME TypeOK, DispatchersStay, Len(slot) \in Nat, Len(slot') \in Nat, Len(slot) <= Len(slot')
  PROVE  DispatchTypes'
<1>1. DispatchTypes
  BY TypesAre DEF Types3
<1>2. 0..Len(slot) \subseteq 0..Len(slot')
  OBVIOUS
<1>3. at' \in [Dispatchers -> 0..Len(slot')]
  BY <1>1, <1>2 DEF DispatchTypes, DispatchersStay, dispatchVars
<1>4. QED
  BY <1>1, <1>3 DEF DispatchTypes, DispatchersStay, dispatchVars

(* The type invariant after a step of a call *)
LEMMA CallTypesGive ==
  ASSUME TypeOK, DispatchersStay, Len(slot) \in Nat, Len(slot') \in Nat, Len(slot) <= Len(slot'),
         StateTypes', CallTypes'
  PROVE  TypeOK'
<1>1. DispatchTypes'
  BY DispatchTypesKept
<1>2. Types3'
  BY <1>1 DEF Types3
<1>3. QED
  BY <1>2, TypesAre, PTL

-----------------------------------------------------------------------------
(* Steps of subscribe() and unsubscribe()                                  *)

(* No other thread adds or removes the subscription. *)
Quiet(t, id) == \A u \in Threads \ {t} : arg[u] = id => op[u] \in {"idle", "erase"}

(* Thread t moves, and works on one subscription at most. *)
Moves(t, id) ==
  /\ DispatchersStay
  /\ \A u \in Threads \ {t} : op'[u] = op[u] /\ arg'[u] = arg[u] /\ found'[u] = found[u]
  /\ \A x \in Ids \ {id} : Same(x)
  /\ Same(id) \/ Quiet(t, id)
  /\ op'[t] \in {"idle", "erase"} \/ Quiet(t, arg'[t])

(* It is enough to show what the step does to thread t and its subscription. *)
LEMMA CallStepKeeps ==
  ASSUME SubsInv, TypeOK', NEW t \in Threads, NEW id \in Ids,
         Grows, Moves(t, id), SlotsApart', SubOf(id)', CallOf(t)'
  PROVE  SubsInv'
<1>1. \A x \in Ids : SubOf(x)'
  <2>1. ASSUME NEW x \in Ids \ {id} PROVE SubOf(x)'
    BY SubKept DEF SubsInv, Moves
  <2>2. QED
    BY <2>1
<1>2. \A u \in Threads : CallOf(u)'
  <2>1. ASSUME NEW u \in Threads \ {t} PROVE CallOf(u)'
    <3>1. op[u] \in {"idle", "erase"} \/ Same(arg[u])
      <4>1. op[u] \in Adding \cup Removing => arg[u] \in Ids
        <5>1. next_id \in 0..MaxIds
          BY DEF SubsInv, TypeOK
        <5>2. 1..next_id \subseteq Ids
          BY <5>1, SubscriptionBounds DEF Ids
        <5>3. QED
          BY <5>2 DEF SubsInv, CallOf, TypeOK
      <4>2. op[u] \in Adding \cup Removing \cup {"idle", "erase"}
        BY DEF SubsInv, TypeOK, OpSteps, Adding, Removing
      <4>3. QED
        BY <4>1, <4>2 DEF Moves, Quiet
    <3>2. QED
      BY <3>1, CallKept DEF SubsInv, Moves
  <2>2. QED
    BY <2>1
<1>3. CallsApart'
  <2>1. ASSUME NEW u \in Threads, NEW v \in Threads, u # v, arg'[u] = arg'[v],
               \/ op'[u] \in Adding /\ op'[v] \in Adding
               \/ op'[u] \in Removing /\ op'[v] \in Removing
        PROVE  FALSE
    <3>1. CASE u # t /\ v # t
      BY <2>1, <3>1 DEF SubsInv, CallsApart, Moves
    <3>2. CASE u = t
      BY <2>1, <3>2 DEF Moves, Quiet, Adding, Removing
    <3>3. CASE v = t
      BY <2>1, <3>3 DEF Moves, Quiet, Adding, Removing
    <3>4. QED
      BY <3>1, <3>2, <3>3
  <2>2. QED
    BY <2>1 DEF CallsApart
<1>4. ASSUME NEW d \in Dispatchers PROVE DispatchOf(d)'
  <2>1. DispatcherSame(d)
    BY DEF Moves, DispatchersStay, dispatchVars, DispatcherSame
  <2>2. QED
    BY <2>1, DispatchKept DEF SubsInv
<1>5. QED
  BY <1>1, <1>2, <1>3, <1>4 DEF SubsInv

(* A thread that adds or removes a subscription, or is about to remove it, is *)
(* the only one.                                                              *)
LEMMA QuietHere ==
  ASSUME SubsInv, NEW t \in Threads,
         \/ op[t] \in Adding \cup Removing
         \/ op[t] = "erase" /\ arg[t] \in sub_to_topic
  PROVE  Quiet(t, arg[t])
<1>1. SUFFICES ASSUME NEW u \in Threads \ {t}, arg[u] = arg[t], op[u] \in Adding \cup Removing
               PROVE  FALSE
  BY DEF SubsInv, TypeOK, OpSteps, Adding, Removing, Quiet
<1> USE DEF Adding, Removing
<1>2. CASE op[t] \in Adding
  BY <1>1, <1>2 DEF SubsInv, CallsApart, CallOf, TypeOK
<1>3. CASE op[t] \in Removing
  BY <1>1, <1>3 DEF SubsInv, CallsApart, CallOf, TypeOK
<1>4. CASE op[t] = "erase" /\ arg[t] \in sub_to_topic
  BY <1>1, <1>4 DEF SubsInv, CallOf, TypeOK, SubOf
<1>5. QED
  BY <1>2, <1>3, <1>4

(* What the subscriptions' places are in stays as it is. *)
LEMMA SameHere ==
  ASSUME UNCHANGED <<slot, trie, live, sub_to_topic, returned, cancelled>>, NEW id
  PROVE  Same(id)
  BY DEF Same, Subscribers

(* Nothing of the bus changes. *)
LEMMA GrowsHere ==
  ASSUME TypeOK, UNCHANGED <<next_id, info, slots, slot>>,
         returned \subseteq returned', cancelling \subseteq cancelling', cancelled \subseteq cancelled'
  PROVE  Grows
  BY SubscriptionBounds DEF Grows, TypeOK

LEMMA SlotsApartHere ==
  ASSUME SlotsApart, UNCHANGED <<slots, slot>>
  PROVE  SlotsApart'
  BY DEF SlotsApart

LEMMA LenHere ==
  ASSUME TypeOK
  PROVE  Len(slot) \in Nat /\ DOMAIN slot = 1..Len(slot)
         /\ \A s \in DOMAIN slot : /\ slot[s] \in [type : Types, subs : Seq(Ids)]
                                   /\ Subscribers(s) = ToSet(slot[s].subs) /\ Subscribers(s) \subseteq Ids
<1>1. Len(slot) \in Nat /\ DOMAIN slot = 1..Len(slot)
      /\ \A s \in DOMAIN slot : slot[s] \in [type : Types, subs : Seq(Ids)]
  <2> DEFINE R == [type : Types, subs : Seq(Ids)]
  <2>1. slot \in Seq(R)
    BY DEF TypeOK
  <2> HIDE DEF R
  <2>2. Len(slot) \in Nat /\ DOMAIN slot = 1..Len(slot) /\ \A s \in DOMAIN slot : slot[s] \in R
    BY <2>1
  <2>3. QED
    BY <2>2 DEF R
<1>2. ASSUME NEW s \in DOMAIN slot
      PROVE  Subscribers(s) = ToSet(slot[s].subs) /\ Subscribers(s) \subseteq Ids
  <2>1. slot[s].subs \in Seq(Ids)
    BY <1>1
  <2>2. \A k \in DOMAIN slot[s].subs : slot[s].subs[k] \in Ids
    BY <2>1
  <2>3. QED
    BY <2>2 DEF Subscribers, ToSet
<1>3. QED
  BY <1>1, <1>2

(* subscribe() takes a new id. *)
LEMMA SubscribeInv ==
  ASSUME SubsInv, NEW t \in Threads, NEW key \in Topics \cup Patterns, NEW type \in Types,
         Subscribe(t, key, type)
  PROVE  SubsInv'
<1> PICK id : id = next_id + 1
  OBVIOUS
<1> USE DEF SubsInv
<1>1. /\ next_id \in Nat /\ next_id < MaxIds /\ next_id' = id /\ id \in Ids
      /\ 1..id = (1..next_id) \cup {id} /\ id \notin 1..next_id /\ id \in 1..id
  BY SubscriptionBounds DEF Subscribe, TypeOK, Ids
<1>2. /\ info' \in [1..next_id' -> [key : Topics \cup Patterns, type : Types]]
      /\ \A x \in 1..next_id : info'[x] = info[x]
      /\ info'[id] = [key |-> key, type |-> type]
  <2> DEFINE R == [key : Topics \cup Patterns, type : Types]
             r == [key |-> key, type |-> type]
  <2>1. info \in [1..next_id -> R] /\ r \in R /\ info' = Append(info, r)
    BY DEF TypeOK, Subscribe
  <2> HIDE DEF R, r
  <2>2. info \in Seq(R) /\ Len(info) = next_id
    BY <1>1, <2>1
  <2>3. /\ Append(info, r) \in Seq(R) /\ Len(Append(info, r)) = next_id + 1
        /\ \A x \in 1..next_id : Append(info, r)[x] = info[x]
        /\ Append(info, r)[next_id + 1] = r
    BY <2>1, <2>2, AppendProperties
  <2>4. info' \in [1..id -> R]
    BY <1>1, <2>1, <2>3, LenProperties
  <2>5. QED
    BY <1>1, <2>1, <2>3, <2>4 DEF R, r
<1>3. /\ op' \in [Threads -> OpSteps] /\ arg' \in [Threads -> {NoId} \cup Ids]
      /\ op'[t] = (IF key \in Patterns THEN "insert" ELSE "find") /\ arg'[t] = id
      /\ \A u \in Threads \ {t} : op'[u] = op[u] /\ arg'[u] = arg[u]
      /\ UNCHANGED <<slots, slot, trie, live, sub_to_topic, found>>
      /\ DispatchersStay /\ UNCHANGED <<returned, cancelling, cancelled>>
  BY <1>1 DEF Subscribe, Goto, TypeOK, OpSteps, DispatchersStay, historyVars
<1>4. TypeOK'
  <2>1. next_id' \in 0..MaxIds
    BY <1>1, SubscriptionBounds
  <2>2. StateTypes'
    BY <1>2, <1>3, <2>1 DEF TypeOK, StateTypes
  <2>3. CallTypes'
    BY <1>3 DEF TypeOK, CallTypes
  <2>4. QED
    BY <1>3, <2>2, <2>3, LenHere, CallTypesGive
<1>5. Grows
  BY <1>1, <1>2, <1>3 DEF Grows
<1>6. \A x : Same(x)
  BY <1>3, SameHere
<1>7. SubOf(id)'
  BY <1>1, <1>4, <1>5, <1>6, SubKept
<1>8. id \notin returned /\ \A s \in DOMAIN slot : id \notin Subscribers(s)
  BY <1>1 DEF SubOf
<1>9. Quiet(t, id)
  BY <1>1, <1>8 DEF Quiet, CallOf, TypeOK, OpSteps, Adding, Removing
<1>10. CallOf(t)'
  <2>1. IsWildcard(arg[t])' <=> key \in Patterns
    BY <1>2, <1>3 DEF IsWildcard
  <2>2. \A s \in DOMAIN slot' : id \notin Subscribers(s)'
    BY <1>3, <1>8 DEF Subscribers
  <2>3. arg'[t] \in (1..next_id') \ returned'
    BY <1>1, <1>3, <1>8
  <2>4. QED
    BY <1>3, <2>1, <2>2, <2>3 DEF CallOf, Adding, Removing
<1>11. Moves(t, id)
  BY <1>3, <1>6, <1>9 DEF Moves
<1>12. QED
  BY <1>1, <1>4, <1>5, <1>7, <1>10, <1>11, <1>3, SlotsApartHere, CallStepKeeps

(* A thread that ends its call needs nothing. *)
LEMMA CallEnded ==
  ASSUME NEW t \in Threads, op'[t] = "idle"
  PROVE  CallOf(t)'
  BY DEF CallOf, Adding, Removing

(* checkedSlot and the first lookup leave the bus as it is. *)
LEMMA LookupInv ==
  ASSUME SubsInv, NEW t \in Threads, arg[t] \in Ids, op[t] \in {"find", "create"},
         UNCHANGED <<stateVars, dispatchVars, historyVars>>,
         \/ CheckSlot(t, slots[info[arg[t]].key]) /\ slots[info[arg[t]].key] # NoSlot
         \/ Goto(t, "create") /\ UNCHANGED <<arg, found>>
  PROVE  SubsInv'
<1> USE DEF SubsInv
<1> PICK id \in Ids : id = arg[t]
  OBVIOUS
<1>1. /\ UNCHANGED <<next_id, slots, slot, trie, live, sub_to_topic, info>>
      /\ UNCHANGED <<returned, cancelling, cancelled>> /\ DispatchersStay
  BY DEF stateVars, historyVars, DispatchersStay
<1>2. /\ id \in (1..next_id) \ returned /\ ~IsWildcard(id)
      /\ \A s \in DOMAIN slot : id \notin Subscribers(s)
      /\ info[id].key \in Topics
  BY DEF CallOf, Adding, TypeOK, IsWildcard
<1>3. Quiet(t, id)
  BY QuietHere DEF Adding
<1>4. /\ op' \in [Threads -> OpSteps] /\ arg' \in [Threads -> {NoId} \cup Ids]
      /\ found' \in [Threads -> 0..Len(slot)]
      /\ \A u \in Threads \ {t} : op'[u] = op[u] /\ arg'[u] = arg[u] /\ found'[u] = found[u]
      /\ \/ op'[t] = "idle"
         \/ op'[t] = "create" /\ arg'[t] = id
         \/ /\ op'[t] = "add" /\ arg'[t] = id /\ found'[t] = slots[info[id].key]
            /\ found'[t] # NoSlot /\ slot[found'[t]].type = info[id].type
  <2>1. slots[info[id].key] \in 0..Len(slot) /\ NoSlot \in 0..Len(slot)
    BY <1>2, LenHere DEF TypeOK, NoSlot
  <2>2. CASE /\ CheckSlot(t, slots[info[arg[t]].key]) /\ slots[info[arg[t]].key] # NoSlot
             /\ slot[slots[info[id].key]].type = info[id].type
    BY <2>1, <2>2 DEF CheckSlot, Goto, TypeOK, OpSteps
  <2>3. CASE /\ CheckSlot(t, slots[info[arg[t]].key])
             /\ slot[slots[info[id].key]].type # info[id].type
    <3>1. EndCall(t)
      BY <2>3 DEF CheckSlot
    <3>2. op' = [op EXCEPT ![t] = "idle"] /\ arg' = [arg EXCEPT ![t] = NoId]
          /\ found' = [found EXCEPT ![t] = NoSlot]
      BY <3>1 DEF EndCall, Goto
    <3>3. QED
      BY <2>1, <3>2 DEF TypeOK, OpSteps
  <2>4. CASE Goto(t, "create") /\ UNCHANGED <<arg, found>>
    BY <2>4 DEF Goto, TypeOK, OpSteps
  <2>5. QED
    BY <2>2, <2>3, <2>4
<1>5. TypeOK'
  <2>1. StateTypes' /\ CallTypes'
    BY <1>1, <1>4 DEF TypeOK, StateTypes, CallTypes
  <2>2. QED
    BY <1>1, <2>1, LenHere, CallTypesGive
<1>6. Grows
  BY <1>1, GrowsHere
<1>7. \A x : Same(x)
  BY <1>1, SameHere
<1>8. SubOf(id)'
  BY <1>5, <1>6, <1>7, SubKept
<1>9. Moves(t, id)
  BY <1>1, <1>3, <1>4, <1>7 DEF Moves
<1>10. CallOf(t)'
  <2>1. CASE op'[t] = "idle"
    BY <2>1, CallEnded
  <2>2. CASE op'[t] = "create" /\ arg'[t] = id
    BY <1>1, <1>2, <2>2 DEF CallOf, Adding, Removing, IsWildcard, Subscribers
  <2>3. CASE /\ op'[t] = "add" /\ arg'[t] = id /\ found'[t] = slots[info[id].key]
             /\ found'[t] # NoSlot /\ slot[found'[t]].type = info[id].type
    BY <1>1, <1>2, <2>3 DEF CallOf, Adding, Removing, IsWildcard, Subscribers
  <2>4. QED
    BY <1>4, <2>1, <2>2, <2>3
<1>11. QED
  BY <1>1, <1>5, <1>6, <1>8, <1>9, <1>10, SlotsApartHere, CallStepKeeps

(* The thread's variables after a step that goes on, and after one that ends *)
LEMMA GoesOn ==
  ASSUME TypeOK, NEW t \in Threads, NEW step \in OpSteps, Goto(t, step), UNCHANGED <<arg, found>>
  PROVE  /\ op' \in [Threads -> OpSteps] /\ arg' \in [Threads -> {NoId} \cup Ids]
         /\ found' \in [Threads -> 0..Len(slot)]
         /\ op'[t] = step /\ arg'[t] = arg[t] /\ found'[t] = found[t]
         /\ \A u \in Threads \ {t} : op'[u] = op[u] /\ arg'[u] = arg[u] /\ found'[u] = found[u]
  BY DEF Goto, TypeOK

LEMMA Ends ==
  ASSUME TypeOK, NEW t \in Threads, EndCall(t)
  PROVE  /\ op' \in [Threads -> OpSteps] /\ arg' \in [Threads -> {NoId} \cup Ids]
         /\ found' \in [Threads -> 0..Len(slot)]
         /\ op'[t] = "idle"
         /\ \A u \in Threads \ {t} : op'[u] = op[u] /\ arg'[u] = arg[u] /\ found'[u] = found[u]
<1>1. op' = [op EXCEPT ![t] = "idle"] /\ arg' = [arg EXCEPT ![t] = NoId]
      /\ found' = [found EXCEPT ![t] = NoSlot]
  BY DEF EndCall, Goto
<1>2. NoSlot \in 0..Len(slot)
  BY LenHere DEF NoSlot
<1>3. QED
  BY <1>1, <1>2 DEF TypeOK, OpSteps

(* A slot is appended. *)
LEMMA SlotAppended ==
  ASSUME TypeOK, NEW type \in Types, NEW n, n = Len(slot) + 1,
         slot' = Append(slot, [type |-> type, subs |-> <<>>])
  PROVE  /\ slot' \in Seq([type : Types, subs : Seq(Ids)]) /\ Len(slot') = n
         /\ Len(slot) \in Nat /\ n \in Nat /\ n # NoSlot
         /\ DOMAIN slot' = 1..n /\ DOMAIN slot' = DOMAIN slot \cup {n} /\ n \notin DOMAIN slot
         /\ \A s \in DOMAIN slot : slot'[s] = slot[s]
         /\ slot'[n].type = type /\ slot'[n].subs = <<>>
<1> DEFINE R == [type : Types, subs : Seq(Ids)]
           r == [type |-> type, subs |-> <<>>]
<1>1. slot \in Seq(R) /\ r \in R /\ slot' = Append(slot, r)
  BY DEF TypeOK
<1>2. r.type = type /\ r.subs = <<>>
  OBVIOUS
<1> HIDE DEF R, r
<1>3. /\ slot' \in Seq(R) /\ Len(slot') = n /\ slot'[n] = r
      /\ DOMAIN slot = 1..Len(slot) /\ Len(slot) \in Nat /\ DOMAIN slot' = 1..n
      /\ \A s \in 1..Len(slot) : slot'[s] = slot[s]
  BY <1>1, AppendProperties, LenProperties
<1>4. 1..n = (1..Len(slot)) \cup {n} /\ n \notin 1..Len(slot) /\ n \in Nat /\ n # 0
  BY <1>3
<1>5. QED
  BY <1>2, <1>3, <1>4 DEF R, NoSlot

(* getOrCreateSlot: the thread creates the topic's slot, or finds another's. *)
LEMMA CreateSlotInv ==
  ASSUME SubsInv, NEW t \in Threads, arg[t] \in Ids, CreateSlot(t)
  PROVE  SubsInv'
<1> USE DEF SubsInv
<1> PICK id \in Ids : id = arg[t]
  OBVIOUS
<1> DEFINE key == info[id].key
<1>1. op[t] = "create" /\ UNCHANGED <<next_id, trie, live, sub_to_topic, info, dispatchVars, historyVars>>
  BY DEF CreateSlot
<1>2. CASE slots[key] # NoSlot
  <2>1. CheckSlot(t, slots[key]) /\ UNCHANGED <<slot, slots>>
    BY <1>2 DEF CreateSlot
  <2>2. UNCHANGED <<stateVars, dispatchVars, historyVars>>
    BY <1>1, <2>1 DEF stateVars
  <2>3. QED
    BY <1>1, <1>2, <2>1, <2>2, LookupInv
<1>3. CASE slots[key] = NoSlot
  <2> PICK n : n = Len(slot) + 1
    OBVIOUS
  <2>1. /\ slot' = Append(slot, [type |-> info[id].type, subs |-> <<>>])
        /\ slots' = [slots EXCEPT ![key] = Len(slot')] /\ found' = [found EXCEPT ![t] = Len(slot')]
        /\ Goto(t, "add") /\ UNCHANGED arg
    BY <1>3 DEF CreateSlot
  <2>2. /\ id \in (1..next_id) \ returned /\ ~IsWildcard(id)
        /\ \A s \in DOMAIN slot : id \notin Subscribers(s)
        /\ key \in Topics /\ info[id].type \in Types
    BY <1>1 DEF CallOf, Adding, TypeOK, IsWildcard
  <2> HIDE DEF key
  <2>3. /\ slot' \in Seq([type : Types, subs : Seq(Ids)]) /\ Len(slot') = n
        /\ Len(slot) \in Nat /\ n \in Nat /\ n # NoSlot
        /\ DOMAIN slot' = 1..n /\ DOMAIN slot' = DOMAIN slot \cup {n} /\ n \notin DOMAIN slot
        /\ \A s \in DOMAIN slot : slot'[s] = slot[s]
        /\ slot'[n].type = info[id].type /\ slot'[n].subs = <<>>
    BY <2>1, <2>2, SlotAppended
  <2>4. /\ \A k \in Topics : slots'[k] = IF k = key THEN n ELSE slots[k]
        /\ \A k \in Topics : slots[k] \in 0..Len(slot) /\ slots[k] # n
        /\ slots' \in [Topics -> 0..Len(slot')]
    <3>1. slots \in [Topics -> 0..Len(slot)]
      BY DEF TypeOK
    <3>2. 0..Len(slot) \subseteq 0..n /\ n \in 0..n /\ n \notin 0..Len(slot)
      BY <2>3
    <3>3. QED
      BY <2>1, <2>2, <2>3, <3>1, <3>2
  <2>5. /\ op' \in [Threads -> OpSteps] /\ arg' \in [Threads -> {NoId} \cup Ids]
        /\ found' \in [Threads -> 0..Len(slot')]
        /\ op'[t] = "add" /\ arg'[t] = id /\ found'[t] = n
        /\ \A u \in Threads \ {t} : op'[u] = op[u] /\ arg'[u] = arg[u] /\ found'[u] = found[u]
    <3>1. 0..Len(slot) \subseteq 0..n /\ n \in 0..n
      BY <2>3
    <3>2. op' = [op EXCEPT ![t] = "add"] /\ "add" \in OpSteps
      BY <2>1 DEF Goto, OpSteps
    <3>3. QED
      BY <2>1, <2>3, <3>1, <3>2 DEF TypeOK
  <2>6. UNCHANGED <<returned, cancelling, cancelled>> /\ DispatchersStay
    BY <1>1 DEF historyVars, DispatchersStay
  <2>7. TypeOK'
    <3>1. StateTypes'
      BY <1>1, <2>3, <2>4, <2>6 DEF TypeOK, StateTypes
    <3>2. CallTypes' /\ Len(slot) <= Len(slot')
      BY <2>3, <2>5 DEF CallTypes
    <3>3. QED
      BY <2>3, <2>6, <3>1, <3>2, CallTypesGive
  <2>8. Grows
    <3>1. next_id <= next_id'
      BY <1>1, SubscriptionBounds DEF TypeOK
    <3>2. \A k \in Topics : slots[k] # NoSlot => slots'[k] = slots[k]
      BY <1>3, <2>4
    <3>3. DOMAIN slot \subseteq DOMAIN slot' /\ \A s \in DOMAIN slot : slot'[s].type = slot[s].type
      BY <2>3
    <3>4. QED
      BY <1>1, <2>6, <3>1, <3>2, <3>3 DEF Grows
  <2>9. ASSUME NEW x PROVE Same(x)
    <3>1. ASSUME NEW s \in DOMAIN slot' PROVE x \in Subscribers(s)' <=> s \in DOMAIN slot /\ x \in Subscribers(s)
      <4>1. CASE s = n
        <5>1. slot'[s].subs = <<>> /\ DOMAIN <<>> = {}
          BY <2>3, <4>1
        <5>2. QED
          BY <2>3, <4>1, <5>1 DEF Subscribers
      <4>2. CASE s \in DOMAIN slot
        BY <2>3, <4>2 DEF Subscribers
      <4>3. QED
        BY <2>3, <4>1, <4>2
    <3>2. QED
      BY <1>1, <2>6, <3>1 DEF Same
  <2>10. SlotsApart'
    <3>1. ASSUME NEW s \in DOMAIN slot' PROVE IsInjective(slot'[s].subs)
      <4>1. CASE s = n
        BY <2>3, <4>1, Short
      <4>2. CASE s \in DOMAIN slot
        BY <2>3, <4>2 DEF SlotsApart
      <4>3. QED
        BY <2>3, <4>1, <4>2
    <3>2. \A j, k \in Topics : slots'[j] = slots'[k] /\ slots'[j] # NoSlot => j = k
      BY <2>4 DEF SlotsApart
    <3>3. QED
      BY <3>1, <3>2 DEF SlotsApart
  <2>11. SubOf(id)'
    BY <2>7, <2>8, <2>9, SubKept
  <2>12. CallOf(t)'
    <3>1. ~IsWildcard(arg[t])' /\ info'[id] = info[id] /\ next_id' = next_id
      BY <1>1, <2>2, <2>5 DEF IsWildcard
    <3>2. \A s \in DOMAIN slot' : id \notin Subscribers(s)'
      BY <2>2, <2>9 DEF Same
    <3>3. slots'[info'[id].key] = n /\ slot'[n].type = info'[id].type /\ n # NoSlot
      BY <2>2, <2>3, <2>4, <3>1 DEF key
    <3>4. QED
      BY <2>2, <2>5, <2>6, <3>1, <3>2, <3>3 DEF CallOf, Adding, Removing
  <2>13. Moves(t, id)
    <3>1. Quiet(t, id)
      BY <1>1, QuietHere DEF Adding
    <3>2. QED
      BY <2>5, <2>6, <2>9, <3>1 DEF Moves
  <2>14. QED
    BY <2>7, <2>8, <2>10, <2>11, <2>12, <2>13, CallStepKeeps
<1>4. QED
  BY <1>2, <1>3

(* The list of a slot changes. *)
NewList(f, q) ==
  /\ slot' \in Seq([type : Types, subs : Seq(Ids)]) /\ Len(slot') = Len(slot)
  /\ DOMAIN slot' = DOMAIN slot
  /\ \A s \in DOMAIN slot : /\ slot'[s].type = slot[s].type
                            /\ slot'[s].subs = IF s = f THEN q ELSE slot[s].subs
                            /\ Subscribers(s)' = IF s = f THEN ToSet(q) ELSE Subscribers(s)

LEMMA SlotChanged ==
  ASSUME TypeOK, NEW f \in DOMAIN slot, NEW q \in Seq(Ids), slot' = [slot EXCEPT ![f].subs = q]
  PROVE  NewList(f, q)
<1> DEFINE R == [type : Types, subs : Seq(Ids)]
           r == [slot[f] EXCEPT !.subs = q]
<1>1. slot \in Seq(R) /\ slot[f] \in R /\ slot' = [slot EXCEPT ![f] = r]
  BY LenHere DEF TypeOK
<1>2. r \in R /\ r.type = slot[f].type /\ r.subs = q
  BY <1>1
<1> HIDE DEF R, r
<1>3. slot' \in Seq(R) /\ Len(slot') = Len(slot) /\ DOMAIN slot' = DOMAIN slot
  BY <1>1, <1>2
<1>4. \A s \in DOMAIN slot : slot'[s] = IF s = f THEN r ELSE slot[s]
  BY <1>1
<1>5. \A s \in DOMAIN slot : /\ slot'[s].type = slot[s].type
                             /\ slot'[s].subs = IF s = f THEN q ELSE slot[s].subs
  BY <1>2, <1>4
<1>6. \A s \in DOMAIN slot : Subscribers(s)' = IF s = f THEN ToSet(q) ELSE Subscribers(s)
  BY <1>5 DEF Subscribers, ToSet
<1>7. QED
  BY <1>3, <1>5, <1>6 DEF R, NewList

(* addSubscriber: the subscription is in the slot of its topic. *)
LEMMA AddSubscriberInv ==
  ASSUME SubsInv, NEW t \in Threads, arg[t] \in Ids, AddSubscriber(t)
  PROVE  SubsInv'
<1> USE DEF SubsInv
<1> PICK id \in Ids : id = arg[t]
  OBVIOUS
<1> PICK f : f = found[t]
  OBVIOUS
<1>1. /\ op[t] = "add" /\ Goto(t, "register") /\ "register" \in OpSteps
      /\ slot' = [slot EXCEPT ![f].subs = Append(slot[f].subs, id)]
      /\ UNCHANGED <<next_id, slots, trie, live, sub_to_topic, info, arg, found>>
      /\ UNCHANGED <<returned, cancelling, cancelled>> /\ DispatchersStay
  BY DEF AddSubscriber, historyVars, DispatchersStay, OpSteps
<1>2. /\ id \in (1..next_id) \ returned /\ ~IsWildcard(id)
      /\ \A s \in DOMAIN slot : id \notin Subscribers(s)
      /\ f = slots[info[id].key] /\ f # NoSlot /\ slot[f].type = info[id].type
      /\ info[id].key \in Topics
  BY <1>1 DEF CallOf, Adding, TypeOK, IsWildcard
<1>3. f \in DOMAIN slot
  BY <1>2, SlotsExist
<1>4. slot[f].subs \in Seq(Ids) /\ Subscribers(f) = ToSet(slot[f].subs)
  BY <1>3, LenHere
<1>o. PICK old : old = slot[f].subs
  OBVIOUS
<1>q. PICK q : q = Append(old, id)
  OBVIOUS
<1>5. q \in Seq(Ids) /\ ToSet(q) = Subscribers(f) \cup {id} /\ IsInjective(q)
  <2>1. old \in Seq(Ids) /\ IsInjective(old) /\ id \notin ToSet(old) /\ Subscribers(f) = ToSet(old)
    BY <1>2, <1>3, <1>4, <1>o DEF SlotsApart
  <2>2. QED
    BY <1>q, <2>1, Appended
<1>a. /\ UNCHANGED <<next_id, slots, trie, live, sub_to_topic, info, arg, found>>
      /\ UNCHANGED <<returned, cancelling, cancelled>> /\ DispatchersStay
  BY <1>1
<1>6. /\ slot' \in Seq([type : Types, subs : Seq(Ids)]) /\ Len(slot') = Len(slot)
      /\ DOMAIN slot' = DOMAIN slot
      /\ \A s \in DOMAIN slot : /\ slot'[s].type = slot[s].type
                                /\ slot'[s].subs = IF s = f THEN q ELSE slot[s].subs
                                /\ Subscribers(s)' = IF s = f THEN ToSet(q) ELSE Subscribers(s)
  <2>1. slot' = [slot EXCEPT ![f].subs = q]
    BY <1>1, <1>o, <1>q
  <2>2. NewList(f, q)
    BY <1>3, <1>5, <2>1, SlotChanged
  <2>3. QED
    BY <2>2 DEF NewList
<1>7. /\ op' \in [Threads -> OpSteps] /\ arg' \in [Threads -> {NoId} \cup Ids]
      /\ found' \in [Threads -> 0..Len(slot)]
      /\ op'[t] = "register" /\ arg'[t] = arg[t] /\ found'[t] = found[t]
      /\ \A u \in Threads \ {t} : op'[u] = op[u] /\ arg'[u] = arg[u] /\ found'[u] = found[u]
  BY <1>1, GoesOn
<1>8. TypeOK'
  <2>1. StateTypes'
    BY <1>a, <1>6 DEF TypeOK, StateTypes
  <2>2. CallTypes'
    BY <1>6, <1>7 DEF CallTypes
  <2>3. QED
    BY <1>a, <1>6, <2>1, <2>2, LenHere, CallTypesGive
<1>9. Grows
  BY <1>a, <1>6, SubscriptionBounds DEF Grows, TypeOK
<1>10. ASSUME NEW x \in Ids \ {id} PROVE Same(x)
  <2>1. \A s \in DOMAIN slot : x \in Subscribers(s)' <=> x \in Subscribers(s)
    BY <1>3, <1>5, <1>6
  <2>2. QED
    BY <1>a, <1>6, <2>1 DEF Same
<1>11. SlotsApart'
  BY <1>a, <1>5, <1>6 DEF SlotsApart
<1>12. IsWildcard(id)' <=> IsWildcard(id)
  BY <1>a DEF IsWildcard
<1>13. SubOf(id)'
  <2>1. ASSUME NEW s \in DOMAIN slot', id \in Subscribers(s)'
        PROVE  s = f /\ slots'[info'[id].key] = s /\ info'[id].type = slot'[s].type
    BY <1>a, <1>2, <1>6, <2>1
  <2>2. id \notin returned /\ id \notin sub_to_topic /\ id \notin cancelled /\ id \notin trie \cup live
    BY <1>2 DEF SubOf, TypeOK
  <2>3. QED
    BY <1>a, <1>2, <1>12, <2>1, <2>2 DEF SubOf
<1>14. CallOf(t)'
  <2>1. id \in Subscribers(f)' /\ slots'[info'[id].key] = f
    <3>1. Subscribers(f)' = ToSet(q)
      BY <1>3, <1>6, SMTT(30)
    <3>2. QED
      BY <1>a, <1>2, <1>5, <3>1
  <2>2. InPlace(id)'
    BY <1>2, <1>12, <2>1 DEF InPlace, Subscribers
  <2>3. InPlace(arg[t])'
    BY <1>7, <2>2 DEF InPlace, IsWildcard, Subscribers
  <2>4. arg'[t] \in (1..next_id') \ returned'
    BY <1>a, <1>2, <1>7
  <2>5. QED
    BY <1>7, <2>3, <2>4 DEF CallOf, Adding, Removing
<1>15. Moves(t, id)
  <2>1. Quiet(t, id)
    BY <1>1, QuietHere DEF Adding
  <2>2. QED
    BY <1>a, <1>7, <1>10, <2>1 DEF Moves
<1>16. QED
  BY <1>8, <1>9, <1>11, <1>13, <1>14, <1>15, CallStepKeeps

(* insert: the subscription is in the trie. *)
LEMMA InsertWildcardInv ==
  ASSUME SubsInv, NEW t \in Threads, arg[t] \in Ids, InsertWildcard(t)
  PROVE  SubsInv'
<1> USE DEF SubsInv
<1> PICK id \in Ids : id = arg[t]
  OBVIOUS
<1>1. /\ op[t] = "insert" /\ Goto(t, "register") /\ "register" \in OpSteps
      /\ trie' = trie \cup {id} /\ live' = live \cup {id}
      /\ UNCHANGED <<next_id, slots, slot, sub_to_topic, info, arg, found>>
      /\ UNCHANGED <<returned, cancelling, cancelled>> /\ DispatchersStay
  BY DEF InsertWildcard, historyVars, DispatchersStay, OpSteps
<1>2. id \in (1..next_id) \ returned /\ IsWildcard(id)
  BY <1>1 DEF CallOf, Adding
<1>3. /\ op' \in [Threads -> OpSteps] /\ arg' \in [Threads -> {NoId} \cup Ids]
      /\ found' \in [Threads -> 0..Len(slot)]
      /\ op'[t] = "register" /\ arg'[t] = arg[t] /\ found'[t] = found[t]
      /\ \A u \in Threads \ {t} : op'[u] = op[u] /\ arg'[u] = arg[u] /\ found'[u] = found[u]
  BY <1>1, GoesOn
<1>4. TypeOK'
  <2>1. StateTypes' /\ CallTypes'
    BY <1>1, <1>3 DEF TypeOK, StateTypes, CallTypes
  <2>2. QED
    BY <1>1, <2>1, LenHere, CallTypesGive
<1>5. Grows
  BY <1>1, GrowsHere
<1>6. \A x \in Ids \ {id} : Same(x)
  BY <1>1 DEF Same, Subscribers
<1>7. (IsWildcard(id)' <=> IsWildcard(id)) /\ \A s : Subscribers(s)' = Subscribers(s)
  BY <1>1 DEF IsWildcard, Subscribers
<1>8. SubOf(id)'
  <2>1. \A s \in DOMAIN slot : id \notin Subscribers(s)
    BY <1>2 DEF SubOf
  <2>2. id \notin returned /\ id \notin sub_to_topic /\ id \notin cancelled
    BY <1>2 DEF SubOf, TypeOK
  <2>3. QED
    BY <1>1, <1>2, <1>7, <2>1, <2>2 DEF SubOf
<1>9. CallOf(t)'
  <2>1. InPlace(arg[t])'
    BY <1>1, <1>2, <1>3 DEF InPlace, IsWildcard
  <2>2. QED
    BY <1>1, <1>2, <1>3, <2>1 DEF CallOf, Adding, Removing
<1>10. Moves(t, id)
  <2>1. Quiet(t, id)
    BY <1>1, QuietHere DEF Adding
  <2>2. QED
    BY <1>1, <1>3, <1>6, <2>1 DEF Moves
<1>11. QED
  BY <1>1, <1>4, <1>5, <1>8, <1>9, <1>10, SlotsApartHere, CallStepKeeps

(* sub_to_topic_ has the subscription, which is returned. *)
LEMMA RegisterInv ==
  ASSUME SubsInv, NEW t \in Threads, arg[t] \in Ids, Register(t)
  PROVE  SubsInv'
<1> USE DEF SubsInv
<1> PICK id \in Ids : id = arg[t]
  OBVIOUS
<1>1. /\ op[t] = "register" /\ EndCall(t)
      /\ sub_to_topic' = sub_to_topic \cup {id} /\ returned' = returned \cup {id}
      /\ UNCHANGED <<next_id, slots, slot, trie, live, info>>
      /\ UNCHANGED <<cancelling, cancelled>> /\ DispatchersStay
  BY DEF Register, DispatchersStay
<1>2. id \in (1..next_id) \ returned /\ InPlace(id)
  BY <1>1 DEF CallOf, Adding
<1>3. /\ op' \in [Threads -> OpSteps] /\ arg' \in [Threads -> {NoId} \cup Ids]
      /\ found' \in [Threads -> 0..Len(slot)]
      /\ op'[t] = "idle"
      /\ \A u \in Threads \ {t} : op'[u] = op[u] /\ arg'[u] = arg[u] /\ found'[u] = found[u]
  BY <1>1, Ends
<1>4. TypeOK'
  <2>1. StateTypes' /\ CallTypes'
    BY <1>1, <1>3 DEF TypeOK, StateTypes, CallTypes
  <2>2. QED
    BY <1>1, <2>1, LenHere, CallTypesGive
<1>5. Grows
  BY <1>1, GrowsHere
<1>6. \A x \in Ids \ {id} : Same(x)
  BY <1>1 DEF Same, Subscribers
<1>7. /\ (IsWildcard(id)' <=> IsWildcard(id)) /\ (InPlace(id)' <=> InPlace(id))
      /\ \A s : Subscribers(s)' = Subscribers(s)
  BY <1>1 DEF IsWildcard, Subscribers, InPlace
<1>8. SubOf(id)'
  <2>1. id \notin cancelled
    BY <1>2 DEF TypeOK
  <2>2. QED
    BY <1>1, <1>2, <1>7, <2>1 DEF SubOf
<1>9. CallOf(t)'
  BY <1>3, CallEnded
<1>10. Moves(t, id)
  <2>1. Quiet(t, id)
    BY <1>1, QuietHere DEF Adding
  <2>2. QED
    BY <1>1, <1>3, <1>6, <2>1 DEF Moves
<1>11. QED
  BY <1>1, <1>4, <1>5, <1>8, <1>9, <1>10, SlotsApartHere, CallStepKeeps

(* unsubscribe() is called: the subscription may be removed. *)
LEMMA UnsubscribeInv ==
  ASSUME SubsInv, NEW t \in Threads, NEW id \in Ids, Unsubscribe(t, id)
  PROVE  SubsInv'
<1> USE DEF SubsInv
<1>1. /\ cancelling' = cancelling \cup {id} /\ id \in returned
      /\ UNCHANGED <<next_id, slots, slot, trie, live, sub_to_topic, info>>
      /\ UNCHANGED <<returned, cancelled>> /\ DispatchersStay
  BY DEF Unsubscribe, stateVars, DispatchersStay
<1>2. /\ op' \in [Threads -> OpSteps] /\ arg' \in [Threads -> {NoId} \cup Ids]
      /\ found' \in [Threads -> 0..Len(slot)]
      /\ op'[t] = "erase" /\ arg'[t] = id
      /\ \A u \in Threads \ {t} : op'[u] = op[u] /\ arg'[u] = arg[u] /\ found'[u] = found[u]
  BY DEF Unsubscribe, Goto, TypeOK, OpSteps
<1>3. TypeOK'
  <2>1. StateTypes' /\ CallTypes'
    BY <1>1, <1>2 DEF TypeOK, StateTypes, CallTypes
  <2>2. QED
    BY <1>1, <2>1, LenHere, CallTypesGive
<1>4. Grows
  BY <1>1, GrowsHere
<1>5. \A x : Same(x)
  BY <1>1, SameHere
<1>6. SubOf(id)'
  BY <1>3, <1>4, <1>5, SubKept
<1>7. CallOf(t)'
  BY <1>1, <1>2 DEF CallOf, Adding, Removing
<1>8. Moves(t, id)
  BY <1>1, <1>2, <1>5 DEF Moves
<1>9. QED
  BY <1>1, <1>3, <1>4, <1>6, <1>7, <1>8, SlotsApartHere, CallStepKeeps

(* Somebody else has erased it from sub_to_topic_. *)
LEMMA EraseNothingInv ==
  ASSUME SubsInv, NEW t \in Threads, arg[t] \in Ids, EraseNothing(t)
  PROVE  SubsInv'
<1> USE DEF SubsInv
<1> PICK id \in Ids : id = arg[t]
  OBVIOUS
<1>1. /\ EndCall(t)
      /\ UNCHANGED <<next_id, slots, slot, trie, live, sub_to_topic, info>>
      /\ UNCHANGED <<returned, cancelling, cancelled>> /\ DispatchersStay
  BY DEF EraseNothing, stateVars, DispatchersStay
<1>2. /\ op' \in [Threads -> OpSteps] /\ arg' \in [Threads -> {NoId} \cup Ids]
      /\ found' \in [Threads -> 0..Len(slot)]
      /\ op'[t] = "idle"
      /\ \A u \in Threads \ {t} : op'[u] = op[u] /\ arg'[u] = arg[u] /\ found'[u] = found[u]
  BY <1>1, Ends
<1>3. TypeOK'
  <2>1. StateTypes' /\ CallTypes'
    BY <1>1, <1>2 DEF TypeOK, StateTypes, CallTypes
  <2>2. QED
    BY <1>1, <2>1, LenHere, CallTypesGive
<1>4. Grows
  BY <1>1, GrowsHere
<1>5. \A x : Same(x)
  BY <1>1, SameHere
<1>6. SubOf(id)' /\ CallOf(t)'
  BY <1>2, <1>3, <1>4, <1>5, SubKept, CallEnded
<1>7. Moves(t, id)
  BY <1>1, <1>2, <1>5 DEF Moves
<1>8. QED
  BY <1>1, <1>3, <1>4, <1>6, <1>7, SlotsApartHere, CallStepKeeps

(* The thread that erases it from sub_to_topic_ is the one that removes it. *)
LEMMA EraseInv ==
  ASSUME SubsInv, NEW t \in Threads, arg[t] \in Ids, Erase(t)
  PROVE  SubsInv'
<1> USE DEF SubsInv
<1> PICK id \in Ids : id = arg[t]
  OBVIOUS
<1> PICK step : step = IF IsWildcard(id) THEN "remove_wild" ELSE "remove"
  OBVIOUS
<1>1. /\ op[t] = "erase" /\ id \in sub_to_topic /\ sub_to_topic' = sub_to_topic \ {id}
      /\ Goto(t, step) /\ step \in OpSteps
      /\ UNCHANGED <<next_id, slots, slot, trie, live, info, arg, found>>
      /\ UNCHANGED <<returned, cancelling, cancelled>> /\ DispatchersStay
  BY DEF Erase, historyVars, DispatchersStay, OpSteps
<1>2. /\ InPlace(id) /\ id \in cancelling /\ id \notin cancelled
  BY <1>1 DEF SubOf, CallOf, Gone
<1>3. /\ op' \in [Threads -> OpSteps] /\ arg' \in [Threads -> {NoId} \cup Ids]
      /\ found' \in [Threads -> 0..Len(slot)]
      /\ op'[t] = step /\ arg'[t] = arg[t] /\ found'[t] = found[t]
      /\ \A u \in Threads \ {t} : op'[u] = op[u] /\ arg'[u] = arg[u] /\ found'[u] = found[u]
  BY <1>1, GoesOn
<1>4. TypeOK'
  <2>1. StateTypes' /\ CallTypes'
    BY <1>1, <1>3 DEF TypeOK, StateTypes, CallTypes
  <2>2. QED
    BY <1>1, <2>1, LenHere, CallTypesGive
<1>5. Grows
  BY <1>1, GrowsHere
<1>6. \A x \in Ids \ {id} : Same(x)
  BY <1>1 DEF Same, Subscribers
<1>7. (IsWildcard(id)' <=> IsWildcard(id)) /\ \A s : Subscribers(s)' = Subscribers(s)
  BY <1>1 DEF IsWildcard, Subscribers
<1>8. SubOf(id)'
  BY <1>1, <1>2, <1>7 DEF SubOf
<1>9. CallOf(t)'
  <2>1. IsWildcard(arg[t])' <=> IsWildcard(id)
    BY <1>1 DEF IsWildcard
  <2>2. ~IsWildcard(id) => slots'[info'[id].key] # NoSlot
    BY <1>1, <1>2 DEF InPlace
  <2>3. QED
    BY <1>1, <1>2, <1>3, <2>1, <2>2 DEF CallOf, Adding, Removing
<1>10. Moves(t, id)
  <2>1. Quiet(t, id)
    BY <1>1, QuietHere
  <2>2. QED
    BY <1>1, <1>3, <1>6, <2>1 DEF Moves
<1>11. QED
  BY <1>1, <1>4, <1>5, <1>8, <1>9, <1>10, SlotsApartHere, CallStepKeeps

(* removeSubscriber: nothing of the subscription is left. *)
LEMMA RemoveExactInv ==
  ASSUME SubsInv, NEW t \in Threads, arg[t] \in Ids, RemoveExact(t)
  PROVE  SubsInv'
<1> USE DEF SubsInv
<1> PICK id \in Ids : id = arg[t]
  OBVIOUS
<1> PICK f : f = slots[info[id].key]
  OBVIOUS
<1>1. /\ op[t] = "remove" /\ EndCall(t)
      /\ slot' = [slot EXCEPT ![f].subs = Without(slot[f].subs, id)]
      /\ cancelled' = cancelled \cup {id}
      /\ UNCHANGED <<next_id, slots, trie, live, sub_to_topic, info>>
      /\ UNCHANGED <<returned, cancelling>> /\ DispatchersStay
  BY DEF RemoveExact, Removed, DispatchersStay
<1>2. /\ id \in cancelling /\ id \in returned /\ id \in 1..next_id /\ ~IsWildcard(id)
      /\ id \notin sub_to_topic /\ f # NoSlot /\ info[id].key \in Topics
  BY <1>1 DEF CallOf, Removing, SubOf, TypeOK, IsWildcard
<1>3. f \in DOMAIN slot
  BY <1>2, SlotsExist
<1>4. slot[f].subs \in Seq(Ids) /\ Subscribers(f) = ToSet(slot[f].subs)
  BY <1>3, LenHere
<1>o. PICK old : old = slot[f].subs
  OBVIOUS
<1>q. PICK q : q = Without(old, id)
  OBVIOUS
<1>a. /\ cancelled' = cancelled \cup {id}
      /\ UNCHANGED <<next_id, slots, trie, live, sub_to_topic, info>>
      /\ UNCHANGED <<returned, cancelling>> /\ DispatchersStay
  BY <1>1
<1>5. q \in Seq(Ids) /\ ToSet(q) = Subscribers(f) \ {id} /\ IsInjective(q)
  <2>1. old \in Seq(Ids) /\ IsInjective(old) /\ Subscribers(f) = ToSet(old)
    BY <1>3, <1>4, <1>o DEF SlotsApart
  <2>2. q \in Seq(Ids) /\ ToSet(q) = ToSet(old) \ {id} /\ (IsInjective(old) => IsInjective(q))
    BY <1>q, <2>1, WithoutIs
  <2>3. QED
    BY <2>1, <2>2
<1>6. /\ slot' \in Seq([type : Types, subs : Seq(Ids)]) /\ Len(slot') = Len(slot)
      /\ DOMAIN slot' = DOMAIN slot
      /\ \A s \in DOMAIN slot : /\ slot'[s].type = slot[s].type
                                /\ slot'[s].subs = IF s = f THEN q ELSE slot[s].subs
                                /\ Subscribers(s)' = IF s = f THEN ToSet(q) ELSE Subscribers(s)
  <2>1. slot' = [slot EXCEPT ![f].subs = q]
    BY <1>1, <1>o, <1>q
  <2>2. NewList(f, q)
    BY <1>3, <1>5, <2>1, SlotChanged
  <2>3. QED
    BY <2>2 DEF NewList
<1>7. /\ op' \in [Threads -> OpSteps] /\ arg' \in [Threads -> {NoId} \cup Ids]
      /\ found' \in [Threads -> 0..Len(slot)]
      /\ op'[t] = "idle"
      /\ \A u \in Threads \ {t} : op'[u] = op[u] /\ arg'[u] = arg[u] /\ found'[u] = found[u]
  BY <1>1, Ends
<1>8. TypeOK'
  <2>1. StateTypes'
    BY <1>a, <1>2, <1>6 DEF TypeOK, StateTypes
  <2>2. CallTypes'
    BY <1>6, <1>7 DEF CallTypes
  <2>3. QED
    BY <1>a, <1>6, <2>1, <2>2, LenHere, CallTypesGive
<1>9. Grows
  BY <1>a, <1>6, SubscriptionBounds DEF Grows, TypeOK
<1>10. ASSUME NEW x \in Ids \ {id} PROVE Same(x)
  <2>1. \A s \in DOMAIN slot : x \in Subscribers(s)' <=> x \in Subscribers(s)
    BY <1>3, <1>5, <1>6
  <2>2. QED
    BY <1>a, <1>6, <2>1 DEF Same
<1>11. SlotsApart'
  BY <1>a, <1>5, <1>6 DEF SlotsApart
<1>12. SubOf(id)'
  <2>1. \A s \in DOMAIN slot' : id \notin Subscribers(s)'
    BY <1>3, <1>5, <1>6 DEF SubOf
  <2>2. id \notin trie \cup live
    BY <1>2 DEF SubOf
  <2>3. QED
    BY <1>a, <1>2, <2>1, <2>2 DEF SubOf, Gone
<1>13. CallOf(t)'
  BY <1>7, CallEnded
<1>14. Moves(t, id)
  <2>1. Quiet(t, id)
    BY <1>1, QuietHere DEF Removing
  <2>2. QED
    BY <1>a, <1>7, <1>10, <2>1 DEF Moves
<1>15. QED
  BY <1>8, <1>9, <1>11, <1>12, <1>13, <1>14, CallStepKeeps

(* WildcardTrie::remove: the entry's slot is empty ... *)
LEMMA RemoveWildcardInv ==
  ASSUME SubsInv, NEW t \in Threads, arg[t] \in Ids, RemoveWildcard(t)
  PROVE  SubsInv'
<1> USE DEF SubsInv
<1> PICK id \in Ids : id = arg[t]
  OBVIOUS
<1>1. /\ op[t] = "remove_wild" /\ live' = live \ {id}
      /\ Goto(t, "publish_trie") /\ "publish_trie" \in OpSteps
      /\ UNCHANGED <<next_id, slots, slot, trie, sub_to_topic, info, arg, found>>
      /\ UNCHANGED <<returned, cancelling, cancelled>> /\ DispatchersStay
  BY DEF RemoveWildcard, historyVars, DispatchersStay, OpSteps
<1>2. id \in cancelling /\ IsWildcard(id) /\ id \notin sub_to_topic \cup cancelled
  BY <1>1 DEF CallOf, Removing
<1>3. /\ op' \in [Threads -> OpSteps] /\ arg' \in [Threads -> {NoId} \cup Ids]
      /\ found' \in [Threads -> 0..Len(slot)]
      /\ op'[t] = "publish_trie" /\ arg'[t] = arg[t] /\ found'[t] = found[t]
      /\ \A u \in Threads \ {t} : op'[u] = op[u] /\ arg'[u] = arg[u] /\ found'[u] = found[u]
  BY <1>1, GoesOn
<1>4. TypeOK'
  <2>1. StateTypes' /\ CallTypes'
    BY <1>1, <1>3 DEF TypeOK, StateTypes, CallTypes
  <2>2. QED
    BY <1>1, <2>1, LenHere, CallTypesGive
<1>5. Grows
  BY <1>1, GrowsHere
<1>6. \A x \in Ids \ {id} : Same(x)
  BY <1>1 DEF Same, Subscribers
<1>7. (IsWildcard(id)' <=> IsWildcard(id)) /\ \A s : Subscribers(s)' = Subscribers(s)
  BY <1>1 DEF IsWildcard, Subscribers
<1>8. SubOf(id)'
  BY <1>1, <1>2, <1>7 DEF SubOf
<1>9. CallOf(t)'
  <2>1. IsWildcard(arg[t])' <=> IsWildcard(id)
    BY <1>1 DEF IsWildcard
  <2>2. QED
    BY <1>1, <1>2, <1>3, <2>1 DEF CallOf, Adding, Removing
<1>10. Moves(t, id)
  <2>1. Quiet(t, id)
    BY <1>1, QuietHere DEF Removing
  <2>2. QED
    BY <1>1, <1>3, <1>6, <2>1 DEF Moves
<1>11. QED
  BY <1>1, <1>4, <1>5, <1>8, <1>9, <1>10, SlotsApartHere, CallStepKeeps

(* ... and the trie has no entry: nothing of the subscription is left. *)
LEMMA PublishTrieInv ==
  ASSUME SubsInv, NEW t \in Threads, arg[t] \in Ids, PublishTrie(t)
  PROVE  SubsInv'
<1> USE DEF SubsInv
<1> PICK id \in Ids : id = arg[t]
  OBVIOUS
<1>1. /\ op[t] = "publish_trie" /\ EndCall(t) /\ trie' = trie \ {id}
      /\ cancelled' = cancelled \cup {id}
      /\ UNCHANGED <<next_id, slots, slot, live, sub_to_topic, info>>
      /\ UNCHANGED <<returned, cancelling>> /\ DispatchersStay
  BY DEF PublishTrie, Removed, DispatchersStay
<1>2. id \in cancelling /\ IsWildcard(id) /\ id \notin sub_to_topic /\ id \notin live
  BY <1>1 DEF CallOf, Removing
<1>3. /\ op' \in [Threads -> OpSteps] /\ arg' \in [Threads -> {NoId} \cup Ids]
      /\ found' \in [Threads -> 0..Len(slot)]
      /\ op'[t] = "idle"
      /\ \A u \in Threads \ {t} : op'[u] = op[u] /\ arg'[u] = arg[u] /\ found'[u] = found[u]
  BY <1>1, Ends
<1>4. TypeOK'
  <2>1. StateTypes' /\ CallTypes'
    BY <1>1, <1>2, <1>3 DEF TypeOK, StateTypes, CallTypes
  <2>2. QED
    BY <1>1, <2>1, LenHere, CallTypesGive
<1>5. Grows
  BY <1>1, GrowsHere
<1>6. \A x \in Ids \ {id} : Same(x)
  BY <1>1 DEF Same, Subscribers
<1>7. (IsWildcard(id)' <=> IsWildcard(id)) /\ \A s : Subscribers(s)' = Subscribers(s)
  BY <1>1 DEF IsWildcard, Subscribers
<1>8. SubOf(id)'
  <2>1. \A s \in DOMAIN slot : id \notin Subscribers(s)
    BY <1>2 DEF SubOf
  <2>2. Gone(id)'
    BY <1>1, <1>2, <1>7, <2>1 DEF Gone
  <2>3. QED
    BY <1>1, <1>2, <1>7, <2>1, <2>2 DEF SubOf
<1>9. CallOf(t)'
  BY <1>3, CallEnded
<1>10. Moves(t, id)
  <2>1. Quiet(t, id)
    BY <1>1, QuietHere DEF Removing
  <2>2. QED
    BY <1>1, <1>3, <1>6, <2>1 DEF Moves
<1>11. QED
  BY <1>1, <1>4, <1>5, <1>8, <1>9, <1>10, SlotsApartHere, CallStepKeeps

(* The steps of a call *)
LEMMA CallStepInv ==
  ASSUME SubsInv, NEW t \in Threads, CallStep(t)
  PROVE  SubsInv'
<1>1. op[t] # "idle" => arg[t] \in Ids
  <2>1. op[t] \in Adding => arg[t] \in 1..next_id
    BY DEF SubsInv, CallOf
  <2>2. op[t] \in Removing \cup {"erase"} => arg[t] \in cancelling
    BY DEF SubsInv, CallOf
  <2>3. 1..next_id \subseteq Ids /\ cancelling \subseteq Ids
    BY SubscriptionBounds DEF SubsInv, TypeOK, Ids
  <2>4. QED
    BY <2>1, <2>2, <2>3 DEF SubsInv, TypeOK, OpSteps, Adding, Removing
<1>2. CASE FindSlot(t)
  <2>1. arg[t] \in Ids /\ UNCHANGED <<stateVars, dispatchVars, historyVars>>
    BY <1>1, <1>2 DEF FindSlot
  <2>2. op[t] \in {"find", "create"}
        /\ \/ CheckSlot(t, slots[info[arg[t]].key]) /\ slots[info[arg[t]].key] # NoSlot
           \/ Goto(t, "create") /\ UNCHANGED <<arg, found>>
    BY <1>2 DEF FindSlot
  <2>3. QED
    BY <2>1, <2>2, LookupInv
<1>3. CASE CreateSlot(t)
  <2>1. arg[t] \in Ids
    BY <1>1, <1>3 DEF CreateSlot
  <2>2. QED
    BY <1>3, <2>1, CreateSlotInv
<1>4. CASE AddSubscriber(t)
  <2>1. arg[t] \in Ids
    BY <1>1, <1>4 DEF AddSubscriber
  <2>2. QED
    BY <1>4, <2>1, AddSubscriberInv
<1>5. CASE InsertWildcard(t)
  <2>1. arg[t] \in Ids
    BY <1>1, <1>5 DEF InsertWildcard
  <2>2. QED
    BY <1>5, <2>1, InsertWildcardInv
<1>6. CASE Register(t)
  <2>1. arg[t] \in Ids
    BY <1>1, <1>6 DEF Register
  <2>2. QED
    BY <1>6, <2>1, RegisterInv
<1>7. CASE EraseNothing(t)
  <2>1. arg[t] \in Ids
    BY <1>1, <1>7 DEF EraseNothing
  <2>2. QED
    BY <1>7, <2>1, EraseNothingInv
<1>8. CASE Erase(t)
  <2>1. arg[t] \in Ids
    BY <1>1, <1>8 DEF Erase
  <2>2. QED
    BY <1>8, <2>1, EraseInv
<1>9. CASE RemoveExact(t)
  <2>1. arg[t] \in Ids
    BY <1>1, <1>9 DEF RemoveExact
  <2>2. QED
    BY <1>9, <2>1, RemoveExactInv
<1>10. CASE RemoveWildcard(t)
  <2>1. arg[t] \in Ids
    BY <1>1, <1>10 DEF RemoveWildcard
  <2>2. QED
    BY <1>10, <2>1, RemoveWildcardInv
<1>11. CASE PublishTrie(t)
  <2>1. arg[t] \in Ids
    BY <1>1, <1>11 DEF PublishTrie
  <2>2. QED
    BY <1>11, <2>1, PublishTrieInv
<1>12. QED
  BY <1>2, <1>3, <1>4, <1>5, <1>6, <1>7, <1>8, <1>9, <1>10, <1>11 DEF CallStep

-----------------------------------------------------------------------------
(* Steps of dispatchMessage()                                              *)

(* Dispatchers only read what the calls change. *)
OnlyReads ==
  /\ UNCHANGED <<next_id, slots, slot, trie, live, sub_to_topic, info>>
  /\ UNCHANGED <<op, arg, found>> /\ UNCHANGED <<returned, cancelling, cancelled>>

LEMMA DispatchStepKeeps ==
  ASSUME SubsInv, NEW d \in Dispatchers, OnlyReads, DispatchTypes', DispatchOf(d)',
         \A e \in Dispatchers \ {d} : DispatcherSame(e)
  PROVE  SubsInv'
<1>1. TypeOK'
  <2>1. StateTypes' /\ CallTypes'
    BY DEF SubsInv, TypeOK, StateTypes, CallTypes, OnlyReads
  <2>2. Types3'
    BY <2>1 DEF Types3
  <2>3. QED
    BY <2>2, TypesAre, PTL
<1>2. Grows
  BY GrowsHere DEF OnlyReads, SubsInv
<1>3. SlotsApart'
  BY SlotsApartHere DEF OnlyReads, SubsInv
<1>4. \A x : Same(x)
  BY SameHere DEF OnlyReads
<1>5. \A x \in Ids : SubOf(x)'
  BY <1>1, <1>2, <1>4, SubKept DEF SubsInv
<1>6. \A u \in Threads : CallOf(u)'
  BY <1>1, <1>2, <1>4, CallKept DEF SubsInv, OnlyReads
<1>7. CallsApart'
  BY DEF SubsInv, CallsApart, OnlyReads
<1>8. ASSUME NEW e \in Dispatchers PROVE DispatchOf(e)'
  <2>1. CASE e = d
    BY <2>1
  <2>2. CASE e # d
    BY <1>1, <1>2, <2>2, DispatchKept DEF SubsInv
  <2>3. QED
    BY <2>1, <2>2
<1>9. QED
  BY <1>1, <1>3, <1>5, <1>6, <1>7, <1>8 DEF SubsInv

(* What a dispatch wants is the same as long as its message is. *)
LEMMA WantedHere ==
  ASSUME OnlyReads, NEW d \in Dispatchers, NEW id
  PROVE  /\ IsWildcard(id)' <=> IsWildcard(id)
         /\ msg'[d] = msg[d] => (Wanted(d, id)' <=> Wanted(d, id))
  BY DEF OnlyReads, Wanted, IsWildcard

(* A subscription in force, or found by a dispatch *)
LEMMA InForceHere ==
  ASSUME SubsInv, NEW id \in returned \ cancelling
  PROVE  InPlace(id) /\ id \in 1..next_id
  BY DEF SubsInv, SubOf, TypeOK

(* A dispatch begins. *)
LEMMA DispatchInv ==
  ASSUME SubsInv, NEW d \in Dispatchers, NEW topic \in Topics, NEW type \in Types,
         Dispatch(d, topic, type)
  PROVE  SubsInv'
<1>1. OnlyReads
  BY DEF Dispatch, stateVars, callVars, OnlyReads
<1>2. DispatchTypes'
  BY <1>1, SubscriptionBounds DEF Dispatch, OnlyReads, SubsInv, TypeOK, DispatchTypes, DispatchSteps
<1>3. /\ dpc[d] = "idle" /\ dpc'[d] = "find" /\ called'[d] = <<>>
      /\ expected'[d] = returned \ cancelling /\ gone'[d] = cancelled
      /\ todo'[d] = todo[d] /\ matched'[d] = matched[d] /\ calling'[d] = calling[d]
      /\ \A e \in Dispatchers \ {d} : DispatcherSame(e)
  BY DEF Dispatch, SubsInv, TypeOK, DispatcherSame
<1>4. todo[d] = <<>> /\ matched[d] = {} /\ calling[d] = NoId
  BY <1>3 DEF SubsInv, DispatchOf
<1>5. Got(d)' = {}
  BY <1>3, <1>4, Short DEF Got
<1>6. DispatchOf(d)'
  BY <1>1, <1>3, <1>4, <1>5, Short DEF DispatchOf, OnlyReads
<1>7. QED
  BY <1>1, <1>2, <1>3, <1>6, DispatchStepKeeps

(* The slot of the topic is found, or there is none of the message's type. *)
LEMMA FindExactInv ==
  ASSUME SubsInv, NEW d \in Dispatchers, FindExact(d)
  PROVE  SubsInv'
<1> PICK s : s = slots[msg[d].topic]
  OBVIOUS
<1>1. OnlyReads
  BY DEF FindExact, stateVars, callVars, historyVars, OnlyReads
<1>2. msg[d].topic \in Topics /\ s \in 0..Len(slot) /\ dpc[d] = "find"
  BY DEF FindExact, SubsInv, TypeOK
<1>3. DispatchTypes'
  BY <1>1, <1>2 DEF FindExact, OnlyReads, historyVars, SubsInv, TypeOK, DispatchTypes, DispatchSteps
<1>4. /\ \A e \in Dispatchers \ {d} : DispatcherSame(e)
      /\ called'[d] = called[d] /\ expected'[d] = expected[d] /\ gone'[d] = gone[d]
      /\ todo'[d] = todo[d] /\ matched'[d] = matched[d] /\ calling'[d] = calling[d]
      /\ msg'[d] = msg[d]
      /\ \/ dpc'[d] = "load" /\ at'[d] = s /\ s # NoSlot /\ slot[s].type = msg[d].type
         \/ dpc'[d] = "match" /\ ~(s # NoSlot /\ slot[s].type = msg[d].type)
  BY DEF FindExact, historyVars, SubsInv, TypeOK, DispatcherSame
<1>5. DispatchOf(d)
  BY DEF SubsInv
<1>6. todo[d] = <<>> /\ matched[d] = {} /\ called[d] = <<>> /\ calling[d] = NoId
      /\ expected[d] \subseteq returned /\ gone[d] \subseteq cancelled
  BY <1>2, <1>5 DEF DispatchOf
<1>7. Got(d)' = {}
  BY <1>4, <1>6, Short DEF Got
<1>8. ASSUME NEW id \in expected[d] \ cancelling, Wanted(d, id), ~IsWildcard(id)
      PROVE  s # NoSlot /\ slot[s].type = msg[d].type
  <2>1. InPlace(id) /\ id \in 1..next_id /\ id \in Ids
    BY <1>6, InForceHere DEF SubsInv, TypeOK
  <2>2. info[id].key = msg[d].topic /\ info[id].type = msg[d].type
    BY <1>8 DEF Wanted
  <2>3. s # NoSlot /\ id \in Subscribers(s)
    BY <1>8, <2>1, <2>2 DEF InPlace
  <2>4. s \in DOMAIN slot
    BY <1>2, <2>3, SlotsExist DEF SubsInv
  <2>5. QED
    BY <2>1, <2>2, <2>3, <2>4 DEF SubsInv, SubOf
<1>9. \A id \in expected'[d] \ cancelling' : Wanted(d, id)' =>
         /\ dpc'[d] = "match" /\ ~IsWildcard(id)' => FALSE
         /\ dpc'[d] \notin {"run", "next", "run_wild"}
  BY <1>1, <1>4, <1>8, WantedHere DEF OnlyReads
<1>10. DispatchOf(d)'
  BY <1>1, <1>4, <1>6, <1>7, <1>9, Short DEF DispatchOf, OnlyReads
<1>11. QED
  BY <1>1, <1>3, <1>4, <1>10, DispatchStepKeeps

(* loadSubscribers: the list has all that were subscribed to the topic. *)
LEMMA LoadSubscribersInv ==
  ASSUME SubsInv, NEW d \in Dispatchers, LoadSubscribers(d)
  PROVE  SubsInv'
<1> PICK s : s = at[d]
  OBVIOUS
<1>1. OnlyReads
  BY DEF LoadSubscribers, stateVars, callVars, historyVars, OnlyReads
<1>2. dpc[d] = "load" /\ DispatchOf(d) /\ msg[d].topic \in Topics
  BY DEF LoadSubscribers, SubsInv, TypeOK
<1>3. /\ s # NoSlot /\ s = slots[msg[d].topic] /\ slot[s].type = msg[d].type
      /\ matched[d] = {} /\ called[d] = <<>> /\ calling[d] = NoId
      /\ expected[d] \subseteq returned /\ gone[d] \subseteq cancelled
  BY <1>2 DEF DispatchOf
<1>4. s \in DOMAIN slot
  BY <1>2, <1>3, SlotsExist DEF SubsInv
<1>5. slot[s].subs \in Seq(Ids) /\ Subscribers(s) = ToSet(slot[s].subs) /\ IsInjective(slot[s].subs)
      /\ Subscribers(s) \subseteq Ids
  BY <1>4, LenHere DEF SubsInv, SlotsApart
<1>6. DispatchTypes'
  <2>1. NoSlot \in 0..Len(slot)
    BY LenHere DEF NoSlot, SubsInv
  <2>2. QED
    BY <1>1, <1>5, <2>1 DEF LoadSubscribers, OnlyReads, historyVars, SubsInv, TypeOK, DispatchTypes,
                            DispatchSteps
<1>7. /\ \A e \in Dispatchers \ {d} : DispatcherSame(e)
      /\ called'[d] = called[d] /\ expected'[d] = expected[d] /\ gone'[d] = gone[d]
      /\ todo'[d] = slot[s].subs /\ matched'[d] = matched[d] /\ calling'[d] = calling[d]
      /\ msg'[d] = msg[d] /\ dpc'[d] = "run"
  BY DEF LoadSubscribers, historyVars, SubsInv, TypeOK, DispatcherSame
<1>8. Got(d)' = Subscribers(s)
  BY <1>3, <1>5, <1>7, Short DEF Got
<1>9. ASSUME NEW id \in Subscribers(s)
      PROVE  id \in 1..next_id /\ ~IsWildcard(id) /\ Wanted(d, id) /\ id \notin gone[d]
  <2>1. id \in Ids /\ SubOf(id)
    BY <1>5 DEF SubsInv
  <2>2. /\ id \in 1..next_id /\ ~IsWildcard(id)
        /\ slots[info[id].key] = s /\ info[id].type = slot[s].type
    BY <1>4, <2>1 DEF SubOf
  <2>3. info[id].key \in Topics
    BY <2>2 DEF SubsInv, TypeOK, IsWildcard
  <2>4. info[id].key = msg[d].topic
    BY <1>2, <1>3, <2>2, <2>3 DEF SubsInv, SlotsApart
  <2>5. id \notin cancelled
    BY <1>4, <2>1 DEF SubOf, Gone
  <2>6. QED
    BY <1>3, <2>2, <2>4, <2>5 DEF Wanted
<1>10. ASSUME NEW id \in expected[d] \ cancelling, Wanted(d, id), ~IsWildcard(id)
       PROVE  id \in Subscribers(s)
  <2>1. InPlace(id)
    BY <1>3, InForceHere
  <2>2. QED
    BY <1>3, <1>10, <2>1 DEF Wanted, InPlace
<1>11. \A id \in Got(d)' : /\ id \in 1..next_id' /\ id \notin gone'[d] /\ Wanted(d, id)'
                           /\ ~IsWildcard(id)'
  BY <1>1, <1>7, <1>8, <1>9, WantedHere DEF OnlyReads
<1>12. \A id \in expected'[d] \ cancelling' : Wanted(d, id)' /\ ~IsWildcard(id)' => id \in Got(d)'
  BY <1>1, <1>7, <1>8, <1>10, WantedHere DEF OnlyReads
<1>13. /\ ToSet(called'[d]) = {} /\ IsInjective(called'[d]) /\ IsInjective(todo'[d])
       /\ matched'[d] = {} /\ calling'[d] = NoId
       /\ expected'[d] \subseteq returned' /\ gone'[d] \subseteq cancelled'
  BY <1>1, <1>3, <1>5, <1>7, Short DEF OnlyReads
<1>14. DispatchOf(d)'
  BY <1>7, <1>11, <1>12, <1>13 DEF DispatchOf
<1>15. QED
  BY <1>1, <1>6, <1>7, <1>14, DispatchStepKeeps

(* The next handler is called. *)
LEMMA CallInv ==
  ASSUME SubsInv, NEW d \in Dispatchers, Call(d)
  PROVE  SubsInv'
<1> PICK h : h = Head(todo[d])
  OBVIOUS
<1> PICK rest : rest = Tail(todo[d])
  OBVIOUS
<1>1. OnlyReads
  BY DEF Call, stateVars, callVars, OnlyReads
<1>2. /\ dpc[d] \in {"run", "run_wild"} /\ todo[d] # <<>> /\ todo[d] \in Seq(Ids)
      /\ called[d] \in Seq(Ids) /\ DispatchOf(d)
  BY DEF Call, SubsInv, TypeOK
<1>3. /\ h \in Ids /\ rest \in Seq(Ids) /\ ToSet(todo[d]) = ToSet(rest) \cup {h}
      /\ IsInjective(rest) /\ h \notin ToSet(rest)
  BY <1>2, Behead DEF DispatchOf
<1> PICK now : now = Append(called[d], h)
  OBVIOUS
<1>4. h \notin ToSet(called[d]) /\ IsInjective(called[d])
  BY <1>2, <1>3 DEF DispatchOf
<1>5. /\ now \in Seq(Ids) /\ ToSet(now) = ToSet(called[d]) \cup {h} /\ IsInjective(now)
  BY <1>2, <1>3, <1>4, Appended
<1>6. /\ calling' = [calling EXCEPT ![d] = h] /\ todo' = [todo EXCEPT ![d] = rest]
      /\ called' = [called EXCEPT ![d] = now]
      /\ UNCHANGED <<dpc, msg, at, matched, sent, expected, gone>>
  BY DEF Call
<1>7. DispatchTypes'
  BY <1>1, <1>3, <1>5, <1>6 DEF OnlyReads, SubsInv, TypeOK, DispatchTypes
<1>8. /\ \A e \in Dispatchers \ {d} : DispatcherSame(e)
      /\ called'[d] = now /\ expected'[d] = expected[d] /\ gone'[d] = gone[d]
      /\ todo'[d] = rest /\ matched'[d] = matched[d] /\ calling'[d] = h
      /\ msg'[d] = msg[d] /\ dpc'[d] = dpc[d]
  BY <1>6 DEF SubsInv, TypeOK, DispatcherSame
<1>9. Got(d)' = Got(d)
  BY <1>3, <1>5, <1>8 DEF Got
<1>10. \A id : (Wanted(d, id)' <=> Wanted(d, id)) /\ (IsWildcard(id)' <=> IsWildcard(id))
  BY <1>1, <1>8, WantedHere
<1>11. /\ \A id \in Got(d)' : id \in 1..next_id' /\ id \notin gone'[d] /\ Wanted(d, id)'
       /\ dpc'[d] \in {"find", "load", "run", "match"} => \A id \in Got(d)' : ~IsWildcard(id)'
       /\ \A id \in matched'[d] : IsWildcard(id)'
       /\ \A id \in expected'[d] \ cancelling' : Wanted(d, id)' =>
            /\ dpc'[d] \in {"run", "match", "next", "run_wild"} /\ ~IsWildcard(id)' => id \in Got(d)'
            /\ dpc'[d] \in {"next", "run_wild"} /\ IsWildcard(id)' => id \in Got(d)'
  BY <1>1, <1>2, <1>8, <1>9, <1>10 DEF DispatchOf, OnlyReads
<1>12. /\ expected'[d] \subseteq returned' /\ gone'[d] \subseteq cancelled'
       /\ dpc'[d] \notin {"next", "run_wild"} => matched'[d] = {}
       /\ ToSet(called'[d]) \cap ToSet(todo'[d]) = {}
       /\ matched'[d] \cap (ToSet(called'[d]) \cup ToSet(todo'[d])) = {}
       /\ calling'[d] \in ToSet(called'[d]) /\ dpc'[d] \in {"run", "run_wild"}
  BY <1>1, <1>2, <1>3, <1>5, <1>8 DEF DispatchOf, OnlyReads
<1>13. DispatchOf(d)'
  BY <1>3, <1>5, <1>8, <1>11, <1>12 DEF DispatchOf
<1>14. QED
  BY <1>1, <1>7, <1>8, <1>13, DispatchStepKeeps

(* A handler or a list ends, or the dispatch: what it has got stays. *)
LEMMA StepInv ==
  ASSUME SubsInv, NEW d \in Dispatchers, HandlerEnds(d) \/ AllCalled(d) \/ DispatchEnds(d)
  PROVE  SubsInv'
<1>1. OnlyReads
  BY DEF HandlerEnds, AllCalled, DispatchEnds, stateVars, callVars, historyVars, OnlyReads
<1>2. DispatchTypes'
  BY <1>1 DEF HandlerEnds, AllCalled, DispatchEnds, OnlyReads, historyVars, SubsInv, TypeOK,
              DispatchTypes, DispatchSteps
<1>3. /\ \A e \in Dispatchers \ {d} : DispatcherSame(e)
      /\ called'[d] = called[d] /\ expected'[d] = expected[d] /\ gone'[d] = gone[d]
      /\ todo'[d] = todo[d] /\ matched'[d] = matched[d] /\ msg'[d] = msg[d]
  BY DEF HandlerEnds, AllCalled, DispatchEnds, historyVars, SubsInv, TypeOK, DispatcherSame
<1>4. \/ calling'[d] = NoId /\ dpc'[d] = dpc[d]
      \/ calling[d] = NoId /\ calling'[d] = NoId /\ dpc[d] = "run" /\ dpc'[d] = "match" /\ todo[d] = <<>>
      \/ calling[d] = NoId /\ calling'[d] = NoId /\ dpc[d] = "run_wild" /\ dpc'[d] = "next" /\ todo[d] = <<>>
      \/ calling'[d] = calling[d] /\ dpc[d] = "next" /\ dpc'[d] = "idle" /\ matched[d] = {}
  BY DEF HandlerEnds, AllCalled, DispatchEnds, SubsInv, TypeOK
<1>5. at'[d] = at[d] /\ DispatchOf(d)
  BY DEF HandlerEnds, AllCalled, DispatchEnds, SubsInv, TypeOK
<1>6. Got(d)' = Got(d)
  BY <1>3 DEF Got
<1>7. \A id : (Wanted(d, id)' <=> Wanted(d, id)) /\ (IsWildcard(id)' <=> IsWildcard(id))
  BY <1>1, <1>3, WantedHere
<1>8. /\ \A id \in Got(d)' : id \in 1..next_id' /\ id \notin gone'[d] /\ Wanted(d, id)'
      /\ dpc'[d] \in {"find", "load", "run", "match"} => \A id \in Got(d)' : ~IsWildcard(id)'
      /\ \A id \in matched'[d] : IsWildcard(id)'
  BY <1>1, <1>3, <1>4, <1>5, <1>6, <1>7 DEF DispatchOf, OnlyReads
<1>9. \A id \in expected'[d] \ cancelling' : Wanted(d, id)' =>
            /\ dpc'[d] \in {"run", "match", "next", "run_wild"} /\ ~IsWildcard(id)' => id \in Got(d)'
            /\ dpc'[d] \in {"next", "run_wild"} /\ IsWildcard(id)' => id \in Got(d)'
  BY <1>1, <1>3, <1>4, <1>5, <1>6, <1>7 DEF DispatchOf, OnlyReads
<1>10. /\ expected'[d] \subseteq returned' /\ gone'[d] \subseteq cancelled'
       /\ dpc'[d] \in {"idle", "find", "load", "match", "next"} => todo'[d] = <<>>
       /\ dpc'[d] \notin {"next", "run_wild"} => matched'[d] = {}
       /\ dpc'[d] \in {"find", "load"} => called'[d] = <<>>
       /\ calling'[d] # NoId => dpc'[d] \in {"run", "run_wild"} /\ calling'[d] \in ToSet(called'[d])
  BY <1>1, <1>3, <1>4, <1>5 DEF DispatchOf, OnlyReads
<1>11. dpc'[d] = "load" => /\ at'[d] # NoSlot /\ at'[d] = slots'[msg'[d].topic]
                           /\ slot'[at'[d]].type = msg'[d].type
  BY <1>1, <1>3, <1>4, <1>5 DEF DispatchOf, OnlyReads
<1>12. /\ IsInjective(called'[d]) /\ IsInjective(todo'[d])
       /\ ToSet(called'[d]) \cap ToSet(todo'[d]) = {}
       /\ matched'[d] \cap (ToSet(called'[d]) \cup ToSet(todo'[d])) = {}
  BY <1>3, <1>5 DEF DispatchOf
<1>13. DispatchOf(d)'
  BY <1>8, <1>9, <1>10, <1>11, <1>12 DEF DispatchOf
<1>14. QED
  BY <1>1, <1>2, <1>3, <1>13, DispatchStepKeeps

(* wildcard_trie_.match: all entries that match, none of which was called. *)
LEMMA MatchWildcardsInv ==
  ASSUME SubsInv, NEW d \in Dispatchers, MatchWildcards(d)
  PROVE  SubsInv'
<1> PICK found_ids : found_ids =
      {id \in trie : msg[d].topic \in Matches[info[id].key] /\ info[id].type = msg[d].type}
  OBVIOUS
<1>1. OnlyReads
  BY DEF MatchWildcards, stateVars, callVars, historyVars, OnlyReads
<1>2. dpc[d] = "match" /\ DispatchOf(d) /\ trie \subseteq Ids
  BY DEF MatchWildcards, SubsInv, TypeOK
<1>3. /\ matched' = [matched EXCEPT ![d] = found_ids] /\ dpc' = [dpc EXCEPT ![d] = "next"]
      /\ UNCHANGED <<msg, at, todo, calling, sent, called, expected, gone>>
  BY DEF MatchWildcards, historyVars
<1>4. DispatchTypes'
  BY <1>1, <1>2, <1>3 DEF OnlyReads, SubsInv, TypeOK, DispatchTypes, DispatchSteps
<1>5. /\ \A e \in Dispatchers \ {d} : DispatcherSame(e)
      /\ called'[d] = called[d] /\ expected'[d] = expected[d] /\ gone'[d] = gone[d]
      /\ todo'[d] = todo[d] /\ matched'[d] = found_ids /\ calling'[d] = calling[d]
      /\ msg'[d] = msg[d] /\ dpc'[d] = "next"
  BY <1>3 DEF SubsInv, TypeOK, DispatcherSame
<1>6. /\ todo[d] = <<>> /\ matched[d] = {} /\ calling[d] = NoId
      /\ expected[d] \subseteq returned /\ gone[d] \subseteq cancelled
  BY <1>2 DEF DispatchOf
<1>7. ASSUME NEW id \in found_ids
      PROVE  /\ id \in 1..next_id /\ IsWildcard(id) /\ Wanted(d, id)
             /\ id \notin gone[d] /\ id \notin Got(d)
  <2>1. id \in Ids /\ id \in trie
    BY <1>2
  <2>2. id \in 1..next_id /\ IsWildcard(id) /\ id \notin cancelled
    BY <2>1 DEF SubsInv, SubOf, Gone
  <2>3. id \notin Got(d)
    BY <1>2, <2>2 DEF DispatchOf
  <2>4. QED
    BY <1>6, <2>2, <2>3 DEF Wanted
<1>8. ASSUME NEW id \in expected[d] \ cancelling, Wanted(d, id), IsWildcard(id)
      PROVE  id \in found_ids
  <2>1. InPlace(id)
    BY <1>6, InForceHere
  <2>2. QED
    BY <1>8, <2>1 DEF InPlace, Wanted
<1>9. Got(d)' = Got(d) \cup found_ids /\ ToSet(todo[d]) = {} /\ Got(d) = ToSet(called[d])
  BY <1>5, <1>6, Short DEF Got
<1>10. \A id : (Wanted(d, id)' <=> Wanted(d, id)) /\ (IsWildcard(id)' <=> IsWildcard(id))
  BY <1>1, <1>5, WantedHere
<1>11. \A id \in Got(d) : id \in 1..next_id /\ id \notin gone[d] /\ Wanted(d, id)
  BY <1>2 DEF DispatchOf
<1>12. \A id \in Got(d)' : id \in 1..next_id' /\ id \notin gone'[d] /\ Wanted(d, id)'
  BY <1>1, <1>5, <1>7, <1>9, <1>10, <1>11 DEF OnlyReads
<1>13. \A id \in matched'[d] : IsWildcard(id)'
  BY <1>5, <1>7, <1>10
<1>14. \A id \in expected'[d] \ cancelling' : Wanted(d, id)' =>
         (~IsWildcard(id)' => id \in Got(d)') /\ (IsWildcard(id)' => id \in Got(d)')
  BY <1>1, <1>2, <1>5, <1>8, <1>9, <1>10 DEF DispatchOf, OnlyReads
<1>15. /\ expected'[d] \subseteq returned' /\ gone'[d] \subseteq cancelled'
       /\ todo'[d] = <<>> /\ calling'[d] = NoId
       /\ IsInjective(called'[d]) /\ IsInjective(todo'[d])
       /\ ToSet(called'[d]) \cap ToSet(todo'[d]) = {}
       /\ matched'[d] \cap (ToSet(called'[d]) \cup ToSet(todo'[d])) = {}
  BY <1>1, <1>2, <1>5, <1>6, <1>7, <1>9 DEF DispatchOf, OnlyReads
<1>16. DispatchOf(d)'
  BY <1>5, <1>12, <1>13, <1>14, <1>15 DEF DispatchOf
<1>17. QED
  BY <1>1, <1>4, <1>5, <1>16, DispatchStepKeeps

(* An entry that has no subscriber any more was being unsubscribed. *)
LEMMA NextMatchedInv ==
  ASSUME SubsInv, NEW d \in Dispatchers, NextMatched(d)
  PROVE  SubsInv'
<1>1. OnlyReads
  BY DEF NextMatched, stateVars, callVars, historyVars, OnlyReads
<1>2. PICK m \in matched[d] :
        /\ matched' = [matched EXCEPT ![d] = @ \ {m}]
        /\ todo' = [todo EXCEPT ![d] = IF m \in live THEN <<m>> ELSE <<>>]
  BY DEF NextMatched
<1>3. /\ dpc[d] = "next" /\ DispatchOf(d) /\ m \in Ids
      /\ dpc' = [dpc EXCEPT ![d] = "run_wild"]
      /\ UNCHANGED <<msg, at, calling, sent, called, expected, gone>>
  BY DEF NextMatched, historyVars, SubsInv, TypeOK
<1> PICK list : list = IF m \in live THEN <<m>> ELSE <<>>
  OBVIOUS
<1>4. list \in Seq(Ids) /\ IsInjective(list) /\ ToSet(list) = IF m \in live THEN {m} ELSE {}
  <2>1. CASE m \in live
    <3>1. list = <<m>> /\ <<m>> \in Seq(Ids)
      BY <1>3, <2>1
    <3>2. QED
      BY <2>1, <3>1, Short
  <2>2. CASE m \notin live
    <3>1. list = <<>> /\ <<>> \in Seq(Ids)
      BY <2>2
    <3>2. QED
      BY <2>2, <3>1, Short
  <2>3. QED
    BY <2>1, <2>2
<1>5. /\ \A e \in Dispatchers \ {d} : DispatcherSame(e)
      /\ called'[d] = called[d] /\ expected'[d] = expected[d] /\ gone'[d] = gone[d]
      /\ todo'[d] = list /\ matched'[d] = matched[d] \ {m} /\ calling'[d] = calling[d]
      /\ msg'[d] = msg[d] /\ dpc'[d] = "run_wild"
  BY <1>2, <1>3 DEF SubsInv, TypeOK, DispatcherSame
<1>6. DispatchTypes'
  BY <1>1, <1>2, <1>3, <1>4 DEF OnlyReads, SubsInv, TypeOK, DispatchTypes, DispatchSteps
<1>7. /\ todo[d] = <<>> /\ calling[d] = NoId /\ IsWildcard(m)
      /\ expected[d] \subseteq returned /\ gone[d] \subseteq cancelled
  BY <1>3 DEF DispatchOf
<1>8. ASSUME m \in expected[d] \ cancelling PROVE m \in live
  <2>1. InPlace(m)
    BY <1>7, <1>8, InForceHere
  <2>2. QED
    BY <1>7, <2>1 DEF InPlace
<1>9. Got(d)' = ToSet(called[d]) \cup ToSet(list) \cup (matched[d] \ {m})
      /\ Got(d) = ToSet(called[d]) \cup matched[d]
  BY <1>5, <1>7, Short DEF Got
<1>10. \A id : (Wanted(d, id)' <=> Wanted(d, id)) /\ (IsWildcard(id)' <=> IsWildcard(id))
  BY <1>1, <1>5, WantedHere
<1>11. Got(d)' \subseteq Got(d)
  BY <1>4, <1>9
<1>12. ASSUME NEW id \in Got(d), id \in expected[d] \ cancelling PROVE id \in Got(d)'
  BY <1>4, <1>8, <1>9, <1>12
<1>13. \A id \in Got(d)' : id \in 1..next_id' /\ id \notin gone'[d] /\ Wanted(d, id)'
  BY <1>1, <1>3, <1>5, <1>10, <1>11 DEF DispatchOf, OnlyReads
<1>14. \A id \in matched'[d] : IsWildcard(id)'
  BY <1>3, <1>5, <1>10 DEF DispatchOf
<1>15. \A id \in expected'[d] \ cancelling' : Wanted(d, id)' => id \in Got(d)'
  BY <1>1, <1>3, <1>5, <1>10, <1>12 DEF DispatchOf, OnlyReads
<1>16. /\ expected'[d] \subseteq returned' /\ gone'[d] \subseteq cancelled' /\ calling'[d] = NoId
       /\ IsInjective(called'[d]) /\ IsInjective(todo'[d])
       /\ ToSet(called'[d]) \cap ToSet(todo'[d]) = {}
       /\ matched'[d] \cap (ToSet(called'[d]) \cup ToSet(todo'[d])) = {}
  BY <1>1, <1>3, <1>4, <1>5, <1>7 DEF DispatchOf, OnlyReads
<1>17. DispatchOf(d)'
  BY <1>5, <1>13, <1>14, <1>15, <1>16 DEF DispatchOf
<1>18. QED
  BY <1>1, <1>5, <1>6, <1>17, DispatchStepKeeps

(* The steps of a dispatch *)
LEMMA DispatchStepInv ==
  ASSUME SubsInv, NEW d \in Dispatchers, DispatchStep(d)
  PROVE  SubsInv'
  BY FindExactInv, LoadSubscribersInv, CallInv, StepInv, MatchWildcardsInv, NextMatchedInv
     DEF DispatchStep

-----------------------------------------------------------------------------
(* The theorems                                                            *)

(* Nothing is subscribed at first. *)
LEMMA SubsInitInv == Init => SubsInv
<1> SUFFICES ASSUME Init PROVE SubsInv
  OBVIOUS
<1> USE DEF Init, NoId, NoSlot
<1>1. AnyMessage \in [topic : Topics, type : Types]
  <2>1. \E m : m \in [topic : Topics, type : Types]
    <3>1. PICK topic \in Topics, type \in Types : TRUE
      BY MessagesAssumption
    <3>2. [topic |-> topic, type |-> type] \in [topic : Topics, type : Types]
      OBVIOUS
    <3>3. QED
      BY <3>2
  <2>2. QED
    BY <2>1 DEF AnyMessage
<1>2. Len(slot) = 0 /\ DOMAIN slot = {} /\ slot \in Seq([type : Types, subs : Seq(Ids)])
      /\ info \in [1..next_id -> [key : Topics \cup Patterns, type : Types]]
      /\ <<>> \in Seq(Ids)
  OBVIOUS
<1>3. TypeOK
  <2>1. StateTypes
    BY <1>2, SubscriptionBounds DEF StateTypes
  <2>2. CallTypes
    BY <1>2 DEF CallTypes, OpSteps
  <2>3. DispatchTypes
    BY <1>1, <1>2, SubscriptionBounds DEF DispatchTypes, DispatchSteps
  <2>4. QED
    BY <2>1, <2>2, <2>3, TypesAre DEF Types3
<1>4. SlotsApart
  BY <1>2 DEF SlotsApart
<1>5. \A id \in Ids : SubOf(id)
  BY <1>2 DEF SubOf
<1>6. (\A t \in Threads : CallOf(t)) /\ CallsApart
  BY DEF CallOf, CallsApart, Adding, Removing
<1>7. ASSUME NEW d \in Dispatchers PROVE DispatchOf(d)
  <2>1. Got(d) = {}
    BY Short DEF Got
  <2>2. ToSet(called[d]) = {} /\ ToSet(todo[d]) = {} /\ IsInjective(called[d]) /\ IsInjective(todo[d])
    BY Short
  <2>3. QED
    BY <2>1, <2>2 DEF DispatchOf
<1>8. QED
  BY <1>3, <1>4, <1>5, <1>6, <1>7 DEF SubsInv

(* The inductive invariant of subscribe(), unsubscribe() and dispatchMessage() *)
THEOREM SubsInvariant == Spec => []SubsInv
<1>1. ASSUME SubsInv, [Next]_vars PROVE SubsInv'
  <2>1. ASSUME NEW t \in Threads, NEW key \in Topics \cup Patterns, NEW type \in Types,
               Subscribe(t, key, type)
        PROVE  SubsInv'
    BY <1>1, <2>1, SubscribeInv
  <2>2. ASSUME NEW t \in Threads, NEW id \in Ids, Unsubscribe(t, id) PROVE SubsInv'
    BY <1>1, <2>2, UnsubscribeInv
  <2>3. ASSUME NEW t \in Threads, CallStep(t) PROVE SubsInv'
    BY <1>1, <2>3, CallStepInv
  <2>4. ASSUME NEW d \in Dispatchers, NEW topic \in Topics, NEW type \in Types,
               Dispatch(d, topic, type)
        PROVE  SubsInv'
    BY <1>1, <2>4, DispatchInv
  <2>5. ASSUME NEW d \in Dispatchers, DispatchStep(d) PROVE SubsInv'
    BY <1>1, <2>5, DispatchStepInv
  <2>6. CASE UNCHANGED vars
    <3>1. OnlyReads /\ DispatchersStay
      BY <2>6 DEF vars, stateVars, callVars, historyVars, OnlyReads, DispatchersStay
    <3>2. TypeOK'
      <4>1. StateTypes' /\ CallTypes'
        BY <1>1, <3>1 DEF SubsInv, TypeOK, StateTypes, CallTypes, OnlyReads
      <4>2. QED
        BY <1>1, <3>1, <4>1, LenHere, CallTypesGive DEF SubsInv, OnlyReads
    <3>3. Grows /\ SlotsApart'
      BY <1>1, <3>1, GrowsHere, SlotsApartHere DEF SubsInv, OnlyReads
    <3>4. \A x : Same(x)
      BY <3>1, SameHere DEF OnlyReads
    <3>5. \A x \in Ids : SubOf(x)'
      BY <1>1, <3>2, <3>3, <3>4, SubKept DEF SubsInv
    <3>6. \A u \in Threads : CallOf(u)'
      BY <1>1, <3>1, <3>2, <3>3, <3>4, CallKept DEF SubsInv, OnlyReads
    <3>7. CallsApart'
      BY <1>1, <3>1 DEF SubsInv, CallsApart, OnlyReads
    <3>8. ASSUME NEW d \in Dispatchers PROVE DispatchOf(d)'
      <4>1. DispatcherSame(d)
        BY <3>1 DEF DispatchersStay, dispatchVars, DispatcherSame
      <4>2. QED
        BY <1>1, <3>2, <3>3, <4>1, DispatchKept DEF SubsInv
    <3>9. QED
      BY <3>2, <3>3, <3>5, <3>6, <3>7, <3>8 DEF SubsInv
  <2>7. QED
    BY <1>1, <2>1, <2>2, <2>3, <2>4, <2>5, <2>6 DEF Next
<1>2. QED
  BY SubsInitInv, <1>1, PTL DEF Spec

(* subscribe() is not undone by other calls: a subscription that it has      *)
(* returned is where dispatches find it until unsubscribe() is called.       *)
THEOREM InForceHolds == Spec => []InForce
<1>1. SubsInv => InForce
  <2> SUFFICES ASSUME SubsInv PROVE InForce
    OBVIOUS
  <2>1. \A id \in returned \ cancelling : InPlace(id)
    BY InForceHere
  <2>2. QED
    BY <2>1 DEF SubsInv, InForce, InPlace
<1>2. QED
  BY SubsInvariant, <1>1, PTL

(* unsubscribe() removes all of a subscription, whatever other threads do. *)
THEOREM NothingLeftHolds == Spec => []NothingLeft
<1>1. SubsInv => NothingLeft
  <2> SUFFICES ASSUME SubsInv, NEW id \in cancelled PROVE Gone(id)
    BY DEF NothingLeft, Gone
  <2>1. id \in Ids
    BY DEF SubsInv, TypeOK
  <2>2. QED
    BY <2>1 DEF SubsInv, SubOf
<1>2. QED
  BY SubsInvariant, <1>1, PTL

(* A dispatch reaches all handlers that stay subscribed while it runs, once. *)
THEOREM CompleteHolds == Spec => []Complete
<1>1. SubsInv => Complete
  <2> SUFFICES ASSUME SubsInv, NEW d \in Dispatchers
               PROVE  /\ IsInjective(called[d])
                      /\ dpc[d] = "next" /\ matched[d] = {} =>
                           \A id \in expected[d] \ cancelling : Wanted(d, id) => id \in ToSet(called[d])
    BY DEF Complete
  <2>1. DispatchOf(d)
    BY DEF SubsInv
  <2>2. ASSUME dpc[d] = "next", matched[d] = {} PROVE Got(d) = ToSet(called[d])
    BY <2>1, <2>2, Short DEF DispatchOf, Got
  <2>3. QED
    BY <2>1, <2>2 DEF DispatchOf
<1>2. QED
  BY SubsInvariant, <1>1, PTL

(* A dispatch calls only handlers of its message, and none that was removed  *)
(* before it began.                                                          *)
THEOREM NoLateCallHolds == Spec => []NoLateCall
<1>1. SubsInv => NoLateCall
  BY DEF SubsInv, DispatchOf, Got, NoLateCall
<1>2. QED
  BY SubsInvariant, <1>1, PTL
=============================================================================
