-------------------------- MODULE WildcardTrieProofs --------------------------
(***************************************************************************)
(* Proofs about WildcardTrie for every set of levels, every depth and      *)
(* every number of entries: what insert() and remove() keep of the tree,   *)
(* and what the walk of matchNode() finds in it.                           *)
(***************************************************************************)
EXTENDS WildcardTrie, SequenceTheorems, FiniteSetTheorems, WellFoundedInduction, TLAPS

(* A node has the entries of its pattern that are live, and where there is  *)
(* an entry there is a node.                                                *)
EntriesAt(p) ==
  /\ entries[p] \in Seq(Nat) /\ IsInjective(entries[p])
  /\ ToSet(entries[p]) = {e \in Live : inserted[e].pattern = p}

Tree ==
  /\ nodes \subseteq Paths /\ Root \in nodes
  /\ \A p \in nodes : Prefixes(p) \subseteq nodes

TrieInv ==
  /\ Tree
  /\ DOMAIN entries = Paths
  /\ inserted \in Seq([pattern : Patterns, type : Types])
  /\ removed \subseteq DOMAIN inserted
  /\ \A p \in Paths : EntriesAt(p)
  /\ \A p \in Paths \ nodes : entries[p] = <<>>
  /\ entry_count = Cardinality(Live)
  /\ NoDeadNodes

-----------------------------------------------------------------------------
(* Numbers and sequences                                                   *)

(* Every set of natural numbers that is not empty has a least element: the *)
(* walk of matchNode is followed by the number of levels it has ahead.     *)
LEMMA Least ==
  ASSUME NEW T, T \subseteq Nat, T # {}
  PROVE  \E m \in T : \A n \in T : m <= n
<1> DEFINE R == OpToRel(<, Nat)
<1>1. IsWellFoundedOn(R, Nat)
  BY NatLessThanWellFounded
<1>2. PICK m \in T : \A n \in T : ~ (<<n, m>> \in R)
  BY <1>1, WFMin
<1>3. ASSUME NEW n \in T PROVE m <= n
  <2>1. n \in Nat /\ m \in Nat
    OBVIOUS
  <2>2. n < m => <<n, m>> \in R
    BY <2>1 DEF OpToRel
  <2>3. ~(n < m)
    BY <1>2, <2>2
  <2>4. QED
    BY <2>1, <2>3
<1>4. QED
  BY <1>3

(* Lists of no element and of one *)
LEMMA Short ==
  /\ ToSet(<<>>) = {} /\ IsInjective(<<>>)
  /\ \A e : ToSet(<<e>>) = {e} /\ IsInjective(<<e>>)
<1>1. DOMAIN <<>> = {} /\ \A e : DOMAIN <<e>> = {1} /\ <<e>>[1] = e
  OBVIOUS
<1>2. QED
  BY <1>1 DEF ToSet, IsInjective

(* A list with an element more at its end *)
LEMMA Appended ==
  ASSUME NEW S, NEW s \in Seq(S), NEW e \in S
  PROVE  /\ Append(s, e) \in Seq(S) /\ ToSet(Append(s, e)) = ToSet(s) \cup {e}
         /\ IsInjective(s) /\ e \notin ToSet(s) => IsInjective(Append(s, e))
<1>1. /\ DOMAIN s = 1..Len(s) /\ DOMAIN Append(s, e) = 1..(Len(s) + 1)
      /\ Len(s) \in Nat /\ Append(s, e) \in Seq(S)
      /\ \A i \in 1..Len(s) : Append(s, e)[i] = s[i]
      /\ Append(s, e)[Len(s) + 1] = e
  BY AppendProperties
<1>2. \A i \in 1..(Len(s) + 1) : i \in 1..Len(s) \/ i = Len(s) + 1
  BY <1>1
<1>3. 1..Len(s) \subseteq 1..(Len(s) + 1) /\ Len(s) + 1 \in 1..(Len(s) + 1)
  BY <1>1
<1>4. ToSet(Append(s, e)) = ToSet(s) \cup {e}
  BY <1>1, <1>2, <1>3 DEF ToSet
<1>5. ASSUME IsInjective(s), e \notin ToSet(s) PROVE IsInjective(Append(s, e))
  BY <1>1, <1>2, <1>5 DEF IsInjective, ToSet
<1>6. QED
  BY <1>1, <1>4, <1>5

(* Two lists one after the other *)
LEMMA Joined ==
  ASSUME NEW S, NEW s \in Seq(S), NEW t \in Seq(S)
  PROVE  /\ s \o t \in Seq(S) /\ ToSet(s \o t) = ToSet(s) \cup ToSet(t)
         /\ IsInjective(s) /\ IsInjective(t) /\ ToSet(s) \cap ToSet(t) = {} => IsInjective(s \o t)
<1> DEFINE m == Len(s)  n == Len(t)  u == s \o t
<1>1. /\ m \in Nat /\ n \in Nat /\ DOMAIN s = 1..m /\ DOMAIN t = 1..n /\ DOMAIN u = 1..(m + n)
      /\ u \in Seq(S)
      /\ \A i \in 1..(m + n) : u[i] = IF i <= m THEN s[i] ELSE t[i - m]
  OBVIOUS
<1>2. /\ \A i \in 1..(m + n) : \/ i \in 1..m /\ u[i] = s[i]
                               \/ /\ i - m \in 1..n /\ i = (i - m) + m
                                  /\ i \notin 1..m /\ u[i] = t[i - m]
      /\ \A i \in 1..m : i \in 1..(m + n) /\ u[i] = s[i]
      /\ \A i \in 1..n : i + m \in 1..(m + n) /\ u[i + m] = t[i]
  BY <1>1
<1> HIDE DEF m, n, u
<1>3. ToSet(u) = ToSet(s) \cup ToSet(t)
  <2>1. ToSet(u) = {u[i] : i \in 1..(m + n)} /\ ToSet(s) = {s[i] : i \in 1..m}
        /\ ToSet(t) = {t[i] : i \in 1..n}
    BY <1>1 DEF ToSet
  <2>2. ASSUME NEW x \in ToSet(u) PROVE x \in ToSet(s) \cup ToSet(t)
    BY <2>1, <1>2
  <2>3. ASSUME NEW x \in ToSet(s) PROVE x \in ToSet(u)
    BY <2>1, <1>2
  <2>4. ASSUME NEW x \in ToSet(t) PROVE x \in ToSet(u)
    BY <2>1, <1>2
  <2>5. QED
    BY <2>2, <2>3, <2>4
<1>4. ASSUME IsInjective(s), IsInjective(t), ToSet(s) \cap ToSet(t) = {}
      PROVE  IsInjective(u)
  <2> SUFFICES ASSUME NEW i \in 1..(m + n), NEW j \in 1..(m + n), u[i] = u[j]
               PROVE  i = j
    BY <1>1 DEF IsInjective
  <2>1. \A k \in 1..m, l \in 1..n : s[k] # t[l]
    BY <1>1, <1>4 DEF ToSet
  <2>2. CASE i \in 1..m /\ j \in 1..m
    BY <2>2, <1>1, <1>2, <1>4 DEF IsInjective
  <2>3. CASE i \notin 1..m /\ j \notin 1..m
    <3>1. i - m \in 1..n /\ j - m \in 1..n /\ t[i - m] = t[j - m]
      BY <2>3, <1>2
    <3>2. i - m = j - m
      BY <3>1, <1>1, <1>4 DEF IsInjective
    <3>3. QED
      BY <3>2, <1>2, <1>1
  <2>4. QED
    BY <2>1, <2>2, <2>3, <1>2
<1>5. QED
  BY <1>1, <1>3, <1>4 DEF u

(* A list that has each element once, without the one at i *)
LEMMA Erased ==
  ASSUME NEW S, NEW s \in Seq(S), IsInjective(s), NEW i \in DOMAIN s
  PROVE  /\ RemoveAt(s, i) \in Seq(S) /\ IsInjective(RemoveAt(s, i))
         /\ ToSet(RemoveAt(s, i)) = ToSet(s) \ {s[i]}
<1> DEFINE n == Len(s)  u == RemoveAt(s, i)
<1>1. /\ n \in Nat /\ DOMAIN s = 1..n /\ i \in 1..n /\ i \in Nat
  OBVIOUS
<1>2. /\ SubSeq(s, 1, i - 1) \in Seq(S) /\ Len(SubSeq(s, 1, i - 1)) = i - 1
      /\ \A k \in 1..(i - 1) : SubSeq(s, 1, i - 1)[k] = s[k]
  BY <1>1
<1>3. /\ SubSeq(s, i + 1, n) \in Seq(S) /\ Len(SubSeq(s, i + 1, n)) = n - i
      /\ \A k \in 1..(n - i) : SubSeq(s, i + 1, n)[k] = s[i + k]
  BY <1>1
<1>4. /\ u \in Seq(S) /\ DOMAIN u = 1..(n - 1)
      /\ \A k \in 1..(n - 1) : u[k] = IF k < i THEN s[k] ELSE s[k + 1]
  <2> DEFINE a == SubSeq(s, 1, i - 1)  b == SubSeq(s, i + 1, n)
  <2>1. u = a \o b
    BY DEF RemoveAt
  <2>2. a \in Seq(S) /\ b \in Seq(S) /\ Len(a) = i - 1 /\ Len(b) = n - i
    BY <1>2, <1>3
  <2> HIDE DEF a, b, u
  <2>3. /\ u \in Seq(S) /\ Len(u) = (i - 1) + (n - i)
        /\ \A k \in 1..(Len(a) + Len(b)) : u[k] = IF k <= Len(a) THEN a[k] ELSE b[k - Len(a)]
    <3>1. /\ a \o b \in Seq(S) /\ Len(a \o b) = Len(a) + Len(b)
          /\ \A k \in 1..(Len(a) + Len(b)) :
               (a \o b)[k] = IF k <= Len(a) THEN a[k] ELSE b[k - Len(a)]
      BY <2>2, ConcatProperties
    <3>2. QED
      BY <2>1, <2>2, <3>1
  <2>4. Len(u) = n - 1 /\ DOMAIN u = 1..(n - 1)
    BY <2>3, <1>1
  <2>5. ASSUME NEW k \in 1..(n - 1) PROVE u[k] = IF k < i THEN s[k] ELSE s[k + 1]
    <3>1. CASE k < i
      <4>1. k \in 1..(i - 1) /\ k <= i - 1
        BY <3>1, <1>1
      <4>2. QED
        BY <4>1, <3>1, <2>2, <2>3, <2>4, <1>2 DEF a
    <3>2. CASE ~(k < i)
      <4>1. k - (i - 1) \in 1..(n - i) /\ i + (k - (i - 1)) = k + 1 /\ ~(k <= i - 1)
        BY <3>2, <1>1
      <4>2. b[k - (i - 1)] = s[i + (k - (i - 1))]
        BY <4>1, <1>3 DEF b
      <4>3. QED
        BY <4>1, <4>2, <3>2, <2>2, <2>3, <2>4
    <3>3. QED
      BY <3>1, <3>2
  <2>6. QED
    BY <2>3, <2>4, <2>5
<1> HIDE DEF n, u
<1>5. \A k \in 1..(n - 1) :
        \/ k < i /\ k \in 1..n /\ u[k] = s[k]
        \/ ~(k < i) /\ k + 1 \in 1..n /\ k + 1 # i /\ u[k] = s[k + 1]
  BY <1>1, <1>4
<1>6. \A k \in 1..n : \/ k = i
                      \/ k < i /\ k \in 1..(n - 1)
                      \/ k - 1 \in 1..(n - 1) /\ ~(k - 1 < i) /\ (k - 1) + 1 = k
  BY <1>1
<1>7. IsInjective(u)
  <2> SUFFICES ASSUME NEW j \in 1..(n - 1), NEW k \in 1..(n - 1), u[j] = u[k] PROVE j = k
    BY <1>4 DEF IsInjective
  <2>1. \A a, b \in 1..n : s[a] = s[b] => a = b
    BY <1>1 DEF IsInjective
  <2>2. j < i /\ k < i => j = k
    BY <2>1, <1>5
  <2>3. ~(j < i) /\ ~(k < i) => j + 1 = k + 1
    BY <2>1, <1>5
  <2>4. j < i /\ ~(k < i) => j = k + 1
    BY <2>1, <1>5
  <2>5. ~(j < i) /\ k < i => j + 1 = k
    BY <2>1, <1>5
  <2>6. QED
    BY <2>2, <2>3, <2>4, <2>5, <1>1
<1> DEFINE U == ToSet(u)
<1>t. U = {u[k] : k \in 1..(n - 1)} /\ ToSet(s) = {s[k] : k \in 1..n}
  BY <1>1, <1>4 DEF ToSet
<1> HIDE DEF U
<1>8. U \subseteq ToSet(s) \ {s[i]}
  <2>1. \A k \in 1..n : s[k] = s[i] => k = i
    BY <1>1 DEF IsInjective
  <2>2. \A k \in 1..(n - 1) : k < i => k # i
    BY <1>1
  <2>3. QED
    BY <2>1, <2>2, <1>1, <1>t, <1>5
<1>9. ToSet(s) \ {s[i]} \subseteq U
  <2> SUFFICES ASSUME NEW k \in 1..n, k # i PROVE \E j \in 1..(n - 1) : u[j] = s[k]
    BY <1>t
  <2>1. CASE k < i /\ k \in 1..(n - 1)
    BY <2>1, <1>4
  <2>2. CASE k - 1 \in 1..(n - 1) /\ ~(k - 1 < i) /\ (k - 1) + 1 = k
    BY <2>2, <1>4
  <2>3. QED
    BY <2>1, <2>2, <1>6
<1>10. QED
  BY <1>4, <1>7, <1>8, <1>9 DEF u, U

-----------------------------------------------------------------------------
(* Paths                                                                   *)

(* p leads to q: the levels of q begin with those of p. *)
Leads(p, q) == Len(p) <= Len(q) /\ \A i \in 1..Len(p) : p[i] = q[i]

(* A path is a sequence of at most MaxDepth levels. *)
LEMMA PathIs == \A p : p \in Paths <=> p \in Seq(Levels) /\ Len(p) <= MaxDepth
<1>1. ASSUME NEW p \in Paths PROVE p \in Seq(Levels) /\ Len(p) <= MaxDepth
  <2>1. PICK n \in 0..MaxDepth : p \in [1..n -> Levels]
    BY DEF Paths
  <2>2. n \in Nat /\ n <= MaxDepth
    BY BoundsAssumption
  <2>3. p \in Seq(Levels) /\ Len(p) = n
    BY <2>1, <2>2
  <2>4. QED
    BY <2>2, <2>3
<1>2. ASSUME NEW p \in Seq(Levels), Len(p) <= MaxDepth PROVE p \in Paths
  <2>1. Len(p) \in 0..MaxDepth /\ p \in [1..Len(p) -> Levels]
    BY <1>2, BoundsAssumption
  <2>2. QED
    BY <2>1 DEF Paths
<1>3. QED
  BY <1>1, <1>2

(* The prefixes of a path are the paths that lead to it. *)
LEMMA PrefixIs ==
  ASSUME NEW q \in Paths
  PROVE  \A p : p \in Prefixes(q) <=> p \in Paths /\ Leads(p, q)
<1>1. q \in Seq(Levels) /\ Len(q) \in Nat /\ Len(q) <= MaxDepth
  BY PathIs
<1>2. ASSUME NEW p \in Prefixes(q) PROVE p \in Paths /\ Leads(p, q)
  <2>1. PICK l \in 0..Len(q) : p = SubSeq(q, 1, l)
    BY DEF Prefixes
  <2>2. p \in Seq(Levels) /\ Len(p) = l /\ \A i \in 1..l : p[i] = q[i]
    BY <1>1, <2>1
  <2>3. Len(p) <= MaxDepth /\ Len(p) <= Len(q)
    BY <1>1, <2>2, BoundsAssumption
  <2>4. QED
    BY <2>2, <2>3, PathIs DEF Leads
<1>3. ASSUME NEW p \in Paths, Leads(p, q) PROVE p \in Prefixes(q)
  <2>1. p \in Seq(Levels) /\ Len(p) \in 0..Len(q)
    BY <1>1, <1>3, PathIs DEF Leads
  <2> DEFINE r == SubSeq(q, 1, Len(p))
  <2>2. r \in Seq(Levels) /\ Len(r) = Len(p) /\ \A i \in 1..Len(p) : r[i] = q[i]
    BY <1>1, <2>1
  <2>3. r = p
    <3> HIDE DEF r
    <3>1. \A i \in 1..Len(p) : r[i] = p[i]
      BY <2>2, <1>3 DEF Leads
    <3>2. QED
      BY <2>1, <2>2, <3>1, SeqEqual
  <2>4. QED
    BY <2>1, <2>3 DEF Prefixes
<1>4. QED
  BY <1>2, <1>3

(* Every path leads to itself, the root leads to every path, and no path     *)
(* leads to one that is shorter.                                             *)
LEMMA LeadsSelf ==
  /\ Root \in Paths
  /\ \A p \in Paths : Leads(p, p) /\ Leads(Root, p)
  /\ \A p, q \in Paths : Leads(p, q) /\ Len(q) <= Len(p) => p = q
<1>1. \A r \in Paths : r \in Seq(Levels) /\ Len(r) \in Nat
  BY PathIs
<1>2. \A p \in Paths : Leads(p, p)
  BY <1>1 DEF Leads
<1>3. Root \in Paths /\ \A p \in Paths : Leads(Root, p)
  <2>1. Root \in Seq(Levels) /\ Len(Root) = 0 /\ 0 <= MaxDepth
    BY BoundsAssumption DEF Root
  <2>2. Root \in Paths
    BY <2>1, PathIs
  <2>3. 1..0 = {} /\ \A p \in Paths : 0 <= Len(p)
    BY <1>1
  <2>4. QED
    BY <2>1, <2>2, <2>3 DEF Leads
<1>4. ASSUME NEW p \in Paths, NEW q \in Paths, Leads(p, q), Len(q) <= Len(p) PROVE p = q
  <2>1. Len(p) = Len(q) /\ \A i \in 1..Len(p) : p[i] = q[i]
    BY <1>1, <1>4 DEF Leads
  <2>2. QED
    BY <2>1, <1>1, SeqEqual
<1>5. QED
  BY <1>2, <1>3, <1>4

(* Leading to is transitive, and of two paths that lead to a third the one   *)
(* that is not longer leads to the other.                                    *)
LEMMA LeadsOn ==
  \A p, q, r \in Paths :
    /\ Leads(p, q) /\ Leads(q, r) => Leads(p, r)
    /\ Leads(p, r) /\ Leads(q, r) /\ Len(p) <= Len(q) => Leads(p, q)
<1> SUFFICES ASSUME NEW p \in Paths, NEW q \in Paths, NEW r \in Paths
             PROVE  /\ Leads(p, q) /\ Leads(q, r) => Leads(p, r)
                    /\ Leads(p, r) /\ Leads(q, r) /\ Len(p) <= Len(q) => Leads(p, q)
  OBVIOUS
<1>1. Len(p) \in Nat /\ Len(q) \in Nat /\ Len(r) \in Nat
  BY PathIs
<1>2. Len(p) <= Len(q) => \A i \in 1..Len(p) : i \in 1..Len(q)
  BY <1>1
<1>3. QED
  BY <1>1, <1>2 DEF Leads

(* A path and one level more *)
LEMMA OneMore ==
  ASSUME NEW p \in Paths, NEW level \in Levels
  PROVE  /\ Append(p, level) \in Seq(Levels) /\ Len(Append(p, level)) = Len(p) + 1
         /\ Append(p, level)[Len(p) + 1] = level
         /\ \A i \in 1..Len(p) : Append(p, level)[i] = p[i]
         /\ Leads(p, Append(p, level))
         /\ \A q \in Paths : Leads(Append(p, level), q) <=>
                               Leads(p, q) /\ Len(q) > Len(p) /\ q[Len(p) + 1] = level
<1> DEFINE c == Append(p, level)
<1>1. p \in Seq(Levels) /\ Len(p) \in Nat
  BY PathIs
<1>2. /\ c \in Seq(Levels) /\ Len(c) = Len(p) + 1 /\ c[Len(p) + 1] = level
      /\ \A i \in 1..Len(p) : c[i] = p[i]
  BY <1>1, AppendProperties
<1> HIDE DEF c
<1>3. Leads(p, c)
  BY <1>1, <1>2 DEF Leads
<1>4. ASSUME NEW q \in Paths
      PROVE  Leads(c, q) <=> Leads(p, q) /\ Len(q) > Len(p) /\ q[Len(p) + 1] = level
  <2>1. Len(q) \in Nat
    BY PathIs
  <2>2. /\ \A i \in 1..Len(p) : i \in 1..Len(c)
        /\ \A i \in 1..Len(c) : i \in 1..Len(p) \/ i = Len(p) + 1
        /\ Len(p) + 1 \in 1..Len(c)
    BY <1>1, <1>2
  <2>3. Len(c) <= Len(q) <=> Len(q) > Len(p)
    BY <2>1, <1>1, <1>2
  <2>4. Len(q) > Len(p) => Len(p) <= Len(q)
    BY <2>1, <1>1
  <2>5. QED
    BY <1>2, <2>2, <2>3, <2>4 DEF Leads
<1>5. QED
  BY <1>2, <1>3, <1>4 DEF c

-----------------------------------------------------------------------------
(* insert()                                                                *)

(* Only finitely many subscriptions have been made. *)
LEMMA LiveFinite ==
  ASSUME TrieInv
  PROVE  IsFiniteSet(Live)
<1> DEFINE n == Len(inserted)
<1>1. n \in Nat /\ Live \subseteq 1..n
  BY DEF Live, TrieInv
<1> HIDE DEF n
<1>2. 1 \in Int /\ n \in Int
  BY <1>1
<1>3. IsFiniteSet(1..n)
  BY ONLY <1>2, FS_Interval
<1>4. QED
  BY <1>1, <1>3, FS_Subset

(* An empty trie *)
LEMMA TrieInitInv == Init => TrieInv
<1> SUFFICES ASSUME Init PROVE TrieInv
  OBVIOUS
<1>1. Root \in Paths /\ Prefixes(Root) \subseteq {Root}
  <2>1. Root \in Paths
    BY LeadsSelf
  <2>2. ASSUME NEW p \in Prefixes(Root) PROVE p = Root
    <3>1. p \in Paths /\ Leads(p, Root)
      BY <2>1, <2>2, PrefixIs
    <3>2. Len(Root) = 0 /\ Len(p) \in Nat
      BY <3>1, PathIs DEF Root
    <3>3. QED
      BY <2>1, <3>1, <3>2, LeadsSelf
  <2>3. QED
    BY <2>1, <2>2
<1>2. Tree
  BY <1>1 DEF Init, Tree
<1>3. DOMAIN inserted = {} /\ Live = {} /\ inserted \in Seq([pattern : Patterns, type : Types])
  BY DEF Init, Live
<1>4. ASSUME NEW p \in Paths PROVE EntriesAt(p)
  BY <1>3, Short DEF Init, EntriesAt
<1>5. Cardinality(Live) = 0
  BY <1>3, FS_EmptySet
<1>6. NoDeadNodes
  BY DEF Init, NoDeadNodes
<1>7. QED
  BY <1>2, <1>3, <1>4, <1>5, <1>6 DEF Init, TrieInv

(* insert() *)
LEMMA InsertInv ==
  ASSUME TrieInv, NEW pattern \in Patterns, NEW type \in Types, Insert(pattern, type)
  PROVE  TrieInv'
<1> USE DEF TrieInv, Insert
<1> DEFINE id == Len(inserted) + 1
<1>1. pattern \in Paths
  BY DEF Patterns
<1>2. /\ id \in Nat /\ id \notin DOMAIN inserted /\ DOMAIN inserted' = DOMAIN inserted \cup {id}
      /\ inserted' \in Seq([pattern : Patterns, type : Types])
      /\ inserted'[id] = [pattern |-> pattern, type |-> type]
      /\ \A e \in DOMAIN inserted : inserted'[e] = inserted[e]
  <2>1. inserted' = Append(inserted, [pattern |-> pattern, type |-> type])
    OBVIOUS
  <2>2. [pattern |-> pattern, type |-> type] \in [pattern : Patterns, type : Types]
    OBVIOUS
  <2>3. Len(inserted) \in Nat /\ DOMAIN inserted = 1..Len(inserted)
    OBVIOUS
  <2>4. QED
    BY <2>1, <2>2, <2>3, AppendProperties
<1>3. /\ removed' = removed /\ Live' = Live \cup {id} /\ id \notin Live
      /\ Live \subseteq DOMAIN inserted
  BY <1>2 DEF Live
<1> HIDE DEF id
<1>4. /\ DOMAIN entries' = Paths /\ entries'[pattern] = Append(entries[pattern], id)
      /\ \A p \in Paths : p # pattern => entries'[p] = entries[p]
  BY <1>1 DEF id
<1>5. nodes' = nodes \cup Prefixes(pattern) /\ pattern \in nodes'
  BY <1>1, PrefixIs, LeadsSelf
<1>6. Tree'
  <2>1. nodes' \subseteq Paths /\ Root \in nodes'
    BY <1>1, <1>5, PrefixIs DEF Tree
  <2>2. ASSUME NEW p \in nodes', NEW q \in Prefixes(p) PROVE q \in nodes'
    <3>1. CASE p \in nodes
      BY <3>1, <2>2, <1>5 DEF Tree
    <3>2. CASE p \in Prefixes(pattern)
      <4>1. p \in Paths /\ q \in Paths /\ Leads(p, pattern) /\ Leads(q, p)
        BY <3>2, <2>2, <1>1, PrefixIs
      <4>2. Leads(q, pattern)
        BY <4>1, <1>1, LeadsOn
      <4>3. QED
        BY <4>1, <4>2, <1>1, <1>5, PrefixIs
    <3>3. QED
      BY <3>1, <3>2, <1>5
  <2>3. QED
    BY <2>1, <2>2 DEF Tree
<1>7. ASSUME NEW p \in Paths PROVE EntriesAt(p)'
  <2>1. EntriesAt(p)
    OBVIOUS
  <2>2. CASE p = pattern
    <3>1. /\ entries'[p] \in Seq(Nat) /\ ToSet(entries'[p]) = ToSet(entries[p]) \cup {id}
          /\ IsInjective(entries'[p])
      BY <2>1, <2>2, <1>2, <1>3, <1>4, Appended DEF EntriesAt
    <3>2. {e \in Live' : inserted'[e].pattern = p} = {e \in Live : inserted[e].pattern = p} \cup {id}
      BY <2>2, <1>2, <1>3
    <3>3. QED
      BY <2>1, <3>1, <3>2 DEF EntriesAt
  <2>3. CASE p # pattern
    <3>1. {e \in Live' : inserted'[e].pattern = p} = {e \in Live : inserted[e].pattern = p}
      BY <2>3, <1>2, <1>3
    <3>2. QED
      BY <2>1, <2>3, <3>1, <1>4 DEF EntriesAt
  <2>4. QED
    BY <2>2, <2>3
<1>8. \A p \in Paths \ nodes' : entries'[p] = <<>>
  BY <1>4, <1>5
<1>9. entry_count' = Cardinality(Live')
  <2>1. IsFiniteSet(Live)
    BY LiveFinite
  <2>2. QED
    BY <2>1, <1>3, FS_AddElement
<1>10. NoDeadNodes'
  <2> SUFFICES ASSUME NEW p \in nodes' \ {Root}
               PROVE  \E q \in nodes' : p \in Prefixes(q) /\ entries'[q] # <<>>
    BY DEF NoDeadNodes
  <2>1. entries'[pattern] # <<>>
    <3>1. id \in ToSet(entries'[pattern])
      <4>1. entries[pattern] \in Seq(Nat)
        BY <1>1 DEF EntriesAt
      <4>2. QED
        BY <4>1, <1>2, <1>4, Appended
    <3>2. QED
      BY <3>1, Short
  <2>2. CASE p \in Prefixes(pattern)
    BY <2>1, <2>2, <1>5
  <2>3. CASE p \in nodes
    <3>1. PICK q \in nodes : p \in Prefixes(q) /\ entries[q] # <<>>
      BY <2>3 DEF NoDeadNodes
    <3>2. entries'[q] # <<>>
      BY <3>1, <2>1, <1>4 DEF Tree
    <3>3. QED
      BY <3>1, <3>2, <1>5
  <2>4. QED
    BY <2>2, <2>3, <1>5
<1>11. QED
  BY <1>2, <1>3, <1>4, <1>6, <1>7, <1>8, <1>9, <1>10

-----------------------------------------------------------------------------
(* remove()                                                                *)

(* A node whose path goes on from p is below it.  When everything from p on *)
(* goes, nothing below p stays: the children of the nodes that go are among *)
(* them, level by level.                                                    *)
LEMMA NothingBelow ==
  ASSUME Tree, NEW kept, NEW p \in Paths, NEW r \in Pruned(nodes, kept, p),
         NEW q \in nodes, Leads(r, q)
  PROVE  Leads(q, p)
<1>1. /\ r \in Paths /\ Leads(r, p) /\ q \in Paths
      /\ Len(r) \in Nat /\ Len(q) \in Nat /\ Len(r) <= Len(q) /\ q \in Seq(Levels)
      /\ Len(q) <= MaxDepth
  BY PrefixIs, PathIs DEF Pruned, Tree, Leads
<1>2. ASSUME NEW x \in Paths, Leads(x, p), Len(x) >= Len(r)
      PROVE  Children(nodes, x) \subseteq Prefixes(p)
  <2>1. x \in Prefixes(p)
    BY <1>2, PrefixIs
  <2>2. QED
    BY <2>1, <1>2 DEF Pruned
<1> DEFINE Bad == {m \in Len(r)..Len(q) : ~Leads(SubSeq(q, 1, m), p)}
<1>3. CASE Bad # {}
  <2>1. PICK m \in Bad : \A n \in Bad : m <= n
    <3>1. Bad \subseteq Nat
      BY <1>1
    <3> HIDE DEF Bad
    <3>2. QED
      BY <1>3, <3>1, Least
  <2> DEFINE c == SubSeq(q, 1, m)  b == SubSeq(q, 1, m - 1)
  <2>2. m \in Nat /\ Len(r) <= m /\ m <= Len(q) /\ ~Leads(c, p)
    BY <1>1
  <2>3. c \in Seq(Levels) /\ Len(c) = m /\ \A i \in 1..m : c[i] = q[i]
    BY <1>1, <2>2
  <2>4. c \in Paths /\ Leads(c, q) /\ c \in nodes
    <3> HIDE DEF c
    <3>1. c \in Paths /\ Leads(c, q)
      BY <2>2, <2>3, <1>1, PathIs, BoundsAssumption DEF Leads
    <3>2. QED
      BY <3>1, <1>1, PrefixIs DEF Tree
  <2>5. m # Len(r)
    <3> HIDE DEF c
    <3>1. CASE m = Len(r)
      <4>1. Leads(c, r) /\ Len(r) <= Len(c)
        BY <3>1, <2>3, <2>4, <1>1, LeadsOn
      <4>2. c = r
        BY <4>1, <2>4, <1>1, LeadsSelf
      <4>3. QED
        BY <4>2, <2>2, <1>1
    <3>2. QED
      BY <3>1
  <2>6. m - 1 \in Len(r)..Len(q) /\ ~(m <= m - 1) /\ m - 1 \in Nat
    BY <2>2, <2>5, <1>1
  <2>7. Leads(b, p)
    BY <2>1, <2>6
  <2>8. b \in Seq(Levels) /\ Len(b) = m - 1 /\ b \in Paths
    <3>1. b \in Seq(Levels) /\ Len(b) = m - 1
      BY <1>1, <2>6
    <3>2. Len(b) <= MaxDepth
      BY <3>1, <2>6, <1>1, BoundsAssumption
    <3> HIDE DEF b
    <3>3. QED
      BY <3>1, <3>2, PathIs
  <2>9. Parent(c) = b
    <3>1. /\ Len(c) - 1 = m - 1 /\ SubSeq(c, 1, m - 1) \in Seq(Levels)
          /\ Len(SubSeq(c, 1, m - 1)) = m - 1
          /\ \A i \in 1..(m - 1) : SubSeq(c, 1, m - 1)[i] = c[i] /\ i \in 1..m
      <4> HIDE DEF c
      <4>1. QED
        BY <2>2, <2>3, <2>6
    <3>2. \A i \in 1..(m - 1) : b[i] = q[i]
      BY <1>1, <2>6
    <3> HIDE DEF c, b
    <3>3. SubSeq(c, 1, m - 1) = b
      BY <3>1, <3>2, <2>3, <2>8, SeqEqual
    <3>4. QED
      BY <3>1, <3>3 DEF Parent
  <2> HIDE DEF b, c
  <2>10. c \in Children(nodes, b)
    BY <2>2, <2>3, <2>4, <2>8, <2>9 DEF Children
  <2>11. Len(b) >= Len(r)
    BY <2>6, <2>8, <1>1
  <2>12. c \in Prefixes(p)
    BY <2>7, <2>8, <2>10, <2>11, <1>2
  <2>13. QED
    BY <2>2, <2>12, PrefixIs
<1>4. CASE Bad = {}
  <2>1. Len(q) \in Len(r)..Len(q)
    BY <1>1
  <2>2. SubSeq(q, 1, Len(q)) = q
    BY <1>1
  <2>3. QED
    BY <1>4, <2>1, <2>2
<1>5. QED
  BY <1>3, <1>4

(* remove() of an id that is there *)
LEMMA RemoveInv ==
  ASSUME TrieInv, NEW id, RemoveId(id)
  PROVE  TrieInv'
<1> USE DEF TrieInv
<1>0. PICK p \in nodes :
        \E i \in DOMAIN entries[p] :
          /\ entries[p][i] = id
          /\ entries' = [entries EXCEPT ![p] = RemoveAt(@, i)]
          /\ nodes' = nodes \ Pruned(nodes, entries', p)
  BY DEF RemoveId
<1>1. PICK i \in DOMAIN entries[p] :
        /\ entries[p][i] = id
        /\ entries' = [entries EXCEPT ![p] = RemoveAt(@, i)]
        /\ nodes' = nodes \ Pruned(nodes, entries', p)
  BY <1>0
<1>2. p \in Paths /\ nodes \subseteq Paths
  BY DEF Tree
<1>3. /\ DOMAIN entries' = Paths /\ entries'[p] = RemoveAt(entries[p], i)
      /\ \A q \in Paths : q # p => entries'[q] = entries[q]
  BY <1>1, <1>2
<1>4. /\ entries'[p] \in Seq(Nat) /\ IsInjective(entries'[p])
      /\ ToSet(entries'[p]) = ToSet(entries[p]) \ {id} /\ id \in ToSet(entries[p])
  <2>1. entries[p] \in Seq(Nat) /\ IsInjective(entries[p])
    BY <1>2 DEF EntriesAt
  <2>2. id \in ToSet(entries[p])
    BY <1>1 DEF ToSet
  <2>3. QED
    BY <2>1, <2>2, <1>1, <1>3, Erased
<1>5. id \in Live /\ inserted[id].pattern = p
  BY <1>2, <1>4 DEF EntriesAt
<1>6. /\ inserted' = inserted /\ removed' = removed \cup {id} /\ Live' = Live \ {id}
      /\ entry_count' = entry_count - 1
  BY DEF RemoveId, Live, CountLess
<1> DEFINE Gone == Pruned(nodes, entries', p)
<1>7. nodes' = nodes \ Gone
  BY <1>1
<1>8. \A q \in Gone : /\ q \in Paths /\ q # Root /\ Leads(q, p)
                      /\ \A r \in Prefixes(p) : Len(r) >= Len(q) =>
                           entries'[r] = <<>> /\ Children(nodes, r) \subseteq Prefixes(p)
  BY <1>2, PrefixIs DEF Pruned
<1>9. ASSUME NEW q \in Gone PROVE entries'[q] = <<>>
  <2>1. q \in Prefixes(p) /\ Len(q) >= Len(q)
    BY <1>2, <1>8, PrefixIs, PathIs
  <2>2. QED
    BY <2>1, <1>8
<1> HIDE DEF Gone
<1>10. ASSUME NEW q \in nodes, NEW r \in Gone, Leads(r, q) PROVE q \in Gone
  <2>1. Leads(q, p)
    BY <1>10, <1>2, NothingBelow DEF Gone
  <2>2. /\ q \in Paths /\ r \in Paths /\ Len(q) \in Nat /\ Len(r) \in Nat
        /\ Len(r) <= Len(q) /\ r # Root
    BY <1>2, <1>8, <1>10, PathIs DEF Leads
  <2>3. q # Root
    <3>1. Root \in Paths /\ (q = Root => Leads(Root, r))
      BY <2>2, LeadsSelf
    <3>2. Len(Root) <= Len(r)
      BY <3>1, <2>2, LeadsSelf DEF Leads
    <3>3. Leads(r, Root) /\ Len(Root) <= Len(r) => r = Root
      BY <2>2, <3>1, LeadsSelf
    <3>4. QED
      BY <3>2, <3>3, <2>2, <1>10
  <2>4. q \in Prefixes(p)
    BY <2>1, <2>2, <1>2, PrefixIs
  <2>5. ASSUME NEW x \in Prefixes(p), Len(x) >= Len(q)
        PROVE  entries'[x] = <<>> /\ Children(nodes, x) \subseteq Prefixes(p)
    <3>1. Len(x) >= Len(r)
      BY <2>2, <2>5, <1>2, PrefixIs, PathIs
    <3>2. QED
      BY <3>1, <2>5, <1>8
  <2>6. QED
    BY <2>3, <2>4, <2>5 DEF Gone, Pruned
<1>11. Tree'
  <2>1. nodes' \subseteq Paths /\ Root \in nodes'
    BY <1>2, <1>7, <1>8 DEF Tree
  <2>2. ASSUME NEW q \in nodes', NEW r \in Prefixes(q) PROVE r \in nodes'
    <3>1. q \in nodes /\ r \in nodes /\ Leads(r, q)
      BY <2>2, <1>2, <1>7, PrefixIs DEF Tree
    <3>2. QED
      BY <3>1, <1>7, <1>10
  <2>3. QED
    BY <2>1, <2>2 DEF Tree
<1>12. ASSUME NEW q \in Paths PROVE EntriesAt(q)'
  <2>1. EntriesAt(q)
    OBVIOUS
  <2>2. CASE q = p
    <3>1. {e \in Live' : inserted'[e].pattern = q} = {e \in Live : inserted[e].pattern = q} \ {id}
      BY <1>6
    <3>2. QED
      BY <2>1, <2>2, <3>1, <1>4 DEF EntriesAt
  <2>3. CASE q # p
    <3>1. {e \in Live' : inserted'[e].pattern = q} = {e \in Live : inserted[e].pattern = q}
      BY <2>3, <1>5, <1>6
    <3>2. QED
      BY <2>1, <2>3, <3>1, <1>3 DEF EntriesAt
  <2>4. QED
    BY <2>2, <2>3
<1>13. ASSUME NEW q \in Paths \ nodes' PROVE entries'[q] = <<>>
  BY <1>3, <1>7, <1>9, <1>1
<1>14. entry_count' = Cardinality(Live')
  <2>1. IsFiniteSet(Live)
    BY LiveFinite
  <2>2. QED
    BY <2>1, <1>5, <1>6, FS_RemoveElement
<1>15. NoDeadNodes'
  <2> SUFFICES ASSUME NEW q \in nodes' \ {Root}
               PROVE  \E x \in nodes' : q \in Prefixes(x) /\ entries'[x] # <<>>
    BY DEF NoDeadNodes
  <2>1. q \in nodes \ {Root} /\ q \in Paths /\ q \notin Gone
    BY <1>2, <1>7
  <2>2. PICK x \in nodes : q \in Prefixes(x) /\ entries[x] # <<>>
    BY <2>1 DEF NoDeadNodes
  <2>3. \A y \in nodes : entries'[y] # <<>> => y \in nodes'
    BY <1>7, <1>9
  <2>4. CASE entries'[x] # <<>>
    BY <2>2, <2>3, <2>4
  <2>5. CASE entries'[x] = <<>>
    <3>1. x = p /\ q \in Prefixes(p)
      BY <2>2, <2>5, <1>2, <1>3
    <3>2. PICK r \in Prefixes(p) :
            /\ Len(r) >= Len(q)
            /\ entries'[r] # <<>> \/ ~(Children(nodes, r) \subseteq Prefixes(p))
      BY <2>1, <3>1 DEF Gone, Pruned
    <3>3. r \in nodes /\ r \in Paths /\ Leads(r, p) /\ Leads(q, p)
      BY <3>1, <3>2, <1>1, <1>2, PrefixIs DEF Tree
    <3>4. Len(q) <= Len(r)
      BY <3>2, <3>3, <2>1, PathIs
    <3>5. Leads(q, r)
      BY <3>3, <3>4, <2>1, <1>2, LeadsOn
    <3>6. CASE entries'[r] # <<>>
      <4>1. q \in Prefixes(r)
        BY <3>3, <3>5, <2>1, PrefixIs
      <4>2. QED
        BY <4>1, <3>3, <3>6, <2>3
    <3>7. CASE ~(Children(nodes, r) \subseteq Prefixes(p))
      <4>1. PICK c \in nodes : c \notin Prefixes(p) /\ Len(c) = Len(r) + 1 /\ Parent(c) = r
        BY <3>7 DEF Children
      <4>2. c \in Paths /\ c \in Seq(Levels) /\ Len(c) \in Nat /\ Len(r) \in Nat /\ c # Root
        BY <4>1, <1>2, <3>3, PathIs DEF Root
      <4>3. Leads(r, c)
        <5>1. Len(c) - 1 = Len(r) /\ \A j \in 1..Len(r) : SubSeq(c, 1, Len(r))[j] = c[j]
          BY <4>1, <4>2
        <5>2. r = SubSeq(c, 1, Len(r)) /\ Len(r) <= Len(c)
          BY <5>1, <4>1, <4>2 DEF Parent
        <5>3. QED
          BY <5>1, <5>2 DEF Leads
      <4>4. PICK y \in nodes : c \in Prefixes(y) /\ entries[y] # <<>>
        BY <4>1, <4>2 DEF NoDeadNodes
      <4>5. y \in Paths /\ Leads(c, y)
        BY <4>4, <1>2, PrefixIs
      <4>6. y # p /\ entries'[y] # <<>>
        BY <4>1, <4>4, <4>5, <1>3
      <4>7. Leads(q, c) /\ q \in Paths
        BY <2>1, <3>3, <3>5, <4>2, <4>3, LeadsOn
      <4>8. Leads(q, y)
        BY <4>2, <4>5, <4>7, LeadsOn
      <4>9. q \in Prefixes(y)
        BY <4>5, <4>7, <4>8, PrefixIs
      <4>10. QED
        BY <4>4, <4>6, <4>9, <2>3
    <3>8. QED
      BY <3>2, <3>6, <3>7
  <2>6. QED
    BY <2>4, <2>5
<1>16. removed' \subseteq DOMAIN inserted'
  BY <1>5, <1>6 DEF Live
<1>17. QED
  BY <1>3, <1>6, <1>11, <1>12, <1>13, <1>14, <1>15, <1>16

(* The invariant of the trie *)
THEOREM TrieInvariant == Spec => []TrieInv
<1>1. TrieInv /\ [Next]_vars => TrieInv'
  <2> SUFFICES ASSUME TrieInv, [Next]_vars PROVE TrieInv'
    OBVIOUS
  <2>1. CASE \E pattern \in Patterns, type \in Types : Insert(pattern, type)
    BY <2>1, InsertInv
  <2>2. CASE \E id \in Ids : RemoveId(id)
    BY <2>2, RemoveInv
  <2>3. CASE UNCHANGED vars
    BY <2>3 DEF vars, TrieInv, Tree, EntriesAt, Live, NoDeadNodes
  <2>4. QED
    BY <2>1, <2>2, <2>3 DEF Next, RemoveNothing
<1>2. QED
  BY TrieInitInv, <1>1, PTL DEF Spec

(* insert() and remove() keep the entries where their patterns lead, each   *)
(* once, and entry_count counts them.                                       *)
THEOREM TypeCorrect == Spec => []TypeOK
<1>1. TrieInv => TypeOK
  BY DEF TrieInv, Tree, EntriesAt, TypeOK
<1>2. QED
  BY <1>1, TrieInvariant, PTL

(* removeFrom() prunes all nodes that lead to no entry any more, and no     *)
(* others.                                                                  *)
THEOREM NoDeadNodesHolds == Spec => []NoDeadNodes
<1>1. TrieInv => NoDeadNodes
  BY DEF TrieInv
<1>2. QED
  BY <1>1, TrieInvariant, PTL

-----------------------------------------------------------------------------
(* The entries of a node that are of the message's type                    *)

(* What the loop over the entries s of a node has found among the first n, *)
(* given what it had found among fewer: f                                  *)
Found(s, type, f, n) ==
  IF n = 0 THEN <<>>
  ELSE IF inserted[s[n]].type = type THEN Append(f[n - 1], s[n]) ELSE f[n - 1]

Loop(s, type) == CHOOSE f : f = [n \in 0..Len(s) |-> Found(s, type, f, n)]

(* The loop has a result. *)
LEMMA LoopDefined ==
  ASSUME NEW S, NEW s \in Seq(S), NEW type
  PROVE  Loop(s, type) = [n \in 0..Len(s) |-> Found(s, type, Loop(s, type), n)]
<1> DEFINE Runs(m) == \E f : f = [n \in 0..m |-> Found(s, type, f, n)]
           Bad == {m \in 0..Len(s) : ~Runs(m)}
<1>1. Len(s) \in Nat
  OBVIOUS
<1>2. ASSUME Bad # {} PROVE FALSE
  <2>1. PICK b \in Bad : \A n \in Bad : b <= n
    <3>1. Bad \subseteq Nat
      BY <1>1
    <3> HIDE DEF Bad
    <3>2. QED
      BY <1>2, <3>1, Least
  <2>2. b \in 0..Len(s) /\ b \in Nat /\ ~Runs(b)
    BY <1>1
  <2>3. CASE b = 0
    <3> DEFINE f == [n \in 0..0 |-> <<>>]
    <3>1. f = [n \in 0..0 |-> Found(s, type, f, n)]
      BY DEF Found
    <3>2. QED
      BY <2>2, <2>3, <3>1
  <2>4. CASE b # 0
    <3>1. b - 1 \in 0..Len(s) /\ b - 1 \in Nat /\ ~(b <= b - 1)
      BY <1>1, <2>2, <2>4
    <3>2. b - 1 \notin Bad
      BY <2>1, <3>1
    <3>3. PICK f : f = [n \in 0..(b - 1) |-> Found(s, type, f, n)]
      BY <3>1, <3>2
    <3> DEFINE g == [n \in 0..b |-> Found(s, type, f, n)]
    <3>4. \A n \in 0..(b - 1) : g[n] = f[n]
      <4>1. \A n \in 0..(b - 1) : f[n] = Found(s, type, f, n)
        BY <3>3
      <4>2. 0..(b - 1) \subseteq 0..b
        BY <2>2
      <4>3. QED
        BY <4>1, <4>2
    <3>5. ASSUME NEW n \in 0..b PROVE Found(s, type, f, n) = Found(s, type, g, n)
      <4>1. CASE n = 0
        BY <4>1 DEF Found
      <4>2. CASE n # 0
        <5>1. n - 1 \in 0..(b - 1)
          BY <2>2, <4>2
        <5>2. g[n - 1] = f[n - 1]
          BY <3>4, <5>1
        <5> HIDE DEF g
        <5>3. QED
          BY <5>2 DEF Found
      <4>3. QED
        BY <4>1, <4>2
    <3>6. g = [n \in 0..b |-> Found(s, type, g, n)]
      <4> DEFINE h == [n \in 0..b |-> Found(s, type, g, n)]
      <4>1. g = h
        BY <3>5
      <4>2. QED
        BY <4>1
    <3>7. QED
      BY <2>2, <3>6
  <2>5. QED
    BY <2>3, <2>4
<1>3. Runs(Len(s))
  BY <1>1, <1>2
<1>4. QED
  BY <1>3 DEF Loop

(* Of the entries of a node, those of the type are found, once each. *)
LEMMA OfTypeIs ==
  ASSUME NEW p, entries[p] \in Seq(Nat), NEW type
  PROVE  /\ OfType(p, type) \in Seq(Nat)
         /\ ToSet(OfType(p, type)) = {e \in ToSet(entries[p]) : inserted[e].type = type}
         /\ IsInjective(entries[p]) => IsInjective(OfType(p, type))
<1> DEFINE s == entries[p]
           f == Loop(s, type)
           To(n) == {s[i] : i \in 1..n}
           Right(n) == /\ f[n] \in Seq(Nat)
                       /\ ToSet(f[n]) = {e \in To(n) : inserted[e].type = type}
                       /\ IsInjective(s) => IsInjective(f[n])
           Bad == {n \in 0..Len(s) : ~Right(n)}
<1>1. /\ s \in Seq(Nat) /\ Len(s) \in Nat /\ DOMAIN s = 1..Len(s)
      /\ \A i \in 1..Len(s) : s[i] \in Nat
  OBVIOUS
<1>2. OfType(p, type) = f[Len(s)]
  BY DEF OfType, Loop, Found
<1> HIDE DEF s
<1>3. \A n \in 0..Len(s) : f[n] = Found(s, type, f, n)
  <2>1. f = [n \in 0..Len(s) |-> Found(s, type, f, n)]
    BY <1>1, LoopDefined
  <2> HIDE DEF f
  <2>2. QED
    BY <2>1
<1> HIDE DEF f
<1>4. ASSUME Bad # {} PROVE FALSE
  <2>1. PICK b \in Bad : \A n \in Bad : b <= n
    <3>1. Bad \subseteq Nat
      BY <1>1
    <3> HIDE DEF Bad
    <3>2. QED
      BY <1>4, <3>1, Least
  <2>2. b \in 0..Len(s) /\ b \in Nat /\ ~Right(b)
    <3> HIDE DEF Right
    <3>1. b \in 0..Len(s) /\ ~Right(b)
      OBVIOUS
    <3>2. QED
      BY <3>1, <1>1
  <2>3. CASE b = 0
    <3>1. f[b] = <<>>
      BY <1>3, <2>2, <2>3 DEF Found
    <3>2. To(b) = {}
      BY <2>3
    <3>3. <<>> \in Seq(Nat) /\ ToSet(<<>>) = {} /\ IsInjective(<<>>)
      BY Short
    <3>4. QED
      BY <2>2, <3>1, <3>2, <3>3
  <2>4. CASE b # 0
    <3>1. b - 1 \in 0..Len(s) /\ ~(b <= b - 1) /\ b \in 1..Len(s) /\ 1..(b - 1) = (1..b) \ {b}
      BY <1>1, <2>2, <2>4
    <3>2. Right(b - 1)
      BY <2>1, <3>1
    <3>3. f[b] = IF inserted[s[b]].type = type THEN Append(f[b - 1], s[b]) ELSE f[b - 1]
      BY <1>3, <2>2, <2>4 DEF Found
    <3>4. To(b) = To(b - 1) \cup {s[b]} /\ s[b] \in Nat
      BY <1>1, <3>1
    <3>5. IsInjective(s) => s[b] \notin To(b - 1)
      <4>1. \A i \in 1..(b - 1) : i \in 1..Len(s) /\ i # b
        BY <1>1, <3>1
      <4>2. QED
        BY <4>1, <1>1, <3>1 DEF IsInjective
    <3> HIDE DEF To
    <3>6. CASE inserted[s[b]].type # type
      BY <2>2, <3>2, <3>3, <3>4, <3>6
    <3>7. CASE inserted[s[b]].type = type
      <4>1. /\ Append(f[b - 1], s[b]) \in Seq(Nat)
            /\ ToSet(Append(f[b - 1], s[b])) = ToSet(f[b - 1]) \cup {s[b]}
            /\ IsInjective(f[b - 1]) /\ s[b] \notin ToSet(f[b - 1])
                 => IsInjective(Append(f[b - 1], s[b]))
        BY <3>2, <3>4, Appended
      <4>2. QED
        BY <2>2, <3>2, <3>3, <3>4, <3>5, <3>7, <4>1
    <3>8. QED
      BY <3>6, <3>7
  <2>5. QED
    BY <2>3, <2>4
<1>5. Right(Len(s))
  <2>1. Len(s) \in 0..Len(s)
    BY <1>1
  <2> HIDE DEF Right
  <2>2. QED
    BY <1>4, <2>1
<1>6. To(Len(s)) = ToSet(s)
  BY <1>1 DEF ToSet
<1>7. QED
  BY <1>2, <1>5, <1>6 DEF s

-----------------------------------------------------------------------------
(* The walk of matchNode                                                   *)

(* What is pushed to the result from node p on, given what is from its      *)
(* children: f                                                              *)
Pushed(topic, type, f, p) ==
  HashEntries(p, topic, type) \o
    IF Len(p) >= Len(topic) THEN OfType(p, type)
    ELSE LET exact == Append(p, topic[Len(p) + 1])
             star == Append(p, OneLevel)
         IN  (IF exact \in nodes THEN f[exact] ELSE <<>>) \o
             (IF star \in nodes THEN f[star] ELSE <<>>)

Walk(topic, type) == CHOOSE f : f = [p \in nodes |-> Pushed(topic, type, f, p)]

(* A child that the walk visits is a level deeper. *)
LEMMA ChildDeeper ==
  ASSUME NEW topic \in Paths, NEW p \in Paths, Len(p) < Len(topic)
  PROVE  /\ topic[Len(p) + 1] \in Levels /\ OneLevel \in Levels /\ AnyLevels \in Levels
         /\ \A level \in Levels : /\ Append(p, level) \in Paths
                                 /\ Len(Append(p, level)) = Len(p) + 1
<1>1. /\ topic \in Seq(Levels) /\ p \in Seq(Levels) /\ Len(topic) \in Nat /\ Len(p) \in Nat
      /\ Len(topic) <= MaxDepth
  BY PathIs
<1>2. Len(p) + 1 \in 1..Len(topic) /\ Len(p) + 1 <= MaxDepth
  BY <1>1, BoundsAssumption
<1>3. topic[Len(p) + 1] \in Levels
  BY <1>1, <1>2
<1>4. OneLevel \in Levels /\ AnyLevels \in Levels
  BY DEF Levels, Wildcards
<1>5. ASSUME NEW level \in Levels
      PROVE  Append(p, level) \in Paths /\ Len(Append(p, level)) = Len(p) + 1
  <2>1. Append(p, level) \in Seq(Levels) /\ Len(Append(p, level)) = Len(p) + 1
    BY OneMore
  <2>2. QED
    BY <2>1, <1>2, PathIs
<1>6. QED
  BY <1>3, <1>4, <1>5

(* The walk has a result, which it computes from the deepest nodes up. *)
LEMMA WalkDefined ==
  ASSUME nodes \subseteq Paths, NEW topic \in Paths, NEW type
  PROVE  Walk(topic, type) = [p \in nodes |-> Pushed(topic, type, Walk(topic, type), p)]
<1> DEFINE Deep(n) == {p \in nodes : Len(p) + n >= Len(topic)}
           Runs(n) == \E f : f = [p \in Deep(n) |-> Pushed(topic, type, f, p)]
           Bad == {n \in Nat : ~Runs(n)}
<1>1. Len(topic) \in Nat /\ \A p \in nodes : p \in Paths /\ Len(p) \in Nat
  BY PathIs
<1>2. ASSUME Bad # {} PROVE FALSE
  <2>1. PICK b \in Bad : \A n \in Bad : b <= n
    <3>1. Bad \subseteq Nat
      OBVIOUS
    <3> HIDE DEF Bad
    <3>2. QED
      BY <1>2, <3>1, Least
  <2>2. b \in Nat /\ ~Runs(b)
    OBVIOUS
  <2>3. CASE b = 0
    <3> DEFINE f == [p \in Deep(0) |-> Pushed(topic, type, <<>>, p)]
    <3>1. ASSUME NEW p \in Deep(0)
          PROVE  Pushed(topic, type, <<>>, p) = Pushed(topic, type, f, p)
      <4>1. Len(p) >= Len(topic)
        BY <1>1
      <4>2. QED
        BY <4>1 DEF Pushed
    <3>2. f = [p \in Deep(0) |-> Pushed(topic, type, f, p)]
      <4> DEFINE h == [p \in Deep(0) |-> Pushed(topic, type, f, p)]
      <4>1. f = h
        BY <3>1
      <4>2. QED
        BY <4>1
    <3>3. QED
      BY <2>2, <2>3, <3>2
  <2>4. CASE b # 0
    <3>1. b - 1 \in Nat /\ ~(b <= b - 1)
      BY <2>2, <2>4
    <3>2. Runs(b - 1)
      BY <2>1, <3>1
    <3>3. PICK f : f = [p \in Deep(b - 1) |-> Pushed(topic, type, f, p)]
      BY <3>2
    <3> DEFINE g == [p \in Deep(b) |-> Pushed(topic, type, f, p)]
    <3>4. \A p \in Deep(b - 1) : g[p] = f[p]
      <4>1. \A p \in Deep(b - 1) : f[p] = Pushed(topic, type, f, p)
        BY <3>3
      <4>2. Deep(b - 1) \subseteq Deep(b)
        BY <1>1, <2>2
      <4>3. QED
        BY <4>1, <4>2
    <3>5. ASSUME NEW p \in Deep(b)
          PROVE  Pushed(topic, type, f, p) = Pushed(topic, type, g, p)
      <4>1. CASE Len(p) >= Len(topic)
        BY <4>1 DEF Pushed
      <4>2. CASE ~(Len(p) >= Len(topic))
        <5>1. p \in Paths /\ Len(p) \in Nat /\ Len(p) < Len(topic) /\ Len(p) + b >= Len(topic)
          BY <4>2, <1>1
        <5>2. ASSUME NEW level \in Levels, Append(p, level) \in nodes
              PROVE  Append(p, level) \in Deep(b - 1)
          <6>1. Len(Append(p, level)) = Len(p) + 1
            BY <5>1, ChildDeeper
          <6>2. (Len(p) + 1) + (b - 1) >= Len(topic)
            BY <5>1, <2>2, <1>1
          <6>3. QED
            BY <6>1, <6>2, <5>2
        <5>3. /\ Append(p, topic[Len(p) + 1]) \in nodes => Append(p, topic[Len(p) + 1]) \in Deep(b - 1)
              /\ Append(p, OneLevel) \in nodes => Append(p, OneLevel) \in Deep(b - 1)
          BY <5>1, <5>2, ChildDeeper
        <5> HIDE DEF g, Deep
        <5>4. /\ Append(p, topic[Len(p) + 1]) \in nodes =>
                   f[Append(p, topic[Len(p) + 1])] = g[Append(p, topic[Len(p) + 1])]
              /\ Append(p, OneLevel) \in nodes => f[Append(p, OneLevel)] = g[Append(p, OneLevel)]
          BY <5>3, <3>4
        <5>5. QED
          BY <4>2, <5>4 DEF Pushed
      <4>3. QED
        BY <4>1, <4>2
    <3>6. g = [p \in Deep(b) |-> Pushed(topic, type, g, p)]
      <4> DEFINE h == [p \in Deep(b) |-> Pushed(topic, type, g, p)]
      <4>1. g = h
        BY <3>5
      <4>2. QED
        BY <4>1
    <3>7. QED
      BY <2>2, <3>6
  <2>5. QED
    BY <2>3, <2>4
<1>3. Runs(Len(topic))
  BY <1>1, <1>2
<1>4. Deep(Len(topic)) = nodes
  BY <1>1
<1>5. \E f : f = [p \in nodes |-> Pushed(topic, type, f, p)]
  <2> HIDE DEF Deep
  <2>1. QED
    BY <1>3, <1>4
<1>6. QED
  BY <1>5 DEF Walk

(* Pattern q goes on from p, and its levels after p match those of the      *)
(* topic after as many levels: this is what the walk can find from p on.    *)
MatchesFrom(p, q, topic) ==
  /\ Leads(p, q)
  /\ \/ /\ Len(q) = Len(topic)
        /\ \A i \in (Len(p) + 1)..Len(q) : LevelMatches(q[i], topic[i])
     \/ /\ Len(q) > Len(p) /\ q[Len(q)] = AnyLevels /\ Len(topic) >= Len(q) - 1
        /\ \A i \in (Len(p) + 1)..(Len(q) - 1) : LevelMatches(q[i], topic[i])

(* From the root this is the definition of matching. *)
LEMMA MatchesFromRoot ==
  ASSUME NEW q \in Patterns, NEW topic \in Paths
  PROVE  MatchesFrom(Root, q, topic) <=> LevelsMatch(q, topic)
<1>1. /\ q \in Paths /\ Len(q) \in Nat /\ Len(topic) \in Nat /\ q \in Seq(Levels)
      /\ Leads(Root, q) /\ Len(Root) = 0
  BY PathIs, LeadsSelf DEF Patterns, Root
<1>2. q # <<>> /\ Len(q) > 0
  <2>1. PICK i \in DOMAIN q : q[i] \in Wildcards
    BY DEF Patterns
  <2>2. QED
    BY <2>1, <1>1
<1>3. \A i \in 1..(Len(q) - 1) : i \in 1..Len(q)
  BY <1>1
<1>4. Len(q) - 1 \in Nat /\ (Len(topic) = Len(q) => Len(topic) >= Len(q) - 1)
  BY <1>1, <1>2
<1>5. CASE q[Len(q)] = AnyLevels
  <2>1. LevelsMatch(q, topic) <=> /\ Len(topic) >= Len(q) - 1
                                  /\ \A i \in 1..(Len(q) - 1) : LevelMatches(q[i], topic[i])
    BY <1>2, <1>5 DEF LevelsMatch
  <2>2. QED
    BY <2>1, <1>1, <1>2, <1>3, <1>4, <1>5 DEF MatchesFrom
<1>6. CASE q[Len(q)] # AnyLevels
  <2>1. LevelsMatch(q, topic) <=> /\ Len(topic) = Len(q)
                                  /\ \A i \in 1..Len(q) : LevelMatches(q[i], topic[i])
    BY <1>2, <1>6 DEF LevelsMatch
  <2>2. QED
    BY <2>1, <1>1, <1>6 DEF MatchesFrom
<1>7. QED
  BY <1>5, <1>6

(* What can be found from p on is at its child '#', at p itself where the   *)
(* topic ends, or from one of the two children that are visited on.         *)
LEMMA MatchesFromStep ==
  ASSUME NEW p \in Paths, NEW q \in Patterns, NEW topic \in Paths, Len(p) <= Len(topic)
  PROVE  MatchesFrom(p, q, topic) <=>
           \/ q = Append(p, AnyLevels)
           \/ Len(p) = Len(topic) /\ q = p
           \/ /\ Len(p) < Len(topic)
              /\ \/ MatchesFrom(Append(p, topic[Len(p) + 1]), q, topic)
                 \/ MatchesFrom(Append(p, OneLevel), q, topic)
<1> DEFINE d == Len(p)  n == Len(q)  t == Len(topic)
<1>1. /\ q \in Paths /\ p \in Seq(Levels) /\ q \in Seq(Levels) /\ topic \in Seq(Levels)
      /\ d \in Nat /\ n \in Nat /\ t \in Nat /\ d <= t
  BY PathIs DEF Patterns
<1>2. \A i \in 1..n : q[i] = AnyLevels => i = n
  BY <1>1 DEF Patterns, HashIsLast
<1>3. OneLevel \in Levels /\ AnyLevels \in Levels /\ OneLevel # AnyLevels
  BY WildcardsDiffer DEF Levels, Wildcards
<1>4. q = Append(p, AnyLevels) <=> Leads(p, q) /\ n = d + 1 /\ q[d + 1] = AnyLevels
  <2>1. ASSUME q = Append(p, AnyLevels)
        PROVE  Leads(p, q) /\ n = d + 1 /\ q[d + 1] = AnyLevels
    BY <2>1, <1>3, OneMore
  <2>2. ASSUME Leads(p, q), n = d + 1, q[d + 1] = AnyLevels
        PROVE  q = Append(p, AnyLevels)
    <3> DEFINE c == Append(p, AnyLevels)
    <3>1. /\ c \in Seq(Levels) /\ Len(c) = d + 1 /\ c[d + 1] = AnyLevels
          /\ \A i \in 1..d : c[i] = p[i]
      BY <1>3, OneMore
    <3> HIDE DEF c
    <3>2. \A i \in 1..n : i \in 1..d \/ i = d + 1
      BY <1>1, <2>2
    <3>3. \A i \in 1..n : q[i] = c[i]
      BY <3>1, <3>2, <2>2 DEF Leads
    <3>4. q = c
      BY <3>1, <3>3, <1>1, <2>2, SeqEqual
    <3>5. QED
      BY <3>4 DEF c
  <2>3. QED
    BY <2>1, <2>2
<1>5. q = p <=> Leads(p, q) /\ n = d
  BY <1>1, LeadsSelf
<1>6. ASSUME d < t, NEW level \in Levels
      PROVE  MatchesFrom(Append(p, level), q, topic) <=>
               /\ Leads(p, q) /\ n > d /\ q[d + 1] = level
               /\ \/ n = t /\ \A i \in (d + 2)..n : LevelMatches(q[i], topic[i])
                  \/ /\ n > d + 1 /\ q[n] = AnyLevels /\ t >= n - 1
                     /\ \A i \in (d + 2)..(n - 1) : LevelMatches(q[i], topic[i])
  <2>1. /\ Leads(Append(p, level), q) <=> Leads(p, q) /\ n > d /\ q[d + 1] = level
        /\ Len(Append(p, level)) = d + 1 /\ (d + 1) + 1 = d + 2
    BY <1>1, OneMore
  <2>2. QED
    BY <2>1 DEF MatchesFrom
<1>7. d < t => topic[d + 1] \in Levels
  BY <1>1
<1>8. \A m : m \in {n, n - 1} /\ m >= d + 1 =>
         \A i : i \in (d + 1)..m <=> i = d + 1 \/ i \in (d + 2)..m
  BY <1>1
<1> HIDE DEF d, n, t
<1>9. ASSUME d < t
      PROVE  /\ \/ MatchesFrom(Append(p, topic[d + 1]), q, topic)
                \/ MatchesFrom(Append(p, OneLevel), q, topic)
             <=> /\ Leads(p, q) /\ n > d /\ LevelMatches(q[d + 1], topic[d + 1])
                 /\ \/ n = t /\ \A i \in (d + 2)..n : LevelMatches(q[i], topic[i])
                    \/ /\ n > d + 1 /\ q[n] = AnyLevels /\ t >= n - 1
                       /\ \A i \in (d + 2)..(n - 1) : LevelMatches(q[i], topic[i])
  BY <1>3, <1>6, <1>7, <1>9 DEF LevelMatches
<1>10. MatchesFrom(p, q, topic) <=>
         /\ Leads(p, q)
         /\ \/ n = t /\ \A i \in (d + 1)..n : LevelMatches(q[i], topic[i])
            \/ /\ n > d /\ q[n] = AnyLevels /\ t >= n - 1
               /\ \A i \in (d + 1)..(n - 1) : LevelMatches(q[i], topic[i])
  BY DEF MatchesFrom, d, n, t
<1>11. CASE ~Leads(p, q)
  <2>1. ~MatchesFrom(p, q, topic)
    BY <1>10, <1>11
  <2>2. QED
    BY <2>1, <1>4, <1>5, <1>9, <1>11 DEF d, t
<1>12. CASE Leads(p, q) /\ n = d
  <2>1. MatchesFrom(p, q, topic) <=> d = t
    <3>1. (d + 1)..n = {} /\ ~(n > d)
      BY <1>1, <1>12
    <3>2. QED
      BY <3>1, <1>10, <1>12
  <2>2. ~(n = d + 1) /\ ~(n > d)
    BY <1>1, <1>12
  <2>3. QED
    BY <2>1, <2>2, <1>4, <1>5, <1>9, <1>12 DEF d, t
<1>13. CASE Leads(p, q) /\ n = d + 1 /\ q[n] = AnyLevels
  <2>1. (d + 1)..(n - 1) = {} /\ n > d /\ t >= n - 1
    BY <1>1, <1>13
  <2>2. QED
    BY <2>1, <1>4, <1>10, <1>13
<1>14. CASE Leads(p, q) /\ n > d /\ ~(n = d + 1 /\ q[n] = AnyLevels)
  <2>1. d + 1 \in 1..n /\ n # d /\ n >= d + 1
    BY <1>1, <1>14
  <2>2. q # Append(p, AnyLevels) /\ q # p
    BY <2>1, <1>4, <1>5, <1>14
  <2>3. n = t => d < t
    BY <1>1, <1>14
  <2>4. q[n] = AnyLevels /\ t >= n - 1 => d < t /\ n > d + 1 /\ n - 1 >= d + 1
    BY <2>1, <1>1, <1>14
  <2>5. n > d + 1 => n - 1 >= d + 1
    BY <1>1
  <2>6. (\A i \in (d + 1)..n : LevelMatches(q[i], topic[i])) <=>
          /\ LevelMatches(q[d + 1], topic[d + 1])
          /\ \A i \in (d + 2)..n : LevelMatches(q[i], topic[i])
    BY <2>1, <1>8 DEF n
  <2>7. n - 1 >= d + 1 =>
          ((\A i \in (d + 1)..(n - 1) : LevelMatches(q[i], topic[i])) <=>
            /\ LevelMatches(q[d + 1], topic[d + 1])
            /\ \A i \in (d + 2)..(n - 1) : LevelMatches(q[i], topic[i]))
    BY <2>1, <1>8
  <2>8. QED
    BY <2>2, <2>3, <2>4, <2>5, <2>6, <2>7, <1>9, <1>10, <1>14 DEF d, t
<1>15. QED
  <2>1. Leads(p, q) => n = d \/ n > d
    BY <1>1 DEF Leads, d, n
  <2>2. QED
    BY <2>1, <1>11, <1>12, <1>13, <1>14

(* A live subscription has a pattern, which is a path. *)
LEMMA PatternOf ==
  ASSUME TrieInv, NEW e \in Live
  PROVE  inserted[e].pattern \in Patterns /\ inserted[e].pattern \in Paths
<1>1. inserted \in Seq([pattern : Patterns, type : Types]) /\ e \in DOMAIN inserted
  BY DEF TrieInv, Live
<1>2. e \in 1..Len(inserted)
  BY <1>1
<1>3. inserted[e] \in [pattern : Patterns, type : Types]
  BY <1>1, <1>2, ElementOfSeq
<1>4. QED
  BY <1>3 DEF Patterns

(* A node has the live entries of its pattern; where there is no node there *)
(* are none.                                                                *)
LEMMA AtChildIs ==
  ASSUME TrieInv, NEW p \in Paths, NEW type
  PROVE  /\ OfType(p, type) \in Seq(Nat) /\ IsInjective(OfType(p, type))
         /\ ToSet(OfType(p, type)) =
              {e \in Live : inserted[e].type = type /\ inserted[e].pattern = p}
         /\ HashEntries(p, <<>>, type) \in Seq(Nat) /\ IsInjective(HashEntries(p, <<>>, type))
         /\ ToSet(HashEntries(p, <<>>, type)) =
              {e \in Live : inserted[e].type = type /\ inserted[e].pattern = Append(p, AnyLevels)}
<1> USE DEF TrieInv
<1>1. ASSUME NEW q \in Paths
      PROVE  /\ OfType(q, type) \in Seq(Nat) /\ IsInjective(OfType(q, type))
             /\ ToSet(OfType(q, type)) =
                  {e \in Live : inserted[e].type = type /\ inserted[e].pattern = q}
  <2>1. /\ entries[q] \in Seq(Nat) /\ IsInjective(entries[q])
        /\ ToSet(entries[q]) = {e \in Live : inserted[e].pattern = q}
    BY DEF EntriesAt
  <2>2. /\ OfType(q, type) \in Seq(Nat) /\ IsInjective(OfType(q, type))
        /\ ToSet(OfType(q, type)) = {e \in ToSet(entries[q]) : inserted[e].type = type}
    BY <2>1, OfTypeIs
  <2>3. QED
    BY <2>1, <2>2
<1> DEFINE c == Append(p, AnyLevels)
           Hits == {e \in Live : inserted[e].type = type /\ inserted[e].pattern = c}
<1>2. CASE c \in nodes
  <2>1. c \in Paths /\ HashEntries(p, <<>>, type) = OfType(c, type)
    BY <1>2 DEF Tree, HashEntries, AtChild
  <2> HIDE DEF c
  <2>2. QED
    BY <2>1, <1>1 DEF c
<1>3. CASE c \notin nodes
  <2>1. HashEntries(p, <<>>, type) = <<>>
    BY <1>3 DEF HashEntries, AtChild
  <2>2. ASSUME NEW e \in Hits PROVE FALSE
    <3>1. e \in Live /\ inserted[e].pattern = c /\ inserted[e].pattern \in Paths
      BY PatternOf
    <3> HIDE DEF c
    <3>2. e \in ToSet(entries[c]) /\ c \in Paths
      BY <3>1 DEF EntriesAt
    <3>3. entries[c] = <<>>
      BY <3>2, <1>3
    <3>4. QED
      BY <3>2, <3>3, Short
  <2>3. <<>> \in Seq(Nat)
    OBVIOUS
  <2>4. QED
    BY <2>1, <2>2, <2>3, <1>1, Short
<1>4. QED
  BY <1>1, <1>2, <1>3

(* The subscriptions that the walk should find from p on *)
Hits(p, topic, type) ==
  {e \in Live : inserted[e].type = type /\ MatchesFrom(p, inserted[e].pattern, topic)}

(* The walk finds from every node on what it should, and where the topic    *)
(* has no wildcards each once: the entries of the child '#', those at the   *)
(* node, and those below its two other children are different ones.         *)
LEMMA WalkFinds ==
  ASSUME TrieInv, NEW topic \in Paths, NEW type,
         NEW p \in nodes, Len(p) <= Len(topic)
  PROVE  LET f == Walk(topic, type)
         IN  /\ f[p] \in Seq(Nat) /\ ToSet(f[p]) = Hits(p, topic, type)
             /\ ToSet(topic) \subseteq Names => IsInjective(f[p])
<1> DEFINE f == Walk(topic, type)
           Right(x) == /\ f[x] \in Seq(Nat) /\ ToSet(f[x]) = Hits(x, topic, type)
                       /\ ToSet(topic) \subseteq Names => IsInjective(f[x])
           Bad == {n \in Nat : \E x \in nodes : Len(x) + n = Len(topic) /\ ~Right(x)}
<1>1. nodes \subseteq Paths /\ \A x \in nodes : Prefixes(x) \subseteq nodes
  BY DEF TrieInv, Tree
<1>2. Len(topic) \in Nat /\ topic \in Seq(Levels) /\ \A x \in nodes : Len(x) \in Nat
  BY <1>1, PathIs
<1>3. \A x \in nodes : f[x] = Pushed(topic, type, f, x)
  <2>1. f = [x \in nodes |-> Pushed(topic, type, f, x)]
    BY <1>1, WalkDefined
  <2> HIDE DEF f
  <2>2. QED
    BY <2>1
<1> HIDE DEF f
<1>4. ASSUME Bad # {} PROVE FALSE
  <2>1. PICK b \in Bad : \A n \in Bad : b <= n
    <3>1. Bad \subseteq Nat
      OBVIOUS
    <3> HIDE DEF Bad
    <3>2. QED
      BY <1>4, <3>1, Least
  <2>2. PICK x \in nodes : Len(x) + b = Len(topic) /\ ~Right(x)
    <3> HIDE DEF Right
    <3>1. QED
      OBVIOUS
  <2>3. b \in Nat /\ x \in Paths /\ Len(x) \in Nat /\ Len(x) <= Len(topic)
    <3> HIDE DEF Right
    <3>1. b \in Nat
      OBVIOUS
    <3>2. QED
      BY <3>1, <2>2, <1>1, <1>2
  <2> DEFINE hash == HashEntries(x, topic, type)
             exact == Append(x, topic[Len(x) + 1])
             star == Append(x, OneLevel)
             Of(c) == IF c \in nodes THEN f[c] ELSE <<>>
             At(c) == {e \in Live : inserted[e].type = type /\ inserted[e].pattern = c}
  <2>4. hash \in Seq(Nat) /\ IsInjective(hash) /\ ToSet(hash) = At(Append(x, AnyLevels))
    BY <2>3, AtChildIs DEF HashEntries
  <2>5. ASSUME NEW e \in Live PROVE inserted[e].pattern \in Patterns /\ inserted[e].pattern \in nodes
    <3>1. inserted[e].pattern \in Patterns /\ inserted[e].pattern \in Paths
      BY PatternOf
    <3>2. e \in ToSet(entries[inserted[e].pattern])
      BY <3>1 DEF TrieInv, EntriesAt
    <3>3. QED
      BY <3>1, <3>2, Short DEF TrieInv
  <2>6. CASE b = 0
    <3>1. Len(x) = Len(topic) /\ Len(x) >= Len(topic) /\ ~(Len(x) < Len(topic))
      BY <2>2, <2>3, <2>6, <1>2
    <3>2. f[x] = hash \o OfType(x, type)
      BY <1>3, <3>1 DEF Pushed
    <3>3. /\ OfType(x, type) \in Seq(Nat) /\ IsInjective(OfType(x, type))
          /\ ToSet(OfType(x, type)) = At(x)
      BY <2>3, AtChildIs
    <3>4. Hits(x, topic, type) = At(Append(x, AnyLevels)) \cup At(x)
      BY <2>3, <2>5, <3>1, MatchesFromStep DEF Hits
    <3>5. At(Append(x, AnyLevels)) \cap At(x) = {}
      <4>1. Len(Append(x, AnyLevels)) = Len(x) + 1
        BY <2>3, OneMore DEF Levels, Wildcards
      <4>2. Append(x, AnyLevels) # x
        BY <4>1, <2>3
      <4>3. QED
        BY <4>2
    <3> HIDE DEF hash, At
    <3>6. Right(x)
      BY <2>4, <3>2, <3>3, <3>4, <3>5, Joined
    <3>7. QED
      BY <3>6, <2>2
  <2>7. CASE b # 0
    <3>1. Len(x) < Len(topic) /\ ~(Len(x) >= Len(topic)) /\ Len(x) # Len(topic)
      BY <2>2, <2>3, <2>7, <1>2
    <3>2. f[x] = hash \o (Of(exact) \o Of(star))
      BY <1>3, <3>1 DEF Pushed
    <3>3. /\ topic[Len(x) + 1] \in Levels /\ OneLevel \in Levels /\ AnyLevels \in Levels
          /\ exact \in Paths /\ star \in Paths
          /\ Len(exact) = Len(x) + 1 /\ Len(star) = Len(x) + 1
      BY <2>3, <3>1, ChildDeeper
    <3>4. Hits(x, topic, type) = At(Append(x, AnyLevels)) \cup
            (Hits(exact, topic, type) \cup Hits(star, topic, type))
      BY <2>3, <2>5, <3>1, MatchesFromStep DEF Hits
    <3>5. ASSUME NEW c \in {exact, star}
          PROVE  /\ Of(c) \in Seq(Nat) /\ ToSet(Of(c)) = Hits(c, topic, type)
                 /\ ToSet(topic) \subseteq Names => IsInjective(Of(c))
      <4>1. CASE c \in nodes
        <5>1. b - 1 \in Nat /\ Len(c) + (b - 1) = Len(topic) /\ ~(b <= b - 1)
          BY <2>2, <2>3, <2>7, <3>3, <1>2
        <5> HIDE DEF Right, exact, star
        <5>2. Right(c)
          BY <5>1, <4>1, <2>1
        <5>3. QED
          BY <5>2, <4>1 DEF Right
      <4>2. CASE c \notin nodes
        <5>1. Hits(c, topic, type) = {}
          <6> SUFFICES ASSUME NEW e \in Hits(c, topic, type) PROVE FALSE
            OBVIOUS
          <6>1. inserted[e].pattern \in nodes /\ Leads(c, inserted[e].pattern)
            BY <2>5 DEF Hits, MatchesFrom
          <6>2. c \in Prefixes(inserted[e].pattern)
            BY <6>1, <3>3, <1>1, PrefixIs
          <6>3. QED
            BY <6>1, <6>2, <4>2, <1>1
        <5>2. <<>> \in Seq(Nat)
          OBVIOUS
        <5>3. QED
          BY <5>1, <5>2, <4>2, Short
      <4>3. QED
        BY <4>1, <4>2
    <3>6. ASSUME ToSet(topic) \subseteq Names
          PROVE  /\ Hits(exact, topic, type) \cap Hits(star, topic, type) = {}
                 /\ At(Append(x, AnyLevels)) \cap
                      (Hits(exact, topic, type) \cup Hits(star, topic, type)) = {}
      <4>1. topic[Len(x) + 1] \in Names
        <5>1. Len(x) + 1 \in DOMAIN topic
          BY <2>3, <3>1, <1>2
        <5>2. QED
          BY <5>1, <3>6 DEF ToSet
      <4>2. /\ topic[Len(x) + 1] # OneLevel /\ topic[Len(x) + 1] # AnyLevels
            /\ OneLevel # AnyLevels
        BY <4>1, NamesAreNotWildcards, WildcardsDiffer DEF Wildcards
      <4>3. ASSUME NEW level \in Levels, NEW e \in Live, Leads(Append(x, level), inserted[e].pattern)
            PROVE  inserted[e].pattern[Len(x) + 1] = level
        <5>1. inserted[e].pattern \in Paths
          BY <2>5 DEF Patterns
        <5>2. QED
          BY <5>1, <4>3, <2>3, OneMore
      <4>4. /\ \A e \in Hits(exact, topic, type) :
                 inserted[e].pattern[Len(x) + 1] = topic[Len(x) + 1]
            /\ \A e \in Hits(star, topic, type) : inserted[e].pattern[Len(x) + 1] = OneLevel
        BY <4>3, <3>3 DEF Hits, MatchesFrom
      <4>5. \A e \in At(Append(x, AnyLevels)) : inserted[e].pattern[Len(x) + 1] = AnyLevels
        <5>1. Append(x, AnyLevels)[Len(x) + 1] = AnyLevels
          BY <2>3, <3>3, OneMore
        <5>2. QED
          BY <5>1
      <4> HIDE DEF exact, star, At
      <4>6. QED
        BY <4>2, <4>4, <4>5
    <3> HIDE DEF hash, At, exact, star, Of
    <3>7. /\ Of(exact) \o Of(star) \in Seq(Nat)
          /\ ToSet(Of(exact) \o Of(star)) = Hits(exact, topic, type) \cup Hits(star, topic, type)
          /\ ToSet(topic) \subseteq Names => IsInjective(Of(exact) \o Of(star))
      BY <3>5, <3>6, Joined
    <3> DEFINE rest == Of(exact) \o Of(star)
               Rest == Hits(exact, topic, type) \cup Hits(star, topic, type)
    <3>8. Right(x)
      <4>1. /\ rest \in Seq(Nat) /\ ToSet(rest) = Rest
            /\ ToSet(topic) \subseteq Names => IsInjective(rest)
        BY <3>7
      <4>2. /\ f[x] = hash \o rest /\ Hits(x, topic, type) = At(Append(x, AnyLevels)) \cup Rest
            /\ ToSet(topic) \subseteq Names => At(Append(x, AnyLevels)) \cap Rest = {}
        BY <3>2, <3>4, <3>6
      <4> HIDE DEF rest, Rest, Right
      <4>3. /\ hash \o rest \in Seq(Nat) /\ ToSet(hash \o rest) = ToSet(hash) \cup ToSet(rest)
            /\ IsInjective(hash) /\ IsInjective(rest) /\ ToSet(hash) \cap ToSet(rest) = {}
                 => IsInjective(hash \o rest)
        BY <2>4, <4>1, Joined
      <4>4. QED
        BY <2>4, <4>1, <4>2, <4>3 DEF Right
    <3>9. QED
      BY <3>8, <2>2
  <2>8. QED
    BY <2>6, <2>7
<1>5. Len(topic) - Len(p) \in Nat /\ Len(p) + (Len(topic) - Len(p)) = Len(topic)
  BY <1>2
<1>6. Right(p)
  <2> HIDE DEF Right
  <2>1. QED
    BY <1>4, <1>5
<1>7. QED
  BY <1>6 DEF f

(* match() finds the live subscriptions of the message's type whose pattern *)
(* matches the topic, no other, and each once if the topic has no           *)
(* wildcards.                                                               *)
THEOREM MatchesExactlyHolds == Spec => []MatchesExactly
<1>1. TrieInv => MatchesExactly
  <2> SUFFICES ASSUME TrieInv, NEW topic \in Topics, NEW type \in Types
               PROVE  /\ ToSet(Match(topic, type)) =
                           {e \in Live : inserted[e].type = type
                                        /\ LevelsMatch(inserted[e].pattern, topic)}
                      /\ ToSet(topic) \subseteq Names => IsInjective(Match(topic, type))
    BY DEF MatchesExactly
  <2>1. topic \in Paths /\ Root \in nodes /\ Len(Root) <= Len(topic)
    BY PathIs, LeadsSelf DEF Topics, TrieInv, Tree, Leads
  <2>2. CASE entry_count = 0
    <3>1. IsFiniteSet(Live)
      BY LiveFinite
    <3>2. Live = {}
      BY <3>1, <2>2, FS_EmptySet DEF TrieInv
    <3>3. QED
      BY <3>2, <2>2, Short DEF Match
  <2>3. CASE entry_count # 0
    <3>1. Match(topic, type) = Walk(topic, type)[Root]
      BY <2>3 DEF Match, MatchNode, Walk, Pushed
    <3>2. ASSUME NEW e \in Live
          PROVE  MatchesFrom(Root, inserted[e].pattern, topic) <=>
                   LevelsMatch(inserted[e].pattern, topic)
      <4>1. inserted[e].pattern \in Patterns
        BY PatternOf
      <4>2. QED
        BY <4>1, <2>1, MatchesFromRoot
    <3>3. Hits(Root, topic, type) =
            {e \in Live : inserted[e].type = type /\ LevelsMatch(inserted[e].pattern, topic)}
      BY <3>2 DEF Hits
    <3>4. /\ ToSet(Walk(topic, type)[Root]) = Hits(Root, topic, type)
          /\ ToSet(topic) \subseteq Names => IsInjective(Walk(topic, type)[Root])
      BY <2>1, WalkFinds
    <3>5. QED
      BY <3>1, <3>3, <3>4
  <2>4. QED
    BY <2>2, <2>3
<1>2. QED
  BY <1>1, TrieInvariant, PTL
=============================================================================
