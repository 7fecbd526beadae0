------------------------- MODULE TopicMatchingProofs -------------------------
(***************************************************************************)
(* Proofs about TopicMatching for every pattern and topic: that the walk   *)
(* of topicMatches over characters finds what the definition by levels     *)
(* says, and which texts isValidTopic accepts.  The loops are recursive    *)
(* functions, so each is first shown to be defined; what it computes       *)
(* follows by the least number of characters left for which it would not.  *)
(***************************************************************************)
EXTENDS TopicMatching, SequenceTheorems, WellFoundedInduction, TLAPS

(* Every set of natural numbers that is not empty has a least element. *)
LEMMA Least ==
  ASSUME NEW T, T \subseteq Nat, T # {}
  PROVE  \E m \in T : \A n \in T : m <= n
<1> DEFINE R == OpToRel(<, Nat)
<1>1. IsWellFoundedOn(R, Nat)
  BY NatLessThanWellFounded
<1>2. PICK m \in T : \A n \in T : ~ (<<n, m>> \in R)
  BY <1>1, WFMin
<1>3. ASSUME NEW n \in T PROVE m <= n
  <2>1. n \in Nat /\ m \in Nat
    OBVIOUS
  <2>2. n < m => <<n, m>> \in R
    BY <2>1 DEF OpToRel
  <2>3. ~(n < m)
    BY <1>2, <2>2
  <2>4. QED
    BY <2>1, <2>3
<1>4. QED
  BY <1>3

-----------------------------------------------------------------------------
(* Levels                                                                  *)

(* The end of a level is there, and is the first '/' or the end of the text. *)
LEMMA LevelEndIs ==
  ASSUME NEW S, NEW s \in Seq(S), NEW i \in 1..(Len(s) + 1)
  PROVE  /\ LevelEnd(s, i) \in i..(Len(s) + 1)
         /\ LevelEnd(s, i) = Len(s) + 1 \/ s[LevelEnd(s, i)] = Slash
         /\ \A k \in i..(LevelEnd(s, i) - 1) : s[k] # Slash
<1> DEFINE n == Len(s)
           Ends == {e \in i..(n + 1) : e = n + 1 \/ s[e] = Slash}
<1>1. n \in Nat /\ i \in Nat /\ n + 1 \in Ends /\ Ends \subseteq Nat
  OBVIOUS
<1>2. PICK e \in Ends : \A k \in Ends : e <= k
  <2> HIDE DEF Ends
  <2>1. QED
    BY <1>1, Least
<1>3. e \in i..(n + 1) /\ (e = n + 1 \/ s[e] = Slash)
  OBVIOUS
<1>4. ASSUME NEW k \in i..(e - 1) PROVE s[k] # Slash
  <2>1. k \in i..(n + 1) /\ ~(e <= k)
    BY <1>1, <1>3
  <2>2. k \notin Ends
    BY <1>2, <2>1
  <2>3. QED
    BY <2>1, <2>2
<1>5. QED
  BY <1>3, <1>4 DEF LevelEnd

(* It is the only such position. *)
LEMMA LevelEndOnly ==
  ASSUME NEW S, NEW s \in Seq(S), NEW i \in 1..(Len(s) + 1), NEW e \in i..(Len(s) + 1),
         e = Len(s) + 1 \/ s[e] = Slash, \A k \in i..(e - 1) : s[k] # Slash
  PROVE  LevelEnd(s, i) = e
<1> DEFINE d == LevelEnd(s, i)
<1>1. /\ d \in i..(Len(s) + 1) /\ (d = Len(s) + 1 \/ s[d] = Slash)
      /\ \A k \in i..(d - 1) : s[k] # Slash
  BY LevelEndIs
<1> HIDE DEF d
<1>2. Len(s) \in Nat
  OBVIOUS
<1>3. d < e => d \in i..(e - 1) /\ d # Len(s) + 1
  BY <1>1, <1>2
<1>4. e < d => e \in i..(d - 1) /\ e # Len(s) + 1
  BY <1>1, <1>2
<1>5. ~(d < e) /\ ~(e < d)
  BY <1>1, <1>3, <1>4
<1>6. d = e
  BY <1>1, <1>2, <1>5
<1>7. QED
  BY <1>6 DEF d

(* The recursion of splitLevels: the levels from a position on, the rest of a *)
(* level first                                                                *)
Level(s, i) == SubSeq(s, i, LevelEnd(s, i) - 1)

Split(s, f, i) ==
  IF i > Len(s) THEN <<>>
  ELSE <<Level(s, i)>> \o (IF LevelEnd(s, i) > Len(s) THEN <<>> ELSE f[LevelEnd(s, i) + 1])

LevelsFrom(s) == CHOOSE f : f = [i \in 1..(Len(s) + 1) |-> Split(s, f, i)]

(* It defines a function. *)
LEMMA LevelsFromDefined ==
  ASSUME NEW S, NEW s \in Seq(S)
  PROVE  LevelsFrom(s) = [i \in 1..(Len(s) + 1) |-> Split(s, LevelsFrom(s), i)]
<1> DEFINE top == Len(s) + 1
           Runs(m) == \E f : f = [i \in (top - m)..top |-> Split(s, f, i)]
           Bad == {m \in 0..(top - 1) : ~Runs(m)}
<1>1. top \in Nat \ {0} /\ Len(s) \in Nat
  OBVIOUS
<1>2. ASSUME Bad # {} PROVE FALSE
  <2>1. PICK b \in Bad : \A m \in Bad : b <= m
    <3>1. Bad \subseteq Nat
      BY <1>1
    <3> HIDE DEF Bad
    <3>2. QED
      BY <1>2, <3>1, Least
  <2>2. b \in 0..(top - 1) /\ ~Runs(b)
    OBVIOUS
  <2>3. CASE b = 0
    <3> DEFINE f == [i \in top..top |-> <<>>]
    <3>1. \A i \in top..top : Split(s, f, i) = <<>>
      BY <1>1 DEF Split
    <3>2. f = [i \in top..top |-> Split(s, f, i)]
      BY <3>1
    <3>3. top - 0 = top
      BY <1>1
    <3>4. Runs(0)
      BY <3>2, <3>3
    <3>5. QED
      BY <2>2, <2>3, <3>4
  <2>4. CASE b # 0
    <3>1. b - 1 \in 0..(top - 1) /\ ~(b <= b - 1)
      BY <1>1, <2>2, <2>4
    <3>2. Runs(b - 1)
      BY <2>1, <3>1
    <3> DEFINE old == (top - (b - 1))..top
               new == (top - b)..top
    <3>3. PICK f : f = [i \in old |-> Split(s, f, i)]
      BY <3>2
    <3> DEFINE g == [i \in new |-> Split(s, f, i)]
    <3>4. old \subseteq new /\ new \subseteq 1..top
      BY <1>1, <2>2, <2>4
    <3>5. \A i \in old : f[i] = Split(s, f, i)
      BY <3>3
    <3>6. \A i \in old : g[i] = f[i]
      BY <3>4, <3>5
    <3>7. ASSUME NEW i \in new PROVE Split(s, f, i) = Split(s, g, i)
      <4>1. CASE i > Len(s)
        BY <4>1 DEF Split
      <4>2. CASE i <= Len(s)
        <5>1. i \in 1..top /\ LevelEnd(s, i) \in i..top
          BY <3>4, LevelEndIs
        <5>2. LevelEnd(s, i) <= Len(s) => LevelEnd(s, i) + 1 \in old
          BY <1>1, <2>2, <5>1
        <5>3. LevelEnd(s, i) <= Len(s) => g[LevelEnd(s, i) + 1] = f[LevelEnd(s, i) + 1]
          BY <3>6, <5>2
        <5>4. LevelEnd(s, i) <= Len(s) \/ LevelEnd(s, i) > Len(s)
          BY <1>1, <5>1
        <5> HIDE DEF g
        <5>5. QED
          BY <5>3, <5>4 DEF Split
      <4>3. QED
        BY <1>1, <3>4, <4>1, <4>2
    <3>8. g = [i \in new |-> Split(s, g, i)]
      <4> DEFINE h == [i \in new |-> Split(s, g, i)]
      <4>1. g = h
        BY <3>7
      <4>2. QED
        BY <4>1
    <3>9. Runs(b)
      BY <3>8
    <3>10. QED
      BY <2>2, <3>9
  <2>5. QED
    BY <2>3, <2>4
<1>3. Runs(top - 1) /\ top - (top - 1) = 1
  BY <1>1, <1>2
<1>4. \E f : f = [i \in 1..top |-> Split(s, f, i)]
  BY <1>3
<1>5. QED
  BY <1>4 DEF LevelsFrom

(* The levels after the one of a position *)
After(s, i) == IF LevelEnd(s, i) > Len(s) THEN <<>> ELSE LevelsFrom(s)[LevelEnd(s, i) + 1]

(* A level holds the characters up to its end. *)
LEMMA LevelIs ==
  ASSUME NEW S, NEW s \in Seq(S), NEW i \in 1..(Len(s) + 1)
  PROVE  /\ Level(s, i) \in Seq(S) /\ Len(Level(s, i)) = LevelEnd(s, i) - i
         /\ \A k \in 1..(LevelEnd(s, i) - i) : Level(s, i)[k] = s[(i + k) - 1]
<1> DEFINE e == LevelEnd(s, i)
<1>1. e \in i..(Len(s) + 1) /\ Len(s) \in Nat /\ i \in Nat \ {0}
  BY LevelEndIs
<1> HIDE DEF e
<1>2. \A k \in i..(e - 1) : k \in 1..Len(s) /\ s[k] \in S
  BY <1>1
<1>3. /\ SubSeq(s, i, e - 1) \in Seq(S) /\ Len(SubSeq(s, i, e - 1)) = e - i
      /\ \A k \in 1..(e - i) : SubSeq(s, i, e - 1)[k] = s[(i + k) - 1]
  <2>1. e - 1 \in Int /\ i <= (e - 1) + 1 /\ e - 1 <= Len(s) /\ ((e - 1) - i) + 1 = e - i
    BY <1>1
  <2>2. e - i \in Nat
    BY <1>1
  <2> DEFINE x == SubSeq(s, i, e - 1)
             y == [k \in 1..(e - i) |-> s[(i + k) - 1]]
  <2>3. x = y
    BY <1>1, <2>1, <2>2
  <2>4. \A k \in 1..(e - i) : s[(i + k) - 1] \in S
    BY <1>1, <1>2
  <2>5. y \in Seq(S) /\ Len(y) = e - i
    BY <2>2, <2>4
  <2>6. \A k \in 1..(e - i) : y[k] = s[(i + k) - 1]
    OBVIOUS
  <2> HIDE DEF x, y
  <2>7. QED
    BY <2>3, <2>5, <2>6 DEF x
<1>4. QED
  BY <1>3 DEF Level, e

(* A level and the levels after it *)
LEMMA LevelsFromIs ==
  ASSUME NEW S, NEW s \in Seq(S)
  PROVE  /\ SplitLevels(s) = LevelsFrom(s)[1]
         /\ LevelsFrom(s)[Len(s) + 1] = <<>>
         /\ \A i \in 1..Len(s) : LevelsFrom(s)[i] = <<Level(s, i)>> \o After(s, i)
         /\ \A i \in 1..(Len(s) + 1) :
              LevelsFrom(s)[i] \in Seq(Seq(S)) /\ After(s, i) \in Seq(Seq(S))
<1> DEFINE L == LevelsFrom(s)
           top == Len(s) + 1
           T == Seq(S)
<1>1. SplitLevels(s) = L[1]
  BY DEF SplitLevels, LevelsFrom, Split, Level
<1>2. \A i \in 1..top : L[i] = Split(s, L, i)
  <2>1. L = [i \in 1..top |-> Split(s, L, i)]
    BY LevelsFromDefined
  <2> HIDE DEF L
  <2>2. QED
    BY <2>1
<1> HIDE DEF L, T
<1>3. Len(s) \in Nat /\ top \in 1..top /\ ~(top <= Len(s))
  OBVIOUS
<1>4. L[top] = <<>>
  <2>1. top > Len(s)
    BY <1>3
  <2>2. Split(s, L, top) = <<>>
    BY <2>1 DEF Split
  <2>3. L[top] = Split(s, L, top)
    BY <1>2, <1>3
  <2>4. QED
    BY <2>2, <2>3
<1>5. \A i \in 1..Len(s) : L[i] = <<Level(s, i)>> \o After(s, i)
  <2>1. \A i \in 1..Len(s) : i \in 1..top /\ ~(i > Len(s))
    BY <1>3
  <2>2. QED
    BY <1>2, <2>1 DEF Split, After, L
<1> DEFINE Bad == {m \in 0..Len(s) : L[top - m] \notin Seq(T)}
<1>6. ASSUME NEW i \in 1..top, LevelEnd(s, i) <= Len(s) => L[LevelEnd(s, i) + 1] \in Seq(T)
      PROVE  After(s, i) \in Seq(T)
  <2>1. LevelEnd(s, i) \in Nat
    BY LevelEndIs
  <2>2. LevelEnd(s, i) <= Len(s) \/ LevelEnd(s, i) > Len(s)
    BY <1>3, <2>1
  <2>3. <<>> \in Seq(T)
    OBVIOUS
  <2>4. QED
    BY <1>6, <2>2, <2>3 DEF After, L
<1>7. ASSUME Bad # {} PROVE FALSE
  <2>1. PICK b \in Bad : \A m \in Bad : b <= m
    <3>1. Bad \subseteq Nat
      BY <1>3
    <3> HIDE DEF Bad
    <3>2. QED
      BY <1>7, <3>1, Least
  <2>2. b \in 0..Len(s) /\ L[top - b] \notin Seq(T) /\ top - b \in 1..top
    BY <1>3
  <2>3. b # 0
    <3>1. <<>> \in Seq(T) /\ top - 0 = top
      OBVIOUS
    <3>2. QED
      BY <1>4, <2>2, <3>1
  <2> DEFINE i == top - b
             e == LevelEnd(s, i)
  <2>4. i \in 1..Len(s) /\ i \in 1..top /\ e \in i..top
    BY <1>3, <2>2, <2>3, LevelEndIs
  <2>5. e <= Len(s) => L[e + 1] \in Seq(T)
    <3> SUFFICES ASSUME e <= Len(s) PROVE L[e + 1] \in Seq(T)
      OBVIOUS
    <3> DEFINE m == top - (e + 1)
    <3>1. m \in 0..Len(s) /\ ~(b <= m) /\ top - m = e + 1
      BY <1>3, <2>2, <2>4
    <3>2. m \notin Bad
      BY <2>1, <3>1
    <3>3. QED
      BY <3>1, <3>2
  <2>6. After(s, i) \in Seq(T)
    BY <1>6, <2>4, <2>5
  <2>7. <<Level(s, i)>> \in Seq(T)
    BY <2>4, LevelIs DEF T
  <2>8. L[i] \in Seq(T)
    <3> HIDE DEF i
    <3>1. QED
      BY <1>5, <2>4, <2>6, <2>7, ConcatProperties
  <2>9. QED
    BY <2>2, <2>8
<1>8. \A i \in 1..top : L[i] \in Seq(T)
  <2>1. ASSUME NEW i \in 1..top PROVE L[i] \in Seq(T)
    <3>1. top - i \in 0..Len(s) /\ top - (top - i) = i
      BY <1>3
    <3>2. QED
      BY <1>7, <3>1
  <2>2. QED
    BY <2>1
<1>9. \A i \in 1..top : After(s, i) \in Seq(T)
  <2>1. ASSUME NEW i \in 1..top PROVE After(s, i) \in Seq(T)
    <3>1. LevelEnd(s, i) \in i..top
      BY LevelEndIs
    <3>2. LevelEnd(s, i) <= Len(s) => LevelEnd(s, i) + 1 \in 1..top
      BY <1>3, <3>1
    <3>3. QED
      BY <1>6, <1>8, <3>2
  <2>2. QED
    BY <2>1
<1>10. QED
  BY <1>1, <1>4, <1>5, <1>8, <1>9 DEF L, T

(* A level before others *)
LEMMA FirstLevel ==
  ASSUME NEW T, NEW x \in T, NEW levels \in Seq(T)
  PROVE  /\ <<x>> \o levels \in Seq(T) /\ Len(<<x>> \o levels) = Len(levels) + 1
         /\ (<<x>> \o levels)[1] = x
         /\ \A k \in 1..Len(levels) : (<<x>> \o levels)[k + 1] = levels[k]
<1> DEFINE s == <<x>>
<1>1. s \in Seq(T) /\ Len(s) = 1 /\ s[1] = x /\ Len(levels) \in Nat
  OBVIOUS
<1> HIDE DEF s
<1>2. /\ s \o levels \in Seq(T) /\ Len(s \o levels) = Len(s) + Len(levels)
      /\ \A k \in 1..(Len(s) + Len(levels)) :
           (s \o levels)[k] = IF k <= Len(s) THEN s[k] ELSE levels[k - Len(s)]
  BY <1>1, ConcatProperties
<1>3. (s \o levels)[1] = x
  BY <1>1, <1>2
<1>4. ASSUME NEW k \in 1..Len(levels) PROVE (s \o levels)[k + 1] = levels[k]
  <2>1. k + 1 \in 1..(Len(s) + Len(levels)) /\ ~(k + 1 <= Len(s)) /\ (k + 1) - Len(s) = k
    BY <1>1
  <2>2. QED
    BY <1>2, <2>1
<1>5. QED
  BY <1>1, <1>2, <1>3, <1>4 DEF s

(* Levels that hold no wildcard unless they are one, and '#' only at the end *)
Whole(level) == IsWildcard(level) => level \in Wildcards
Good(levels) == (\A k \in DOMAIN levels : Whole(levels[k])) /\ HashIsLast(levels)
Named(levels) == \A k \in DOMAIN levels : levels[k] # <<>>

(* They are so one by one. *)
LEMMA GoodCons ==
  ASSUME NEW T, NEW x \in T, NEW levels \in Seq(T)
  PROVE  /\ Good(<<x>> \o levels) <=> Whole(x) /\ (x = <<Hash>> => levels = <<>>) /\ Good(levels)
         /\ Named(<<x>> \o levels) <=> x # <<>> /\ Named(levels)
<1> DEFINE all == <<x>> \o levels
           n == Len(levels)
<1>1. /\ all \in Seq(T) /\ Len(all) = n + 1 /\ all[1] = x
      /\ \A k \in 1..n : all[k + 1] = levels[k]
      /\ n \in Nat /\ DOMAIN levels = 1..n
  <2>1. n \in Nat /\ DOMAIN levels = 1..n
    OBVIOUS
  <2>2. /\ all \in Seq(T) /\ Len(all) = n + 1 /\ all[1] = x
        /\ \A k \in 1..n : all[k + 1] = levels[k]
    BY FirstLevel
  <2>3. QED
    BY <2>1, <2>2
<1> HIDE DEF all
<1>2. DOMAIN all = 1..(n + 1)
  BY <1>1
<1>3. \A k \in 1..(n + 1) : k = 1 \/ (k - 1 \in 1..n /\ (k - 1) + 1 = k)
  BY <1>1
<1>4. 1 \in 1..(n + 1) /\ \A k \in 1..n : k + 1 \in 1..(n + 1)
  BY <1>1
<1>5. \A k \in 1..(n + 1) : k # 1 => k - 1 \in 1..n /\ all[k] = levels[k - 1]
  <2>1. ASSUME NEW k \in 1..(n + 1), k # 1 PROVE k - 1 \in 1..n /\ all[k] = levels[k - 1]
    <3>1. k - 1 \in 1..n /\ (k - 1) + 1 = k
      BY <1>3, <2>1
    <3>2. all[(k - 1) + 1] = levels[k - 1]
      BY <1>1, <3>1
    <3>3. QED
      BY <3>1, <3>2
  <2>2. QED
    BY <2>1
<1>6. (\A k \in DOMAIN all : Whole(all[k]))
        <=> Whole(x) /\ \A k \in DOMAIN levels : Whole(levels[k])
  BY <1>1, <1>2, <1>4, <1>5
<1>7. Named(all) <=> x # <<>> /\ Named(levels)
  <2>1. ASSUME Named(all) PROVE x # <<>> /\ Named(levels)
    <3>1. all[1] # <<>> /\ \A k \in 1..n : all[k + 1] # <<>>
      BY <1>2, <1>4, <2>1 DEF Named
    <3>2. QED
      BY <1>1, <3>1 DEF Named
  <2>2. ASSUME x # <<>>, Named(levels), NEW k \in 1..(n + 1) PROVE all[k] # <<>>
    <3>1. k # 1 => levels[k - 1] # <<>>
      BY <1>1, <1>5, <2>2 DEF Named
    <3>2. QED
      BY <1>1, <1>5, <2>2, <3>1
  <2>3. QED
    BY <1>2, <2>1, <2>2 DEF Named
<1>8. levels = <<>> <=> n = 0
  BY <1>1
<1>9. HashIsLast(all) <=> (x = <<Hash>> => levels = <<>>) /\ HashIsLast(levels)
  <2>1. ASSUME HashIsLast(all) PROVE (x = <<Hash>> => levels = <<>>) /\ HashIsLast(levels)
    <3>1. x = <<Hash>> => 1 = n + 1
      BY <1>1, <1>2, <1>4, <2>1 DEF HashIsLast
    <3>2. x = <<Hash>> => n = 0
      BY <1>1, <3>1
    <3>3. ASSUME NEW k \in 1..n, levels[k] = <<Hash>> PROVE k = n
      <4>1. k + 1 = n + 1
        BY <1>1, <1>2, <1>4, <2>1, <3>3 DEF HashIsLast
      <4>2. QED
        BY <1>1, <4>1
    <3>4. QED
      BY <1>1, <1>8, <3>2, <3>3 DEF HashIsLast
  <2>2. ASSUME x = <<Hash>> => levels = <<>>, HashIsLast(levels) PROVE HashIsLast(all)
    <3>1. ASSUME NEW k \in 1..(n + 1), all[k] = <<Hash>> PROVE k = n + 1
      <4>1. CASE k = 1
        <5>1. n = 0
          BY <1>1, <1>8, <2>2, <3>1, <4>1
        <5>2. QED
          BY <4>1, <5>1
      <4>2. CASE k # 1
        <5>1. k - 1 \in 1..n /\ levels[k - 1] = <<Hash>>
          BY <1>5, <3>1, <4>2
        <5>2. k - 1 = n
          BY <1>1, <2>2, <5>1 DEF HashIsLast
        <5>3. QED
          BY <1>1, <5>2
      <4>3. QED
        BY <4>1, <4>2
    <3>2. QED
      BY <1>1, <1>2, <3>1 DEF HashIsLast
  <2>3. QED
    BY <2>1, <2>2
<1>10. QED
  BY <1>6, <1>7, <1>9 DEF Good, all

Before(x, others) == <<x>> \o others

(* What is put before others is what comes first. *)
LEMMA FirstAndRest ==
  ASSUME NEW T, NEW x \in T, NEW u \in Seq(T), NEW y \in T, NEW v \in Seq(T)
  PROVE  Before(x, u) = Before(y, v) <=> x = y /\ u = v
<1> DEFINE xu == <<x>> \o u
           yv == <<y>> \o v
<1>1. /\ xu \in Seq(T) /\ Len(xu) = Len(u) + 1 /\ xu[1] = x
      /\ \A k \in 1..Len(u) : xu[k + 1] = u[k]
  BY FirstLevel
<1>2. /\ yv \in Seq(T) /\ Len(yv) = Len(v) + 1 /\ yv[1] = y
      /\ \A k \in 1..Len(v) : yv[k + 1] = v[k]
  BY FirstLevel
<1>3. Len(u) \in Nat /\ Len(v) \in Nat
  OBVIOUS
<1>4. x = y /\ u = v => xu = yv
  OBVIOUS
<1> HIDE DEF xu, yv
<1>5. ASSUME xu = yv PROVE x = y /\ u = v
  <2>1. x = y /\ Len(u) = Len(v)
    BY <1>1, <1>2, <1>3, <1>5
  <2>2. \A k \in 1..Len(u) : u[k] = v[k]
    BY <1>1, <1>2, <1>5, <2>1
  <2>3. u = v
    BY <2>1, <2>2, SeqEqual
  <2>4. QED
    BY <2>1, <2>3
<1>6. QED
  BY <1>4, <1>5 DEF xu, yv, Before

(* Levels match one by one. *)
LEMMA MatchCons ==
  ASSUME NEW T, NEW x \in T, NEW levels \in Seq(T), x # <<Hash>>
  PROVE  /\ \A y \in T, others \in Seq(T) :
              LevelsMatch(<<x>> \o levels, <<y>> \o others)
                <=> LevelMatches(x, y) /\ LevelsMatch(levels, others)
         /\ ~LevelsMatch(<<x>> \o levels, <<>>)
<1> DEFINE all == <<x>> \o levels
           n == Len(levels)
           hash == levels # <<>> /\ levels[n] = <<Hash>>
           fixed == IF hash THEN n - 1 ELSE n
<1>1. /\ all \in Seq(T) /\ Len(all) = n + 1 /\ all[1] = x
      /\ \A k \in 1..n : all[k + 1] = levels[k]
      /\ n \in Nat
  <2>1. n \in Nat
    OBVIOUS
  <2>2. QED
    BY <2>1, FirstLevel
<1> HIDE DEF all, n
<1>2. all # <<>> /\ (levels = <<>> <=> n = 0)
  BY <1>1 DEF n
<1>3. all[n + 1] = <<Hash>> <=> hash
  <2>1. CASE n = 0
    BY <1>1, <1>2, <2>1
  <2>2. CASE n # 0
    <3>1. n \in 1..n
      BY <1>1, <2>2
    <3>2. all[n + 1] = levels[n]
      BY <1>1, <3>1
    <3>3. QED
      BY <1>2, <2>2, <3>2
  <2>3. QED
    BY <2>1, <2>2
<1>4. hash => n # 0
  BY <1>2
<1>5. /\ fixed \in Nat /\ fixed <= n
      /\ (IF hash THEN (n + 1) - 1 ELSE n + 1) = fixed + 1
  BY <1>1, <1>4
<1> HIDE DEF hash
<1>6. \A actual : LevelsMatch(all, actual)
        <=> /\ IF hash THEN Len(actual) >= fixed + 1 ELSE Len(actual) = fixed + 1
            /\ \A k \in 1..(fixed + 1) : LevelMatches(all[k], actual[k])
  <2>1. (all # <<>> /\ all[Len(all)] = <<Hash>>) <=> hash
    BY <1>1, <1>2, <1>3
  <2>2. QED
    BY <1>1, <1>5, <2>1 DEF LevelsMatch
<1>7. \A actual : LevelsMatch(levels, actual)
        <=> /\ IF hash THEN Len(actual) >= fixed ELSE Len(actual) = fixed
            /\ \A k \in 1..fixed : LevelMatches(levels[k], actual[k])
  BY DEF LevelsMatch, hash, n
<1> HIDE DEF fixed
<1>8. ASSUME NEW y \in T, NEW others \in Seq(T)
      PROVE  LevelsMatch(all, <<y>> \o others) <=> LevelMatches(x, y) /\ LevelsMatch(levels, others)
  <2> DEFINE actual == <<y>> \o others
             m == Len(others)
  <2>1. /\ Len(actual) = m + 1 /\ actual[1] = y /\ m \in Nat
        /\ \A k \in 1..m : actual[k + 1] = others[k]
    <3>1. m \in Nat
      OBVIOUS
    <3>2. QED
      BY <3>1, FirstLevel
  <2> HIDE DEF actual, m
  <2> DEFINE Long == IF hash THEN m >= fixed ELSE m = fixed
  <2>2. (IF hash THEN Len(actual) >= fixed + 1 ELSE Len(actual) = fixed + 1) <=> Long
    BY <1>5, <2>1
  <2>3. ASSUME Long
        PROVE  (\A k \in 1..(fixed + 1) : LevelMatches(all[k], actual[k]))
                 <=> LevelMatches(x, y) /\ \A k \in 1..fixed : LevelMatches(levels[k], others[k])
    <3>1. fixed <= m
      BY <1>5, <2>1, <2>3
    <3>2. \A k \in 1..fixed :
            k + 1 \in 1..(fixed + 1) /\ all[k + 1] = levels[k] /\ actual[k + 1] = others[k]
      BY <1>1, <1>5, <2>1, <3>1
    <3>3. 1 \in 1..(fixed + 1) /\ all[1] = x /\ actual[1] = y
      BY <1>1, <1>5, <2>1
    <3>4. ASSUME NEW k \in 1..(fixed + 1), k # 1
          PROVE  k - 1 \in 1..fixed /\ all[k] = levels[k - 1] /\ actual[k] = others[k - 1]
      <4>1. k - 1 \in 1..fixed /\ (k - 1) + 1 = k
        BY <1>5, <3>4
      <4>2. QED
        BY <3>2, <4>1
    <3>5. ASSUME \A k \in 1..(fixed + 1) : LevelMatches(all[k], actual[k])
          PROVE  LevelMatches(x, y) /\ \A k \in 1..fixed : LevelMatches(levels[k], others[k])
      BY <3>2, <3>3, <3>5
    <3>6. ASSUME LevelMatches(x, y), \A k \in 1..fixed : LevelMatches(levels[k], others[k]),
                 NEW k \in 1..(fixed + 1)
          PROVE  LevelMatches(all[k], actual[k])
      BY <3>3, <3>4, <3>6
    <3>7. QED
      BY <3>5, <3>6
  <2>4. LevelsMatch(levels, others)
          <=> Long /\ \A k \in 1..fixed : LevelMatches(levels[k], others[k])
    BY <1>7 DEF m
  <2>5. LevelsMatch(all, actual)
          <=> Long /\ \A k \in 1..(fixed + 1) : LevelMatches(all[k], actual[k])
    BY <1>6, <2>2
  <2> HIDE DEF Long
  <2>6. LevelsMatch(all, actual) <=> LevelMatches(x, y) /\ LevelsMatch(levels, others)
    BY <2>3, <2>4, <2>5
  <2>7. QED
    BY <2>6 DEF actual
<1>9. ~LevelsMatch(all, <<>>)
  <2>1. Len(<<>>) = 0
    OBVIOUS
  <2>2. QED
    BY <1>5, <1>6, <2>1
<1>10. QED
  BY <1>8, <1>9 DEF all

(* '#' matches whatever levels are left, and no level just none. *)
LEMMA MatchLast ==
  ASSUME NEW T, NEW actual \in Seq(T)
  PROVE  /\ LevelsMatch(<<<<Hash>>>>, actual)
         /\ LevelsMatch(<<>>, actual) <=> actual = <<>>
<1>1. Len(actual) \in Nat /\ (actual = <<>> <=> Len(actual) = 0)
  OBVIOUS
<1> DEFINE x == <<Hash>>
<1>2. LevelsMatch(<<x>>, actual)
  <2> HIDE DEF x
  <2>1. <<x>> # <<>> /\ Len(<<x>>) = 1 /\ <<x>>[1] = x
    OBVIOUS
  <2>2. Len(actual) >= 0 /\ 1..0 = {}
    BY <1>1
  <2>3. QED
    BY <2>1, <2>2 DEF LevelsMatch, x
<1>3. LevelsMatch(<<>>, actual) <=> Len(actual) = 0
  <2>1. Len(<<>>) = 0 /\ 1..0 = {}
    OBVIOUS
  <2>2. QED
    BY <2>1 DEF LevelsMatch
<1>4. QED
  BY <1>1, <1>2, <1>3

-----------------------------------------------------------------------------
(* Characters                                                              *)

(* At the end of a level nothing of it is left. *)
LEMMA LevelOver ==
  ASSUME NEW S, NEW s \in Seq(S), NEW i \in 1..(Len(s) + 1), i = Len(s) + 1 \/ s[i] = Slash
  PROVE  /\ LevelEnd(s, i) = i /\ Level(s, i) = <<>>
         /\ After(s, i) = IF i > Len(s) THEN <<>> ELSE LevelsFrom(s)[i + 1]
<1>1. Len(s) \in Nat /\ i \in i..(Len(s) + 1) /\ i..(i - 1) = {} /\ i - i = 0
  OBVIOUS
<1>2. LevelEnd(s, i) = i
  BY <1>1, LevelEndOnly
<1>3. Level(s, i) \in Seq(S) /\ Len(Level(s, i)) = 0
  BY <1>1, <1>2, LevelIs
<1>4. QED
  BY <1>2, <1>3 DEF After

(* Another character of a level *)
LEMMA LevelGoesOn ==
  ASSUME NEW S, NEW s \in Seq(S), NEW i \in 1..Len(s), s[i] # Slash
  PROVE  /\ LevelEnd(s, i) = LevelEnd(s, i + 1) /\ After(s, i) = After(s, i + 1)
         /\ Level(s, i) = <<s[i]>> \o Level(s, i + 1)
         /\ Level(s, i) # <<>> /\ Level(s, i)[1] = s[i]
<1> DEFINE e == LevelEnd(s, i + 1)
           x == Level(s, i)
           y == Level(s, i + 1)
<1>1. Len(s) \in Nat /\ i \in 1..(Len(s) + 1) /\ i + 1 \in 1..(Len(s) + 1) /\ s[i] \in S
  OBVIOUS
<1>2. /\ e \in (i + 1)..(Len(s) + 1) /\ (e = Len(s) + 1 \/ s[e] = Slash)
      /\ \A k \in (i + 1)..(e - 1) : s[k] # Slash
  BY <1>1, LevelEndIs
<1> HIDE DEF e
<1>3. e \in i..(Len(s) + 1) /\ \A k \in i..(e - 1) : s[k] # Slash
  <2>1. \A k \in i..(e - 1) : k = i \/ k \in (i + 1)..(e - 1)
    BY <1>1, <1>2
  <2>2. QED
    BY <1>1, <1>2, <2>1
<1>4. LevelEnd(s, i) = e
  BY <1>1, <1>2, <1>3, LevelEndOnly
<1>5. /\ x \in Seq(S) /\ Len(x) = e - i /\ \A k \in 1..(e - i) : x[k] = s[(i + k) - 1]
      /\ y \in Seq(S) /\ Len(y) = e - (i + 1)
      /\ \A k \in 1..(e - (i + 1)) : y[k] = s[((i + 1) + k) - 1]
  BY <1>1, <1>4, LevelIs DEF e
<1> HIDE DEF x, y
<1> DEFINE z == <<s[i]>> \o y
<1>6. /\ z \in Seq(S) /\ Len(z) = Len(y) + 1 /\ z[1] = s[i]
      /\ \A k \in 1..Len(y) : z[k + 1] = y[k]
  BY <1>1, <1>5, FirstLevel
<1> HIDE DEF z
<1>7. 1 \in 1..(e - i) /\ (i + 1) - 1 = i /\ Len(z) = e - i
  <2>1. Len(z) = Len(y) + 1 /\ Len(y) = e - (i + 1)
    BY <1>5, <1>6
  <2>2. e \in (i + 1)..(Len(s) + 1) /\ i \in Nat /\ Len(s) \in Nat
    BY <1>1, <1>2
  <2>3. 1 \in 1..(e - i) /\ (i + 1) - 1 = i /\ (e - (i + 1)) + 1 = e - i
    BY <2>2
  <2>4. QED
    BY <2>1, <2>3
<1>8. x[1] = s[i]
  BY <1>5, <1>7
<1>9. ASSUME NEW k \in 1..(e - i) PROVE x[k] = z[k]
  <2>1. CASE k = 1
    BY <1>6, <1>8, <2>1
  <2>2. CASE k # 1
    <3>1. k - 1 \in 1..(e - (i + 1)) /\ (k - 1) + 1 = k /\ ((i + 1) + (k - 1)) - 1 = (i + k) - 1
      BY <1>1, <1>2, <2>2
    <3>2. z[(k - 1) + 1] = y[k - 1] /\ y[k - 1] = s[((i + 1) + (k - 1)) - 1]
      BY <1>5, <1>6, <3>1
    <3>3. QED
      BY <1>5, <3>1, <3>2
  <2>3. QED
    BY <2>1, <2>2
<1>10. x = z
  <2>1. x \in Seq(S) /\ z \in Seq(S) /\ Len(x) = Len(z)
    BY <1>5, <1>6, <1>7
  <2>2. \A k \in 1..Len(x) : x[k] = z[k]
    BY <1>5, <1>9
  <2>3. QED
    BY <2>1, <2>2, SeqEqual
<1>11. x # <<>>
  BY <1>5, <1>7
<1>12. After(s, i) = After(s, i + 1)
  BY <1>4 DEF After, e
<1>13. QED
  BY <1>4, <1>8, <1>10, <1>11, <1>12 DEF e, x, y, z

(* What makes a level a wildcard *)
LEMMA WildcardCons ==
  ASSUME NEW S, NEW c \in S, NEW x \in Seq(S)
  PROVE  IsWildcard(<<c>> \o x) <=> c \in {Star, Hash} \/ IsWildcard(x)
<1> DEFINE y == <<c>> \o x
           n == Len(x)
<1>1. /\ y \in Seq(S) /\ Len(y) = n + 1 /\ y[1] = c /\ \A k \in 1..n : y[k + 1] = x[k]
      /\ n \in Nat /\ DOMAIN x = 1..n
  <2>1. n \in Nat /\ DOMAIN x = 1..n
    OBVIOUS
  <2>2. QED
    BY <2>1, FirstLevel
<1> HIDE DEF y, n
<1>2. DOMAIN y = 1..(n + 1)
  BY <1>1
<1>3. 1 \in 1..(n + 1) /\ \A k \in 1..n : k + 1 \in 1..(n + 1)
  BY <1>1
<1>4. ASSUME NEW k \in 1..(n + 1), k # 1 PROVE k - 1 \in 1..n /\ y[k] = x[k - 1]
  <2>1. k - 1 \in 1..n /\ (k - 1) + 1 = k
    BY <1>1, <1>4
  <2>2. QED
    BY <1>1, <2>1
<1>5. IsWildcard(y) <=> c \in {Star, Hash} \/ IsWildcard(x)
  BY <1>1, <1>2, <1>3, <1>4 DEF IsWildcard
<1>6. QED
  BY <1>5 DEF y

-----------------------------------------------------------------------------
(* topicMatches                                                            *)

(* The recursion of topicMatches *)
Walk(p, t, f, at) ==
  LET i == at[1]
      j == at[2]
  IN  IF i > Len(p) \/ j > Len(t) THEN MatchesEnd(p, i, t, j)
      ELSE \/ p[i] = Hash
           \/ /\ p[i] = Star
              /\ f[<<SkipSlash(p, i + 1), SkipSlash(t, LevelEnd(t, j))>>]
           \/ /\ p[i] \notin {Star, Hash}
              /\ p[i] = t[j]
              /\ f[<<i + 1, j + 1>>]

MatchFrom(p, t) ==
  CHOOSE f : f = [at \in (1..(Len(p) + 1)) \X (1..(Len(t) + 1)) |-> Walk(p, t, f, at)]

(* Where the walk goes on *)
LEMMA SkipSlashIs ==
  ASSUME NEW S, NEW s \in Seq(S), NEW i \in 1..(Len(s) + 1)
  PROVE  SkipSlash(s, i) \in i..(Len(s) + 1)
<1>1. Len(s) \in Nat
  OBVIOUS
<1>2. QED
  BY <1>1 DEF SkipSlash

(* The recursion defines a function: each step of the walk uses up a        *)
(* character of the pattern.                                                *)
LEMMA MatchFromDefined ==
  ASSUME NEW S, NEW p \in Seq(S), NEW t \in Seq(S)
  PROVE  \A at \in (1..(Len(p) + 1)) \X (1..(Len(t) + 1)) :
           MatchFrom(p, t)[at] = Walk(p, t, MatchFrom(p, t), at)
<1> DEFINE top == Len(p) + 1
           width == 1..(Len(t) + 1)
           Runs(m) == \E f : f = [at \in ((top - m)..top) \X width |-> Walk(p, t, f, at)]
           Bad == {m \in 0..(top - 1) : ~Runs(m)}
<1>1. top \in Nat \ {0} /\ Len(p) \in Nat /\ Len(t) \in Nat /\ ~(top <= Len(p))
  OBVIOUS
<1>2. ASSUME Bad # {} PROVE FALSE
  <2>1. PICK b \in Bad : \A m \in Bad : b <= m
    <3>1. Bad \subseteq Nat
      BY <1>1
    <3> HIDE DEF Bad
    <3>2. QED
      BY <1>2, <3>1, Least
  <2>2. b \in 0..(top - 1) /\ ~Runs(b)
    OBVIOUS
  <2>3. CASE b = 0
    <3> DEFINE f == [at \in (top..top) \X width |-> MatchesEnd(p, at[1], t, at[2])]
    <3>1. ASSUME NEW at \in (top..top) \X width
          PROVE  Walk(p, t, f, at) = MatchesEnd(p, at[1], t, at[2])
      <4>1. at[1] > Len(p)
        BY <1>1
      <4> HIDE DEF f
      <4>2. QED
        BY <4>1 DEF Walk
    <3> DEFINE h == [at \in (top..top) \X width |-> Walk(p, t, f, at)]
    <3>2. f = h
      BY <3>1, Zenon
    <3>3. f = [at \in (top..top) \X width |-> Walk(p, t, f, at)]
      BY <3>2
    <3>4. top - 0 = top
      BY <1>1
    <3>5. Runs(0)
      BY <3>3, <3>4
    <3>6. QED
      BY <2>2, <2>3, <3>5
  <2>4. CASE b # 0
    <3>1. b - 1 \in 0..(top - 1) /\ ~(b <= b - 1)
      BY <1>1, <2>2, <2>4
    <3>2. Runs(b - 1)
      BY <2>1, <3>1
    <3> DEFINE old == ((top - (b - 1))..top) \X width
               new == ((top - b)..top) \X width
    <3>3. PICK f : f = [at \in old |-> Walk(p, t, f, at)]
      BY <3>2
    <3> DEFINE g == [at \in new |-> Walk(p, t, f, at)]
    <3>4. old \subseteq new
      BY <1>1, <2>2, <2>4
    <3>5. \A at \in old : f[at] = Walk(p, t, f, at)
      BY <3>3
    <3>6. \A at \in old : g[at] = f[at]
      <4>1. \A at \in new : g[at] = Walk(p, t, f, at)
        OBVIOUS
      <4> HIDE DEF g, old, new
      <4>2. QED
        BY <3>4, <3>5, <4>1
    <3>7. ASSUME NEW at \in new PROVE Walk(p, t, f, at) = Walk(p, t, g, at)
      <4> DEFINE i == at[1]
                 j == at[2]
      <4>1. i \in (top - b)..top /\ i \in 1..top /\ j \in width
        BY <1>1, <2>2
      <4> HIDE DEF g, i, j
      <4>2. CASE i > Len(p) \/ j > Len(t)
        BY <4>2 DEF Walk, i, j
      <4>3. CASE ~(i > Len(p) \/ j > Len(t))
        <5>1. i + 1 \in (top - (b - 1))..top /\ i + 1 \in 1..top /\ j + 1 \in width
          BY <1>1, <2>2, <4>1, <4>3
        <5>2. SkipSlash(p, i + 1) \in (i + 1)..top
          BY <5>1, SkipSlashIs
        <5>3. SkipSlash(t, LevelEnd(t, j)) \in width
          <6>1. LevelEnd(t, j) \in 1..(Len(t) + 1)
            BY <4>1, LevelEndIs
          <6>2. SkipSlash(t, LevelEnd(t, j)) \in LevelEnd(t, j)..(Len(t) + 1)
            BY <6>1, SkipSlashIs
          <6>3. QED
            BY <1>1, <6>1, <6>2
        <5>4. SkipSlash(p, i + 1) \in (top - (b - 1))..top
          BY <1>1, <2>2, <5>1, <5>2
        <5>5. /\ <<SkipSlash(p, i + 1), SkipSlash(t, LevelEnd(t, j))>> \in old
              /\ <<i + 1, j + 1>> \in old
          BY <5>1, <5>3, <5>4
        <5>6. /\ g[<<SkipSlash(p, i + 1), SkipSlash(t, LevelEnd(t, j))>>]
                   = f[<<SkipSlash(p, i + 1), SkipSlash(t, LevelEnd(t, j))>>]
              /\ g[<<i + 1, j + 1>>] = f[<<i + 1, j + 1>>]
          BY <3>6, <5>5
        <5>7. QED
          BY <4>3, <5>6 DEF Walk, i, j
      <4>4. QED
        BY <4>2, <4>3
    <3>8. g = [at \in new |-> Walk(p, t, g, at)]
      <4> DEFINE h == [at \in new |-> Walk(p, t, g, at)]
      <4>1. g = h
        BY <3>7, Zenon
      <4>2. QED
        BY <4>1
    <3>9. Runs(b)
      BY <3>8
    <3>10. QED
      BY <2>2, <3>9
  <2>5. QED
    BY <2>3, <2>4
<1>3. Runs(top - 1) /\ top - (top - 1) = 1
  <2>1. top - 1 \in 0..(top - 1) /\ top - (top - 1) = 1
    BY <1>1
  <2> HIDE DEF Runs
  <2>2. Runs(top - 1)
    BY <1>2, <2>1
  <2>3. QED
    BY <2>1, <2>2
<1>4. \E f : f = [at \in (1..top) \X width |-> Walk(p, t, f, at)]
  BY <1>3
<1> DEFINE W == MatchFrom(p, t)
<1>5. W = [at \in (1..top) \X width |-> Walk(p, t, W, at)]
  BY <1>4 DEF MatchFrom
<1> HIDE DEF W
<1>6. \A at \in (1..top) \X width : W[at] = Walk(p, t, W, at)
  BY <1>5
<1>7. QED
  BY <1>6 DEF W

(* Whether the pattern matches from a position of each text on *)
MatchesAt(p, t, i, j) == MatchFrom(p, t)[<<i, j>>]

(* The walk, a step at a time *)
LEMMA MatchesAtIs ==
  ASSUME NEW S, NEW p \in Seq(S), NEW t \in Seq(S)
  PROVE  /\ TopicMatches(p, t) = MatchesAt(p, t, 1, 1)
         /\ \A i \in 1..(Len(p) + 1), j \in 1..(Len(t) + 1) :
              IF i > Len(p) \/ j > Len(t) THEN MatchesAt(p, t, i, j) <=> MatchesEnd(p, i, t, j)
              ELSE MatchesAt(p, t, i, j) <=>
                     \/ p[i] = Hash
                     \/ /\ p[i] = Star
                        /\ MatchesAt(p, t, SkipSlash(p, i + 1), SkipSlash(t, LevelEnd(t, j)))
                     \/ /\ p[i] \notin {Star, Hash}
                        /\ p[i] = t[j]
                        /\ MatchesAt(p, t, i + 1, j + 1)
<1> DEFINE W == MatchFrom(p, t)
<1>1. TopicMatches(p, t) = W[<<1, 1>>]
  BY DEF TopicMatches, MatchFrom, Walk
<1>2. \A at \in (1..(Len(p) + 1)) \X (1..(Len(t) + 1)) : W[at] = Walk(p, t, W, at)
  BY MatchFromDefined
<1> HIDE DEF W
<1>3. ASSUME NEW i \in 1..(Len(p) + 1), NEW j \in 1..(Len(t) + 1)
      PROVE  W[<<i, j>>] = Walk(p, t, W, <<i, j>>)
  BY <1>2
<1>4. ASSUME NEW i \in 1..(Len(p) + 1), NEW j \in 1..(Len(t) + 1)
      PROVE  IF i > Len(p) \/ j > Len(t) THEN W[<<i, j>>] <=> MatchesEnd(p, i, t, j)
             ELSE W[<<i, j>>] <=>
                    \/ p[i] = Hash
                    \/ /\ p[i] = Star
                       /\ W[<<SkipSlash(p, i + 1), SkipSlash(t, LevelEnd(t, j))>>]
                    \/ /\ p[i] \notin {Star, Hash}
                       /\ p[i] = t[j]
                       /\ W[<<i + 1, j + 1>>]
  BY <1>3 DEF Walk
<1>5. QED
  BY <1>1, <1>4 DEF MatchesAt, W

-----------------------------------------------------------------------------
(* What topicMatches finds at a position, and what the levels say          *)

(* A text that does not end in '/' *)
Closed(s) == s = <<>> \/ s[Len(s)] # Slash

(* In a level without wildcards the rest of the text matches if the rest of *)
(* the level is the same and the levels after it match.                     *)
LiteralRight(p, t, i, j) ==
  ~IsWildcard(Level(p, i)) /\ Good(After(p, i)) /\ Named(After(p, i)) =>
    (MatchesAt(p, t, i, j) <=> Level(p, i) = Level(t, j) /\ LevelsMatch(After(p, i), After(t, j)))

(* At the start of a level it matches if the levels do. *)
LevelsRight(p, t, i, j) ==
  Good(LevelsFrom(p)[i]) /\ Named(LevelsFrom(p)[i]) =>
    (MatchesAt(p, t, i, j) <=> LevelsMatch(LevelsFrom(p)[i], LevelsFrom(t)[j]))

(* There are no levels just at the end. *)
LEMMA LevelsLeft ==
  ASSUME NEW S, NEW s \in Seq(S), NEW i \in 1..(Len(s) + 1)
  PROVE  LevelsFrom(s)[i] = <<>> <=> i = Len(s) + 1
<1>1. Len(s) \in Nat
  OBVIOUS
<1>2. CASE i = Len(s) + 1
  BY <1>2, LevelsFromIs
<1>3. CASE i # Len(s) + 1
  <2>1. i \in 1..Len(s)
    BY <1>1, <1>3
  <2>2. LevelsFrom(s)[i] = <<Level(s, i)>> \o After(s, i) /\ After(s, i) \in Seq(Seq(S))
    BY <2>1, LevelsFromIs
  <2> DEFINE T == Seq(S)
             x == Level(s, i)
             l == After(s, i)
  <2>3. x \in T /\ l \in Seq(T)
    BY <2>2, LevelIs
  <2> HIDE DEF T, x, l
  <2>4. <<x>> \o l \in Seq(T) /\ Len(<<x>> \o l) = Len(l) + 1 /\ Len(l) \in Nat
    BY <2>3, FirstLevel
  <2>5. <<x>> \o l # <<>>
    BY <2>4
  <2>6. QED
    BY <1>3, <2>2, <2>5 DEF x, l
<1>4. QED
  BY <1>2, <1>3

(* A step in a level without wildcards *)
LEMMA LiteralStep ==
  ASSUME NEW S, NEW p \in Seq(S), NEW t \in Seq(S), Closed(p), Closed(t),
         NEW i \in 1..(Len(p) + 1), NEW j \in 1..(Len(t) + 1),
         \A n \in 1..(Len(t) + 1) :
           i <= Len(p) => LiteralRight(p, t, i + 1, n) /\ LevelsRight(p, t, i + 1, n)
  PROVE  LiteralRight(p, t, i, j)
<1> SUFFICES ASSUME ~IsWildcard(Level(p, i)), Good(After(p, i)), Named(After(p, i))
             PROVE  MatchesAt(p, t, i, j)
                      <=> Level(p, i) = Level(t, j) /\ LevelsMatch(After(p, i), After(t, j))
  BY DEF LiteralRight
<1>1. Len(p) \in Nat /\ Len(t) \in Nat /\ Slash # Hash /\ Slash # Star
  BY DEF Slash, Hash, Star
<1>2. /\ Level(p, i) \in Seq(S) /\ Level(t, j) \in Seq(S)
      /\ After(p, i) \in Seq(Seq(S)) /\ After(t, j) \in Seq(Seq(S))
  BY LevelIs, LevelsFromIs
<1>3. j \in 1..Len(t) /\ t[j] # Slash => Level(t, j) # <<>>
  BY LevelGoesOn
<1>4. j = Len(t) + 1 \/ t[j] = Slash =>
        Level(t, j) = <<>> /\ After(t, j) = IF j > Len(t) THEN <<>> ELSE LevelsFrom(t)[j + 1]
  BY LevelOver
<1>5. CASE i = Len(p) + 1
  <2>1. MatchesAt(p, t, i, j) <=> j > Len(t)
    <3>1. i > Len(p) /\ ~(i <= Len(p)) /\ ~(i + 1 <= Len(p))
      BY <1>1, <1>5
    <3>2. QED
      BY <3>1, MatchesAtIs DEF MatchesEnd
  <2>2. Level(p, i) = <<>> /\ After(p, i) = <<>>
    <3>1. i > Len(p)
      BY <1>1, <1>5
    <3>2. QED
      BY <1>5, <3>1, LevelOver
  <2>3. LevelsMatch(<<>>, After(t, j)) <=> After(t, j) = <<>>
    BY <1>2, MatchLast
  <2>4. CASE j > Len(t)
    <3>1. j = Len(t) + 1
      BY <1>1, <2>4
    <3>2. QED
      BY <1>4, <2>1, <2>2, <2>3, <2>4, <3>1
  <2>5. CASE ~(j > Len(t))
    <3>1. j \in 1..Len(t)
      BY <1>1, <2>5
    <3>2. CASE t[j] = Slash
      <4>1. j # Len(t) /\ j + 1 \in 1..(Len(t) + 1) /\ j + 1 # Len(t) + 1
        BY <1>1, <3>1, <3>2 DEF Closed
      <4>2. LevelsFrom(t)[j + 1] # <<>>
        BY <4>1, LevelsLeft
      <4>3. QED
        BY <1>4, <2>1, <2>2, <2>3, <2>5, <3>2, <4>2
    <3>3. CASE t[j] # Slash
      BY <1>3, <2>1, <2>2, <2>5, <3>1, <3>3
    <3>4. QED
      BY <3>2, <3>3
  <2>6. QED
    BY <2>4, <2>5
<1>6. CASE i # Len(p) + 1 /\ p[i] = Slash
  <2>1. /\ i \in 1..Len(p) /\ ~(i > Len(p)) /\ i # Len(p)
        /\ i + 1 \in 1..Len(p) /\ i + 1 \in 1..(Len(p) + 1)
    BY <1>1, <1>6 DEF Closed
  <2> DEFINE levels == LevelsFrom(p)[i + 1]
  <2>2. Level(p, i) = <<>> /\ After(p, i) = levels
    BY <1>6, <2>1, LevelOver
  <2>3. CASE j > Len(t)
    <3>1. j = Len(t) + 1 /\ Level(t, j) = <<>> /\ After(t, j) = <<>>
      BY <1>1, <1>4, <2>3
    <3>2. MatchesAt(p, t, i, j) <=> p[i + 1] = Hash
      BY <1>1, <1>6, <2>1, <2>3, MatchesAtIs DEF MatchesEnd
    <3> DEFINE x == Level(p, i + 1)
               rest == After(p, i + 1)
               T == Seq(S)
    <3>3. levels = <<x>> \o rest /\ x \in T /\ rest \in Seq(T)
      BY <2>1, LevelIs, LevelsFromIs
    <3>4. Whole(x) /\ (x = <<Hash>> => rest = <<>>)
      <4>1. Good(<<x>> \o rest)
        BY <2>2, <3>3
      <4> HIDE DEF x, rest, T
      <4>2. QED
        BY <3>3, <4>1, GoodCons
    <3>5. p[i + 1] = Hash <=> x = <<Hash>>
      <4>1. ASSUME p[i + 1] = Hash PROVE x = <<Hash>>
        <5>1. x = <<p[i + 1]>> \o Level(p, (i + 1) + 1) /\ x[1] = p[i + 1]
          BY <1>1, <2>1, <4>1, LevelGoesOn
        <5>2. Level(p, (i + 1) + 1) \in Seq(S) /\ p[i + 1] \in S
          <6>1. (i + 1) + 1 \in 1..(Len(p) + 1)
            BY <1>1, <2>1
          <6>2. QED
            BY <2>1, <6>1, LevelIs
        <5>3. IsWildcard(x)
          BY <4>1, <5>1, <5>2, WildcardCons
        <5>4. x \in {<<Star>>, <<Hash>>}
          BY <3>4, <5>3 DEF Whole, Wildcards
        <5>5. <<Star>>[1] # Hash
          BY DEF Star, Hash
        <5>6. QED
          BY <4>1, <5>1, <5>4, <5>5
      <4>2. ASSUME x = <<Hash>> PROVE p[i + 1] = Hash
        <5>1. x # <<>>
          <6> DEFINE c == Hash
          <6> HIDE DEF c
          <6>1. <<c>> # <<>>
            OBVIOUS
          <6>2. x = <<c>>
            BY <4>2 DEF c
          <6> HIDE DEF x
          <6>3. QED
            BY <6>1, <6>2
        <5>2. p[i + 1] # Slash
          BY <2>1, <5>1, LevelOver
        <5>3. x[1] = p[i + 1]
          BY <2>1, <5>2, LevelGoesOn
        <5>4. QED
          BY <4>2, <5>3
      <4>3. QED
        BY <4>1, <4>2
    <3>6. x = <<Hash>> => LevelsMatch(levels, <<>>)
      <4>1. x = <<Hash>> => levels = <<<<Hash>>>>
        <5>1. <<<<Hash>>>> \o <<>> = <<<<Hash>>>>
          OBVIOUS
        <5>2. QED
          BY <3>3, <3>4, <5>1
      <4>2. <<>> \in Seq(T)
        OBVIOUS
      <4>3. LevelsMatch(<<<<Hash>>>>, <<>>)
        BY <4>2, MatchLast
      <4>4. QED
        BY <4>1, <4>3
    <3>7. x # <<Hash>> => ~LevelsMatch(levels, <<>>)
      <4> HIDE DEF x, rest, T
      <4>1. QED
        BY <3>3, MatchCons
    <3>8. QED
      BY <2>2, <3>1, <3>2, <3>5, <3>6, <3>7
  <2>4. CASE ~(j > Len(t))
    <3>1. j \in 1..Len(t) /\ j + 1 \in 1..(Len(t) + 1)
      BY <1>1, <2>4
    <3>2. MatchesAt(p, t, i, j) <=> p[i] = t[j] /\ MatchesAt(p, t, i + 1, j + 1)
      BY <1>1, <1>6, <2>1, <2>4, MatchesAtIs
    <3>3. CASE t[j] = Slash
      <4>1. Level(t, j) = <<>> /\ After(t, j) = LevelsFrom(t)[j + 1]
        BY <1>4, <2>4, <3>3
      <4>2. LevelsRight(p, t, i + 1, j + 1)
        BY <1>1, <2>1, <3>1
      <4>3. MatchesAt(p, t, i + 1, j + 1) <=> LevelsMatch(levels, LevelsFrom(t)[j + 1])
        BY <2>2, <4>2 DEF LevelsRight
      <4>4. QED
        BY <1>6, <2>2, <3>2, <3>3, <4>1, <4>3
    <3>4. CASE t[j] # Slash
      BY <1>3, <1>6, <2>2, <3>1, <3>2, <3>4
    <3>5. QED
      BY <3>3, <3>4
  <2>5. QED
    BY <2>3, <2>4
<1>7. CASE i # Len(p) + 1 /\ p[i] # Slash
  <2>1. i \in 1..Len(p) /\ ~(i > Len(p)) /\ i <= Len(p) /\ i + 1 \in 1..(Len(p) + 1) /\ p[i] \in S
    BY <1>1, <1>7
  <2> DEFINE u == Level(p, i + 1)
  <2>2. /\ After(p, i) = After(p, i + 1) /\ Level(p, i) = <<p[i]>> \o u
        /\ Level(p, i) # <<>> /\ u \in Seq(S)
    BY <1>7, <2>1, LevelGoesOn, LevelIs
  <2>3. p[i] \notin {Star, Hash} /\ ~IsWildcard(u)
    <3> HIDE DEF u
    <3>1. QED
      BY <2>1, <2>2, WildcardCons
  <2>4. CASE j > Len(t)
    <3>1. ~MatchesAt(p, t, i, j)
      BY <1>7, <2>1, <2>3, <2>4, MatchesAtIs DEF MatchesEnd
    <3>2. j = Len(t) + 1 /\ Level(t, j) = <<>>
      BY <1>1, <1>4, <2>4
    <3>3. QED
      BY <2>2, <3>1, <3>2
  <2>5. CASE ~(j > Len(t))
    <3>1. j \in 1..Len(t) /\ j + 1 \in 1..(Len(t) + 1) /\ t[j] \in S
      BY <1>1, <2>5
    <3>2. MatchesAt(p, t, i, j) <=> p[i] = t[j] /\ MatchesAt(p, t, i + 1, j + 1)
      BY <2>1, <2>3, <2>5, MatchesAtIs
    <3>3. CASE t[j] = Slash
      BY <1>4, <1>7, <2>2, <3>2, <3>3
    <3>4. CASE t[j] # Slash
      <4> DEFINE v == Level(t, j + 1)
      <4>1. After(t, j) = After(t, j + 1) /\ Level(t, j) = <<t[j]>> \o v /\ v \in Seq(S)
        BY <3>1, <3>4, LevelGoesOn, LevelIs
      <4>2. LiteralRight(p, t, i + 1, j + 1)
        BY <2>1, <3>1
      <4>3. MatchesAt(p, t, i + 1, j + 1) <=> u = v /\ LevelsMatch(After(p, i), After(t, j))
        BY <2>2, <2>3, <4>1, <4>2 DEF LiteralRight
      <4> HIDE DEF u, v
      <4>4. Level(p, i) = Level(t, j) <=> p[i] = t[j] /\ u = v
        <5> DEFINE c == p[i]
                   d == t[j]
        <5>1. c \in S /\ d \in S /\ u \in Seq(S) /\ v \in Seq(S)
          BY <2>1, <2>2, <3>1, <4>1
        <5>2. Level(p, i) = Before(c, u) /\ Level(t, j) = Before(d, v)
          BY <2>2, <4>1 DEF Before
        <5> HIDE DEF c, d
        <5>3. Before(c, u) = Before(d, v) <=> c = d /\ u = v
          BY <5>1, FirstAndRest
        <5>4. QED
          BY <5>2, <5>3 DEF c, d
      <4>5. QED
        BY <3>2, <4>3, <4>4
    <3>5. QED
      BY <3>3, <3>4
  <2>6. QED
    BY <2>4, <2>5
<1>8. QED
  BY <1>5, <1>6, <1>7

(* The levels after one start past its '/', or there are none. *)
LEMMA AfterSkips ==
  ASSUME NEW S, NEW s \in Seq(S), NEW i \in 1..(Len(s) + 1)
  PROVE  After(s, i) = LevelsFrom(s)[SkipSlash(s, LevelEnd(s, i))]
<1> DEFINE e == LevelEnd(s, i)
<1>1. e \in i..(Len(s) + 1) /\ (e = Len(s) + 1 \/ s[e] = Slash) /\ Len(s) \in Nat
  BY LevelEndIs
<1>2. LevelsFrom(s)[Len(s) + 1] = <<>>
  BY LevelsFromIs
<1> HIDE DEF e
<1>3. CASE e = Len(s) + 1
  <2>1. e > Len(s) /\ ~(e <= Len(s))
    BY <1>1, <1>3
  <2>2. QED
    BY <1>2, <1>3, <2>1 DEF After, SkipSlash, e
<1>4. CASE e # Len(s) + 1
  <2>1. ~(e > Len(s)) /\ e <= Len(s) /\ s[e] = Slash
    BY <1>1, <1>4
  <2>2. QED
    BY <2>1 DEF After, SkipSlash, e
<1>5. QED
  BY <1>3, <1>4

(* A step at the start of a level *)
LEMMA LevelsStep ==
  ASSUME NEW S, NEW p \in Seq(S), NEW t \in Seq(S),
         NEW i \in 1..(Len(p) + 1), NEW j \in 1..(Len(t) + 1), LiteralRight(p, t, i, j),
         \A m \in (i + 1)..(Len(p) + 1), n \in 1..(Len(t) + 1) : LevelsRight(p, t, m, n)
  PROVE  LevelsRight(p, t, i, j)
<1> SUFFICES ASSUME Good(LevelsFrom(p)[i]), Named(LevelsFrom(p)[i])
             PROVE  MatchesAt(p, t, i, j) <=> LevelsMatch(LevelsFrom(p)[i], LevelsFrom(t)[j])
  BY DEF LevelsRight
<1>1. Len(p) \in Nat /\ Len(t) \in Nat /\ Slash # Hash /\ Slash # Star /\ Star # Hash
  BY DEF Slash, Hash, Star
<1> DEFINE T == Seq(S)
           actual == LevelsFrom(t)[j]
<1>2. actual \in Seq(T)
  BY LevelsFromIs
<1>3. actual = <<>> <=> j = Len(t) + 1
  BY LevelsLeft
<1>4. j > Len(t) <=> j = Len(t) + 1
  BY <1>1
<1>5. CASE i = Len(p) + 1
  <2>1. LevelsFrom(p)[i] = <<>> /\ (MatchesAt(p, t, i, j) <=> j > Len(t))
    <3>1. i > Len(p) /\ ~(i <= Len(p)) /\ ~(i + 1 <= Len(p))
      BY <1>1, <1>5
    <3>2. MatchesAt(p, t, i, j) <=> j > Len(t)
      BY <3>1, MatchesAtIs DEF MatchesEnd
    <3>3. QED
      BY <1>5, <3>2, LevelsFromIs
  <2>2. LevelsMatch(<<>>, actual) <=> actual = <<>>
    BY <1>2, MatchLast
  <2>3. QED
    BY <1>3, <1>4, <2>1, <2>2
<1>6. CASE i # Len(p) + 1
  <2> DEFINE x == Level(p, i)
             rest == After(p, i)
             y == Level(t, j)
             others == After(t, j)
  <2>1. i \in 1..Len(p) /\ ~(i > Len(p)) /\ i + 1 \in 1..(Len(p) + 1) /\ p[i] \in S
    BY <1>1, <1>6
  <2>2. /\ LevelsFrom(p)[i] = <<x>> \o rest /\ x \in T /\ rest \in Seq(T)
        /\ y \in T /\ others \in Seq(T)
    BY <2>1, LevelIs, LevelsFromIs
  <2>3. j # Len(t) + 1 => actual = <<y>> \o others
    <3>1. j # Len(t) + 1 => j \in 1..Len(t)
      BY <1>1
    <3>2. QED
      BY <3>1, LevelsFromIs
  <2>4. Whole(x) /\ (x = <<Hash>> => rest = <<>>) /\ Good(rest) /\ x # <<>> /\ Named(rest)
    <3>1. Good(<<x>> \o rest) /\ Named(<<x>> \o rest)
      BY <2>2
    <3> HIDE DEF x, rest, T
    <3>2. QED
      BY <2>2, <3>1, GoodCons
  <2>5. p[i] # Slash
    <3>1. p[i] = Slash => x = <<>>
      BY <2>1, LevelOver
    <3>2. QED
      BY <2>4, <3>1
  <2>6. x = <<p[i]>> \o Level(p, i + 1) /\ x[1] = p[i]
    BY <2>1, <2>5, LevelGoesOn
  <2>7. p[i] \in {Star, Hash} => x = <<p[i]>>
    <3> SUFFICES ASSUME p[i] \in {Star, Hash} PROVE x = <<p[i]>>
      OBVIOUS
    <3>1. Level(p, i + 1) \in Seq(S)
      BY <2>1, LevelIs
    <3>2. IsWildcard(x)
      BY <2>1, <2>6, <3>1, WildcardCons
    <3>3. x \in {<<Star>>, <<Hash>>}
      BY <2>4, <3>2 DEF Whole, Wildcards
    <3>4. <<Star>>[1] = Star /\ <<Hash>>[1] = Hash
      OBVIOUS
    <3> HIDE DEF x
    <3>5. QED
      BY <2>6, <3>3, <3>4
  <2>8. x # <<Hash>> =>
          /\ j # Len(t) + 1 =>
               (LevelsMatch(LevelsFrom(p)[i], actual)
                  <=> LevelMatches(x, y) /\ LevelsMatch(rest, others))
          /\ j = Len(t) + 1 => ~LevelsMatch(LevelsFrom(p)[i], actual)
    <3>1. x \in T /\ rest \in Seq(T) /\ y \in T /\ others \in Seq(T)
      BY <2>2
    <3> HIDE DEF x, rest, y, others, T, actual
    <3>2. x # <<Hash>> =>
            /\ LevelsMatch(<<x>> \o rest, <<y>> \o others)
                 <=> LevelMatches(x, y) /\ LevelsMatch(rest, others)
            /\ ~LevelsMatch(<<x>> \o rest, <<>>)
      BY <3>1, MatchCons
    <3>3. QED
      BY <1>3, <2>2, <2>3, <3>2
  <2>9. CASE p[i] = Hash
    <3>1. x = <<Hash>> /\ rest = <<>>
      BY <2>4, <2>7, <2>9
    <3>2. LevelsFrom(p)[i] = <<<<Hash>>>>
      <4>1. <<<<Hash>>>> \o <<>> = <<<<Hash>>>>
        OBVIOUS
      <4>2. QED
        BY <2>2, <3>1, <4>1
    <3>3. LevelsMatch(<<<<Hash>>>>, actual)
      BY <1>2, MatchLast
    <3>4. MatchesAt(p, t, i, j)
      BY <2>1, <2>9, MatchesAtIs DEF MatchesEnd
    <3>5. QED
      BY <3>2, <3>3, <3>4
  <2>10. CASE p[i] # Hash /\ j = Len(t) + 1
    <3>1. x # <<Hash>>
      <4>1. x = <<Hash>> => x[1] = Hash
        OBVIOUS
      <4>2. QED
        BY <2>6, <2>10, <4>1
    <3>2. ~MatchesAt(p, t, i, j)
      BY <1>4, <2>1, <2>5, <2>10, MatchesAtIs DEF MatchesEnd
    <3>3. QED
      BY <2>8, <2>10, <3>1, <3>2
  <2>11. CASE p[i] = Star /\ j # Len(t) + 1
    <3>1. x = <<Star>>
      BY <2>7, <2>11
    <3>2. x # <<Hash>>
      <4>1. x = <<Hash>> => x[1] = Hash
        OBVIOUS
      <4>2. QED
        BY <1>1, <2>6, <2>11, <4>1
    <3>3. LevelMatches(x, y)
      BY <3>1 DEF LevelMatches
    <3> DEFINE m == SkipSlash(p, i + 1)
               n == SkipSlash(t, LevelEnd(t, j))
    <3>4. MatchesAt(p, t, i, j) <=> MatchesAt(p, t, m, n)
      <4>1. ~(j > Len(t)) /\ p[i] # Hash
        BY <1>1, <1>4, <2>11
      <4>2. QED
        BY <2>1, <2>11, <4>1, MatchesAtIs
    <3>5. m \in (i + 1)..(Len(p) + 1) /\ n \in 1..(Len(t) + 1)
      <4>1. LevelEnd(t, j) \in j..(Len(t) + 1)
        BY LevelEndIs
      <4>2. LevelEnd(t, j) \in 1..(Len(t) + 1)
        BY <1>1, <4>1
      <4>3. n \in LevelEnd(t, j)..(Len(t) + 1)
        BY <4>2, SkipSlashIs
      <4>4. m \in (i + 1)..(Len(p) + 1)
        BY <2>1, SkipSlashIs
      <4>5. n \in 1..(Len(t) + 1)
        <5> HIDE DEF n
        <5>1. QED
          BY <1>1, <4>2, <4>3
      <4>6. QED
        BY <4>4, <4>5
    <3>6. rest = LevelsFrom(p)[m]
      <4>1. LevelEnd(p, i) = i + 1
        <5>1. Len(<<Star>>) = 1
          OBVIOUS
        <5>2. Len(x) = LevelEnd(p, i) - i /\ LevelEnd(p, i) \in i..(Len(p) + 1)
          BY LevelIs, LevelEndIs
        <5> HIDE DEF x
        <5>3. QED
          BY <2>1, <3>1, <5>1, <5>2
      <4>2. QED
        BY <4>1, AfterSkips
    <3>7. others = LevelsFrom(t)[n]
      BY AfterSkips
    <3>8. LevelsRight(p, t, m, n)
      BY <3>5
    <3>9. MatchesAt(p, t, m, n) <=> LevelsMatch(rest, others)
      BY <2>4, <3>6, <3>7, <3>8 DEF LevelsRight
    <3>10. QED
      BY <2>8, <2>11, <3>2, <3>3, <3>4, <3>9
  <2>12. CASE p[i] \notin {Star, Hash} /\ j # Len(t) + 1
    <3>1. x # <<Hash>> /\ x # <<Star>>
      <4>1. (x = <<Hash>> => x[1] = Hash) /\ (x = <<Star>> => x[1] = Star)
        OBVIOUS
      <4>2. QED
        BY <2>6, <2>12, <4>1
    <3>2. ~IsWildcard(x)
      BY <2>4, <3>1 DEF Whole, Wildcards
    <3>3. LevelMatches(x, y) <=> x = y
      BY <3>1 DEF LevelMatches
    <3>4. MatchesAt(p, t, i, j) <=> x = y /\ LevelsMatch(rest, others)
      BY <2>4, <3>2 DEF LiteralRight
    <3>5. QED
      BY <2>8, <2>12, <3>1, <3>3, <3>4
  <2>13. QED
    BY <2>9, <2>10, <2>11, <2>12
<1>7. QED
  BY <1>5, <1>6

(* From every position of each text the walk finds what the levels say: by    *)
(* the number of characters of the pattern that are left.                     *)
LEMMA RightEverywhere ==
  ASSUME NEW S, NEW p \in Seq(S), NEW t \in Seq(S), Closed(p), Closed(t)
  PROVE  \A i \in 1..(Len(p) + 1), j \in 1..(Len(t) + 1) : LevelsRight(p, t, i, j)
<1> DEFINE top == Len(p) + 1
           Right(i) ==
             \A j \in 1..(Len(t) + 1) : LiteralRight(p, t, i, j) /\ LevelsRight(p, t, i, j)
           Bad == {m \in 0..Len(p) : ~Right(top - m)}
<1>1. Len(p) \in Nat /\ top \in Nat
  OBVIOUS
<1>2. ASSUME Bad # {} PROVE FALSE
  <2>1. PICK b \in Bad : \A m \in Bad : b <= m
    <3>1. Bad \subseteq Nat
      BY <1>1
    <3> HIDE DEF Bad
    <3>2. QED
      BY <1>2, <3>1, Least
  <2> DEFINE i == top - b
  <2>2. b \in 0..Len(p) /\ ~Right(i) /\ i \in 1..top
    BY <1>1
  <2>3. ASSUME NEW m \in (i + 1)..top PROVE Right(m)
    <3>1. top - m \in 0..Len(p) /\ ~(b <= top - m) /\ top - (top - m) = m
      BY <1>1, <2>2
    <3>2. top - m \notin Bad
      BY <2>1, <3>1
    <3> HIDE DEF Right
    <3>3. QED
      BY <3>1, <3>2
  <2> HIDE DEF i
  <2>4. ASSUME NEW j \in 1..(Len(t) + 1) PROVE LiteralRight(p, t, i, j)
    <3>1. i <= Len(p) => i + 1 \in (i + 1)..top
      BY <1>1, <2>2
    <3>2. \A n \in 1..(Len(t) + 1) :
            i <= Len(p) => LiteralRight(p, t, i + 1, n) /\ LevelsRight(p, t, i + 1, n)
      BY <2>3, <3>1
    <3>3. QED
      BY <2>2, <3>2, LiteralStep
  <2>5. ASSUME NEW j \in 1..(Len(t) + 1) PROVE LevelsRight(p, t, i, j)
    <3>1. \A m \in (i + 1)..(Len(p) + 1), n \in 1..(Len(t) + 1) : LevelsRight(p, t, m, n)
      BY <2>3
    <3>2. QED
      BY <2>2, <2>4, <3>1, LevelsStep
  <2>6. QED
    BY <2>2, <2>4, <2>5
<1>3. ASSUME NEW i \in 1..top PROVE Right(i)
  <2>1. top - i \in 0..Len(p) /\ top - (top - i) = i
    BY <1>1
  <2> HIDE DEF Right
  <2>2. QED
    BY <1>2, <2>1
<1>4. QED
  BY <1>3

(* A well-formed text does not end in '/', and its levels are good. *)
LEMMA WellFormedIs ==
  ASSUME NEW S, NEW s \in Seq(S)
  PROVE  WellFormed(s) <=> s # <<>> /\ s[Len(s)] # Slash /\ Good(LevelsFrom(s)[1])
<1>1. SplitLevels(s) = LevelsFrom(s)[1]
  BY LevelsFromIs
<1>2. QED
  BY <1>1 DEF WellFormed, WholeLevels, Good, Whole

(* Of a well-formed pattern without empty levels topicMatches finds what the *)
(* levels say.                                                               *)
LEMMA NamedLevelsAgree ==
  ASSUME NEW S, NEW p \in Seq(S), NEW t \in Seq(S), WellFormed(p), WellFormed(t),
         Named(SplitLevels(p))
  PROVE  Agrees(p, t)
<1>1. /\ Closed(p) /\ Closed(t) /\ Good(LevelsFrom(p)[1]) /\ Named(LevelsFrom(p)[1])
      /\ SplitLevels(p) = LevelsFrom(p)[1] /\ SplitLevels(t) = LevelsFrom(t)[1]
  BY WellFormedIs, LevelsFromIs DEF Closed
<1>2. 1 \in 1..(Len(p) + 1) /\ 1 \in 1..(Len(t) + 1)
  OBVIOUS
<1>3. LevelsRight(p, t, 1, 1)
  BY <1>1, <1>2, RightEverywhere
<1>4. TopicMatches(p, t) = MatchesAt(p, t, 1, 1)
  BY MatchesAtIs
<1>5. QED
  BY <1>1, <1>3, <1>4 DEF Agrees, LevelsRight

-----------------------------------------------------------------------------
(* Pattern and topic: the texts are sequences of characters. *)
Characters == Letters \cup {Slash, Star, Hash}
TextsInv == pattern \in Seq(Characters) /\ topic \in Seq(Characters)

(* GrowPattern and GrowTopic append characters. *)
THEOREM TextsInvariant == Spec => []TextsInv
<1>1. Init => TextsInv
  BY DEF Init, TextsInv
<1>2. TextsInv /\ [Next]_vars => TextsInv'
  <2> SUFFICES ASSUME TextsInv, [Next]_vars PROVE TextsInv'
    OBVIOUS
  <2>1. CASE GrowPattern
    BY <2>1 DEF GrowPattern, TextsInv, Characters
  <2>2. CASE GrowTopic
    BY <2>2 DEF GrowTopic, TextsInv, Characters
  <2>3. CASE UNCHANGED vars
    BY <2>3 DEF vars, TextsInv
  <2>4. QED
    BY <2>1, <2>2, <2>3 DEF Next
<1>3. QED
  BY <1>1, <1>2, PTL DEF Spec

(* topicMatches, which walks characters, matches '*' with one level and '#'  *)
(* with the rest as its comment says, for every well-formed pattern without  *)
(* empty levels and every well-formed topic.                                 *)
THEOREM MatchesNamedLevelsHolds == Spec => []MatchesNamedLevels
<1>1. TextsInv => MatchesNamedLevels
  <2> SUFFICES ASSUME TextsInv, WellFormed(pattern), WellFormed(topic),
                      \A k \in DOMAIN SplitLevels(pattern) : SplitLevels(pattern)[k] # <<>>
               PROVE  Agrees(pattern, topic)
    BY DEF MatchesNamedLevels
  <2>1. Named(SplitLevels(pattern))
    BY DEF Named
  <2>2. QED
    BY <2>1, NamedLevelsAgree DEF TextsInv
<1>2. QED
  BY <1>1, TextsInvariant, PTL

-----------------------------------------------------------------------------
(* isValidTopic                                                            *)

(* The recursion of isValidTopic *)
ValidStep(s, f, at) ==
  LET i == at[1]
      in_segment == at[2]
      last_was_wildcard == at[3]
  IN  IF i > Len(s) THEN TRUE
      ELSE CASE s[i] = Slash -> ~last_was_wildcard /\ i # Len(s) /\ f[<<i + 1, FALSE, FALSE>>]
             [] s[i] = Hash  -> ~in_segment /\ AtLevelStart(s, i) /\ i = Len(s)
             [] s[i] = Star  -> ~in_segment /\ AtLevelStart(s, i) /\ f[<<i + 1, TRUE, TRUE>>]
             [] OTHER        -> ~last_was_wildcard /\ f[<<i + 1, TRUE, FALSE>>]

ValidFrom(s) ==
  CHOOSE f : f = [at \in (1..(Len(s) + 1)) \X BOOLEAN \X BOOLEAN |-> ValidStep(s, f, at)]

(* It defines a function: each step uses up a character. *)
LEMMA ValidFromDefined ==
  ASSUME NEW S, NEW s \in Seq(S)
  PROVE  \A at \in (1..(Len(s) + 1)) \X BOOLEAN \X BOOLEAN :
           ValidFrom(s)[at] = ValidStep(s, ValidFrom(s), at)
<1> DEFINE top == Len(s) + 1
           Runs(m) ==
             \E f : f = [at \in ((top - m)..top) \X BOOLEAN \X BOOLEAN |-> ValidStep(s, f, at)]
           Bad == {m \in 0..(top - 1) : ~Runs(m)}
<1>1. top \in Nat \ {0} /\ Len(s) \in Nat /\ ~(top <= Len(s))
  OBVIOUS
<1>2. ASSUME Bad # {} PROVE FALSE
  <2>1. PICK b \in Bad : \A m \in Bad : b <= m
    <3>1. Bad \subseteq Nat
      BY <1>1
    <3> HIDE DEF Bad
    <3>2. QED
      BY <1>2, <3>1, Least
  <2>2. b \in 0..(top - 1) /\ ~Runs(b)
    OBVIOUS
  <2>3. CASE b = 0
    <3> DEFINE f == [at \in (top..top) \X BOOLEAN \X BOOLEAN |-> TRUE]
    <3>1. ASSUME NEW at \in (top..top) \X BOOLEAN \X BOOLEAN
          PROVE  ValidStep(s, f, at) = TRUE
      <4>1. at[1] > Len(s)
        BY <1>1
      <4> HIDE DEF f
      <4>2. QED
        BY <4>1 DEF ValidStep
    <3> DEFINE h == [at \in (top..top) \X BOOLEAN \X BOOLEAN |-> ValidStep(s, f, at)]
    <3>2. f = h
      BY <3>1, Zenon
    <3>3. f = [at \in (top..top) \X BOOLEAN \X BOOLEAN |-> ValidStep(s, f, at)]
      BY <3>2
    <3>4. top - 0 = top
      BY <1>1
    <3>5. Runs(0)
      BY <3>3, <3>4
    <3>6. QED
      BY <2>2, <2>3, <3>5
  <2>4. CASE b # 0
    <3>1. b - 1 \in 0..(top - 1) /\ ~(b <= b - 1)
      BY <1>1, <2>2, <2>4
    <3>2. Runs(b - 1)
      BY <2>1, <3>1
    <3> DEFINE old == ((top - (b - 1))..top) \X BOOLEAN \X BOOLEAN
               new == ((top - b)..top) \X BOOLEAN \X BOOLEAN
    <3>3. PICK f : f = [at \in old |-> ValidStep(s, f, at)]
      BY <3>2
    <3> DEFINE g == [at \in new |-> ValidStep(s, f, at)]
    <3>4. old \subseteq new
      BY <1>1, <2>2, <2>4
    <3>5. \A at \in old : f[at] = ValidStep(s, f, at)
      BY <3>3
    <3>6. \A at \in old : g[at] = f[at]
      <4>1. \A at \in new : g[at] = ValidStep(s, f, at)
        OBVIOUS
      <4> HIDE DEF g, old, new
      <4>2. QED
        BY <3>4, <3>5, <4>1
    <3>7. ASSUME NEW at \in new PROVE ValidStep(s, f, at) = ValidStep(s, g, at)
      <4> DEFINE i == at[1]
      <4>1. i \in (top - b)..top /\ i \in 1..top
        BY <1>1, <2>2
      <4> HIDE DEF g, i
      <4>2. CASE i > Len(s)
        BY <4>2 DEF ValidStep, i
      <4>3. CASE ~(i > Len(s))
        <5>1. i + 1 \in (top - (b - 1))..top
          BY <1>1, <2>2, <4>1, <4>3
        <5>2. \A x, y \in BOOLEAN : g[<<i + 1, x, y>>] = f[<<i + 1, x, y>>]
          <6>1. ASSUME NEW x \in BOOLEAN, NEW y \in BOOLEAN
                PROVE  g[<<i + 1, x, y>>] = f[<<i + 1, x, y>>]
            <7>1. <<i + 1, x, y>> \in old
              BY <5>1
            <7> HIDE DEF old
            <7>2. QED
              BY <3>6, <7>1
          <6>2. QED
            BY <6>1
        <5>3. /\ g[<<i + 1, FALSE, FALSE>>] = f[<<i + 1, FALSE, FALSE>>]
              /\ g[<<i + 1, TRUE, TRUE>>] = f[<<i + 1, TRUE, TRUE>>]
              /\ g[<<i + 1, TRUE, FALSE>>] = f[<<i + 1, TRUE, FALSE>>]
          BY <5>2, Zenon
        <5>4. QED
          BY <4>3, <5>3 DEF ValidStep, i
      <4>4. QED
        BY <4>2, <4>3
    <3>8. g = [at \in new |-> ValidStep(s, g, at)]
      <4> DEFINE h == [at \in new |-> ValidStep(s, g, at)]
      <4>1. g = h
        BY <3>7, Zenon
      <4>2. QED
        BY <4>1
    <3>9. Runs(b)
      BY <3>8
    <3>10. QED
      BY <2>2, <3>9
  <2>5. QED
    BY <2>3, <2>4
<1>3. Runs(top - 1) /\ top - (top - 1) = 1
  <2>1. top - 1 \in 0..(top - 1) /\ top - (top - 1) = 1
    BY <1>1
  <2> HIDE DEF Runs
  <2>2. Runs(top - 1)
    BY <1>2, <2>1
  <2>3. QED
    BY <2>1, <2>2
<1>4. \E f : f = [at \in (1..top) \X BOOLEAN \X BOOLEAN |-> ValidStep(s, f, at)]
  BY <1>3
<1> DEFINE V == ValidFrom(s)
<1>5. V = [at \in (1..top) \X BOOLEAN \X BOOLEAN |-> ValidStep(s, V, at)]
  BY <1>4 DEF ValidFrom
<1> HIDE DEF V
<1>6. \A at \in (1..top) \X BOOLEAN \X BOOLEAN : V[at] = ValidStep(s, V, at)
  BY <1>5
<1>7. QED
  BY <1>6 DEF V

(* Whether the characters from i on are accepted in the middle of a level or *)
(* not, after a '*' or not                                                   *)
Accepted(s, i, in_segment, last_was_wildcard) ==
  ValidFrom(s)[<<i, in_segment, last_was_wildcard>>]

(* Nothing is left to refuse at the end. *)
LEMMA AcceptedEnd ==
  ASSUME NEW S, NEW s \in Seq(S), NEW a \in BOOLEAN, NEW b \in BOOLEAN
  PROVE  Accepted(s, Len(s) + 1, a, b)
<1> DEFINE V == ValidFrom(s)
           at == <<Len(s) + 1, a, b>>
<1>1. Len(s) + 1 > Len(s) /\ at \in (1..(Len(s) + 1)) \X BOOLEAN \X BOOLEAN
  OBVIOUS
<1>2. V[at] = ValidStep(s, V, at)
  <2> HIDE DEF at, V
  <2>1. \A x \in (1..(Len(s) + 1)) \X BOOLEAN \X BOOLEAN : V[x] = ValidStep(s, V, x)
    BY ValidFromDefined DEF V
  <2>2. QED
    BY <1>1, <2>1
<1>3. ValidStep(s, V, at)
  <2> HIDE DEF V
  <2>1. QED
    BY <1>1 DEF ValidStep
<1>4. QED
  BY <1>2, <1>3 DEF Accepted

(* isValidTopic, a character at a time *)
LEMMA AcceptedIs ==
  ASSUME NEW S, NEW s \in Seq(S)
  PROVE  /\ IsValidTopic(s) <=> s # <<>> /\ Accepted(s, 1, FALSE, FALSE)
         /\ \A i \in 1..Len(s), a, b \in BOOLEAN :
              /\ s[i] = Slash => (Accepted(s, i, a, b)
                                   <=> ~b /\ i # Len(s) /\ Accepted(s, i + 1, FALSE, FALSE))
              /\ s[i] = Hash => (Accepted(s, i, a, b) <=> ~a /\ AtLevelStart(s, i) /\ i = Len(s))
              /\ s[i] = Star => (Accepted(s, i, a, b)
                                  <=> ~a /\ AtLevelStart(s, i) /\ Accepted(s, i + 1, TRUE, TRUE))
              /\ s[i] \notin {Slash, Hash, Star} =>
                   (Accepted(s, i, a, b) <=> ~b /\ Accepted(s, i + 1, TRUE, FALSE))
<1> DEFINE V == ValidFrom(s)
<1>1. IsValidTopic(s) <=> s # <<>> /\ V[<<1, FALSE, FALSE>>]
  BY DEF IsValidTopic, ValidFrom, ValidStep
<1>2. \A at \in (1..(Len(s) + 1)) \X BOOLEAN \X BOOLEAN : V[at] = ValidStep(s, V, at)
  BY ValidFromDefined
<1> HIDE DEF V
<1>3. ASSUME NEW i \in 1..(Len(s) + 1), NEW a \in BOOLEAN, NEW b \in BOOLEAN
      PROVE  V[<<i, a, b>>] = ValidStep(s, V, <<i, a, b>>)
  BY <1>2
<1>4. ASSUME NEW i, NEW a \in BOOLEAN, NEW b \in BOOLEAN
      PROVE  ValidStep(s, V, <<i, a, b>>) <=>
               IF i > Len(s) THEN TRUE
               ELSE CASE s[i] = Slash -> ~b /\ i # Len(s) /\ V[<<i + 1, FALSE, FALSE>>]
                      [] s[i] = Hash  -> ~a /\ AtLevelStart(s, i) /\ i = Len(s)
                      [] s[i] = Star  -> ~a /\ AtLevelStart(s, i) /\ V[<<i + 1, TRUE, TRUE>>]
                      [] OTHER        -> ~b /\ V[<<i + 1, TRUE, FALSE>>]
  BY DEF ValidStep
<1>5. Len(s) \in Nat
  OBVIOUS
<1>6. ASSUME NEW i \in 1..Len(s), NEW a \in BOOLEAN, NEW b \in BOOLEAN
      PROVE  /\ s[i] = Slash => (V[<<i, a, b>>] <=> ~b /\ i # Len(s) /\ V[<<i + 1, FALSE, FALSE>>])
             /\ s[i] = Hash => (V[<<i, a, b>>] <=> ~a /\ AtLevelStart(s, i) /\ i = Len(s))
             /\ s[i] = Star => (V[<<i, a, b>>]
                                 <=> ~a /\ AtLevelStart(s, i) /\ V[<<i + 1, TRUE, TRUE>>])
             /\ s[i] \notin {Slash, Hash, Star} =>
                  (V[<<i, a, b>>] <=> ~b /\ V[<<i + 1, TRUE, FALSE>>])
  <2>1. i \in 1..(Len(s) + 1) /\ ~(i > Len(s))
    BY <1>5
  <2>2. Slash # Hash /\ Slash # Star /\ Star # Hash
    BY DEF Slash, Hash, Star
  <2>3. V[<<i, a, b>>] = ValidStep(s, V, <<i, a, b>>)
    BY <1>3, <2>1
  <2>4. ValidStep(s, V, <<i, a, b>>) <=>
          CASE s[i] = Slash -> ~b /\ i # Len(s) /\ V[<<i + 1, FALSE, FALSE>>]
            [] s[i] = Hash  -> ~a /\ AtLevelStart(s, i) /\ i = Len(s)
            [] s[i] = Star  -> ~a /\ AtLevelStart(s, i) /\ V[<<i + 1, TRUE, TRUE>>]
            [] OTHER        -> ~b /\ V[<<i + 1, TRUE, FALSE>>]
    BY <1>4, <2>1
  <2>5. s[i] = Slash => (V[<<i, a, b>>] <=> ~b /\ i # Len(s) /\ V[<<i + 1, FALSE, FALSE>>])
    BY <2>2, <2>3, <2>4
  <2>6. s[i] = Hash => (V[<<i, a, b>>] <=> ~a /\ AtLevelStart(s, i) /\ i = Len(s))
    BY <2>2, <2>3, <2>4
  <2>7. s[i] = Star => (V[<<i, a, b>>] <=> ~a /\ AtLevelStart(s, i) /\ V[<<i + 1, TRUE, TRUE>>])
    BY <2>2, <2>3, <2>4
  <2>8. s[i] \notin {Slash, Hash, Star} => (V[<<i, a, b>>] <=> ~b /\ V[<<i + 1, TRUE, FALSE>>])
    BY <2>2, <2>3, <2>4
  <2>9. QED
    BY <2>5, <2>6, <2>7, <2>8
<1>7. QED
  BY <1>1, <1>6 DEF Accepted, V

(* The wildcards from i on: each starts a level and is the last character. *)
AfterStar(s, i) == i # 1 /\ s[i - 1] = Star
WildcardLast(s, i) ==
  \A m \in i..Len(s) : s[m] \in {Star, Hash} => AtLevelStart(s, m) /\ m = Len(s)

AcceptedAt(s, i) ==
  Accepted(s, i, ~AtLevelStart(s, i), AfterStar(s, i))
    <=> /\ WildcardLast(s, i)
        /\ i <= Len(s) => s[Len(s)] # Slash
        /\ AfterStar(s, i) => i = Len(s) + 1

(* What isValidTopic accepts from a position on: a step *)
LEMMA AcceptedStep ==
  ASSUME NEW S, NEW s \in Seq(S), NEW i \in 1..Len(s), AcceptedAt(s, i + 1)
  PROVE  AcceptedAt(s, i)
<1> DEFINE a == ~AtLevelStart(s, i)
           b == AfterStar(s, i)
           n == Len(s)
<1>1. /\ n \in Nat /\ i \in 1..(n + 1) /\ i + 1 \in 1..(n + 1) /\ ~(i > n) /\ i <= n
      /\ i + 1 # 1 /\ (i + 1) - 1 = i /\ i \in Nat \ {0} /\ i # n + 1
      /\ i # n <=> i + 1 <= n
      /\ i = n <=> i + 1 = n + 1
  OBVIOUS
<1>2. Slash # Hash /\ Slash # Star /\ Star # Hash
  BY DEF Slash, Hash, Star
<1>3. /\ AtLevelStart(s, i + 1) <=> s[i] = Slash
      /\ AfterStar(s, i + 1) <=> s[i] = Star
  BY <1>1 DEF AtLevelStart, AfterStar
<1>4. AtLevelStart(s, i) => ~b
  BY <1>1, <1>2 DEF AtLevelStart, AfterStar
<1>5. /\ a \in BOOLEAN /\ b \in BOOLEAN
      /\ AtLevelStart(s, i + 1) \in BOOLEAN /\ AfterStar(s, i + 1) \in BOOLEAN
  BY DEF AtLevelStart, AfterStar
<1>6. WildcardLast(s, i)
        <=> (s[i] \in {Star, Hash} => AtLevelStart(s, i) /\ i = n) /\ WildcardLast(s, i + 1)
  <2>1. \A m \in i..n : m = i \/ m \in (i + 1)..n
    BY <1>1
  <2>2. i \in i..n /\ \A m \in (i + 1)..n : m \in i..n
    BY <1>1
  <2>3. QED
    BY <2>1, <2>2 DEF WildcardLast
<1>7. i = n => WildcardLast(s, i + 1)
  <2>1. ASSUME NEW m \in (i + 1)..n PROVE i # n
    <3> HIDE DEF n
    <3>1. QED
      BY <1>1
  <2>2. QED
    BY <2>1 DEF WildcardLast
<1> DEFINE Goes(x, y) == Accepted(s, i + 1, x, y)
<1>8. \A x, y \in BOOLEAN :
        /\ s[i] = Slash => (Accepted(s, i, x, y) <=> ~y /\ i # n /\ Goes(FALSE, FALSE))
        /\ s[i] = Hash => (Accepted(s, i, x, y) <=> ~x /\ AtLevelStart(s, i) /\ i = n)
        /\ s[i] = Star => (Accepted(s, i, x, y) <=> ~x /\ AtLevelStart(s, i) /\ Goes(TRUE, TRUE))
        /\ s[i] \notin {Slash, Hash, Star} =>
             (Accepted(s, i, x, y) <=> ~y /\ Goes(TRUE, FALSE))
  BY AcceptedIs
<1> DEFINE EndsInLevel == s[n] # Slash
<1>9. Goes(s[i] # Slash, s[i] = Star)
        <=> WildcardLast(s, i + 1) /\ (i # n => EndsInLevel) /\ (s[i] = Star => i = n)
  <2>1. (~AtLevelStart(s, i + 1)) = (s[i] # Slash) /\ AfterStar(s, i + 1) = (s[i] = Star)
    BY <1>3, <1>5
  <2>2. QED
    BY <1>1, <1>3, <2>1 DEF AcceptedAt
<1>10. SUFFICES Accepted(s, i, a, b) <=> WildcardLast(s, i) /\ EndsInLevel /\ ~b
  BY <1>1 DEF AcceptedAt
<1>11. i = n => (EndsInLevel <=> s[i] # Slash)
  OBVIOUS
<1> HIDE DEF Goes, EndsInLevel, n
<1>12. /\ s[i] = Slash => (Accepted(s, i, a, b) <=> ~b /\ i # n /\ Goes(FALSE, FALSE))
       /\ s[i] = Hash => (Accepted(s, i, a, b) <=> ~a /\ AtLevelStart(s, i) /\ i = n)
       /\ s[i] = Star => (Accepted(s, i, a, b) <=> ~a /\ AtLevelStart(s, i) /\ Goes(TRUE, TRUE))
       /\ s[i] \notin {Slash, Hash, Star} =>
            (Accepted(s, i, a, b) <=> ~b /\ Goes(TRUE, FALSE))
  <2> HIDE DEF a, b
  <2>1. QED
    BY <1>5, <1>8
<1>13. CASE s[i] = Slash
  <2>1. (s[i] # Slash) = FALSE /\ (s[i] = Star) = FALSE
    BY <1>2, <1>13
  <2>2. Goes(FALSE, FALSE) <=> WildcardLast(s, i + 1) /\ (i # n => EndsInLevel)
    BY <1>9, <2>1
  <2>3. Accepted(s, i, a, b) <=> ~b /\ i # n /\ Goes(FALSE, FALSE)
    BY <1>12, <1>13
  <2>4. s[i] \notin {Star, Hash}
    BY <1>2, <1>13
  <2>5. QED
    BY <1>6, <1>11, <1>13, <2>2, <2>3, <2>4
<1>14. CASE s[i] = Hash
  <2>1. Accepted(s, i, a, b) <=> AtLevelStart(s, i) /\ i = n
    BY <1>12, <1>14
  <2>2. QED
    BY <1>2, <1>4, <1>6, <1>7, <1>11, <1>14, <2>1
<1>15. CASE s[i] = Star
  <2>1. (s[i] # Slash) = TRUE /\ (s[i] = Star) = TRUE
    BY <1>2, <1>15
  <2>2. Goes(TRUE, TRUE) <=> WildcardLast(s, i + 1) /\ (i # n => EndsInLevel) /\ i = n
    BY <1>9, <2>1
  <2>3. Accepted(s, i, a, b) <=> AtLevelStart(s, i) /\ Goes(TRUE, TRUE)
    BY <1>12, <1>15
  <2>4. QED
    BY <1>2, <1>4, <1>6, <1>7, <1>11, <1>15, <2>2, <2>3
<1>16. CASE s[i] \notin {Slash, Hash, Star}
  <2>1. (s[i] # Slash) = TRUE /\ (s[i] = Star) = FALSE
    BY <1>16
  <2>2. Goes(TRUE, FALSE) <=> WildcardLast(s, i + 1) /\ (i # n => EndsInLevel)
    BY <1>9, <2>1
  <2>3. Accepted(s, i, a, b) <=> ~b /\ Goes(TRUE, FALSE)
    BY <1>12, <1>16
  <2>4. QED
    BY <1>6, <1>11, <1>16, <2>2, <2>3
<1>17. QED
  BY <1>13, <1>14, <1>15, <1>16

(* isValidTopic accepts a text that is not empty, does not end in '/' and has *)
(* a wildcard as a level of its own at its end only.                          *)
LEMMA AcceptedExactly ==
  ASSUME NEW S, NEW s \in Seq(S)
  PROVE  IsValidTopic(s) <=> s # <<>> /\ s[Len(s)] # Slash /\ WildcardLast(s, 1)
<1> DEFINE top == Len(s) + 1
           Bad == {m \in 0..Len(s) : ~AcceptedAt(s, top - m)}
<1>1. Len(s) \in Nat /\ top \in Nat /\ top > Len(s) /\ ~(top <= Len(s)) /\ top..Len(s) = {}
  OBVIOUS
<1>2. AcceptedAt(s, top)
  <2>1. (~AtLevelStart(s, top)) \in BOOLEAN /\ AfterStar(s, top) \in BOOLEAN
    BY DEF AtLevelStart, AfterStar
  <2>2. \A x, y \in BOOLEAN : Accepted(s, top, x, y)
    BY AcceptedEnd
  <2>3. Accepted(s, top, ~AtLevelStart(s, top), AfterStar(s, top))
    BY <2>1, <2>2
  <2>4. QED
    BY <1>1, <2>3 DEF AcceptedAt, WildcardLast
<1>3. ASSUME Bad # {} PROVE FALSE
  <2>1. PICK b \in Bad : \A m \in Bad : b <= m
    <3>1. Bad \subseteq Nat
      BY <1>1
    <3> HIDE DEF Bad
    <3>2. QED
      BY <1>3, <3>1, Least
  <2> DEFINE i == top - b
  <2>2. b \in 0..Len(s) /\ ~AcceptedAt(s, i)
    OBVIOUS
  <2>3. b # 0
    <3>1. top - 0 = top
      BY <1>1
    <3>2. QED
      BY <1>2, <2>2, <3>1
  <2>4. i \in 1..Len(s) /\ b - 1 \in 0..Len(s) /\ ~(b <= b - 1) /\ top - (b - 1) = i + 1
    BY <1>1, <2>2, <2>3
  <2>5. b - 1 \notin Bad
    BY <2>1, <2>4
  <2>6. AcceptedAt(s, i + 1)
    <3> HIDE DEF i
    <3>1. QED
      BY <2>4, <2>5
  <2> HIDE DEF i
  <2>7. QED
    BY <2>2, <2>4, <2>6, AcceptedStep
<1>4. AcceptedAt(s, 1)
  <2>1. Len(s) \in 0..Len(s) /\ top - Len(s) = 1
    BY <1>1
  <2>2. QED
    BY <1>3, <2>1
<1>5. (~AtLevelStart(s, 1)) = FALSE /\ AfterStar(s, 1) = FALSE
  BY DEF AtLevelStart, AfterStar
<1>6. Accepted(s, 1, FALSE, FALSE) <=> WildcardLast(s, 1) /\ (1 <= Len(s) => s[Len(s)] # Slash)
  BY <1>4, <1>5 DEF AcceptedAt
<1>7. s # <<>> <=> 1 <= Len(s)
  BY <1>1
<1>8. QED
  BY <1>6, <1>7, AcceptedIs

(* The same, of levels: from i on they are good and '*' is the last character. *)
StarLast(s, i) == \A k \in i..Len(s) : s[k] = Star => k = Len(s)
LastFrom(s, i) ==
  \A m \in i..Len(s) : s[m] \in {Star, Hash} => (m = i \/ s[m - 1] = Slash) /\ m = Len(s)
GoodAt(s, i) == Good(LevelsFrom(s)[i]) /\ StarLast(s, i) <=> LastFrom(s, i)

(* The wildcards of a level, and when it is one *)
LEMMA LevelWildcards ==
  ASSUME NEW S, NEW s \in Seq(S), NEW i \in 1..Len(s)
  PROVE  /\ IsWildcard(Level(s, i))
              <=> \E m \in i..(LevelEnd(s, i) - 1) : s[m] \in {Star, Hash}
         /\ \A c \in {Star, Hash} :
              Level(s, i) = <<c>> <=> LevelEnd(s, i) = i + 1 /\ s[i] = c
<1> DEFINE e == LevelEnd(s, i)
           x == Level(s, i)
<1>1. /\ Len(s) \in Nat /\ i \in Nat \ {0} /\ e \in i..(Len(s) + 1)
      /\ x \in Seq(S) /\ Len(x) = e - i
      /\ \A k \in 1..(e - i) : x[k] = s[(i + k) - 1]
  <2>1. i \in 1..(Len(s) + 1) /\ Len(s) \in Nat
    OBVIOUS
  <2>2. QED
    BY <2>1, LevelIs, LevelEndIs
<1> HIDE DEF e, x
<1>2. DOMAIN x = 1..(e - i)
  BY <1>1
<1>3. IsWildcard(x) <=> \E m \in i..(e - 1) : s[m] \in {Star, Hash}
  <2>1. ASSUME NEW k \in 1..(e - i), x[k] \in {Star, Hash}
        PROVE  \E m \in i..(e - 1) : s[m] \in {Star, Hash}
    <3>1. (i + k) - 1 \in i..(e - 1) /\ s[(i + k) - 1] \in {Star, Hash}
      BY <1>1, <2>1
    <3>2. QED
      BY <3>1
  <2>2. ASSUME NEW m \in i..(e - 1), s[m] \in {Star, Hash}
        PROVE  \E k \in 1..(e - i) : x[k] \in {Star, Hash}
    <3> DEFINE k == (m - i) + 1
    <3>1. k \in 1..(e - i) /\ (i + k) - 1 = m
      BY <1>1
    <3> HIDE DEF k
    <3>2. x[k] = s[m]
      BY <1>1, <3>1
    <3>3. QED
      BY <2>2, <3>1, <3>2
  <2>3. QED
    BY <1>2, <2>1, <2>2 DEF IsWildcard
<1>4. ASSUME NEW c \in {Star, Hash} PROVE x = <<c>> <=> e = i + 1 /\ s[i] = c
  <2> DEFINE y == <<c>>
  <2>1. Len(y) = 1 /\ y[1] = c /\ y \in Seq({Star, Hash})
    OBVIOUS
  <2> HIDE DEF y
  <2>2. ASSUME x = y PROVE e = i + 1 /\ s[i] = c
    <3>1. e - i = 1
      BY <1>1, <2>1, <2>2
    <3>2. 1 \in 1..(e - i) /\ (i + 1) - 1 = i
      BY <1>1, <3>1
    <3>3. x[1] = s[i]
      BY <1>1, <3>2
    <3>4. QED
      BY <1>1, <2>1, <2>2, <3>1, <3>3
  <2>3. ASSUME e = i + 1, s[i] = c PROVE x = y
    <3>1. e - i = 1 /\ (i + 1) - 1 = i
      BY <1>1, <2>3
    <3>2. Len(x) = 1 /\ x[1] = c
      BY <1>1, <2>3, <3>1
    <3>3. c \in S
      BY <2>3
    <3>4. y \in Seq(S)
      BY <3>3 DEF y
    <3>5. \A k \in 1..Len(x) : x[k] = y[k]
      BY <2>1, <3>2
    <3>6. QED
      BY <1>1, <2>1, <3>2, <3>4, <3>5, SeqEqual
  <2>4. QED
    BY <2>2, <2>3 DEF y
<1>5. QED
  BY <1>3, <1>4 DEF e, x

(* A step: a level *)
LEMMA GoodStep ==
  ASSUME NEW S, NEW s \in Seq(S), Closed(s), NEW i \in 1..Len(s),
         LevelEnd(s, i) <= Len(s) => GoodAt(s, LevelEnd(s, i) + 1)
  PROVE  GoodAt(s, i)
<1> DEFINE e == LevelEnd(s, i)
           n == Len(s)
           x == Level(s, i)
           rest == After(s, i)
           T == Seq(S)
           wild == \E m \in i..(e - 1) : s[m] \in {Star, Hash}
<1>1. /\ i \in 1..(n + 1) /\ n \in Nat /\ i \in Nat \ {0}
      /\ Slash # Hash /\ Slash # Star /\ Star # Hash
  BY DEF Slash, Hash, Star
<1>2. /\ e \in i..(n + 1) /\ (e = n + 1 \/ s[e] = Slash)
      /\ \A k \in i..(e - 1) : s[k] # Slash
  BY <1>1, LevelEndIs
<1>3. LevelsFrom(s)[i] = <<x>> \o rest /\ x \in T /\ rest \in Seq(T)
  BY <1>1, LevelIs, LevelsFromIs
<1>4. /\ IsWildcard(x) <=> wild
      /\ x = <<Star>> <=> e = i + 1 /\ s[i] = Star
      /\ x = <<Hash>> <=> e = i + 1 /\ s[i] = Hash
  BY LevelWildcards
<1>5. Good(LevelsFrom(s)[i]) <=> Whole(x) /\ (x = <<Hash>> => rest = <<>>) /\ Good(rest)
  <2> HIDE DEF x, rest, T
  <2>1. Good(<<x>> \o rest) <=> Whole(x) /\ (x = <<Hash>> => rest = <<>>) /\ Good(rest)
    BY <1>3, GoodCons
  <2>2. QED
    BY <1>3, <2>1
<1>6. Whole(x) <=> (wild => x = <<Star>> \/ x = <<Hash>>)
  BY <1>4 DEF Whole, Wildcards
<1>7. Closed(s) /\ s[n] # Slash
  BY <1>1 DEF Closed
<1>8. e <= n => e + 1 \in 1..n /\ e + 1 # n + 1 /\ rest = LevelsFrom(s)[e + 1] /\ rest # <<>>
  <2> SUFFICES ASSUME e <= n
               PROVE  e + 1 \in 1..n /\ e + 1 # n + 1 /\ rest = LevelsFrom(s)[e + 1] /\ rest # <<>>
    OBVIOUS
  <2>1. ~(e > n) /\ e # n
    BY <1>1, <1>2, <1>7
  <2>2. e + 1 \in 1..n /\ e + 1 # n + 1 /\ e + 1 \in 1..(n + 1)
    BY <1>1, <1>2, <2>1
  <2>3. rest = LevelsFrom(s)[e + 1]
    BY <2>1 DEF After
  <2>4. LevelsFrom(s)[e + 1] # <<>>
    BY <2>2, LevelsLeft
  <2>5. QED
    BY <2>2, <2>3, <2>4
<1>9. e = n + 1 => rest = <<>> /\ Good(rest)
  <2> SUFFICES ASSUME e = n + 1 PROVE rest = <<>> /\ Good(rest)
    OBVIOUS
  <2>1. e > n
    BY <1>1
  <2>2. rest = <<>>
    BY <2>1 DEF After
  <2>3. Good(<<>>)
    BY DEF Good, HashIsLast
  <2>4. QED
    BY <2>2, <2>3
<1>10. e <= n => GoodAt(s, e + 1)
  OBVIOUS
<1> HIDE DEF e, n, x, rest, T
<1>11. ASSUME Good(LevelsFrom(s)[i]), StarLast(s, i),
              NEW m \in i..n, s[m] \in {Star, Hash}
       PROVE  (m = i \/ s[m - 1] = Slash) /\ m = n
  <2>1. ASSUME m < e PROVE m = i /\ m = n
    <3>1. m \in i..(e - 1)
      BY <1>1, <1>2, <2>1
    <3>2. wild
      BY <1>11, <3>1
    <3>3. e = i + 1 /\ (s[i] = Star \/ (s[i] = Hash /\ rest = <<>>))
      BY <1>4, <1>5, <1>6, <1>11, <3>2
    <3>4. m = i
      BY <1>1, <3>1, <3>3
    <3>5. i \in i..n
      BY <1>1, <3>4
    <3>6. s[i] = Star => i = n
      BY <1>11, <3>5 DEF StarLast, n
    <3>7. rest = <<>> => e = n + 1
      <4>1. e <= n \/ e = n + 1
        BY <1>1, <1>2
      <4>2. QED
        BY <1>8, <4>1
    <3>8. rest = <<>> => i = n
      BY <1>1, <3>3, <3>7
    <3>9. QED
      BY <3>3, <3>4, <3>6, <3>8
  <2>2. ASSUME ~(m < e) PROVE s[m - 1] = Slash /\ m = n
    <3>1. e <= n /\ s[e] = Slash
      BY <1>1, <1>2, <2>2
    <3>2. m # e
      BY <1>1, <1>11, <3>1
    <3>3. m \in (e + 1)..n /\ (e + 1) - 1 = e
      BY <1>1, <1>2, <2>2, <3>2
    <3>4. StarLast(s, e + 1)
      <4>1. \A k \in (e + 1)..n : k \in i..n
        BY <1>1, <1>2
      <4>2. QED
        BY <1>11, <4>1 DEF StarLast, n
    <3>5. Good(rest)
      BY <1>5, <1>11
    <3>6. LastFrom(s, e + 1)
      BY <1>8, <1>10, <3>1, <3>4, <3>5 DEF GoodAt
    <3>7. (m = e + 1 \/ s[m - 1] = Slash) /\ m = n
      BY <1>11, <3>3, <3>6 DEF LastFrom, n
    <3>8. QED
      BY <3>1, <3>3, <3>7
  <2>3. QED
    BY <2>1, <2>2
<1>12. ASSUME LastFrom(s, i) PROVE Good(LevelsFrom(s)[i]) /\ StarLast(s, i)
  <2>1. StarLast(s, i)
    BY <1>12 DEF LastFrom, StarLast
  <2>2. \A m \in i..(e - 1) : s[m] \in {Star, Hash} => m = i /\ i = n
    <3>1. ASSUME NEW m \in i..(e - 1), s[m] \in {Star, Hash} PROVE m = i /\ i = n
      <4>1. m \in i..n
        BY <1>1, <1>2
      <4>2. (m = i \/ s[m - 1] = Slash) /\ m = n
        BY <1>12, <3>1, <4>1 DEF LastFrom, n
      <4>3. m # i => m - 1 \in i..(e - 1)
        BY <1>1, <1>2
      <4>4. QED
        BY <1>2, <4>2, <4>3
    <3>2. QED
      BY <3>1
  <2>3. wild => e = n + 1 /\ e = i + 1 /\ s[i] \in {Star, Hash}
    <3> SUFFICES ASSUME NEW m \in i..(e - 1), s[m] \in {Star, Hash}
                 PROVE  e = n + 1 /\ e = i + 1 /\ s[i] \in {Star, Hash}
      OBVIOUS
    <3>1. m = i /\ i = n
      BY <2>2
    <3>2. i <= e - 1 /\ e <= n + 1
      BY <1>1, <1>2
    <3>3. QED
      BY <1>1, <1>2, <3>1, <3>2
  <2>4. Whole(x)
    BY <1>4, <1>6, <2>3
  <2>5. x = <<Hash>> => rest = <<>>
    <3>1. x = <<Hash>> => i \in i..(e - 1)
      BY <1>1, <1>4
    <3>2. x = <<Hash>> => wild
      BY <1>4, <3>1
    <3>3. QED
      BY <1>9, <2>3, <3>2
  <2>6. Good(rest)
    <3>1. CASE e = n + 1
      BY <1>9, <3>1
    <3>2. CASE e # n + 1
      <4>1. e <= n /\ s[e] = Slash
        BY <1>1, <1>2, <3>2
      <4>2. ASSUME NEW m \in (e + 1)..n, s[m] \in {Star, Hash}
            PROVE  (m = e + 1 \/ s[m - 1] = Slash) /\ m = n
        <5>1. m \in i..n /\ m # i
          BY <1>1, <1>2
        <5>2. QED
          BY <1>12, <4>2, <5>1 DEF LastFrom, n
      <4>3. LastFrom(s, e + 1)
        BY <4>2 DEF LastFrom, n
      <4>4. QED
        BY <1>8, <1>10, <4>1, <4>3 DEF GoodAt
    <3>3. QED
      BY <3>1, <3>2
  <2>7. QED
    BY <1>5, <2>1, <2>4, <2>5, <2>6
<1>13. Good(LevelsFrom(s)[i]) /\ StarLast(s, i) => LastFrom(s, i)
  BY <1>11 DEF LastFrom, n
<1>14. QED
  BY <1>12, <1>13 DEF GoodAt

(* A text that does not end in '/' has good levels, and '*' at its end only,  *)
(* just if its wildcards are levels of their own at its end.                  *)
LEMMA GoodExactly ==
  ASSUME NEW S, NEW s \in Seq(S), Closed(s)
  PROVE  GoodAt(s, 1)
<1> DEFINE top == Len(s) + 1
           Bad == {m \in 0..Len(s) : ~GoodAt(s, top - m)}
<1>1. Len(s) \in Nat /\ top \in Nat /\ top..Len(s) = {}
  OBVIOUS
<1>2. GoodAt(s, top)
  <2>1. Good(LevelsFrom(s)[top])
    <3>1. Good(<<>>)
      BY DEF Good, HashIsLast
    <3>2. QED
      BY <3>1, LevelsFromIs
  <2>2. QED
    BY <1>1, <2>1 DEF GoodAt, StarLast, LastFrom
<1>3. ASSUME Bad # {} PROVE FALSE
  <2>1. PICK b \in Bad : \A m \in Bad : b <= m
    <3>1. Bad \subseteq Nat
      BY <1>1
    <3> HIDE DEF Bad
    <3>2. QED
      BY <1>3, <3>1, Least
  <2> DEFINE i == top - b
             e == LevelEnd(s, i)
  <2>2. b \in 0..Len(s) /\ ~GoodAt(s, i)
    OBVIOUS
  <2>3. b # 0
    <3>1. top - 0 = top
      BY <1>1
    <3>2. QED
      BY <1>2, <2>2, <3>1
  <2>4. i \in 1..Len(s) /\ i \in 1..top
    BY <1>1, <2>2, <2>3
  <2>5. e \in i..top
    <3> HIDE DEF i
    <3>1. QED
      BY <2>4, LevelEndIs
  <2>6. e <= Len(s) => GoodAt(s, e + 1)
    <3> SUFFICES ASSUME e <= Len(s) PROVE GoodAt(s, e + 1)
      OBVIOUS
    <3> DEFINE m == top - (e + 1)
    <3> HIDE DEF e
    <3>1. m \in 0..Len(s) /\ ~(b <= m) /\ top - m = e + 1
      BY <1>1, <2>2, <2>4, <2>5
    <3>2. m \notin Bad
      BY <2>1, <3>1
    <3> HIDE DEF m
    <3>3. QED
      BY <3>1, <3>2
  <2> HIDE DEF i
  <2>7. QED
    BY <2>2, <2>4, <2>6, GoodStep
<1>4. Len(s) \in 0..Len(s) /\ top - Len(s) = 1
  BY <1>1
<1>5. QED
  BY <1>3, <1>4

(* A '*' is nowhere but at the end of a text. *)
StarIsLast(s) == \A k \in DOMAIN s : s[k] = Star => k = Len(s)

(* isValidTopic accepts the well-formed texts with no '*' before their end. *)
LEMMA ValidIs ==
  ASSUME NEW S, NEW s \in Seq(S)
  PROVE  IsValidTopic(s) <=> WellFormed(s) /\ StarIsLast(s)
<1>1. IsValidTopic(s) <=> s # <<>> /\ s[Len(s)] # Slash /\ WildcardLast(s, 1)
  BY AcceptedExactly
<1>2. WellFormed(s) <=> s # <<>> /\ s[Len(s)] # Slash /\ Good(LevelsFrom(s)[1])
  BY WellFormedIs
<1>3. StarIsLast(s) <=> StarLast(s, 1)
  <2>1. DOMAIN s = 1..Len(s)
    OBVIOUS
  <2>2. QED
    BY <2>1 DEF StarIsLast, StarLast
<1>4. WildcardLast(s, 1) <=> LastFrom(s, 1)
  BY DEF WildcardLast, LastFrom, AtLevelStart
<1>5. s[Len(s)] # Slash => (Good(LevelsFrom(s)[1]) /\ StarLast(s, 1) <=> LastFrom(s, 1))
  <2>1. s[Len(s)] # Slash => Closed(s)
    BY DEF Closed
  <2>2. QED
    BY <2>1, GoodExactly DEF GoodAt
<1>6. QED
  BY <1>1, <1>2, <1>3, <1>4, <1>5

(* isValidTopic accepts no text of any length that is not well-formed, and *)
(* refuses no well-formed one without wildcards.                           *)
THEOREM ValidTopicsHolds == Spec => []ValidTopics
<1>1. TextsInv => ValidTopics
  <2>1. ~IsWildcard(pattern) => StarIsLast(pattern)
    BY DEF IsWildcard, StarIsLast
  <2>2. QED
    BY <2>1, ValidIs DEF TextsInv, ValidTopics
<1>2. QED
  BY <1>1, TextsInvariant, PTL
=============================================================================
