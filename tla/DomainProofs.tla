---------------------------- MODULE DomainProofs ----------------------------
(***************************************************************************)
(* The states of words and the dictionary: the counters of a word and the  *)
(* memories of its modes, what the browser build saves and when words are  *)
(* due, and what the dictionary answers, for any words, number of modes    *)
(* and reviews, and any dictionary.                                        *)
(***************************************************************************)
EXTENDS WebStates, Ladder, WordStore, FiniteSetTheorems, SequenceTheorems,
        WellFoundedInduction, TLAPS

\* Induction up to n, from the well-foundedness of inclusion in a finite set:
\* the smallest of the intervals that end outside Good.
LEMMA Induction ==
  ASSUME NEW n \in Nat, NEW Good, 0 \in Good,
         \A i \in 0 .. n - 1 : i \in Good => i + 1 \in Good
  PROVE  \A i \in 0 .. n : i \in Good
<1> DEFINE Bad == {i \in 0 .. n : i \notin Good}
           Ends == {0 .. i : i \in Bad}
<1>1. SUFFICES ASSUME Bad # {} PROVE FALSE
  OBVIOUS
<1>2. IsFiniteSet(0 .. n)
  BY FS_Interval
<1>3. IsWellFoundedOn(StrictSubsetOrdering(0 .. n), FiniteSubsetsOf(0 .. n))
  BY FS_StrictSubsetOrderingWellFounded
<1>4. Ends \subseteq FiniteSubsetsOf(0 .. n) /\ Ends # {}
  <2>1. \A i \in 0 .. n : IsFiniteSet(0 .. i) /\ (0 .. i) \subseteq 0 .. n
    BY FS_Interval
  <2> QED
    BY <1>1, <2>1 DEF FiniteSubsetsOf
<1>5. PICK low \in Ends : \A e \in Ends : <<e, low>> \notin StrictSubsetOrdering(0 .. n)
  BY <1>3, <1>4, WFMin
<1>6. PICK i \in Bad : low = 0 .. i
  OBVIOUS
<1>7. i # 0 /\ i - 1 \in 0 .. n - 1
  OBVIOUS
<1>8. i - 1 \in Bad
  BY <1>7
<1>9. 0 .. (i - 1) \in Ends
  BY <1>8
<1>10. <<0 .. (i - 1), 0 .. i>> \in StrictSubsetOrdering(0 .. n)
  BY <1>7 DEF StrictSubsetOrdering
<1> QED
  BY <1>5, <1>6, <1>9, <1>10

-----------------------------------------------------------------------------
(* Sorted vectors of entries. *)

Key == Int \X Int

LEMMA KeyOrder ==
  /\ \A a \in Key : ~EntryBefore(a, a)
  /\ \A a, b, c \in Key : EntryBefore(a, b) /\ EntryBefore(b, c) => EntryBefore(a, c)
  /\ \A a, b \in Key : a = b \/ EntryBefore(a, b) \/ EntryBefore(b, a)
<1>1. \A a \in Key : a[1] \in Int /\ a[2] \in Int /\ a = <<a[1], a[2]>>
  BY DEF Key
<1> QED
  BY <1>1 DEF EntryBefore

InKeyOrder(q) ==
  q \in Seq(Key) /\ \A i, j \in DOMAIN q : i < j => EntryBefore(q[i], q[j])
Elements(q) == {q[i] : i \in DOMAIN q}

LEMMA KeysFacts ==
  ASSUME NEW q, InKeyOrder(q)
  PROVE  Len(q) \in Nat /\ DOMAIN q = 1 .. Len(q) /\ \A i \in 1 .. Len(q) : q[i] \in Key
BY LenProperties, ElementOfSeq DEF InKeyOrder

LEMMA LeastOf ==
  ASSUME NEW T, T \subseteq Nat, T # {}
  PROVE  Min(T) \in T /\ \A s \in T : Min(T) <= s
<1>1. PICK r \in T : \A s \in T : <<s, r>> \notin OpToRel(<, Nat)
  BY NatLessThanWellFounded, WFMin
<1>2. \A x, y \in Nat : y < x => <<y, x>> \in OpToRel(<, Nat)
  BY DEF OpToRel
<1>3. \A s \in T : r <= s
  <2> TAKE s \in T
  <2>1. r \in Nat /\ s \in Nat /\ ~(s < r)
    BY <1>1, <1>2
  <2> QED
    BY <2>1
<1> QED
  BY <1>3 DEF Min

\* std::lower_bound: what is before the place is smaller, what is from it on not.
LEMMA BoundFacts ==
  ASSUME NEW q, InKeyOrder(q), NEW e \in Key
  PROVE  /\ LowerBound(q, e) \in 1 .. Len(q) + 1
         /\ \A i \in 1 .. Len(q) : i < LowerBound(q, e) <=> EntryBefore(q[i], e)
<1> DEFINE n == Len(q)
           after == {i \in DOMAIN q : ~EntryBefore(q[i], e)}
           p == LowerBound(q, e)
<1>1. n \in Nat /\ DOMAIN q = 1 .. n /\ \A i \in 1 .. n : q[i] \in Key
  BY KeysFacts
<1>2. after \cup {n + 1} \subseteq Nat /\ p = Min(after \cup {n + 1})
  BY <1>1 DEF LowerBound
<1>3. p \in after \cup {n + 1} /\ \A s \in after \cup {n + 1} : p <= s
  BY <1>2, LeastOf
<1>4. \A i, j \in 1 .. n : i < j => EntryBefore(q[i], q[j])
  BY <1>1 DEF InKeyOrder
<1> HIDE DEF n, p
<1>5. p \in 1 .. n + 1
  BY <1>1, <1>3
<1>6. ASSUME NEW i \in 1 .. n, i < p PROVE EntryBefore(q[i], e)
  <2>1. i \notin after
    BY <1>1, <1>3, <1>5, <1>6
  <2> QED
    BY <1>1, <2>1
<1>7. ASSUME NEW i \in 1 .. n, ~(i < p) PROVE ~EntryBefore(q[i], e)
  <2>1. p \in 1 .. n /\ (p = i \/ p < i)
    BY <1>1, <1>5, <1>7
  <2>2. ~EntryBefore(q[p], e)
    BY <1>1, <1>3, <2>1
  <2>3. p < i => EntryBefore(q[p], q[i])
    BY <1>4, <2>1
  <2> QED
    BY <1>1, <2>1, <2>2, <2>3, KeyOrder
<1> QED
  BY <1>5, <1>6, <1>7 DEF n, p

LEMMA InsertFacts ==
  ASSUME NEW S, NEW q \in Seq(S), NEW e \in S, NEW p \in 1 .. Len(q) + 1
  PROVE  /\ InsertAt(q, p, e) \in Seq(S) /\ Len(InsertAt(q, p, e)) = Len(q) + 1
         /\ \A i \in 1 .. Len(q) + 1 :
              InsertAt(q, p, e)[i] = IF i < p THEN q[i] ELSE IF i = p THEN e ELSE q[i - 1]
<1> DEFINE n == Len(q)
           a == SubSeq(q, 1, p - 1)
           b == SubSeq(q, p, n)
           one == <<e>>
           c == a \o one
<1>1. n \in Nat /\ \A i \in 1 .. n : q[i] \in S
  BY LenProperties, ElementOfSeq
<1> HIDE DEF n
<1>2. p \in 1 .. n + 1 /\ p \in Nat /\ 1 \in Int /\ p - 1 \in Int /\ p \in Int /\ n \in Int
  BY <1>1 DEF n
<1>3. (\A i \in 1 .. p - 1 : q[i] \in S) /\ (\A i \in p .. n : q[i] \in S)
  BY <1>1, <1>2
<1>4. a \in Seq(S) /\ Len(a) = p - 1 /\ \A i \in 1 .. p - 1 : a[i] = q[i]
  <2>1. /\ a \in Seq(S) /\ Len(a) = IF 1 <= p - 1 THEN (p - 1) - 1 + 1 ELSE 0
        /\ \A i \in 1 .. (p - 1) - 1 + 1 : a[i] = q[1 + i - 1]
    BY <1>2, <1>3, SubSeqProperties
  <2> QED
    BY <1>2, <2>1
<1>5. b \in Seq(S) /\ Len(b) = n - p + 1 /\ \A i \in 1 .. n - p + 1 : b[i] = q[p + i - 1]
  <2>1. /\ b \in Seq(S) /\ Len(b) = IF p <= n THEN n - p + 1 ELSE 0
        /\ \A i \in 1 .. n - p + 1 : b[i] = q[p + i - 1]
    BY <1>2, <1>3, SubSeqProperties
  <2> QED
    BY <1>1, <1>2, <2>1
<1>6. one \in Seq(S) /\ Len(one) = 1 /\ one[1] = e
  OBVIOUS
<1> HIDE DEF a, b, one
<1>7. /\ c \in Seq(S) /\ Len(c) = p
      /\ \A i \in 1 .. p : c[i] = IF i < p THEN q[i] ELSE e
  <2>0. /\ c \in Seq(S) /\ Len(c) = Len(a) + Len(one)
        /\ \A i \in 1 .. Len(a) + Len(one) : c[i] = IF i <= Len(a) THEN a[i] ELSE one[i - Len(a)]
    BY <1>4, <1>6, ConcatProperties
  <2> HIDE DEF c
  <2>1. /\ c \in Seq(S) /\ Len(c) = p
        /\ \A i \in 1 .. p : c[i] = IF i <= p - 1 THEN a[i] ELSE one[i - (p - 1)]
    <3>1. (p - 1) + 1 = p
      BY <1>2
    <3> QED
      BY <1>4, <1>6, <2>0, <3>1
  <2>2. ASSUME NEW i \in 1 .. p PROVE c[i] = IF i < p THEN q[i] ELSE e
    <3>1. CASE i < p
      <4>1. i \in 1 .. p - 1 /\ i <= p - 1
        BY <1>2, <3>1
      <4> QED
        BY <1>4, <2>1, <3>1, <4>1
    <3>2. CASE i = p
      <4>1. i - (p - 1) = 1 /\ ~(i <= p - 1) /\ ~(i < p)
        BY <1>2, <3>2
      <4> QED
        BY <1>6, <2>1, <4>1
    <3> QED
      BY <1>2, <3>1, <3>2
  <2> QED
    BY <1>2, <2>1, <2>2
<1> HIDE DEF c
<1>8. InsertAt(q, p, e) = c \o b
  BY DEF InsertAt, n, a, b, c, one
<1>9. /\ c \o b \in Seq(S) /\ Len(c \o b) = p + (n - p + 1)
      /\ \A i \in 1 .. p + (n - p + 1) : (c \o b)[i] = IF i <= p THEN c[i] ELSE b[i - p]
  BY <1>5, <1>7, ConcatProperties
<1>10. ASSUME NEW i \in 1 .. n + 1
       PROVE  (c \o b)[i] = IF i < p THEN q[i] ELSE IF i = p THEN e ELSE q[i - 1]
  <2>1. (c \o b)[i] = IF i <= p THEN c[i] ELSE b[i - p]
    BY <1>1, <1>2, <1>9
  <2>2. CASE i <= p
    BY <1>2, <1>7, <2>1, <2>2
  <2>3. CASE ~(i <= p)
    <3>1. i - p \in 1 .. n - p + 1 /\ p + (i - p) - 1 = i - 1
      BY <1>1, <1>2, <2>3
    <3> QED
      BY <1>2, <1>5, <2>1, <2>3, <3>1
  <2> QED
    BY <2>2, <2>3
<1> QED
  BY <1>1, <1>2, <1>8, <1>9, <1>10 DEF n

LEMMA RemoveFacts ==
  ASSUME NEW S, NEW q \in Seq(S), NEW p \in 1 .. Len(q)
  PROVE  /\ RemoveAt(q, p) \in Seq(S) /\ Len(RemoveAt(q, p)) = Len(q) - 1
         /\ \A i \in 1 .. Len(q) - 1 : RemoveAt(q, p)[i] = IF i < p THEN q[i] ELSE q[i + 1]
<1> DEFINE n == Len(q)
           a == SubSeq(q, 1, p - 1)
           b == SubSeq(q, p + 1, n)
<1>1. n \in Nat /\ \A i \in 1 .. n : q[i] \in S
  BY LenProperties, ElementOfSeq
<1> HIDE DEF n
<1>2. p \in 1 .. n /\ p \in Nat /\ 1 \in Int /\ p - 1 \in Int /\ p + 1 \in Int /\ n \in Int
  BY <1>1 DEF n
<1>3. (\A i \in 1 .. p - 1 : q[i] \in S) /\ (\A i \in p + 1 .. n : q[i] \in S)
  BY <1>1, <1>2
<1>4. a \in Seq(S) /\ Len(a) = p - 1 /\ \A i \in 1 .. p - 1 : a[i] = q[i]
  <2>1. /\ a \in Seq(S) /\ Len(a) = IF 1 <= p - 1 THEN (p - 1) - 1 + 1 ELSE 0
        /\ \A i \in 1 .. (p - 1) - 1 + 1 : a[i] = q[1 + i - 1]
    BY <1>2, <1>3, SubSeqProperties
  <2> QED
    BY <1>2, <2>1
<1>5. b \in Seq(S) /\ Len(b) = n - p /\ \A i \in 1 .. n - p : b[i] = q[p + i]
  <2>1. /\ b \in Seq(S) /\ Len(b) = IF p + 1 <= n THEN n - (p + 1) + 1 ELSE 0
        /\ \A i \in 1 .. n - (p + 1) + 1 : b[i] = q[(p + 1) + i - 1]
    BY <1>2, <1>3, SubSeqProperties
  <2> QED
    BY <1>1, <1>2, <2>1
<1> HIDE DEF a, b
<1>6. RemoveAt(q, p) = a \o b
  BY DEF RemoveAt, n, a, b
<1> DEFINE c == a \o b
<1>7. /\ c \in Seq(S) /\ Len(c) = Len(a) + Len(b)
      /\ \A i \in 1 .. Len(a) + Len(b) : c[i] = IF i <= Len(a) THEN a[i] ELSE b[i - Len(a)]
  BY <1>4, <1>5, ConcatProperties
<1> HIDE DEF c
<1>10. Len(a) + Len(b) = n - 1
  BY <1>1, <1>2, <1>4, <1>5
<1>8. ASSUME NEW i \in 1 .. n - 1
      PROVE  c[i] = IF i < p THEN q[i] ELSE q[i + 1]
  <2>1. c[i] = IF i <= p - 1 THEN a[i] ELSE b[i - (p - 1)]
    BY <1>4, <1>7, <1>10
  <2>2. CASE i < p
    <3>1. i \in 1 .. p - 1 /\ i <= p - 1
      BY <1>2, <2>2
    <3> QED
      BY <1>4, <2>1, <2>2, <3>1
  <2>3. CASE ~(i < p)
    <3>1. i - (p - 1) \in 1 .. n - p /\ p + (i - (p - 1)) = i + 1 /\ ~(i <= p - 1)
      BY <1>1, <1>2, <2>3
    <3> QED
      BY <1>5, <2>1, <2>3, <3>1
  <2> QED
    BY <2>2, <2>3
<1>9. RemoveAt(q, p) = c
  BY <1>6 DEF c
<1> QED
  BY <1>7, <1>8, <1>9, <1>10 DEF n

-----------------------------------------------------------------------------
(* The ladder of a word. *)

\* The function that ReviewsUpTo defines, for any memories.
SumOf(mem) ==
  CHOOSE f : f = [m \in 0 .. Modes |-> IF m = 0 THEN 0 ELSE f[m - 1] + mem[m].reviews]

\* There is such a function, so that the sum up to a mode is the sum up to the
\* one below and the reviews of the mode.
LEMMA SumExists ==
  ASSUME NEW mem \in [Mode -> Memory]
  PROVE  \E f \in [0 .. Modes -> Nat] :
           f = [m \in 0 .. Modes |-> IF m = 0 THEN 0 ELSE f[m - 1] + mem[m].reviews]
<1> DEFINE Adds(f, n) == /\ f \in [0 .. n -> Nat] /\ f[0] = 0
                         /\ \A m \in 1 .. n : f[m] = f[m - 1] + mem[m].reviews
           Good == {n \in 0 .. Modes : \E f : Adds(f, n)}
<1>1. Modes \in Nat
  BY LadderAssumption
<1>2. 0 \in Good
  <2>1. Adds([m \in 0 .. 0 |-> 0], 0)
    OBVIOUS
  <2> HIDE DEF Adds
  <2> QED
    BY <1>1, <2>1
<1>3. ASSUME NEW i \in 0 .. Modes - 1, i \in Good PROVE i + 1 \in Good
  <2>1. PICK f : Adds(f, i)
    BY <1>3
  <2> DEFINE g == [m \in 0 .. i + 1 |-> IF m = i + 1 THEN f[i] + mem[i + 1].reviews ELSE f[m]]
  <2>2. i + 1 \in Mode /\ mem[i + 1].reviews \in Nat /\ i \in Nat
    BY <1>1 DEF Mode, Memory
  <2>3. f[i] \in Nat
    BY <2>1, <2>2
  <2>4. g \in [0 .. i + 1 -> Nat]
    BY <2>1, <2>2, <2>3
  <2>5. g[0] = 0
    BY <2>1, <2>2
  <2>6. ASSUME NEW m \in 1 .. i + 1 PROVE g[m] = g[m - 1] + mem[m].reviews
    <3>1. m - 1 \in 0 .. i /\ g[m - 1] = f[m - 1]
      BY <2>2
    <3>2. CASE m = i + 1
      BY <3>1, <3>2, <2>2
    <3>3. CASE m # i + 1
      BY <3>1, <3>3, <2>1, <2>2
    <3> QED
      BY <3>2, <3>3
  <2>7. Adds(g, i + 1)
    BY <2>4, <2>5, <2>6
  <2> HIDE DEF Adds, g
  <2> QED
    BY <1>1, <2>7
<1>4. Modes \in Good
  <2> HIDE DEF Good
  <2>1. \A n \in 0 .. Modes : n \in Good
    BY <1>1, <1>2, <1>3, Induction
  <2> QED
    BY <1>1, <2>1
<1>5. PICK f : Adds(f, Modes)
  BY <1>4
<1>6. \A m \in 0 .. Modes : f[m] = IF m = 0 THEN 0 ELSE f[m - 1] + mem[m].reviews
  BY <1>1, <1>5
<1>7. f = [m \in 0 .. Modes |-> IF m = 0 THEN 0 ELSE f[m - 1] + mem[m].reviews]
  BY <1>5, <1>6
<1> QED
  BY <1>5, <1>7

LEMMA SumOfMode ==
  ASSUME NEW mem \in [Mode -> Memory]
  PROVE  /\ SumOf(mem) \in [0 .. Modes -> Nat]
         /\ SumOf(mem)[0] = 0
         /\ \A m \in 1 .. Modes : SumOf(mem)[m] = SumOf(mem)[m - 1] + mem[m].reviews
<1> DEFINE Right(f) == f = [m \in 0 .. Modes |-> IF m = 0 THEN 0 ELSE f[m - 1] + mem[m].reviews]
<1>1. PICK f \in [0 .. Modes -> Nat] : Right(f)
  BY SumExists
<1>2. SumOf(mem) = [m \in 0 .. Modes |-> IF m = 0 THEN 0 ELSE SumOf(mem)[m - 1] + mem[m].reviews]
  BY <1>1 DEF SumOf
<1>3. Modes \in Nat
  BY LadderAssumption
<1> DEFINE Good == {n \in 0 .. Modes : SumOf(mem)[n] \in Nat}
<1> HIDE DEF Right
<1>4. SumOf(mem)[0] = 0
  BY <1>2, <1>3
<1>5. ASSUME NEW m \in 1 .. Modes PROVE SumOf(mem)[m] = SumOf(mem)[m - 1] + mem[m].reviews
  BY <1>2, <1>3
<1>6. ASSUME NEW i \in 0 .. Modes - 1, i \in Good PROVE i + 1 \in Good
  <2>1. i + 1 \in 1 .. Modes /\ mem[i + 1].reviews \in Nat
    BY <1>3 DEF Mode, Memory
  <2>2. SumOf(mem)[i + 1] = SumOf(mem)[i] + mem[i + 1].reviews
    BY <1>5, <2>1
  <2> QED
    BY <1>6, <2>1, <2>2
<1>7. 0 \in Good
  BY <1>3, <1>4
<1>8. \A n \in 0 .. Modes : n \in Good
  BY <1>3, <1>6, <1>7, Induction
<1>9. \A n \in 0 .. Modes : SumOf(mem)[n] \in Nat
  BY <1>8
<1>10. SumOf(mem) \in [0 .. Modes -> Nat]
  BY <1>2, <1>9
<1> QED
  BY <1>4, <1>5, <1>10

\* One more review of one mode is one more in the sum.
LEMMA SumGrows ==
  ASSUME NEW mem \in [Mode -> Memory], NEW new \in [Mode -> Memory], NEW k \in Mode,
         \A m \in Mode : new[m].reviews = mem[m].reviews + (IF m = k THEN 1 ELSE 0)
  PROVE  SumOf(new)[Modes] = SumOf(mem)[Modes] + 1
<1> DEFINE Good == {n \in 0 .. Modes :
                      SumOf(new)[n] = SumOf(mem)[n] + (IF n >= k THEN 1 ELSE 0)}
<1>1. Modes \in Nat /\ k \in 1 .. Modes
  BY LadderAssumption DEF Mode
<1>2. 0 \in Good
  BY <1>1, SumOfMode
<1>3. ASSUME NEW i \in 0 .. Modes - 1, i \in Good PROVE i + 1 \in Good
  <2>1. i + 1 \in 1 .. Modes /\ i \in 0 .. Modes /\ i + 1 \in 0 .. Modes /\ i + 1 - 1 = i
    BY <1>1
  <2>2. SumOf(new)[i + 1] = SumOf(new)[i] + new[i + 1].reviews
    BY <2>1, SumOfMode
  <2>3. SumOf(mem)[i + 1] = SumOf(mem)[i] + mem[i + 1].reviews
    BY <2>1, SumOfMode
  <2>4. /\ new[i + 1].reviews = mem[i + 1].reviews + (IF i + 1 = k THEN 1 ELSE 0)
        /\ mem[i + 1].reviews \in Nat
    BY <2>1 DEF Mode, Memory
  <2>5. SumOf(mem)[i] \in Nat
    BY <2>1, SumOfMode
  <2>6. SumOf(new)[i] = SumOf(mem)[i] + (IF i >= k THEN 1 ELSE 0)
    BY <1>3
  <2> QED
    BY <1>1, <2>1, <2>2, <2>3, <2>4, <2>5, <2>6
<1>4. Modes \in Good
  <2> HIDE DEF Good
  <2>1. \A n \in 0 .. Modes : n \in Good
    BY <1>1, <1>2, <1>3, Induction
  <2> QED
    BY <1>1, <2>1
<1> QED
  BY <1>1, <1>4

-----------------------------------------------------------------------------
LadderTypeOK ==
  mode \in Mode /\ memory \in [Mode -> Memory] /\ count \in Count /\ dueIn \in BOOLEAN

\* A word that was never reviewed is where it began, so that its first review
\* seeds the mode below which there is none.
LadderInv == LadderTypeOK /\ LadderSound /\ (count.total = 0 => mode = 1)

LEMMA LadderStart == LadderInit => LadderInv
<1> SUFFICES ASSUME LadderInit PROVE LadderInv
  OBVIOUS
<1> USE LadderAssumption DEF LadderInit
<1>1. LadderTypeOK
  <2>1. [stability |-> 0, quality |-> 0, reviews |-> 0] \in Memory
    BY DEF Memory, Level
  <2>2. memory \in [Mode -> Memory]
    BY <2>1
  <2>3. mode \in Mode
    BY DEF Mode
  <2>4. [total |-> 0, lapses |-> 0, recent |-> 0] \in Count
    BY DEF Count
  <2>5. count \in Count
    BY <2>4
  <2> QED
    BY <2>2, <2>3, <2>5 DEF LadderTypeOK
<1> DEFINE Good == {n \in 0 .. Modes : SumOf(memory)[n] = 0}
<1>2. memory \in [Mode -> Memory]
  BY <1>1 DEF LadderTypeOK
<1>3. 0 \in Good
  BY <1>2, SumOfMode
<1>4. ASSUME NEW i \in 0 .. Modes - 1, i \in Good PROVE i + 1 \in Good
  <2>1. i + 1 \in 1 .. Modes /\ i + 1 \in Mode /\ i + 1 - 1 = i
    BY DEF Mode
  <2>2. SumOf(memory)[i + 1] = SumOf(memory)[i] + memory[i + 1].reviews
    BY <1>2, <2>1, SumOfMode
  <2>3. memory[i + 1].reviews = 0
    BY <2>1
  <2> QED
    BY <1>4, <2>1, <2>2, <2>3
<1>5. Modes \in Good
  <2> HIDE DEF Good
  <2>1. \A n \in 0 .. Modes : n \in Good
    BY <1>3, <1>4, Induction
  <2> QED
    BY <2>1
<1>6. ReviewsUpTo = SumOf(memory)
  BY DEF ReviewsUpTo, SumOf
<1>7. LadderSound
  BY <1>5, <1>6 DEF LadderSound
<1> QED
  BY <1>1, <1>7 DEF LadderInv

\* What a review may make of a memory.
LEMMA ReviewedMemory ==
  ASSUME NEW m \in Memory, NEW q \in Level, NEW now \in Reviewed(m, q)
  PROVE  now \in Memory /\ now.reviews = m.reviews + 1 /\ now.stability > 0
<1>1. PICK s \in Stabilities(m.stability, q), a \in Averages(m.quality, q) :
        now = [stability |-> s, quality |-> a, reviews |-> m.reviews + 1]
  BY DEF Reviewed
<1>2. s \in Level /\ s > 0
  <2>1. CASE m.stability = 0
    BY <2>1 DEF Stabilities, Level, Memory
  <2>2. CASE m.stability > 0 /\ Success(q)
    BY <2>2 DEF Stabilities, Level, Memory
  <2>3. CASE m.stability > 0 /\ ~Success(q)
    BY <2>3 DEF Stabilities, Level, Memory
  <2> QED
    BY <2>1, <2>2, <2>3 DEF Memory, Level
<1>3. a \in Level
  BY DEF Averages, Lower, Higher, Level, Memory
<1> QED
  BY <1>1, <1>2, <1>3 DEF Memory

LEMMA InheritedMemory ==
  ASSUME NEW m \in Memory, NEW next \in Inherit(m)
  PROVE  next \in Memory /\ next.reviews = m.reviews /\ next.stability > 0
<1>1. PICK s \in 1 .. 2, a \in 1 .. 2 :
        next = [m EXCEPT !.stability = Higher(@, s), !.quality = Higher(@, a)]
  BY DEF Inherit
<1>2. Higher(m.stability, s) \in Level /\ Higher(m.stability, s) > 0 /\ Higher(m.quality, a) \in Level
  BY DEF Higher, Level, Memory
<1> QED
  BY <1>1, <1>2 DEF Memory

LEMMA LadderStep == LadderInv /\ [LadderNext]_ladderVars => LadderInv'
<1> SUFFICES ASSUME LadderInv, [LadderNext]_ladderVars PROVE LadderInv'
  OBVIOUS
<1> USE DEF LadderInv
<1>1. Modes \in Nat \ {0} /\ mode \in Mode /\ memory \in [Mode -> Memory] /\ count \in Count
  BY LadderAssumption DEF LadderTypeOK
<1>2. ASSUME NEW q \in Level, Review(q) PROVE LadderInv'
  <2>1. PICK now \in Reviewed(memory[mode], q) :
          LET kept == [memory EXCEPT ![mode] = now] IN
          \/ /\ mode < Modes /\ mode' = mode + 1
             /\ \E next \in Inherit(memory[mode + 1]) : memory' = [kept EXCEPT ![mode + 1] = next]
          \/ mode > 1 /\ mode' = mode - 1 /\ memory' = kept
          \/ mode' = mode /\ memory' = kept
    BY <1>2 DEF Review
  <2>2. now \in Memory /\ now.reviews = memory[mode].reviews + 1 /\ now.stability > 0
    BY <1>1, ReviewedMemory
  <2>3. /\ count' \in Count /\ count'.total = count.total + 1
        /\ count'.recent <= count'.lapses /\ count'.lapses <= count'.total
    BY <1>1, <1>2 DEF Review, Counted, Count, LadderSound
  <2>4. /\ mode' \in Mode /\ memory' \in [Mode -> Memory]
        /\ \A m \in Mode : memory'[m].reviews = memory[m].reviews + (IF m = mode THEN 1 ELSE 0)
        /\ \A m \in Mode : m <= mode' => memory'[m].stability > 0
    <3>1. \A m \in Mode : memory[m] \in Memory /\ memory[m].reviews + 0 = memory[m].reviews
      BY <1>1 DEF Memory
    <3>2. \A m \in Mode : m < mode => memory[m].stability > 0
      BY <1>1 DEF LadderSound, Mode, Count
    <3>3. CASE mode < Modes /\ mode' = mode + 1
               /\ \E next \in Inherit(memory[mode + 1]) :
                    memory' = [[memory EXCEPT ![mode] = now] EXCEPT ![mode + 1] = next]
      <4>1. mode + 1 \in Mode /\ mode + 1 # mode
        BY <1>1, <3>3 DEF Mode
      <4>2. PICK next \in Inherit(memory[mode + 1]) :
              memory' = [[memory EXCEPT ![mode] = now] EXCEPT ![mode + 1] = next]
        BY <3>3
      <4>3. next \in Memory /\ next.reviews = memory[mode + 1].reviews /\ next.stability > 0
        BY <3>1, <4>1, InheritedMemory
      <4>4. memory' \in [Mode -> Memory]
        BY <1>1, <2>2, <4>1, <4>2, <4>3
      <4>5. ASSUME NEW m \in Mode
            PROVE  memory'[m] = IF m = mode + 1 THEN next ELSE IF m = mode THEN now ELSE memory[m]
        BY <1>1, <4>1, <4>2
      <4>6. \A m \in Mode : m <= mode + 1 => m = mode + 1 \/ m = mode \/ m < mode
        BY <1>1 DEF Mode
      <4> QED
        BY <2>2, <3>1, <3>2, <3>3, <4>1, <4>3, <4>4, <4>5, <4>6
    <3>4. CASE /\ memory' = [memory EXCEPT ![mode] = now]
               /\ mode' = mode \/ (mode > 1 /\ mode' = mode - 1)
      <4>1. mode' \in Mode /\ \A m \in Mode : m <= mode' => m = mode \/ m < mode
        BY <1>1, <3>4 DEF Mode
      <4>2. memory' \in [Mode -> Memory]
        BY <1>1, <2>2, <3>4
      <4>3. ASSUME NEW m \in Mode PROVE memory'[m] = IF m = mode THEN now ELSE memory[m]
        BY <1>1, <3>4
      <4> QED
        BY <2>2, <3>1, <3>2, <4>1, <4>2, <4>3
    <3> QED
      BY <2>1, <3>3, <3>4
  <2>5. SumOf(memory')[Modes] = SumOf(memory)[Modes] + 1
    BY <1>1, <2>4, SumGrows
  <2>6. ReviewsUpTo = SumOf(memory) /\ ReviewsUpTo' = SumOf(memory')
    BY DEF ReviewsUpTo, SumOf
  <2>7. ReviewsUpTo'[Modes] = count'.total
    BY <2>3, <2>5, <2>6 DEF LadderSound
  <2>8. dueIn' = TRUE
    BY <1>2 DEF Review
  <2>9. count'.total # 0
    BY <1>1, <2>3 DEF Count
  <2>10. LadderSound'
    BY <2>3, <2>4, <2>7, <2>8 DEF LadderSound
  <2> QED
    BY <2>3, <2>4, <2>8, <2>9, <2>10 DEF LadderTypeOK
<1>3. CASE UNCHANGED ladderVars
  BY <1>3 DEF ladderVars, LadderTypeOK, LadderSound, ReviewsUpTo
<1> QED
  BY <1>2, <1>3 DEF LadderNext

\* Whatever the reviews were, of however many modes: the counters agree, and no
\* mode a word can be in has an empty memory (Engine::State::update).
THEOREM LadderHolds == LadderSpec => []LadderSound
<1>1. LadderInv => LadderSound
  BY DEF LadderInv
<1> QED
  BY <1>1, LadderStart, LadderStep, PTL DEF LadderSpec

-----------------------------------------------------------------------------
(* What the browser build saves, and when its words are due. *)

\* An entry that is listed is found and erased, and nothing else.
LEMMA EraseKeeps ==
  ASSUME NEW q, InKeyOrder(q), NEW e \in Elements(q)
  PROVE  InKeyOrder(EraseDueEntry(q, e)) /\ Elements(EraseDueEntry(q, e)) = Elements(q) \ {e}
<1> DEFINE n == Len(q)
           p == LowerBound(q, e)
           r == RemoveAt(q, p)
<1>1. /\ q \in Seq(Key) /\ n \in Nat /\ DOMAIN q = 1 .. n /\ \A i \in 1 .. n : q[i] \in Key
      /\ \A i, j \in 1 .. n : i < j => EntryBefore(q[i], q[j])
  BY KeysFacts DEF InKeyOrder
<1>2. PICK k \in 1 .. n : q[k] = e
  BY <1>1 DEF Elements
<1>3. e \in Key
  BY <1>1, <1>2
<1>4. p \in 1 .. n + 1 /\ \A i \in 1 .. n : i < p <=> EntryBefore(q[i], e)
  BY <1>3, BoundFacts
<1> HIDE DEF n, p
<1>5. p = k
  <2>1. ~(k < p)
    BY <1>2, <1>3, <1>4, KeyOrder
  <2>2. ~(p < k)
    <3>1. ASSUME p < k PROVE FALSE
      <4>1. p \in 1 .. n /\ ~(p < p)
        BY <1>1, <1>4, <3>1
      <4>2. EntryBefore(q[p], e) /\ ~EntryBefore(q[p], e)
        BY <1>1, <1>2, <1>4, <3>1, <4>1
      <4> QED
        BY <4>2
    <3> QED
      BY <3>1
  <2> QED
    BY <1>1, <1>4, <2>1, <2>2
<1>6. EraseDueEntry(q, e) = r
  <2>1. p <= n
    BY <1>1, <1>5
  <2> QED
    BY <1>2, <1>5, <2>1 DEF EraseDueEntry, n, p
<1>7. /\ r \in Seq(Key) /\ Len(r) = n - 1
      /\ \A i \in 1 .. n - 1 : r[i] = IF i < k THEN q[i] ELSE q[i + 1]
  BY <1>1, <1>5, RemoveFacts DEF n
<1> HIDE DEF r
<1>8. DOMAIN r = 1 .. n - 1
  BY <1>7, LenProperties
<1>9. InKeyOrder(r)
  <2> SUFFICES ASSUME NEW i \in 1 .. n - 1, NEW j \in 1 .. n - 1, i < j
               PROVE  EntryBefore(r[i], r[j])
    BY <1>7, <1>8 DEF InKeyOrder
  <2>1. /\ i \in 1 .. n /\ j \in 1 .. n /\ i + 1 \in 1 .. n /\ j + 1 \in 1 .. n
        /\ i < j /\ i < j + 1 /\ i + 1 < j + 1 /\ (j < k => i < k)
    BY <1>1
  <2>2. r[i] = (IF i < k THEN q[i] ELSE q[i + 1]) /\ r[j] = (IF j < k THEN q[j] ELSE q[j + 1])
    BY <1>7
  <2> QED
    BY <1>1, <2>1, <2>2
<1>10. Elements(r) = Elements(q) \ {e}
  <2>1. ASSUME NEW i \in 1 .. n - 1 PROVE r[i] \in Elements(q) /\ r[i] # e
    <3>1. PICK j \in 1 .. n : r[i] = q[j] /\ j # k
      <4>1. i \in 1 .. n /\ i + 1 \in 1 .. n /\ (i < k => i # k) /\ (~(i < k) => i + 1 # k)
        BY <1>1
      <4> QED
        BY <1>7, <4>1
    <3>2. q[j] # e
      <4>1. j < k \/ k < j
        BY <1>1, <3>1
      <4>2. EntryBefore(q[j], q[k]) \/ EntryBefore(q[k], q[j])
        BY <1>1, <4>1
      <4> QED
        BY <1>2, <1>3, <4>2, KeyOrder
    <3> QED
      BY <1>1, <3>1, <3>2 DEF Elements
  <2>2. ASSUME NEW j \in 1 .. n, q[j] # e PROVE q[j] \in Elements(r)
    <3>1. j # k
      BY <1>2, <2>2
    <3>2. CASE j < k
      <4>1. j \in 1 .. n - 1
        BY <1>1, <3>2
      <4> QED
        BY <1>7, <1>8, <3>2, <4>1 DEF Elements
    <3>3. CASE ~(j < k)
      <4>1. j - 1 \in 1 .. n - 1 /\ ~(j - 1 < k) /\ (j - 1) + 1 = j
        BY <1>1, <3>1, <3>3
      <4>2. r[j - 1] = q[j]
        BY <1>7, <4>1
      <4> QED
        BY <1>8, <4>1, <4>2 DEF Elements
    <3> QED
      BY <3>2, <3>3
  <2> QED
    BY <1>1, <1>8, <2>1, <2>2 DEF Elements
<1> QED
  BY <1>6, <1>9, <1>10

\* An entry that is not listed is put where the order wants it.
LEMMA InsertKeeps ==
  ASSUME NEW q, InKeyOrder(q), NEW e \in Key, e \notin Elements(q)
  PROVE  /\ InKeyOrder(InsertAt(q, LowerBound(q, e), e))
         /\ Elements(InsertAt(q, LowerBound(q, e), e)) = Elements(q) \cup {e}
         /\ Len(InsertAt(q, LowerBound(q, e), e)) = Len(q) + 1
<1> DEFINE n == Len(q)
           p == LowerBound(q, e)
           r == InsertAt(q, p, e)
<1>1. /\ q \in Seq(Key) /\ n \in Nat /\ DOMAIN q = 1 .. n /\ \A i \in 1 .. n : q[i] \in Key
      /\ \A i, j \in 1 .. n : i < j => EntryBefore(q[i], q[j])
  BY KeysFacts DEF InKeyOrder
<1>2. p \in 1 .. n + 1 /\ \A i \in 1 .. n : i < p <=> EntryBefore(q[i], e)
  BY BoundFacts
<1>3. \A i \in 1 .. n : ~(i < p) => EntryBefore(e, q[i])
  BY <1>1, <1>2, KeyOrder DEF Elements
<1>4. /\ r \in Seq(Key) /\ Len(r) = n + 1
      /\ \A i \in 1 .. n + 1 : r[i] = IF i < p THEN q[i] ELSE IF i = p THEN e ELSE q[i - 1]
  <2> HIDE DEF p
  <2>1. p \in 1 .. Len(q) + 1 /\ q \in Seq(Key) /\ e \in Key
    BY <1>1, <1>2
  <2>2. /\ InsertAt(q, p, e) \in Seq(Key) /\ Len(InsertAt(q, p, e)) = Len(q) + 1
        /\ \A i \in 1 .. Len(q) + 1 :
             InsertAt(q, p, e)[i] = IF i < p THEN q[i] ELSE IF i = p THEN e ELSE q[i - 1]
    BY <2>1, InsertFacts, SMTT(60)
  <2> HIDE DEF r
  <2>3. r = InsertAt(q, p, e) /\ n = Len(q)
    BY DEF r
  <2> HIDE DEF n
  <2> QED
    BY <2>2, <2>3, Zenon
<1> HIDE DEF n, p, r
<1>5. DOMAIN r = 1 .. n + 1
  BY <1>4, LenProperties
<1>6. InKeyOrder(r)
  <2> SUFFICES ASSUME NEW i \in 1 .. n + 1, NEW j \in 1 .. n + 1, i < j
               PROVE  EntryBefore(r[i], r[j])
    BY <1>4, <1>5 DEF InKeyOrder
  <2>1. CASE j < p
    <3>1. i \in 1 .. n /\ j \in 1 .. n /\ i < p
      BY <1>1, <1>2, <2>1
    <3> QED
      BY <1>1, <1>4, <2>1, <3>1
  <2>2. CASE j = p
    <3>1. i \in 1 .. n /\ i < p
      BY <1>1, <1>2, <2>2
    <3>2. r[i] = q[i] /\ r[j] = e
      BY <1>1, <1>2, <1>4, <2>2, <3>1
    <3> QED
      BY <1>2, <3>1, <3>2
  <2>3. CASE p < j
    <3>1. j - 1 \in 1 .. n /\ ~(j - 1 < p) /\ ~(j < p) /\ j # p
      BY <1>1, <1>2, <2>3
    <3>2. r[j] = q[j - 1]
      BY <1>4, <3>1
    <3>3. CASE i = p
      <4>1. r[i] = e
        BY <1>1, <1>2, <1>4, <3>3
      <4> QED
        BY <1>3, <3>1, <3>2, <4>1
    <3>4. CASE i < p
      <4>1. i \in 1 .. n /\ i < j - 1
        BY <1>1, <1>2, <2>3, <3>4
      <4> QED
        BY <1>1, <1>4, <3>1, <3>2, <3>4, <4>1
    <3>5. CASE p < i
      <4>1. i - 1 \in 1 .. n /\ i - 1 < j - 1 /\ ~(i < p) /\ i # p
        BY <1>1, <1>2, <3>5
      <4>2. r[i] = q[i - 1]
        BY <1>4, <4>1
      <4> QED
        BY <1>1, <3>1, <3>2, <4>1, <4>2
    <3> QED
      BY <1>2, <3>3, <3>4, <3>5
  <2> QED
    BY <1>2, <2>1, <2>2, <2>3
<1>7. Elements(r) = Elements(q) \cup {e}
  <2>1. ASSUME NEW i \in 1 .. n + 1 PROVE r[i] \in Elements(q) \cup {e}
    <3>1. i < p => i \in 1 .. n
      BY <1>1, <1>2
    <3>2. ~(i < p) /\ i # p => i - 1 \in 1 .. n
      BY <1>1, <1>2
    <3> QED
      BY <1>1, <1>4, <3>1, <3>2 DEF Elements
  <2>2. ASSUME NEW j \in 1 .. n PROVE q[j] \in Elements(r)
    <3>1. CASE j < p
      <4>1. j \in 1 .. n + 1
        BY <1>1
      <4> QED
        BY <1>4, <1>5, <3>1, <4>1 DEF Elements
    <3>2. CASE ~(j < p)
      <4>1. j + 1 \in 1 .. n + 1 /\ ~(j + 1 < p) /\ j + 1 # p /\ (j + 1) - 1 = j
        BY <1>1, <1>2, <3>2
      <4>2. r[j + 1] = q[j]
        BY <1>4, <4>1
      <4> QED
        BY <1>5, <4>1, <4>2 DEF Elements
    <3> QED
      BY <3>1, <3>2
  <2>3. e \in Elements(r)
    <3>1. r[p] = e
      BY <1>1, <1>2, <1>4
    <3> QED
      BY <1>1, <1>2, <1>5, <3>1 DEF Elements
  <2> QED
    BY <1>1, <1>5, <2>1, <2>2, <2>3 DEF Elements
<1> QED
  BY <1>4, <1>6, <1>7 DEF n, p, r

\* Every finite set of entries can be sorted.
LEMMA InOrderFacts ==
  ASSUME NEW U, IsFiniteSet(U), U \subseteq Key
  PROVE  InKeyOrder(InOrder(U)) /\ Elements(InOrder(U)) = U
<1> DEFINE N == Cardinality(U)
           Sorts(q, S) == InKeyOrder(q) /\ Elements(q) = S /\ Len(q) = Cardinality(S)
           Good == {n \in 0 .. N : \A S \in SUBSET U : Cardinality(S) = n => \E q : Sorts(q, S)}
<1>1. N \in Nat
  BY FS_CardinalityType
<1>2. \A S \in SUBSET U : IsFiniteSet(S) /\ Cardinality(S) \in Nat
  BY FS_Subset, FS_CardinalityType
<1>3. 0 \in Good
  <2> SUFFICES ASSUME NEW S \in SUBSET U, Cardinality(S) = 0 PROVE \E q : Sorts(q, S)
    BY <1>1
  <2>1. S = {}
    BY <1>2, FS_EmptySet
  <2>2. Sorts(<<>>, {})
    BY EmptySeq, FS_EmptySet DEF InKeyOrder, Elements
  <2> QED
    BY <2>1, <2>2
<1>4. ASSUME NEW n \in 0 .. N - 1, n \in Good PROVE n + 1 \in Good
  <2> SUFFICES ASSUME NEW S \in SUBSET U, Cardinality(S) = n + 1 PROVE \E q : Sorts(q, S)
    BY <1>1
  <2>1. IsFiniteSet(S) /\ n + 1 # 0 /\ n \in Nat
    BY <1>1, <1>2
  <2>2. PICK e \in S : TRUE
    BY <2>1, FS_EmptySet
  <2>3. S \ {e} \in SUBSET U /\ Cardinality(S \ {e}) = n
    <3>1. Cardinality(S \ {e}) = Cardinality(S) - 1
      BY <2>1, <2>2, FS_RemoveElement
    <3> QED
      BY <2>1, <3>1
  <2>4. PICK q : Sorts(q, S \ {e})
    BY <1>4, <2>3
  <2> DEFINE r == InsertAt(q, LowerBound(q, e), e)
  <2>5. e \in Key /\ e \notin Elements(q)
    BY <2>2, <2>4
  <2>6. InKeyOrder(r) /\ Elements(r) = Elements(q) \cup {e} /\ Len(r) = Len(q) + 1
    BY <2>4, <2>5, InsertKeeps
  <2> HIDE DEF r
  <2>7. Sorts(r, S)
    BY <2>2, <2>3, <2>4, <2>6
  <2> QED
    BY <2>7
<1> HIDE DEF Good
<1>5. N \in Good
  <2>1. \A i \in 0 .. N : i \in Good
    BY <1>1, <1>3, <1>4, Induction
  <2> QED
    BY <1>1, <2>1
<1>6. PICK q : Sorts(q, U)
  BY <1>5 DEF Good
<1> DEFINE Fits(r) == \A i, j \in DOMAIN r : i < j => EntryBefore(r[i], r[j])
<1>7. q \in [1 .. N -> U] /\ Fits(q)
  <2>1. q \in Seq(Key) /\ Len(q) = N /\ DOMAIN q = 1 .. N
    BY <1>6, KeysFacts DEF InKeyOrder
  <2>2. q \in [1 .. N -> Key]
    BY <2>1, LenProperties
  <2>3. \A i \in 1 .. N : q[i] \in U
    BY <1>6, <2>1 DEF Elements
  <2> QED
    BY <1>6, <2>2, <2>3 DEF InKeyOrder
<1> DEFINE r == InOrder(U)
<1>8. r \in [1 .. N -> U] /\ Fits(r)
  BY <1>7 DEF InOrder
<1> HIDE DEF r
<1>9. r \in Seq(Key) /\ DOMAIN r = 1 .. N
  BY <1>1, <1>8, SeqDef
<1>10. InKeyOrder(r)
  BY <1>8, <1>9 DEF InKeyOrder
<1>11. Elements(r) = U
  <2>1. Elements(r) \subseteq U
    BY <1>8, <1>9 DEF Elements
  <2>2. r \in Surjection(1 .. N, Elements(r))
    BY <1>8, <1>9 DEF Surjection, Elements
  <2>3. \A i, j \in 1 .. N : i # j => r[i] # r[j]
    <3> TAKE i, j \in 1 .. N
    <3>1. i # j => i < j \/ j < i
      BY <1>1
    <3>2. r[i] \in Key /\ (i < j => EntryBefore(r[i], r[j])) /\ (j < i => EntryBefore(r[j], r[i]))
      BY <1>8, <1>9
    <3> QED
      BY <3>1, <3>2, KeyOrder
  <2>4. r \in Injection(1 .. N, Elements(r))
    BY <1>8, <1>9, <2>3 DEF Injection, IsInjective, Elements
  <2>5. IsFiniteSet(1 .. N) /\ Cardinality(1 .. N) = N
    BY <1>1, FS_Interval
  <2>6. Cardinality(Elements(r)) = N
    BY <2>2, <2>4, <2>5, FS_Surjection
  <2> QED
    BY <2>1, <2>6, FS_Subset
<1> QED
  BY <1>10, <1>11 DEF r

WebTypeOK ==
  /\ storageKey \in BOOLEAN
  /\ states \in Table /\ storage \in Table \cup {Foreign} /\ told \in Table
  /\ reading \in {"done", "failed", "overwritten"}

\* While the table is open and was read, memory has every state that was reported
\* as saved: the next copy of the whole table will not lose one.
MemoryHasTold ==
  storageKey /\ reading = "done" =>
    \A w \in WordId : told[w] # NoState => states[w] = told[w]

WebInv == WebTypeOK /\ MemoryHasTold /\ ToldIsDurable

LEMMA WebStart == WebInit => WebInv
  BY DEF WebInit, WebInv, WebTypeOK, MemoryHasTold, ToldIsDurable, NoStates, Table

\* A write changes one word in memory, and then saves the whole table or
\* reports that it could not.
LEMMA WebWrite ==
  ASSUME WebInv, storageKey, storageKey' = storageKey,
         NEW w \in WordId, NEW s \in State \cup {NoState}, NEW saved \in BOOLEAN,
         states' = [states EXCEPT ![w] = s], Persist(w, saved)
  PROVE  WebInv'
<1> USE DEF WebInv, WebTypeOK
<1>1. states' \in Table /\ states'[w] = s /\ \A v \in WordId \ {w} : states'[v] = states[v]
  BY DEF Table
<1>2. /\ told' \in Table
      /\ told'[w] = (IF saved THEN s ELSE NoState)
      /\ \A v \in WordId \ {w} : told'[v] = told[v]
  BY <1>1 DEF Table, Persist
<1>3. /\ storage' = IF saved THEN states' ELSE storage
      /\ reading' = IF saved /\ reading = "failed" THEN "overwritten" ELSE reading
  BY DEF Persist
<1>4. WebTypeOK'
  BY <1>1, <1>2, <1>3
<1>5. MemoryHasTold'
  BY <1>1, <1>2, <1>3 DEF MemoryHasTold
<1>6. CASE saved
  <2>1. storage' # Foreign
    BY <1>1, <1>3, <1>6, WebAssumption
  <2>2. reading' # "overwritten" => reading = "done"
    BY <1>3, <1>6
  <2> QED
    BY <1>1, <1>2, <1>3, <1>4, <1>5, <1>6, <2>1, <2>2 DEF MemoryHasTold, ToldIsDurable
<1>7. CASE ~saved
  BY <1>2, <1>3, <1>4, <1>5, <1>7 DEF ToldIsDurable
<1> QED
  BY <1>6, <1>7

LEMMA WebStep == WebInv /\ [WebNext]_webVars => WebInv'
<1> SUFFICES ASSUME WebInv, [WebNext]_webVars PROVE WebInv'
  OBVIOUS
<1> USE DEF WebInv, WebTypeOK
<1>1. CASE WebOpen
  BY <1>1 DEF WebOpen, MemoryHasTold, ToldIsDurable, NoStates, Table
<1>2. CASE WebClose
  BY <1>2 DEF WebClose, MemoryHasTold, ToldIsDurable
<1>3. CASE PageCloses
  BY <1>3 DEF PageCloses, MemoryHasTold, ToldIsDurable, NoStates, Table
<1>4. ASSUME NEW w \in WordId, NEW saved \in BOOLEAN, WebErase(w, saved) PROVE WebInv'
  BY <1>4, WebWrite DEF WebErase
<1>5. ASSUME NEW w \in WordId, NEW saved \in BOOLEAN, NEW s \in State, WebSet(w, s, saved)
      PROVE  WebInv'
  BY <1>5, WebWrite DEF WebSet
<1>6. ASSUME NEW now \in Now, NEW limit \in Limit, WebCollectDue(now, limit) PROVE WebInv'
  BY <1>6 DEF WebCollectDue, MemoryHasTold, ToldIsDurable
<1>7. CASE UNCHANGED webVars
  BY <1>7 DEF webVars, MemoryHasTold, ToldIsDurable
<1> QED
  BY <1>1, <1>2, <1>3, <1>4, <1>5, <1>6, <1>7 DEF WebNext

\* A write that was reported as saved stays saved until its word is written
\* again, unless a table that could not be read is written over
\* (persist_web_states, States::open).
THEOREM ReportedIsSaved == WebSpec => []ToldIsDurable
<1>1. WebInv => ToldIsDurable
  BY DEF WebInv
<1> QED
  BY <1>1, WebStart, WebStep, PTL DEF WebSpec

-----------------------------------------------------------------------------
(* The vector of due entries. *)

LEMMA EntryFacts ==
  ASSUME NEW s \in State, NEW w \in WordId
  PROVE  /\ DueEntry(w, s) \in Key /\ DueEntry(w, s)[2] = w
         /\ DueEntry(w, s)[1] = Map!DueOf(s) /\ Map!DueOf(s) \in Int
<1>1. s.due \in Int /\ w \in Int
  BY WebAssumption
<1>2. Map!DueOf(s) \in Int /\ DueEntry(w, s) = <<Map!DueOf(s), w>>
  BY <1>1 DEF DueEntry, FromZero, Map!DueOf
<1> QED
  BY <1>1, <1>2 DEF Key

LEMMA EntriesFacts ==
  ASSUME NEW t \in Table
  PROVE  /\ IsFiniteSet(Entries(t)) /\ Entries(t) \subseteq Key
         /\ \A w \in WordId : t[w] # NoState => t[w] \in State /\ DueEntry(w, t[w]) \in Entries(t)
         /\ \A e \in Entries(t) :
              e[2] \in WordId /\ t[e[2]] # NoState /\ e = DueEntry(e[2], t[e[2]])
<1> DEFINE V == {v \in WordId : t[v] # NoState}
           f == [v \in V |-> DueEntry(v, t[v])]
<1>1. \A v \in V : t[v] \in State
  BY DEF Table
<1>2. Entries(t) = {DueEntry(v, t[v]) : v \in V}
  BY DEF Entries
<1>3. \A v \in V : DueEntry(v, t[v]) \in Key /\ DueEntry(v, t[v])[2] = v
  BY <1>1, EntryFacts
<1>4. IsFiniteSet(Entries(t))
  <2>1. IsFiniteSet(V)
    BY WebAssumption, FS_Subset
  <2>2. f \in Surjection(V, Entries(t))
    BY <1>2 DEF Surjection
  <2> QED
    BY <2>1, <2>2, FS_Surjection
<1> QED
  BY <1>1, <1>2, <1>3, <1>4

\* A state that is written moves its word's entry.
EntryOf(t, w) == IF t[w] = NoState THEN {} ELSE {DueEntry(w, t[w])}

LEMMA EntriesChange ==
  ASSUME NEW t \in Table, NEW u \in Table, NEW w \in WordId,
         \A v \in WordId \ {w} : u[v] = t[v]
  PROVE  /\ Entries(u) = (Entries(t) \ EntryOf(t, w)) \cup EntryOf(u, w)
         /\ EntryOf(u, w) \cap (Entries(t) \ EntryOf(t, w)) = {}
<1> DEFINE old == EntryOf(t, w)
           new == EntryOf(u, w)
<1>1. \A v \in WordId : u[v] # NoState => u[v] \in State
  BY EntriesFacts
<1>2. ASSUME NEW e \in Entries(u) PROVE e \in (Entries(t) \ old) \cup new
  <2>1. e[2] \in WordId /\ u[e[2]] # NoState /\ e = DueEntry(e[2], u[e[2]])
    BY <1>1, EntriesFacts
  <2>2. CASE e[2] = w
    BY <1>1, <2>1, <2>2 DEF EntryOf
  <2>3. CASE e[2] # w
    <3>1. u[e[2]] = t[e[2]]
      BY <1>1, <2>1, <2>3
    <3>2. e \in Entries(t)
      BY <2>1, <3>1, EntriesFacts
    <3>3. \A x \in old : x[2] = w
      BY EntriesFacts, EntryFacts DEF EntryOf
    <3> QED
      BY <2>3, <3>2, <3>3
  <2> QED
    BY <2>2, <2>3
<1>3. ASSUME NEW e \in Entries(t) \ old PROVE e \in Entries(u) /\ e[2] # w
  <2>1. e[2] \in WordId /\ t[e[2]] # NoState /\ e = DueEntry(e[2], t[e[2]])
    BY EntriesFacts
  <2>2. e[2] # w
    BY <1>3, <2>1 DEF EntryOf
  <2>3. u[e[2]] = t[e[2]]
    BY <1>1, <2>1, <2>2
  <2>4. DueEntry(e[2], u[e[2]]) \in Entries(u)
    BY <1>1, <2>1, <2>3, EntriesFacts
  <2> QED
    BY <2>1, <2>2, <2>3, <2>4
<1>4. ASSUME NEW e \in new PROVE e \in Entries(u) /\ e[2] = w
  <2>1. u[w] # NoState /\ u[w] \in State /\ e = DueEntry(w, u[w])
    BY <1>1, <1>4 DEF EntryOf
  <2>2. DueEntry(w, u[w]) \in Entries(u)
    BY <1>1, <2>1, EntriesFacts
  <2> QED
    BY <1>1, <2>1, <2>2, EntryFacts
<1> HIDE DEF old, new
<1> HIDE DEF old, new
<1>5. Entries(u) = (Entries(t) \ old) \cup new
  BY <1>2, <1>3, <1>4
<1>6. new \cap (Entries(t) \ old) = {}
  BY <1>3, <1>4
<1> QED
  BY <1>1, <1>5, <1>6 DEF old, new

DueIsListed == InKeyOrder(due) /\ Elements(due) = Entries(states)
ScheduleInv == WebInv /\ DueIsListed /\ CollectsDue

\* A due word that was stopped before is late, or the limit was reached.
LEMMA CollectStep ==
  ASSUME ScheduleInv, NEW asked \in Now, NEW limit \in Limit, WebCollectDue(asked, limit)
  PROVE  CollectsDue'
<1> DEFINE m == Len(due)
           now == FromZero(asked)
           stops == {i \in DOMAIN due : due[i][1] > now \/ (limit > 0 /\ i > limit)}
           n == Min(stops \cup {m + 1}) - 1
           q == [i \in 1 .. n |-> due[i][2]]
<1>1. /\ webRet' = [op |-> "due", ok |-> TRUE, now |-> now, limit |-> limit, words |-> q]
      /\ states' = states
  BY DEF WebCollectDue
<1>2. now \in Int /\ limit \in Nat
  BY WebAssumption DEF FromZero
<1> HIDE DEF now
<1>3. /\ m \in Nat /\ DOMAIN due = 1 .. m /\ \A i \in 1 .. m : due[i] \in Key
      /\ \A i, j \in 1 .. m : i < j => EntryBefore(due[i], due[j])
  BY KeysFacts DEF ScheduleInv, DueIsListed, InKeyOrder
<1>4. n \in Int /\ n + 1 \in stops \cup {m + 1} /\ \A s \in stops \cup {m + 1} : n + 1 <= s
  <2> DEFINE least == Min(stops \cup {m + 1})
  <2>1. stops \cup {m + 1} \subseteq Nat
    BY <1>3
  <2>2. least \in stops \cup {m + 1} /\ \A s \in stops \cup {m + 1} : least <= s
    BY <2>1, LeastOf
  <2> HIDE DEF least
  <2>3. least \in Nat /\ least - 1 \in Int /\ (least - 1) + 1 = least
    BY <2>1, <2>2
  <2> QED
    BY <2>2, <2>3 DEF least
<1> HIDE DEF m, n
<1>5. n \in Nat /\ n + 1 \in 1 .. m + 1 /\ n <= m
  BY <1>3, <1>4
<1>6. \A i \in 1 .. n : i \in 1 .. m /\ i \notin stops
  BY <1>3, <1>4, <1>5
<1>7. \A i \in 1 .. n : due[i][1] <= now /\ ~(limit > 0 /\ i > limit)
  <2> TAKE i \in 1 .. n
  <2>1. i \in DOMAIN due /\ ~(due[i][1] > now) /\ ~(limit > 0 /\ i > limit) /\ due[i][1] \in Int
    BY <1>3, <1>6 DEF Key
  <2> QED
    BY <1>2, <2>1
<1>8. \A i \in 1 .. m :
        /\ due[i][2] \in WordId /\ states[due[i][2]] # NoState
        /\ due[i][1] = Map!DueOf(states[due[i][2]]) /\ due[i][1] \in Int /\ due[i][2] \in Int
  <2> TAKE i \in 1 .. m
  <2> DEFINE w == due[i][2]
  <2>1. due[i] \in Entries(states) /\ states \in Table
    BY <1>3 DEF ScheduleInv, DueIsListed, Elements, WebInv, WebTypeOK
  <2>2. w \in WordId /\ states[w] # NoState /\ due[i] = DueEntry(w, states[w])
    BY <2>1, EntriesFacts
  <2>3. states[w] \in State
    BY <2>1, <2>2, EntriesFacts
  <2>4. DueEntry(w, states[w])[1] = Map!DueOf(states[w])
    BY <2>2, <2>3, EntryFacts
  <2> QED
    BY <1>3, <2>2, <2>4 DEF Key
<1>9. \A i, j \in 1 .. m : i < j => Map!Earlier(states, due[i][2], due[j][2])
  BY <1>3, <1>8 DEF EntryBefore, Map!Earlier
<1>10. DOMAIN q = 1 .. n /\ \A i \in 1 .. n : q[i] = due[i][2]
  OBVIOUS
<1>11. Len(q) = n
  <2>1. \A i \in 1 .. n : due[i][2] \in Int
    BY <1>6, <1>8
  <2>2. q \in Seq(Int)
    BY <1>5, <2>1, SeqDef
  <2>3. Len(q) \in Nat /\ 1 .. Len(q) = 1 .. n
    BY <1>10, <2>2, LenProperties
  <2> QED
    BY <1>5, <2>3
<1> HIDE DEF q
<1>12. \A i \in DOMAIN q : Map!IsDue(states, q[i], now)
  BY <1>6, <1>7, <1>8, <1>10 DEF Map!IsDue
<1>13. \A i, j \in DOMAIN q : i < j => Map!Earlier(states, q[i], q[j])
  BY <1>6, <1>9, <1>10
<1>14. ASSUME NEW w \in WordId, Map!IsDue(states, w, now)
       PROVE  \/ \E i \in DOMAIN q : q[i] = w
              \/ /\ limit > 0 /\ Len(q) = limit
                 /\ \A i \in DOMAIN q : Map!Earlier(states, q[i], w)
  <2>1. states[w] # NoState /\ states \in Table
    BY <1>14 DEF Map!IsDue, ScheduleInv, WebInv, WebTypeOK
  <2>2. states[w] \in State /\ DueEntry(w, states[w]) \in Entries(states)
    BY <2>1, EntriesFacts
  <2>3. PICK j \in 1 .. m : due[j] = DueEntry(w, states[w])
    BY <1>3, <2>2 DEF ScheduleInv, DueIsListed, Elements
  <2>4. due[j][2] = w /\ due[j][1] <= now
    BY <1>14, <2>2, <2>3, EntryFacts DEF Map!IsDue
  <2>5. CASE j <= n
    <3>1. j \in 1 .. n
      BY <2>5
    <3> QED
      BY <1>10, <2>4, <3>1
  <2>6. CASE ~(j <= n)
    <3>1. n + 1 \in 1 .. m /\ n + 1 \in stops /\ (n + 1 < j \/ n + 1 = j)
      BY <1>3, <1>4, <1>5, <2>6
    <3>2. ~(due[n + 1][1] > now)
      <4>1. due[n + 1][1] <= due[j][1]
        <5>1. due[n + 1][1] \in Int /\ due[j][1] \in Int
          BY <1>8, <3>1
        <5>2. n + 1 < j => EntryBefore(due[n + 1], due[j])
          BY <1>3, <3>1
        <5> QED
          BY <3>1, <5>1, <5>2 DEF EntryBefore
      <4>2. due[n + 1][1] \in Int /\ due[j][1] \in Int
        BY <1>8, <3>1
      <4> QED
        BY <1>2, <2>4, <4>1, <4>2
    <3>3. limit > 0 /\ n + 1 > limit
      BY <3>1, <3>2
    <3>4. n = limit
      <4>1. n > 0
        BY <1>2, <1>5, <3>3
      <4>2. n \in 1 .. n
        BY <1>5, <4>1
      <4>3. ~(n > limit)
        BY <1>7, <3>3, <4>2
      <4> QED
        BY <1>2, <1>5, <3>3, <4>3
    <3>5. \A i \in 1 .. n : i < j
      BY <1>5, <2>6
    <3>6. \A i \in DOMAIN q : Map!Earlier(states, q[i], w)
      BY <1>6, <1>9, <1>10, <2>4, <3>5
    <3> QED
      BY <1>11, <3>3, <3>4, <3>6
  <2> QED
    BY <2>5, <2>6
<1>15. Map!IsDueList(q, states, now, limit)
  BY <1>12, <1>13, <1>14 DEF Map!IsDueList
<1> QED
  BY <1>1, <1>15 DEF CollectsDue

\* A write erases the entry of the old state and inserts that of the new.
LEMMA ScheduleWrite ==
  ASSUME ScheduleInv, NEW w \in WordId, NEW saved \in BOOLEAN,
         WebErase(w, saved) \/ \E s \in State : WebSet(w, s, saved)
  PROVE  DueIsListed'
<1>1. InKeyOrder(due) /\ Elements(due) = Entries(states) /\ states \in Table
  BY DEF ScheduleInv, DueIsListed, WebInv, WebTypeOK
<1> DEFINE e == DueEntry(w, states[w])
           rest == IF states[w] = NoState THEN due ELSE EraseDueEntry(due, e)
           kept == Entries(states) \ EntryOf(states, w)
<1>2. InKeyOrder(rest) /\ Elements(rest) = kept
  <2>1. CASE states[w] = NoState
    BY <1>1, <2>1 DEF EntryOf
  <2>2. CASE states[w] # NoState
    <3>1. e \in Elements(due)
      BY <1>1, <2>2, EntriesFacts
    <3>2. InKeyOrder(EraseDueEntry(due, e)) /\ Elements(EraseDueEntry(due, e)) = Elements(due) \ {e}
      BY <1>1, <3>1, EraseKeeps
    <3> QED
      BY <1>1, <2>2, <3>2 DEF EntryOf
  <2> QED
    BY <2>1, <2>2
<1>3. CASE WebErase(w, saved)
  <2>1. states[w] # NoState /\ due' = rest /\ states' = [states EXCEPT ![w] = NoState]
    BY <1>3 DEF WebErase
  <2>2. ASSUME NEW u, u = states' PROVE Entries(u) = kept
    <3>1. /\ u[w] = NoState
          /\ Entries(u) = (Entries(states) \ EntryOf(states, w)) \cup EntryOf(u, w)
      <4>1. u \in Table /\ u[w] = NoState /\ \A v \in WordId \ {w} : u[v] = states[v]
        BY <1>1, <2>1, <2>2 DEF Table
      <4> QED
        BY <1>1, <4>1, EntriesChange
    <3> QED
      BY <3>1 DEF EntryOf
  <2> QED
    BY <1>2, <2>1, <2>2 DEF DueIsListed
<1>4. ASSUME NEW s \in State, WebSet(w, s, saved) PROVE DueIsListed'
  <2> DEFINE new == DueEntry(w, s)
  <2>1. due' = InsertAt(rest, LowerBound(rest, new), new) /\ states' = [states EXCEPT ![w] = s]
    BY <1>4 DEF WebSet
  <2>2. s # NoState
    BY WebAssumption
  <2>3. Entries(states') = kept \cup {new} /\ new \notin kept
    <3>1. ASSUME NEW u, u = states' PROVE Entries(u) = kept \cup {new} /\ new \notin kept
      <4>1. /\ u[w] = s /\ Entries(u) = (Entries(states) \ EntryOf(states, w)) \cup EntryOf(u, w)
            /\ EntryOf(u, w) \cap (Entries(states) \ EntryOf(states, w)) = {}
        <5>1. u \in Table /\ u[w] = s /\ \A v \in WordId \ {w} : u[v] = states[v]
          BY <1>1, <2>1, <3>1 DEF Table
        <5> QED
          BY <1>1, <5>1, EntriesChange
      <4> QED
        BY <2>2, <4>1 DEF EntryOf
    <3> QED
      BY <3>1
  <2>4. new \in Key
    BY EntryFacts
  <2> HIDE DEF new, rest, kept
  <2>5. ASSUME NEW q, q = rest
        PROVE  /\ InKeyOrder(InsertAt(q, LowerBound(q, new), new))
               /\ Elements(InsertAt(q, LowerBound(q, new), new)) = kept \cup {new}
    BY <1>2, <2>3, <2>4, <2>5, InsertKeeps
  <2> QED
    BY <2>1, <2>3, <2>5 DEF DueIsListed
<1> QED
  BY <1>3, <1>4

LEMMA ScheduleStep == ScheduleInv /\ [WebNext]_webVars => ScheduleInv'
<1> SUFFICES ASSUME ScheduleInv, [WebNext]_webVars PROVE ScheduleInv'
  OBVIOUS
<1>1. WebInv'
  BY WebStep DEF ScheduleInv
<1>2. states \in Table /\ (storage # Foreign => storage \in Table)
  BY DEF ScheduleInv, WebInv, WebTypeOK
<1>3. InKeyOrder(<<>>) /\ Elements(<<>>) = Entries(NoStates)
  BY EmptySeq DEF InKeyOrder, Elements, Entries, NoStates
<1>4. webRet' = Quiet => CollectsDue'
  BY DEF Quiet, CollectsDue
<1>5. CASE WebOpen
  <2>1. ASSUME due' = InOrder(Entries(storage)), states' = storage, storage # Foreign
        PROVE  DueIsListed'
    BY <1>2, <2>1, EntriesFacts, InOrderFacts DEF DueIsListed
  <2>2. ASSUME due' = <<>>, states' = NoStates
        PROVE  DueIsListed'
    BY <1>3, <2>2 DEF DueIsListed
  <2> QED
    BY <1>1, <1>4, <1>5, <2>1, <2>2 DEF WebOpen, ScheduleInv
<1>6. CASE WebClose
  BY <1>1, <1>4, <1>6 DEF WebClose, ScheduleInv, DueIsListed
<1>7. CASE PageCloses
  BY <1>1, <1>3, <1>4, <1>7 DEF PageCloses, ScheduleInv, DueIsListed
<1>8. ASSUME NEW w \in WordId, NEW saved \in BOOLEAN,
             WebErase(w, saved) \/ \E s \in State : WebSet(w, s, saved)
      PROVE  ScheduleInv'
  <2>1. DueIsListed'
    BY <1>8, ScheduleWrite
  <2>2. webRet' = Quiet
    BY <1>8 DEF WebErase, WebSet
  <2> QED
    BY <1>1, <1>4, <2>1, <2>2 DEF ScheduleInv
<1>9. ASSUME NEW now \in Now, NEW limit \in Limit, WebCollectDue(now, limit) PROVE ScheduleInv'
  <2>1. CollectsDue'
    BY <1>9, CollectStep
  <2>2. DueIsListed'
    BY <1>9 DEF WebCollectDue, ScheduleInv, DueIsListed
  <2> QED
    BY <1>1, <2>1, <2>2 DEF ScheduleInv
<1>10. CASE UNCHANGED webVars
  BY <1>1, <1>10 DEF webVars, ScheduleInv, DueIsListed, CollectsDue
<1> QED
  BY <1>5, <1>6, <1>7, <1>8, <1>9, <1>10 DEF WebNext

\* Whatever is written, refused and reloaded, the vector of due words lists every
\* state once, in order, so that the binary search of engine.cpp finds the entry
\* of a word; and collect_due gives what the store's map promises.
THEOREM ScheduleAgrees == WebSpec => []WebAgrees
<1>1. WebInit => ScheduleInv
  <2> SUFFICES ASSUME WebInit PROVE ScheduleInv
    OBVIOUS
  <2>1. WebInv
    BY WebStart
  <2>2. InKeyOrder(<<>>) /\ Elements(<<>>) = Entries(NoStates)
    BY EmptySeq DEF InKeyOrder, Elements, Entries, NoStates
  <2> QED
    BY <2>1, <2>2 DEF WebInit, ScheduleInv, DueIsListed, CollectsDue, Quiet
<1>2. ScheduleInv => WebAgrees
  BY DEF ScheduleInv, DueIsListed, InKeyOrder, Elements, WebAgrees, DueIsSorted
<1> QED
  BY <1>1, <1>2, ScheduleStep, PTL DEF WebSpec

-----------------------------------------------------------------------------
(* A finite set in an order given by its pairs: the rank of an element is  *)
(* the number of those before it.                                          *)

Rank(S, R, d) == Cardinality({e \in S : <<e, d>> \in R})

StrictOrder(S, R) ==
  /\ \A d \in S : <<d, d>> \notin R
  /\ \A d, e, f \in S : <<d, e>> \in R /\ <<e, f>> \in R => <<d, f>> \in R
  /\ \A d, e \in S : d = e \/ <<d, e>> \in R \/ <<e, d>> \in R

LEMMA RankFacts ==
  ASSUME NEW S, IsFiniteSet(S), NEW R, StrictOrder(S, R)
  PROVE  /\ Cardinality(S) \in Nat
         /\ \A d \in S : Rank(S, R, d) \in 0 .. Cardinality(S) - 1
         /\ \A d, e \in S : <<d, e>> \in R <=> Rank(S, R, d) < Rank(S, R, e)
         /\ \A i \in 1 .. Cardinality(S) : \E d \in S : Rank(S, R, d) = i - 1
<1> DEFINE n == Cardinality(S)
           Before(d) == {e \in S : <<e, d>> \in R}
<1>1. n \in Nat
  BY FS_CardinalityType
<1>2. \A d \in S : IsFiniteSet(Before(d)) /\ Cardinality(Before(d)) \in Nat
  BY FS_Subset, FS_CardinalityType
<1>3. ASSUME NEW d \in S, NEW e \in S, <<d, e>> \in R
      PROVE  Cardinality(Before(d)) < Cardinality(Before(e))
  <2>1. Before(d) \subseteq Before(e) /\ d \in Before(e) /\ d \notin Before(d)
    BY <1>3 DEF StrictOrder
  <2>2. /\ Cardinality(Before(d)) <= Cardinality(Before(e))
        /\ Cardinality(Before(e)) = Cardinality(Before(d)) => Before(e) = Before(d)
    BY <1>2, <2>1, FS_Subset
  <2> HIDE DEF Before
  <2>3. Cardinality(Before(d)) # Cardinality(Before(e))
    BY <2>1, <2>2
  <2> QED
    BY <1>2, <2>2, <2>3
<1>4. ASSUME NEW d \in S PROVE Cardinality(Before(d)) \in 0 .. n - 1
  <2>1. Before(d) \in SUBSET S /\ d \notin Before(d)
    BY DEF StrictOrder
  <2>2. Cardinality(Before(d)) <= n /\ (n = Cardinality(Before(d)) => S = Before(d))
    BY <2>1, FS_Subset
  <2> HIDE DEF Before, n
  <2>3. Cardinality(Before(d)) # n
    BY <2>1, <2>2
  <2> QED
    BY <1>1, <1>2, <2>2, <2>3
<1>5. \A d \in S : Rank(S, R, d) = Cardinality(Before(d))
  BY DEF Rank
<1> HIDE DEF n, Before
<1>6. \A d \in S : Rank(S, R, d) \in 0 .. n - 1
  BY <1>4, <1>5
<1>7. ASSUME NEW d \in S, NEW e \in S PROVE <<d, e>> \in R <=> Rank(S, R, d) < Rank(S, R, e)
  <2>1. Rank(S, R, d) \in Int /\ Rank(S, R, e) \in Int
    BY <1>6
  <2>2. <<d, e>> \in R => Rank(S, R, d) < Rank(S, R, e)
    BY <1>3, <1>5
  <2>3. <<e, d>> \in R => Rank(S, R, e) < Rank(S, R, d)
    BY <1>3, <1>5
  <2>4. d = e \/ <<d, e>> \in R \/ <<e, d>> \in R
    BY DEF StrictOrder
  <2> QED
    BY <2>1, <2>2, <2>3, <2>4
<1>8. ASSUME NEW i \in 1 .. n PROVE \E d \in S : Rank(S, R, d) = i - 1
  <2> DEFINE f == [d \in S |-> Rank(S, R, d)]
  <2>1. f \in [S -> 0 .. n - 1]
    BY <1>6
  <2>2. \A d, e \in S : f[d] = f[e] => d = e
    <3> TAKE d, e \in S
    <3>1. Rank(S, R, d) \in Int /\ Rank(S, R, e) \in Int
      BY <1>6
    <3>2. d = e \/ <<d, e>> \in R \/ <<e, d>> \in R
      BY DEF StrictOrder
    <3> QED
      BY <1>7, <3>1, <3>2
  <2>3. f \in Injection(S, 0 .. n - 1)
    BY <2>1, <2>2 DEF Injection, IsInjective
  <2>4. 0 \in Int /\ n - 1 \in Int /\ n \in Nat /\ n # 0
    BY <1>1
  <2>5. IsFiniteSet(0 .. n - 1) /\ Cardinality(0 .. n - 1) = n
    BY <2>4, FS_Interval
  <2>6. Cardinality(S) = Cardinality(0 .. n - 1)
    BY <2>5 DEF n
  <2> HIDE DEF f
  <2>7. f \in Surjection(S, 0 .. n - 1)
    BY <2>3, <2>5, <2>6, FS_Injection
  <2>8. i - 1 \in 0 .. n - 1
    BY <1>1
  <2>9. \E d \in S : f[d] = i - 1
    BY <2>7, <2>8 DEF Surjection
  <2> QED
    BY <2>9 DEF f
<1> QED
  BY <1>1, <1>6, <1>7, <1>8 DEF n

LEMMA SameInterval ==
  ASSUME NEW a \in Nat, NEW b \in Nat, 1 .. a = 1 .. b
  PROVE  a = b
<1>1. a \in 1 .. a \/ a = 0
  OBVIOUS
<1>2. b \in 1 .. b \/ b = 0
  OBVIOUS
<1> QED
  BY <1>1, <1>2

\* The elements at the places of their ranks.
InRanks(q, S, R) ==
  /\ DOMAIN q = 1 .. Cardinality(S)
  /\ \A i \in 1 .. Cardinality(S) : q[i] \in S /\ Rank(S, R, q[i]) = i - 1

LEMMA InRanksFacts ==
  ASSUME NEW S, IsFiniteSet(S), NEW R, StrictOrder(S, R), NEW q, InRanks(q, S, R),
         q = [i \in 1 .. Cardinality(S) |-> q[i]]
  PROVE  /\ q \in Seq(S) /\ Len(q) = Cardinality(S) /\ Range(q) = S
         /\ \A i, j \in DOMAIN q : <<q[i], q[j]>> \in R <=> i < j
<1> DEFINE n == Cardinality(S)
<1>1. /\ n \in Nat /\ DOMAIN q = 1 .. n
      /\ \A i \in 1 .. n : q[i] \in S /\ Rank(S, R, q[i]) = i - 1
      /\ \A d \in S : Rank(S, R, d) \in 0 .. n - 1
      /\ \A d, e \in S : <<d, e>> \in R <=> Rank(S, R, d) < Rank(S, R, e)
  BY RankFacts DEF InRanks
<1>2. q = [i \in 1 .. n |-> q[i]]
  OBVIOUS
<1> HIDE DEF n
<1>3. q \in [1 .. n -> S]
  BY <1>1, <1>2
<1>4. q \in Seq(S)
  BY <1>1, <1>3, SeqDef
<1>5. Len(q) = n
  <2>1. Len(q) \in Nat /\ 1 .. Len(q) = 1 .. n
    BY <1>1, <1>4, LenProperties
  <2> QED
    BY <1>1, <2>1, SameInterval
<1>6. Range(q) = S
  <2>1. ASSUME NEW d \in S PROVE \E i \in 1 .. n : q[i] = d
    <3> DEFINE i == Rank(S, R, d) + 1
    <3>1. i \in 1 .. n /\ i - 1 = Rank(S, R, d) /\ Rank(S, R, d) \in Int
      BY <1>1
    <3>2. q[i] \in S /\ Rank(S, R, q[i]) = Rank(S, R, d)
      BY <1>1, <3>1
    <3>3. q[i] = d \/ <<q[i], d>> \in R \/ <<d, q[i]>> \in R
      BY <3>2 DEF StrictOrder
    <3> HIDE DEF i
    <3>4. q[i] = d
      BY <1>1, <3>1, <3>2, <3>3
    <3> QED
      BY <3>1, <3>4
  <2> QED
    BY <1>1, <2>1 DEF Range
<1>7. ASSUME NEW i \in 1 .. n, NEW j \in 1 .. n PROVE <<q[i], q[j]>> \in R <=> i < j
  <2>1. i - 1 < j - 1 <=> i < j
    BY <1>1
  <2> QED
    BY <1>1, <2>1
<1> QED
  BY <1>1, <1>4, <1>5, <1>6, <1>7 DEF n

-----------------------------------------------------------------------------
(* The word store. *)

LEMMA DocsFacts ==
  ASSUME docs \in Dictionary
  PROVE  /\ IsFiniteSet(DOMAIN docs) /\ DOMAIN docs \subseteq Nat \ {0}
         /\ \A d \in DOMAIN docs : /\ docs[d].popularity \in 0 .. 255
                                   /\ docs[d].letters \in Nat /\ docs[d].order \in Nat
BY StoreAssumption

\* By popularity, and by their numbers when they are equally popular.
MorePopular(S) ==
  {p \in S \X S : \/ docs[p[1]].popularity > docs[p[2]].popularity
                  \/ docs[p[1]].popularity = docs[p[2]].popularity /\ p[1] < p[2]}

LEMMA PopularOrder ==
  ASSUME docs \in Dictionary, NEW S, S \subseteq DOMAIN docs
  PROVE  StrictOrder(S, MorePopular(S))
<1>1. \A d \in S : d \in Nat /\ docs[d].popularity \in Nat
  BY DocsFacts
<1>2. \A d, e \in S :
        <<d, e>> \in MorePopular(S) <=>
          \/ docs[d].popularity > docs[e].popularity
          \/ docs[d].popularity = docs[e].popularity /\ d < e
  BY DEF MorePopular
<1> QED
  BY <1>1, <1>2 DEF StrictOrder

\* The documents that a link may mean.
Candidates(link) ==
  {d \in DOMAIN docs :
     /\ (docs[d].type = "phrase") = link.phrase
     /\ IF link.phrase \/ Len(link.text) > 1 THEN HasPhrase(docs[d].lemma, link.text)
        ELSE link.text[1] \in Range(docs[d].lemma)}

LEMMA MatchesFacts ==
  ASSUME docs \in Dictionary, NEW link
  PROVE  /\ Matches(link).top \subseteq Candidates(link)
         /\ Matches(link).total <= TopOfMatches => Matches(link).top = Candidates(link)
         /\ Matches(link).total = Cardinality(Candidates(link))
<1> DEFINE S == Candidates(link)
           R == MorePopular(S)
           comes(d, e) == \/ docs[d].popularity > docs[e].popularity
                          \/ docs[d].popularity = docs[e].popularity /\ d < e
           q == Sorted(S, comes)
           m == Min({TopOfMatches, Len(q)})
<1>1. Matches(link) = [total |-> Cardinality(S), top |-> {q[i] : i \in 1 .. m}]
  BY DEF Matches, Candidates
<1>2. S \subseteq DOMAIN docs /\ IsFiniteSet(S) /\ StrictOrder(S, R)
  BY DocsFacts, FS_Subset, PopularOrder DEF Candidates
<1>3. q = [i \in 1 .. Cardinality(S) |->
             CHOOSE d \in S : Cardinality({e \in S : comes(e, d)}) = i - 1]
  BY DEF Sorted
<1>4. \A d \in S : {e \in S : <<e, d>> \in R} = {e \in S : comes(e, d)}
  BY DEF MorePopular
<1>5. \A d \in S : Rank(S, R, d) = Cardinality({e \in S : comes(e, d)})
  BY <1>4 DEF Rank
<1> HIDE DEF S, R
<1>13. q = [i \in 1 .. Cardinality(S) |-> q[i]]
  BY <1>3
<1> HIDE DEF comes, q
<1>6. InRanks(q, S, R)
  <2>1. ASSUME NEW i \in 1 .. Cardinality(S) PROVE q[i] \in S /\ Rank(S, R, q[i]) = i - 1
    <3>1. \E d \in S : Cardinality({e \in S : comes(e, d)}) = i - 1
      BY <1>2, <1>5, RankFacts
    <3>2. q[i] = CHOOSE d \in S : Cardinality({e \in S : comes(e, d)}) = i - 1
      BY <1>3
    <3>3. q[i] \in S /\ Cardinality({e \in S : comes(e, q[i])}) = i - 1
      BY <3>1, <3>2
    <3> QED
      BY <1>5, <3>3
  <2>2. DOMAIN q = 1 .. Cardinality(S)
    BY <1>3
  <2> QED
    BY <2>1, <2>2 DEF InRanks
<1>8. q \in Seq(S) /\ Len(q) = Cardinality(S) /\ Range(q) = S /\ Len(q) \in Nat
  BY <1>2, <1>6, <1>13, InRanksFacts, LenProperties
<1>9. m \in Nat /\ m <= Len(q) /\ (Len(q) <= TopOfMatches => m = Len(q))
  <2>1. TopOfMatches \in Nat
    BY StoreAssumption
  <2>2. m \in {TopOfMatches, Len(q)} /\ m <= TopOfMatches /\ m <= Len(q)
    <3>1. {TopOfMatches, Len(q)} \subseteq Nat /\ {TopOfMatches, Len(q)} # {}
      BY <1>8, <2>1
    <3> QED
      BY <3>1, LeastOf
  <2> QED
    BY <1>8, <2>1, <2>2
<1> HIDE DEF m
<1>10. DOMAIN q = 1 .. Len(q)
  BY <1>8, LenProperties
<1>11. {q[i] : i \in 1 .. m} \subseteq S
  BY <1>8, <1>9, <1>10 DEF Range
<1>12. Len(q) <= TopOfMatches => {q[i] : i \in 1 .. m} = S
  BY <1>8, <1>9, <1>10 DEF Range
<1> QED
  BY <1>1, <1>8, <1>11, <1>12 DEF S

TopScore == 10255

LEMMA ScoreFacts ==
  ASSUME NEW d, NEW link, docs[d].popularity \in 0 .. 255
  PROVE  /\ Score(d, link) \in 0 .. TopScore
         /\ docs[d].capital = link.capital => Score(d, link) >= 10000
         /\ docs[d].capital # link.capital => Score(d, link) < 10000
<1> DEFINE p == docs[d].popularity
           bonus == IF docs[d].capital = link.capital THEN 10000 ELSE 0
<1>1. p \in 0 .. 255
  OBVIOUS
<1>2. docs[d].capital = link.capital => bonus = 10000
  BY SMT
<1>3. docs[d].capital # link.capital => bonus = 0
  BY SMT
<1>4. Score(d, link) = p + bonus
  BY SMT DEF Score
<1>5. p + bonus \in 0 .. TopScore
  <2>1. bonus = 10000 \/ bonus = 0
    BY <1>2, <1>3
  <2>2. TopScore = 10255
    BY SMT DEF TopScore
  <2> HIDE DEF p, bonus
  <2> QED
    BY <1>1, <2>1, <2>2, SMT
<1> HIDE DEF p, bonus
<1>6. Score(d, link) \in 0 .. TopScore
  BY <1>4, <1>5, Zenon
<1>7. docs[d].capital = link.capital => Score(d, link) >= 10000
  BY <1>1, <1>2, <1>4, SMT
<1>8. docs[d].capital # link.capital => Score(d, link) < 10000
  BY <1>1, <1>3, <1>4, SMT
<1> QED
  BY <1>6, <1>7, <1>8

\* The least of the elements with the largest value.
IsGreatest(d, S, f) == \A e \in S : f[d] > f[e] \/ (f[d] = f[e] /\ d <= e)

LEMMA GreatestOf ==
  ASSUME NEW S, S \subseteq Nat, S # {}, NEW n \in Nat, NEW f \in [S -> 0 .. n]
  PROVE  \E d \in S : IsGreatest(d, S, f)
<1> DEFINE Low == {n - f[d] : d \in S}
<1>1. Low \subseteq Nat /\ Low # {}
  <2>1. \A d \in S : f[d] \in 0 .. n
    OBVIOUS
  <2>2. \A d \in S : n - f[d] \in Nat
    BY <2>1
  <2> QED
    BY <2>2
<1>2. Min(Low) \in Low /\ \A s \in Low : Min(Low) <= s
  <2> HIDE DEF Low
  <2> QED
    BY <1>1, LeastOf
<1>3. PICK c \in S : Min(Low) = n - f[c]
  BY <1>2
<1>4. \A e \in S : n - f[e] \in Low
  OBVIOUS
<1>5. \A e \in S : n - f[c] <= n - f[e]
  <2> HIDE DEF Low
  <2> QED
    BY <1>2, <1>3, <1>4
<1>6. \A e \in S : f[c] >= f[e]
  <2> SUFFICES ASSUME NEW e \in S PROVE f[c] >= f[e]
    OBVIOUS
  <2>1. f[c] \in Int /\ f[e] \in Int
    OBVIOUS
  <2> QED
    BY <1>5, <2>1
<1> DEFINE Even == {d \in S : f[d] = f[c]}
<1>7. Even \subseteq Nat /\ Even # {}
  OBVIOUS
<1>8. Min(Even) \in Even /\ \A s \in Even : Min(Even) <= s
  <2> HIDE DEF Even
  <2> QED
    BY <1>7, LeastOf
<1> DEFINE d == Min(Even)
<1>9. d \in S /\ f[d] = f[c] /\ \A e \in S : f[e] = f[c] => d <= e
  BY <1>8
<1> HIDE DEF d
<1>10. ASSUME NEW e \in S PROVE f[d] > f[e] \/ (f[d] = f[e] /\ d <= e)
  <2>1. f[c] \in Int /\ f[e] \in Int /\ f[c] >= f[e]
    BY <1>6
  <2> QED
    BY <1>9, <2>1
<1> QED
  BY <1>9, <1>10 DEF IsGreatest

\* The best of the documents that fit.
LEMMA BestFacts ==
  ASSUME docs \in Dictionary, NEW link, NEW top, top \subseteq DOMAIN docs
  PROVE  LET fit == {d \in top : Suits(d, link)}
         IN  IF fit = {} THEN Best(top, link) = 0
             ELSE /\ Best(top, link) \in fit
                  /\ \A e \in fit : Score(Best(top, link), link) >= Score(e, link)
<1> DEFINE fit == {d \in top : Suits(d, link)}
           f == [d \in fit |-> Score(d, link)]
           IsBest(d) == \A e \in fit : \/ Score(d, link) > Score(e, link)
                                       \/ Score(d, link) = Score(e, link) /\ d <= e
<1>1. fit \subseteq Nat /\ \A d \in fit : docs[d].popularity \in 0 .. 255
  BY DocsFacts
<1> HIDE DEF fit
<1>2. \A d \in fit : Score(d, link) \in 0 .. TopScore
  <2> SUFFICES ASSUME NEW d \in fit PROVE Score(d, link) \in 0 .. TopScore
    OBVIOUS
  <2>1. docs[d].popularity \in 0 .. 255
    BY <1>1
  <2> QED
    BY <2>1, ScoreFacts
<1>3. CASE fit = {}
  BY <1>3 DEF Best, fit
<1>4. CASE fit # {}
  <2>1. f \in [fit -> 0 .. TopScore] /\ TopScore \in Nat
    <3>1. TopScore \in Nat
      BY SMT DEF TopScore
    <3>2. f \in [fit -> 0 .. TopScore]
      BY <1>2
    <3> QED
      BY <3>1, <3>2
  <2>2. \A d \in fit : f[d] = Score(d, link)
    OBVIOUS
  <2> HIDE DEF f
  <2>3. \E d \in fit : IsGreatest(d, fit, f)
    BY <1>1, <1>4, <2>1, GreatestOf
  <2>4. \E d \in fit : IsBest(d)
    BY <2>2, <2>3 DEF IsGreatest
  <2>5. Best(top, link) = CHOOSE d \in fit : IsBest(d)
    BY <1>4 DEF Best, fit
  <2>6. Best(top, link) \in fit /\ IsBest(Best(top, link))
    BY <2>4, <2>5
  <2>7. ASSUME NEW e \in fit PROVE Score(Best(top, link), link) >= Score(e, link)
    <3>1. Score(Best(top, link), link) \in Int /\ Score(e, link) \in Int
      BY <1>2, <2>6
    <3> QED
      BY <2>6, <3>1
  <2> QED
    BY <1>4, <2>6, <2>7 DEF fit
<1> QED
  BY <1>3, <1>4 DEF fit

FoundOK ==
  /\ docs \in Dictionary
  /\ \A f \in Range(found) : f.link \in Link /\ f.doc = Best(Matches(f.link).top, f.link)

LEMMA FoundFits ==
  ASSUME FoundOK
  PROVE  LinkFindsWord
<1> SUFFICES ASSUME NEW f \in Range(found)
             PROVE  LET m == Matches(f.link)
                        fit == {d \in DOMAIN docs : Suits(d, f.link)}
                    IN /\ f.doc # 0 => Suits(f.doc, f.link)
                       /\ fit # {} /\ m.total <= TopOfMatches => f.doc # 0
                       /\ (\E d \in fit \cap m.top : docs[d].capital = f.link.capital)
                            => docs[f.doc].capital = f.link.capital
  BY DEF LinkFindsWord
<1> DEFINE link == f.link
           top == Matches(link).top
           all == {d \in DOMAIN docs : Suits(d, link)}
           fit == {d \in top : Suits(d, link)}
           best == Best(top, link)
<1>1. f.doc = best /\ link \in Link /\ docs \in Dictionary
  BY DEF FoundOK
<1>2. /\ top \subseteq Candidates(link)
      /\ Matches(link).total <= TopOfMatches => top = Candidates(link)
  BY <1>1, MatchesFacts
<1>3. top \subseteq DOMAIN docs
  BY <1>2 DEF Candidates
<1>4. /\ fit = {} => best = 0
      /\ fit # {} => best \in fit /\ \A e \in fit : Score(best, link) >= Score(e, link)
  <2> HIDE DEF top, link
  <2> QED
    BY <1>1, <1>3, BestFacts
<1>5. all \subseteq Candidates(link)
  <2> SUFFICES ASSUME NEW d \in DOMAIN docs, Suits(d, link) PROVE d \in Candidates(link)
    OBVIOUS
  <2>1. docs[d].lemma = link.text /\ (docs[d].type = "phrase") = link.phrase
    BY DEF Suits
  <2>2. link.text \in Seq(Range(link.text)) /\ link.text # <<>>
    BY <1>1, StoreAssumption
  <2>3. Len(link.text) \in Nat \ {0} /\ DOMAIN link.text = 1 .. Len(link.text)
    BY <2>2, LenProperties, EmptySeq
  <2>4. HasPhrase(docs[d].lemma, link.text)
    <3>1. 0 \in 0 .. Len(docs[d].lemma) - Len(link.text)
      BY <2>1, <2>3
    <3>2. \A j \in DOMAIN link.text : docs[d].lemma[0 + j] = link.text[j]
      BY <2>1, <2>3
    <3> QED
      BY <3>1, <3>2 DEF HasPhrase
  <2>5. link.text[1] \in Range(docs[d].lemma)
    BY <2>1, <2>3 DEF Range
  <2> QED
    BY <2>1, <2>4, <2>5 DEF Candidates
<1>6. best # 0 => Suits(best, link)
  BY <1>4
<1>7. all # {} /\ Matches(link).total <= TopOfMatches => best # 0
  <2>1. ASSUME all # {}, Matches(link).total <= TopOfMatches PROVE best # 0
    <3>1. fit # {}
      BY <1>2, <1>5, <2>1
    <3>2. best \in DOMAIN docs
      BY <1>3, <1>4, <3>1
    <3> QED
      BY <1>1, <3>2, DocsFacts
  <2> QED
    BY <2>1
<1>8. ASSUME NEW d \in all \cap top, docs[d].capital = link.capital
      PROVE  docs[best].capital = link.capital
  <2>1. d \in fit /\ best \in fit /\ Score(best, link) >= Score(d, link)
    BY <1>4
  <2>2. docs[d].popularity \in 0 .. 255 /\ docs[best].popularity \in 0 .. 255
    BY <1>1, <1>3, <2>1, DocsFacts
  <2> HIDE DEF best, link
  <2>3. Score(d, link) \in 0 .. TopScore /\ Score(best, link) \in 0 .. TopScore
    BY <2>2, ScoreFacts
  <2>4. docs[best].capital # link.capital => Score(best, link) < 10000
    BY <2>2, ScoreFacts
  <2>5. Score(d, link) >= 10000
    BY <1>8, <2>2, ScoreFacts
  <2> QED
    BY <2>1, <2>3, <2>4, <2>5
<1> QED
  BY <1>1, <1>6, <1>7, <1>8

\* Keys are compared like words: by the first number in which they differ.
LEMMA KeyBeforeFacts ==
  ASSUME NEW a1, NEW a2, NEW a3, NEW a4, NEW b1, NEW b2, NEW b3, NEW b4
  PROVE  KeyBefore(<<a1, a2, a3, a4>>, <<b1, b2, b3, b4>>) <=>
           \/ a1 < b1
           \/ a1 = b1 /\ a2 < b2
           \/ a1 = b1 /\ a2 = b2 /\ a3 < b3
           \/ a1 = b1 /\ a2 = b2 /\ a3 = b3 /\ a4 < b4
<1> DEFINE k == <<a1, a2, a3, a4>>
           l == <<b1, b2, b3, b4>>
           At(i) == k[i] < l[i] /\ \A j \in 1 .. i - 1 : k[j] = l[j]
<1>1. DOMAIN k = 1 .. 4
  OBVIOUS
<1>2. /\ k[1] = a1 /\ k[2] = a2 /\ k[3] = a3 /\ k[4] = a4
      /\ l[1] = b1 /\ l[2] = b2 /\ l[3] = b3 /\ l[4] = b4
  OBVIOUS
<1>3. KeyBefore(k, l) <=> \E i \in 1 .. 4 : At(i)
  BY <1>1 DEF KeyBefore
<1> HIDE DEF k, l
<1>4. (\E i \in 1 .. 4 : At(i)) <=> At(1) \/ At(2) \/ At(3) \/ At(4)
  <2> HIDE DEF At
  <2> QED
    OBVIOUS
<1>5. 1 .. 0 = {} /\ 1 .. 1 = {1} /\ 1 .. 2 = {1, 2} /\ 1 .. 3 = {1, 2, 3}
  OBVIOUS
<1>6. /\ At(1) <=> a1 < b1
      /\ At(2) <=> a1 = b1 /\ a2 < b2
      /\ At(3) <=> a1 = b1 /\ a2 = b2 /\ a3 < b3
      /\ At(4) <=> a1 = b1 /\ a2 = b2 /\ a3 = b3 /\ a4 < b4
  BY <1>2, <1>5
<1> HIDE DEF At
<1> QED
  BY <1>3, <1>4, <1>6 DEF k, l

-----------------------------------------------------------------------------
(* How much a document weighs when only translations are searched. *)

LEMMA CoordFacts ==
  ASSUME NEW query, query \in Seq(Range(query)), query # <<>>, NEW text
  PROVE  /\ Coord(query, text) \in 0 .. Len(query) + 1
         /\ PhraseCoord(query, text) \in 0 .. Len(query)
<1>1. Len(query) \in Nat
  BY LenProperties
<1>2. Coord(query, text) \in {0, Len(query), Len(query) + 1}
  <2> DEFINE c == /\ Range(Front(query)) \subseteq Range(text)
                  /\ \E t \in Range(text) : t = Last(query) \/ <<Last(query), t>> \in Completes
             b == Last(query) \in Range(text)
             n == Len(query)
  <2>1. Coord(query, text) = IF c THEN n + (IF b THEN 1 ELSE 0) ELSE 0
    BY DEF Coord
  <2> HIDE DEF c, b, n
  <2>2. n \in Nat
    BY <1>1 DEF n
  <2>3. Coord(query, text) \in {0, n, n + 1}
    BY <2>1, <2>2
  <2> QED
    BY <2>3 DEF n
<1>3. PhraseOf(query) = query \/ PhraseOf(query) = Front(query)
  BY DEF PhraseOf
<1>4. Len(Front(query)) = Len(query) - 1
  <2> DEFINE T == Range(query)
             n == Len(query) - 1
  <2>1. query \in Seq(T) /\ Len(query) # 0
    BY EmptySeq
  <2>2. n \in Nat /\ n <= Len(query)
    BY <1>1, <2>1
  <2>3. Front(query) = SubSeq(query, 1, n)
    BY DEF Front
  <2> HIDE DEF T
  <2>4. /\ 1 \in 1 .. Len(query) + 1 /\ n \in 1 - 1 .. Len(query)
    BY <1>1, <2>2
  <2>5. Len(SubSeq(query, 1, n)) = IF 1 <= n THEN n - 1 + 1 ELSE 0
    BY <2>1, <2>2, <2>4, SubSeqProperties
  <2> HIDE DEF n
  <2>6. Len(SubSeq(query, 1, n)) = n
    BY <2>2, <2>5
  <2> QED
    BY <2>3, <2>6 DEF n
<1>5. PhraseCoord(query, text) \in {0, Len(PhraseOf(query))}
  BY DEF PhraseCoord
<1> QED
  BY <1>1, <1>2, <1>3, <1>4, <1>5

LEMMA GreatestOfThree ==
  ASSUME NEW a \in Int, NEW b \in Int, NEW c \in Int
  PROVE  /\ Max({a, b, c}) \in {a, b, c}
         /\ a <= Max({a, b, c}) /\ b <= Max({a, b, c}) /\ c <= Max({a, b, c})
<1> DEFINE S == {a, b, c}
<1>1. \E x \in S : \A y \in S : x >= y
  OBVIOUS
<1>2. Max(S) = CHOOSE x \in S : \A y \in S : x >= y
  BY DEF Max
<1>3. Max(S) \in S /\ \A y \in S : Max(S) >= y
  BY <1>1, <1>2
<1> QED
  BY <1>3

\* With fewer than five words nothing weighs as much as an exact translation.
LEMMA ExactWeighsMost ==
  ASSUME NEW query, query \in Seq(Range(query)), query # <<>>, NEW d
  PROVE  LET r == Relevance(query, "TranslationsOnly", d)
             exact == MatchesExactly(query, docs[d])
         IN /\ r \in Nat
            /\ exact => r >= 500
            /\ ~exact /\ Len(query) <= 4 => r <= 400
<1> DEFINE text == TranslationText(docs[d])
           exact == MatchesExactly(query, docs[d])
           a == 500 * (IF exact THEN 1 ELSE 0)
           p == PhraseCoord(query, text)
           k == Coord(query, text)
           n == Len(query)
           r == Relevance(query, "TranslationsOnly", d)
<1>1. n \in Nat /\ k \in 0 .. n + 1 /\ p \in 0 .. n
  BY CoordFacts, LenProperties
<1>2. r = Max({a, 100 * p, 10 * k} \cup {})
  BY DEF Relevance, Weights
<1>3. {a, 100 * p, 10 * k} \cup {} = {a, 100 * p, 10 * k}
  OBVIOUS
<1>4. exact => a = 500
  OBVIOUS
<1>5. ~exact => a = 0
  OBVIOUS
<1>6. a = 500 \/ a = 0
  BY <1>4, <1>5
<1> HIDE DEF a, p, k, n, r, exact
<1>7. a \in Int /\ 100 * p \in Int /\ 10 * k \in Int
  BY <1>1, <1>6
<1>8. r = Max({a, 100 * p, 10 * k})
  BY <1>2, <1>3
<1>9. r \in {a, 100 * p, 10 * k} /\ a <= r
  BY <1>7, <1>8, GreatestOfThree
<1>10. r \in Nat
  BY <1>1, <1>6, <1>9
<1>11. exact => r >= 500
  BY <1>4, <1>9, <1>10
<1>12. ~exact /\ n <= 4 => r <= 400
  BY <1>1, <1>5, <1>9
<1> QED
  BY <1>10, <1>11, <1>12 DEF r, exact, n

-----------------------------------------------------------------------------
(* The order of the results of a search among translations. *)

Hits(query) == {d \in DOMAIN docs : Relevance(query, "TranslationsOnly", d) > 0}

\* By relevance, then by the keys.
MoreRelevant(query, S) ==
  {p \in S \X S :
     LET r(d) == Relevance(query, "TranslationsOnly", d)
         key(d) == KeyMaker("TranslationsOnly", d)
     IN r(p[1]) > r(p[2]) \/ (r(p[1]) = r(p[2]) /\ KeyBefore(key(p[1]), key(p[2])))}

LEMMA RelevantOrder ==
  ASSUME docs \in Dictionary, NEW query, query \in Seq(Range(query)), query # <<>>,
         NEW S, S \subseteq DOMAIN docs
  PROVE  StrictOrder(S, MoreRelevant(query, S))
<1> DEFINE r(d) == Relevance(query, "TranslationsOnly", d)
           key(d) == KeyMaker("TranslationsOnly", d)
           p(d) == 255 - docs[d].popularity
           l(d) == docs[d].letters
           o(d) == docs[d].order
<1>1. ASSUME NEW d \in S
      PROVE  p(d) \in Int /\ l(d) \in Int /\ o(d) \in Int /\ d \in Int
  <2>1. docs[d].popularity \in 0 .. 255 /\ docs[d].letters \in Nat /\ docs[d].order \in Nat
    BY DocsFacts
  <2>2. d \in Nat
    BY DocsFacts
  <2>3. p(d) \in Int
    <3> DEFINE x == docs[d].popularity
    <3>1. x \in 0 .. 255
      BY <2>1
    <3> HIDE DEF x
    <3>2. 255 - x \in Int
      BY <3>1
    <3> QED
      BY <3>2 DEF x
  <2>4. l(d) \in Int /\ o(d) \in Int
    BY <2>1
  <2> QED
    BY <2>2, <2>3, <2>4
<1>2. \A d \in S : r(d) \in Int
  BY ExactWeighsMost
<1>3. \A d \in S : key(d) = <<p(d), l(d), o(d), d>>
  BY DEF KeyMaker
<1> HIDE DEF p, l, o
<1>4. \A d, e \in S :
        KeyBefore(key(d), key(e)) <=>
          \/ p(d) < p(e)
          \/ p(d) = p(e) /\ l(d) < l(e)
          \/ p(d) = p(e) /\ l(d) = l(e) /\ o(d) < o(e)
          \/ p(d) = p(e) /\ l(d) = l(e) /\ o(d) = o(e) /\ d < e
  <2> TAKE d, e \in S
  <2>1. key(d) = <<p(d), l(d), o(d), d>> /\ key(e) = <<p(e), l(e), o(e), e>>
    BY <1>3
  <2> HIDE DEF key
  <2> QED
    BY <2>1, KeyBeforeFacts
<1>5. \A d, e \in S :
        <<d, e>> \in MoreRelevant(query, S) <=>
          r(d) > r(e) \/ (r(d) = r(e) /\ KeyBefore(key(d), key(e)))
  BY DEF MoreRelevant
<1> HIDE DEF r, key
<1> DEFINE Before(d, e) == <<d, e>> \in MoreRelevant(query, S)
<1>6. \A d, e \in S :
        Before(d, e) <=>
          \/ r(d) > r(e)
          \/ r(d) = r(e) /\ p(d) < p(e)
          \/ r(d) = r(e) /\ p(d) = p(e) /\ l(d) < l(e)
          \/ r(d) = r(e) /\ p(d) = p(e) /\ l(d) = l(e) /\ o(d) < o(e)
          \/ r(d) = r(e) /\ p(d) = p(e) /\ l(d) = l(e) /\ o(d) = o(e) /\ d < e
  BY <1>4, <1>5
<1> HIDE DEF Before
<1>7. \A d \in S : ~Before(d, d)
  BY <1>1, <1>2, <1>6
<1>8. \A d, e \in S : d = e \/ Before(d, e) \/ Before(e, d)
  BY <1>1, <1>2, <1>6
<1>9. \A d, e, f \in S : Before(d, e) /\ Before(e, f) => Before(d, f)
  <2> TAKE d, e, f \in S
  <2>1. /\ p(d) \in Int /\ l(d) \in Int /\ o(d) \in Int /\ d \in Int /\ r(d) \in Int
        /\ p(e) \in Int /\ l(e) \in Int /\ o(e) \in Int /\ e \in Int /\ r(e) \in Int
        /\ p(f) \in Int /\ l(f) \in Int /\ o(f) \in Int /\ f \in Int /\ r(f) \in Int
    BY <1>1, <1>2
  <2> SUFFICES ASSUME Before(d, e), Before(e, f) PROVE Before(d, f)
    OBVIOUS
  <2>2. r(d) >= r(e) /\ r(e) >= r(f)
    BY <1>6, <2>1
  <2>3. CASE r(d) > r(f)
    BY <1>6, <2>3
  <2>4. CASE ~(r(d) > r(f))
    <3>1. r(d) = r(e) /\ r(e) = r(f)
      BY <2>1, <2>2, <2>4
    <3>2. p(d) <= p(e) /\ p(e) <= p(f)
      BY <1>6, <2>1, <3>1
    <3>3. CASE p(d) < p(f)
      BY <1>6, <3>1, <3>3
    <3>4. CASE ~(p(d) < p(f))
      <4>1. p(d) = p(e) /\ p(e) = p(f)
        BY <2>1, <3>2, <3>4
      <4> QED
        BY <1>6, <2>1, <3>1, <4>1
    <3> QED
      BY <3>3, <3>4
  <2> QED
    BY <2>3, <2>4
<1> QED
  BY <1>7, <1>8, <1>9 DEF StrictOrder, Before

LEMMA SearchFacts ==
  ASSUME docs \in Dictionary, NEW query, query \in Seq(Range(query)), query # <<>>
  PROVE  LET hits == SearchMset(query, "TranslationsOnly")
             S == Hits(query)
         IN /\ hits \in Seq(S) /\ Range(hits) = S
            /\ \A i, j \in DOMAIN hits : <<hits[i], hits[j]>> \in MoreRelevant(query, S) <=> i < j
<1> DEFINE S == Hits(query)
           R == MoreRelevant(query, S)
           r(d) == Relevance(query, "TranslationsOnly", d)
           key(d) == KeyMaker("TranslationsOnly", d)
           comes(d, e) == r(d) > r(e) \/ (r(d) = r(e) /\ KeyBefore(key(d), key(e)))
           q == Sorted(S, comes)
<1>1. SearchMset(query, "TranslationsOnly") = q
  BY DEF SearchMset, Hits
<1>2. S \subseteq DOMAIN docs /\ IsFiniteSet(S) /\ StrictOrder(S, R)
  BY DocsFacts, FS_Subset, RelevantOrder DEF Hits
<1>3. q = [i \in 1 .. Cardinality(S) |->
             CHOOSE d \in S : Cardinality({e \in S : comes(e, d)}) = i - 1]
  BY DEF Sorted
<1>4. \A d \in S : {e \in S : <<e, d>> \in R} = {e \in S : comes(e, d)}
  BY DEF MoreRelevant
<1>5. \A d \in S : Rank(S, R, d) = Cardinality({e \in S : comes(e, d)})
  BY <1>4 DEF Rank
<1> HIDE DEF S, R
<1>6. q = [i \in 1 .. Cardinality(S) |-> q[i]]
  BY <1>3
<1> HIDE DEF comes, q
<1>7. InRanks(q, S, R)
  <2>1. ASSUME NEW i \in 1 .. Cardinality(S) PROVE q[i] \in S /\ Rank(S, R, q[i]) = i - 1
    <3>1. \E d \in S : Cardinality({e \in S : comes(e, d)}) = i - 1
      BY <1>2, <1>5, RankFacts
    <3>2. q[i] = CHOOSE d \in S : Cardinality({e \in S : comes(e, d)}) = i - 1
      BY <1>3
    <3>3. q[i] \in S /\ Cardinality({e \in S : comes(e, q[i])}) = i - 1
      BY <3>1, <3>2
    <3> QED
      BY <1>5, <3>3
  <2>2. DOMAIN q = 1 .. Cardinality(S)
    BY <1>3
  <2> QED
    BY <2>1, <2>2 DEF InRanks
<1>8. /\ q \in Seq(S) /\ Range(q) = S
      /\ \A i, j \in DOMAIN q : <<q[i], q[j]>> \in R <=> i < j
  BY <1>2, <1>6, <1>7, InRanksFacts
<1> QED
  BY <1>1, <1>8 DEF S, R

\* What the last search found.
SeenOK ==
  /\ docs \in Dictionary
  /\ \A s \in Range(seen) : s.query \in Query /\ s.hits = SearchMset(s.query, s.mode)

LEMMA SeenFits ==
  ASSUME SeenOK
  PROVE  ExactFirst
<1> SUFFICES ASSUME NEW s \in Range(seen), s.mode = "TranslationsOnly", Len(s.query) \in 1 .. 4,
                    s.query \notin LongText
             PROVE  LET exact(d) == s.query \in Meanings(docs[d])
                    IN /\ \A i, j \in DOMAIN s.hits : exact(s.hits[j]) /\ ~exact(s.hits[i]) => j < i
                       /\ \A d \in DOMAIN docs : exact(d) => d \in Range(s.hits)
  BY DEF ExactFirst
<1> DEFINE query == s.query
           q == s.hits
           S == Hits(query)
           R == MoreRelevant(query, S)
           r(d) == Relevance(query, "TranslationsOnly", d)
           exact(d) == query \in Meanings(docs[d])
<1>1. docs \in Dictionary /\ query \in Seq(Range(query)) /\ query # <<>>
  <2>1. query \in Query /\ docs \in Dictionary
    BY DEF SeenOK
  <2>2. Len(query) # 0
    <3>1. Len(query) \in 1 .. 4
      OBVIOUS
    <3> HIDE DEF query
    <3> QED
      BY <3>1
  <2> HIDE DEF query
  <2>3. query \in Seq(Range(query))
    BY <2>1, StoreAssumption
  <2>4. query # <<>>
    <3>1. Len(<<>>) = 0
      OBVIOUS
    <3> QED
      BY <2>2, <3>1
  <2> QED
    BY <2>1, <2>3, <2>4
<1>2. q = SearchMset(query, "TranslationsOnly") /\ Len(query) \in Nat /\ Len(query) <= 4
  <2>1. q = SearchMset(query, "TranslationsOnly")
    BY DEF SeenOK
  <2>2. Len(query) \in 1 .. 4
    OBVIOUS
  <2> HIDE DEF query, q
  <2>3. Len(query) \in Nat /\ Len(query) <= 4
    <3> DEFINE n == Len(query)
    <3>1. n \in 1 .. 4
      BY <2>2
    <3> HIDE DEF n
    <3>2. n \in Nat /\ n <= 4
      BY <3>1
    <3> QED
      BY <3>2 DEF n
  <2> QED
    BY <2>1, <2>3
<1> HIDE DEF query
<1>3. /\ q \in Seq(S) /\ Range(q) = S
      /\ \A i, j \in DOMAIN q : <<q[i], q[j]>> \in R <=> i < j
  <2> HIDE DEF q, S, R
  <2> QED
    BY <1>1, <1>2, SearchFacts DEF S, R
<1>m. \A d : exact(d) <=> MatchesExactly(query, docs[d])
  BY DEF MatchesExactly, ExactTerms, query
<1>4. \A d : r(d) \in Nat /\ (exact(d) => r(d) >= 500) /\ (~exact(d) => r(d) <= 400)
  BY <1>1, <1>2, <1>m, ExactWeighsMost
<1> HIDE DEF q
<1>5. ASSUME NEW i \in DOMAIN q, NEW j \in DOMAIN q, exact(q[j]), ~exact(q[i]) PROVE j < i
  <2>1. q[i] \in S /\ q[j] \in S
    BY <1>3 DEF Range
  <2>2. r(q[j]) > r(q[i])
    <3> HIDE DEF r, exact
    <3>1. r(q[j]) >= 500 /\ r(q[i]) <= 400 /\ r(q[i]) \in Nat /\ r(q[j]) \in Nat
      BY <1>4, <1>5
    <3> QED
      BY <3>1
  <2>3. <<q[j], q[i]>> \in R
    BY <2>1, <2>2 DEF MoreRelevant
  <2> QED
    BY <1>3, <2>3
<1>6. ASSUME NEW d \in DOMAIN docs, exact(d) PROVE d \in Range(q)
  <2>1. r(d) > 0
    <3> HIDE DEF r, exact
    <3>1. r(d) >= 500 /\ r(d) \in Nat
      BY <1>4, <1>6
    <3> QED
      BY <3>1
  <2>2. d \in S
    BY <2>1 DEF Hits
  <2> QED
    BY <1>3, <2>2
<1> QED
  BY <1>5, <1>6 DEF query, q

-----------------------------------------------------------------------------
(* The words that get_random_words_by_type has drawn and lost. *)

Lost == (OfType(task.type) \ pool) \ out

StoreTyped ==
  /\ docs \in Dictionary
  /\ task \in [kind : {"idle", "XP1", "XP2", "any", "type", "over"},
               type : {"nil", "noun", "verb", "adj", "phrase"}, count : Nat, need : Int]
  /\ pool \subseteq DOMAIN docs /\ out \subseteq DOMAIN docs
  /\ picked \in Nat /\ attempts \in Nat

\* Every draw took a word or lost it, and lost it only when it was rare and early.
DrawsCounted ==
  task.kind = "type" =>
    /\ task.type # "nil" /\ task.need = task.count /\ task.count > 0
    /\ pool \subseteq OfType(task.type) /\ out \subseteq OfType(task.type)
    /\ pool \cap out = {}
    /\ picked = Cardinality(out) /\ picked <= task.count
    /\ attempts = picked + Cardinality(Lost) /\ Cardinality(Lost) < task.count * 8
    /\ \A d \in Lost : docs[d].popularity < 30

StoreInv ==
  /\ StoreTyped /\ DrawsCounted /\ EnoughWords
  /\ task.type # "nil" => task.kind \in {"type", "over"}

LEMMA LeastOfTwo ==
  ASSUME NEW a \in Int, NEW b \in Int
  PROVE  Min({a, b}) \in Int /\ Min({a, b}) <= a /\ Min({a, b}) <= b
<1>1. \E x \in {a, b} : \A y \in {a, b} : x <= y
  OBVIOUS
<1>2. Min({a, b}) \in {a, b} /\ \A y \in {a, b} : Min({a, b}) <= y
  BY <1>1 DEF Min
<1> QED
  BY <1>2

\* What EnoughWords says of the words that came out.
Enough(type, wanted) ==
  LET all == OfType(type)
      popular == {d \in all : docs[d].popularity >= 30}
  IN /\ out \subseteq all /\ Cardinality(out) <= wanted
     /\ Cardinality(out) >= Min({wanted, Cardinality(popular)})
     /\ Cardinality(out) >= Min({wanted, Cardinality(all) - (wanted * 8 - 1)})

LEMMA EnoughAtTheEnd ==
  ASSUME StoreTyped, DrawsCounted, task.kind = "type", Over
  PROVE  Enough(task.type, task.count)
<1> DEFINE all == OfType(task.type)
           popular == {d \in all : docs[d].popularity >= 30}
           lost == Lost
           c == task.count
           o == Cardinality(out)
           l == Cardinality(lost)
           a == Cardinality(all)
           p == Cardinality(popular)
<1>1. IsFiniteSet(DOMAIN docs) /\ all \subseteq DOMAIN docs
  BY DocsFacts DEF StoreTyped, OfType
<1>2. /\ task.need = c /\ c > 0 /\ pool \subseteq all /\ out \subseteq all
      /\ picked = o /\ picked <= c /\ attempts = picked + l /\ l < c * 8
      /\ \A d \in lost : docs[d].popularity < 30
  BY DEF DrawsCounted
<1>3. lost = (all \ pool) \ out /\ popular \subseteq all
  BY DEF Lost
<1>4. /\ IsFiniteSet(all) /\ IsFiniteSet(out) /\ IsFiniteSet(lost) /\ IsFiniteSet(popular)
  <2> HIDE DEF all, lost, popular
  <2>1. IsFiniteSet(all)
    BY <1>1, FS_Subset
  <2> QED
    BY <1>2, <1>3, <2>1, FS_Subset
<1>5. a \in Nat /\ o \in Nat /\ l \in Nat /\ p \in Nat /\ c \in Nat
  <2>1. c \in Nat
    BY DEF StoreTyped
  <2> QED
    BY <1>4, <2>1, FS_CardinalityType
<1>6. \A d \in all : docs[d].popularity \in Int
  BY <1>1, DocsFacts DEF StoreTyped
<1>7. pool = {} => a = o + l /\ p <= o
  <2> SUFFICES ASSUME pool = {} PROVE a = o + l /\ p <= o
    OBVIOUS
  <2>1. popular \cap lost = {}
    <3> SUFFICES ASSUME NEW d \in popular, d \in lost PROVE FALSE
      OBVIOUS
    <3>1. docs[d].popularity >= 30 /\ docs[d].popularity \in Int
      BY <1>6
    <3> QED
      BY <1>2, <3>1
  <2> HIDE DEF all, lost, popular
  <2>2. all = out \cup lost /\ out \cap lost = {}
    BY <1>2, <1>3
  <2>3. popular \subseteq out
    BY <1>3, <2>1, <2>2
  <2>4. Cardinality(out \cap lost) = 0
    BY <2>2, FS_EmptySet
  <2>5. Cardinality(out \cup lost) = Cardinality(out) + Cardinality(lost) - Cardinality(out \cap lost)
    BY <1>4, FS_Union
  <2>6. p <= o
    BY <1>4, <2>3, FS_Subset
  <2> QED
    BY <1>5, <2>2, <2>4, <2>5, <2>6
<1> HIDE DEF all, lost, popular, c, o, l, a, p
<1>8. pool = {} \/ picked >= c \/ attempts >= c * 15 + 30
  BY <1>2 DEF Over, MaxAttempts, c
<1>9. o >= c \/ (a = o + l /\ p <= o)
  BY <1>2, <1>5, <1>7, <1>8
<1>10. /\ c \in Int /\ p \in Int /\ a - (c * 8 - 1) \in Int
  BY <1>5
<1>11. /\ Min({c, p}) \in Int /\ Min({c, p}) <= c /\ Min({c, p}) <= p
       /\ Min({c, a - (c * 8 - 1)}) \in Int /\ Min({c, a - (c * 8 - 1)}) <= c
       /\ Min({c, a - (c * 8 - 1)}) <= a - (c * 8 - 1)
  BY <1>10, LeastOfTwo
<1>12. o >= Min({c, p})
  BY <1>5, <1>9, <1>11
<1>13. o >= Min({c, a - (c * 8 - 1)})
  <2> DEFINE m == Min({c, a - (c * 8 - 1)})
  <2>1. m \in Int /\ m <= c /\ m <= a - (c * 8 - 1)
    BY <1>11
  <2> HIDE DEF m
  <2>2. o >= m
    BY <1>2, <1>5, <1>9, <2>1
  <2> QED
    BY <2>2 DEF m
<1>14. out \subseteq all /\ o <= c
  BY <1>2, <1>5
<1> QED
  BY <1>12, <1>13, <1>14 DEF Enough, all, popular, c, o, a, p

LEMMA DrawCounts ==
  ASSUME StoreInv, DrawByType
  PROVE  StoreTyped' /\ DrawsCounted'
<1> DEFINE all == OfType(task.type)
<1>1. PICK d \in pool : Attempt(d) /\ IF TooRare(d) THEN Skip ELSE Take(d)
  BY DEF DrawByType
<1>2. docs' = docs /\ task' = task /\ task.kind = "type"
  BY DEF DrawByType
<1>3. picked < task.need /\ attempts' = attempts + 1 /\ pool' = pool \ {d}
  BY <1>1, <1>2 DEF Attempt
<1>4. /\ StoreTyped /\ task.type # "nil" /\ task.need = task.count /\ task.count > 0
      /\ pool \subseteq all /\ out \subseteq all /\ pool \cap out = {}
      /\ picked = Cardinality(out) /\ picked <= task.count
      /\ attempts = picked + Cardinality(Lost) /\ Cardinality(Lost) < task.count * 8
      /\ \A e \in Lost : docs[e].popularity < 30
  BY <1>2 DEF StoreInv, DrawsCounted
<1>5. OfType(task.type)' = all
  BY <1>2 DEF OfType
<1>6. /\ picked \in Nat /\ attempts \in Nat /\ task.count \in Nat
      /\ pool \subseteq DOMAIN docs /\ out \subseteq DOMAIN docs /\ docs \in Dictionary
  BY <1>4 DEF StoreTyped
<1>7. IsFiniteSet(out) /\ IsFiniteSet(Lost) /\ Cardinality(Lost) \in Nat
  <2>1. IsFiniteSet(DOMAIN docs) /\ Lost \subseteq DOMAIN docs
    BY <1>6, DocsFacts DEF Lost, OfType
  <2> QED
    BY <1>6, <2>1, FS_Subset, FS_CardinalityType
<1>8. d \notin out /\ d \notin Lost /\ d \in all
  BY <1>4 DEF Lost
<1>9. Lost' = (all \ (pool \ {d})) \ out'
  BY <1>3, <1>5 DEF Lost
<1> HIDE DEF all
<1>10. CASE TooRare(d)
  <2>1. out' = out /\ picked' = picked /\ attempts + 1 < task.count * 8 /\ docs[d].popularity < 30
    BY <1>1, <1>10 DEF Skip, TooRare, IsEarly
  <2>2. Lost' = Lost \cup {d}
    BY <1>5, <1>8, <1>9, <2>1 DEF Lost, all
  <2>3. Cardinality(Lost \cup {d}) = Cardinality(Lost) + 1
    BY <1>7, <1>8, FS_AddElement
  <2>4. attempts' = picked' + Cardinality(Lost') /\ Cardinality(Lost') < task.count * 8
    <3> DEFINE n == Cardinality(Lost)
    <3>1. n \in Nat /\ attempts = picked + n /\ Cardinality(Lost') = n + 1
      BY <1>4, <1>7, <2>2, <2>3
    <3> HIDE DEF n
    <3> QED
      BY <1>3, <1>6, <2>1, <3>1
  <2>5. \A e \in Lost' : docs'[e].popularity < 30
    BY <1>2, <1>4, <2>1, <2>2
  <2>6. StoreTyped'
    BY <1>2, <1>3, <1>4, <1>6, <2>1 DEF StoreTyped
  <2>7. DrawsCounted'
    BY <1>2, <1>3, <1>4, <1>5, <2>1, <2>4, <2>5 DEF DrawsCounted
  <2> QED
    BY <2>6, <2>7
<1>11. CASE ~TooRare(d)
  <2>1. out' = out \cup {d} /\ picked' = picked + 1
    BY <1>1, <1>11 DEF Take
  <2>2. Lost' = Lost
    BY <1>5, <1>8, <1>9, <2>1 DEF Lost, all
  <2>3. Cardinality(out') = Cardinality(out) + 1
    BY <1>7, <1>8, <2>1, FS_AddElement
  <2>4. /\ attempts' = picked' + Cardinality(Lost') /\ Cardinality(Lost') < task.count * 8
        /\ picked' = Cardinality(out') /\ picked' <= task.count
    BY <1>3, <1>4, <1>6, <1>7, <2>1, <2>2, <2>3
  <2>5. \A e \in Lost' : docs'[e].popularity < 30
    BY <1>2, <1>4, <2>2
  <2>6. StoreTyped'
    BY <1>2, <1>3, <1>4, <1>6, <2>1 DEF StoreTyped
  <2>7. pool' \subseteq all /\ out' \subseteq all /\ pool' \cap out' = {}
    BY <1>3, <1>4, <1>8, <2>1
  <2>8. DrawsCounted'
    BY <1>2, <1>4, <1>5, <2>4, <2>5, <2>7 DEF DrawsCounted
  <2> QED
    BY <2>6, <2>8
<1> QED
  BY <1>10, <1>11

\* What a document is worth does not change with anything but the documents.
LEMMA DocsDecide ==
  ASSUME docs' = docs, NEW link, NEW top, NEW query, NEW m, NEW type
  PROVE  /\ Matches(link)' = Matches(link)
         /\ Best(top, link)' = Best(top, link)
         /\ SearchMset(query, m)' = SearchMset(query, m)
         /\ OfType(type)' = OfType(type)
<1>1. Matches(link)' = Matches(link)
  BY DEF Matches, Sorted
<1>2. Best(top, link)' = Best(top, link)
  BY DEF Best, Suits, Score
<1>3. SearchMset(query, m)' = SearchMset(query, m)
  BY DEF SearchMset, Sorted, Relevance, Weights, MatchesExactly, KeyMaker
<1>4. OfType(type)' = OfType(type)
  BY DEF OfType
<1> QED
  BY <1>1, <1>2, <1>3, <1>4

LEMMA OneOf ==
  ASSUME NEW r
  PROVE  Range(<<r>>) = {r} /\ Range(<<>>) = {}
BY DEF Range

LEMMA StoreStart == StoreInit => FoundOK /\ SeenOK /\ StoreInv
<1> SUFFICES ASSUME StoreInit PROVE FoundOK /\ SeenOK /\ StoreInv
  OBVIOUS
<1>1. /\ docs \in Dictionary /\ seen = <<>> /\ found = <<>>
      /\ task = [kind |-> "idle", type |-> "nil", count |-> 0, need |-> 0]
      /\ pool = {} /\ out = {} /\ picked = 0 /\ attempts = 0
  BY DEF StoreInit, Idle
<1>2. FoundOK /\ SeenOK
  BY <1>1, OneOf DEF FoundOK, SeenOK
<1>3. StoreTyped
  BY <1>1 DEF StoreTyped
<1>4. task.kind = "idle" /\ task.type = "nil"
  BY <1>1
<1>5. DrawsCounted /\ EnoughWords /\ (task.type # "nil" => task.kind \in {"type", "over"})
  BY <1>4 DEF DrawsCounted, EnoughWords
<1> QED
  BY <1>2, <1>3, <1>5 DEF StoreInv

\* Of the actions only the two lookups and the draws remember anything.
LEMMA FoundStep == FoundOK /\ [StoreNext]_storeVars => FoundOK'
<1> SUFFICES ASSUME FoundOK, [StoreNext]_storeVars PROVE FoundOK'
  OBVIOUS
<1>1. docs' = docs
  BY DEF StoreNext, SearchWords, FindWord, GetRandomWordsByType, GetSmartSuggestions,
         DrawByType, DrawSuggestion, DrawHole, NextShare, Return, storeVars
<1>2. CASE found' = found
  <2> SUFFICES ASSUME NEW f \in Range(found)
               PROVE  f.link \in Link /\ f.doc = (Best(Matches(f.link).top, f.link))'
    BY <1>1, <1>2 DEF FoundOK
  <2> DEFINE link == f.link
  <2>1. link \in Link /\ f.doc = Best(Matches(link).top, link)
    BY DEF FoundOK
  <2> HIDE DEF link
  <2>2. (Best(Matches(link).top, link))' = Best(Matches(link).top, link)
    <3>1. Matches(link)' = Matches(link)
      BY <1>1, DocsDecide
    <3> QED
      BY <1>1, <3>1 DEF Best, Suits, Score
  <2> QED
    BY <2>1, <2>2 DEF link
<1>3. CASE found' = <<>>
  BY <1>1, <1>3, OneOf DEF FoundOK
<1>4. ASSUME NEW link \in Link, FindWord(link) PROVE FoundOK'
  <2>1. found' = <<[link |-> link, doc |-> Best(Matches(link).top, link)]>>
    BY <1>4 DEF FindWord
  <2>2. (Best(Matches(link).top, link))' = Best(Matches(link).top, link)
    <3>1. Matches(link)' = Matches(link)
      BY <1>1, DocsDecide
    <3> QED
      BY <1>1, <3>1 DEF Best, Suits, Score
  <2> QED
    BY <1>1, <2>1, <2>2, OneOf DEF FoundOK
<1>5. \/ found' = found \/ found' = <<>> \/ \E link \in Link : FindWord(link)
  BY DEF StoreNext, SearchWords, GetRandomWordsByType, GetSmartSuggestions,
         DrawByType, DrawSuggestion, DrawHole, NextShare, Return, storeVars
<1> QED
  BY <1>2, <1>3, <1>4, <1>5

LEMMA SeenStep == SeenOK /\ [StoreNext]_storeVars => SeenOK'
<1> SUFFICES ASSUME SeenOK, [StoreNext]_storeVars PROVE SeenOK'
  OBVIOUS
<1>1. docs' = docs
  BY DEF StoreNext, SearchWords, FindWord, GetRandomWordsByType, GetSmartSuggestions,
         DrawByType, DrawSuggestion, DrawHole, NextShare, Return, storeVars
<1>2. CASE seen' = seen
  <2> SUFFICES ASSUME NEW s \in Range(seen)
               PROVE  s.query \in Query /\ s.hits = (SearchMset(s.query, s.mode))'
    BY <1>1, <1>2 DEF SeenOK
  <2>1. s.query \in Query /\ s.hits = SearchMset(s.query, s.mode)
    BY DEF SeenOK
  <2> QED
    BY <1>1, <2>1, DocsDecide
<1>3. CASE seen' = <<>>
  BY <1>1, <1>3, OneOf DEF SeenOK
<1>4. ASSUME NEW q \in Query, NEW m \in {"All", "TranslationsOnly"}, SearchWords(q, m) PROVE SeenOK'
  <2>1. seen' = <<[query |-> q, mode |-> m, hits |-> SearchMset(q, m)]>>
    BY <1>4 DEF SearchWords
  <2>2. SearchMset(q, m)' = SearchMset(q, m)
    BY <1>1, DocsDecide
  <2> QED
    BY <1>1, <2>1, <2>2, OneOf DEF SeenOK
<1>5. \/ seen' = seen \/ seen' = <<>>
      \/ \E q \in Query, m \in {"All", "TranslationsOnly"} : SearchWords(q, m)
  BY DEF StoreNext, FindWord, GetRandomWordsByType, GetSmartSuggestions,
         DrawByType, DrawSuggestion, DrawHole, NextShare, Return, storeVars
<1> QED
  BY <1>2, <1>3, <1>4, <1>5

LEMMA PostingFacts ==
  ASSUME NEW term
  PROVE  Posting(term) \subseteq DOMAIN docs
BY DEF Posting

\* The draws of suggestions, which promise no number of words.
Otherwise == task.type = "nil" /\ task.kind # "type"

LEMMA OtherwiseHolds ==
  ASSUME StoreTyped', Otherwise'
  PROVE  StoreInv'
BY DEF StoreInv, DrawsCounted, EnoughWords, Otherwise

LEMMA TaskFacts ==
  ASSUME StoreTyped
  PROVE  /\ task.kind \in {"idle", "XP1", "XP2", "any", "type", "over"}
         /\ task.type \in {"nil", "noun", "verb", "adj", "phrase"}
         /\ task.count \in Nat /\ task.need \in Int
         /\ task = [kind |-> task.kind, type |-> task.type, count |-> task.count, need |-> task.need]
BY DEF StoreTyped

LEMMA StoreStep == StoreInv /\ [StoreNext]_storeVars => StoreInv'
<1> SUFFICES ASSUME StoreInv, [StoreNext]_storeVars PROVE StoreInv'
  OBVIOUS
<1>1. StoreTyped /\ docs \in Dictionary /\ Wanted \subseteq Nat
  BY StoreAssumption DEF StoreInv, StoreTyped
<1>2. /\ pool \subseteq DOMAIN docs /\ out \subseteq DOMAIN docs
      /\ picked \in Nat /\ attempts \in Nat
  BY <1>1 DEF StoreTyped
<1>3. /\ task.kind \in {"idle", "XP1", "XP2", "any", "type", "over"}
      /\ task.type \in {"nil", "noun", "verb", "adj", "phrase"}
      /\ task.count \in Nat /\ task.need \in Int
  BY <1>1, TaskFacts
<1>4. ASSUME UNCHANGED <<docs, task, pool, out, picked, attempts>> PROVE StoreInv'
  <2>1. \A t : OfType(t)' = OfType(t)
    BY <1>4 DEF OfType
  <2>2. StoreTyped'
    BY <1>1, <1>4 DEF StoreTyped
  <2>3. DrawsCounted'
    BY <1>4, <2>1 DEF StoreInv, DrawsCounted, Lost
  <2>4. EnoughWords'
    BY <1>4, <2>1 DEF StoreInv, EnoughWords
  <2> QED
    BY <1>4, <2>2, <2>3, <2>4 DEF StoreInv
<1>5. ASSUME NEW q \in Query, NEW m \in {"All", "TranslationsOnly"}, SearchWords(q, m) PROVE StoreInv'
  BY <1>4, <1>5 DEF SearchWords
<1>6. ASSUME NEW l \in Link, FindWord(l) PROVE StoreInv'
  BY <1>4, <1>6 DEF FindWord
<1>7. ASSUME NEW t \in {"noun", "verb", "adj", "phrase"}, NEW n \in Wanted, GetRandomWordsByType(t, n)
      PROVE  StoreInv'
  <2>1. /\ n > 0 /\ task' = [kind |-> "type", type |-> t, count |-> n, need |-> n]
        /\ pool' = OfType(t) /\ picked' = 0 /\ attempts' = 0 /\ out' = {} /\ docs' = docs
    BY <1>7 DEF GetRandomWordsByType, Begin
  <2>2. n \in Nat
    BY <1>1
  <2>3. StoreTyped'
    BY <1>1, <2>1, <2>2 DEF StoreTyped, OfType
  <2>4. OfType(t)' = OfType(t)
    BY <2>1 DEF OfType
  <2>5. task'.kind = "type" /\ task'.type = t /\ task'.count = n /\ task'.need = n
    BY <2>1
  <2>6. Lost' = {}
    BY <2>1, <2>4, <2>5 DEF Lost
  <2>7. Cardinality({}) = 0
    BY FS_EmptySet
  <2>8. DrawsCounted'
    BY <2>1, <2>2, <2>4, <2>5, <2>6, <2>7 DEF DrawsCounted
  <2>9. EnoughWords' /\ (task'.type # "nil" => task'.kind \in {"type", "over"})
    BY <2>5 DEF EnoughWords
  <2> QED
    BY <2>3, <2>8, <2>9 DEF StoreInv
<1>8. ASSUME NEW n \in Wanted, GetSmartSuggestions(n) PROVE StoreInv'
  <2>1. /\ task' = [kind |-> "XP1", type |-> "nil", count |-> n, need |-> (n * 7) \div 10]
        /\ pool' = Posting("XP1") /\ picked' = 0 /\ attempts' = 0 /\ out' = {} /\ docs' = docs
    BY <1>8 DEF GetSmartSuggestions, Begin
  <2>2. n \in Nat /\ (n * 7) \div 10 \in Int
    BY <1>1
  <2>3. StoreTyped'
    BY <1>1, <2>1, <2>2, PostingFacts DEF StoreTyped
  <2>4. Otherwise'
    BY <2>1 DEF Otherwise
  <2> QED
    BY <2>3, <2>4, OtherwiseHolds
<1>9. ASSUME DrawByType PROVE StoreInv'
  <2>1. StoreTyped' /\ DrawsCounted'
    BY <1>9, DrawCounts
  <2>2. task' = task /\ task.kind = "type"
    BY <1>9 DEF DrawByType
  <2> QED
    BY <2>1, <2>2 DEF StoreInv, EnoughWords
<1>10. ASSUME DrawSuggestion PROVE StoreInv'
  <2>1. PICK d \in pool : Attempt(d) /\ IF Unsuitable(d) \/ d \in out THEN Skip ELSE Take(d)
    BY <1>10 DEF DrawSuggestion
  <2>2. docs' = docs /\ task' = task /\ task.kind \in {"XP1", "XP2", "any"}
    BY <1>10 DEF DrawSuggestion
  <2>3. attempts' = attempts + 1 /\ pool' \subseteq pool
    BY <2>1 DEF Attempt
  <2>4. out' \subseteq out \cup {d} /\ picked' \in {picked, picked + 1}
    BY <2>1 DEF Skip, Take
  <2>5. StoreTyped'
    BY <1>1, <1>2, <2>2, <2>3, <2>4 DEF StoreTyped
  <2>6. Otherwise'
    BY <1>3, <2>2 DEF StoreInv, Otherwise
  <2> QED
    BY <2>5, <2>6, OtherwiseHolds
<1>11. ASSUME DrawHole PROVE StoreInv'
  <2>1. PICK d \in (1 .. Max(DOMAIN docs \cup {0})) \ DOMAIN docs : Attempt(d) /\ Skip
    BY <1>11 DEF DrawHole
  <2>2. docs' = docs /\ task' = task /\ task.kind = "any"
    BY <1>11 DEF DrawHole
  <2>3. attempts' = attempts + 1 /\ pool' \subseteq pool /\ out' = out /\ picked' = picked
    BY <2>1 DEF Attempt, Skip
  <2>4. StoreTyped'
    BY <1>1, <1>2, <2>2, <2>3 DEF StoreTyped
  <2>5. Otherwise'
    BY <1>3, <2>2 DEF StoreInv, Otherwise
  <2> QED
    BY <2>4, <2>5, OtherwiseHolds
<1>12. ASSUME NextShare PROVE StoreInv'
  <2>1. docs' = docs /\ out' = out /\ Over
    BY <1>12 DEF NextShare
  <2>2. IsFiniteSet(out) /\ Cardinality(out) \in Nat
    <3>1. IsFiniteSet(DOMAIN docs)
      BY <1>1, DocsFacts
    <3> QED
      BY <1>2, <3>1, FS_Subset, FS_CardinalityType
  <2>3. CASE task.kind = "XP1"
    <3>1. /\ task' = [kind |-> "XP2", type |-> "nil", count |-> task.count,
                      need |-> task.count - picked - task.count \div 10]
          /\ pool' = Posting("XP2") /\ picked' = 0 /\ attempts' = 0
      BY <1>12, <2>3 DEF NextShare, Begin
    <3>2. task.count - picked - task.count \div 10 \in Int
      BY <1>2, <1>3
    <3>3. StoreTyped'
      BY <1>1, <1>2, <1>3, <2>1, <3>1, <3>2, PostingFacts DEF StoreTyped
    <3>4. Otherwise'
      BY <3>1 DEF Otherwise
    <3> QED
      BY <3>3, <3>4, OtherwiseHolds
  <2>4. CASE task.kind = "XP2"
    <3>1. /\ task' = [kind |-> "any", type |-> "nil", count |-> task.count,
                      need |-> task.count - Cardinality(out)]
          /\ pool' = DOMAIN docs /\ picked' = 0 /\ attempts' = 0
      BY <1>12, <2>4 DEF NextShare, Begin
    <3>2. task.count - Cardinality(out) \in Int
      BY <1>3, <2>2
    <3>3. StoreTyped'
      BY <1>1, <1>2, <1>3, <2>1, <3>1, <3>2 DEF StoreTyped
    <3>4. Otherwise'
      BY <3>1 DEF Otherwise
    <3> QED
      BY <3>3, <3>4, OtherwiseHolds
  <2>5. CASE task.kind \in {"any", "type"}
    <3>1. task' = [task EXCEPT !.kind = "over"] /\ UNCHANGED <<pool, picked, attempts>>
      BY <1>12, <2>5 DEF NextShare
    <3>2. task' = [kind |-> "over", type |-> task.type, count |-> task.count, need |-> task.need]
      BY <1>1, <3>1, TaskFacts
    <3>3. StoreTyped'
      BY <1>1, <1>2, <1>3, <2>1, <3>1, <3>2 DEF StoreTyped
    <3>4. CASE task.kind = "any"
      <4>1. Otherwise'
        BY <1>3, <3>2, <3>4 DEF StoreInv, Otherwise
      <4> QED
        BY <3>3, <4>1, OtherwiseHolds
    <3>5. CASE task.kind = "type"
      <4>1. Enough(task.type, task.count)
        BY <1>1, <2>1, <3>5, EnoughAtTheEnd DEF StoreInv
      <4>2. task'.kind = "over" /\ task'.type = task.type /\ task'.count = task.count
        BY <3>2
      <4>3. EnoughWords'
        <5>1. OfType(task.type)' = OfType(task.type)
          BY <2>1, <4>2 DEF OfType
        <5>2. /\ out' \subseteq OfType(task.type)' /\ Cardinality(out') <= task'.count
              /\ Cardinality(out') >=
                   Min({task.count, Cardinality({d \in OfType(task.type) : docs[d].popularity >= 30})})
              /\ Cardinality(out') >=
                   Min({task.count, Cardinality(OfType(task.type)) - (task.count * 8 - 1)})
          BY <2>1, <4>1, <4>2, <5>1 DEF Enough
        <5>3. {d \in OfType(task.type) : docs[d].popularity >= 30} =
                {d \in OfType(task.type)' : docs'[d].popularity >= 30}
          BY <2>1, <5>1
        <5> QED
          BY <4>2, <5>1, <5>2, <5>3 DEF EnoughWords
      <4>4. DrawsCounted' /\ (task'.type # "nil" => task'.kind \in {"type", "over"})
        BY <4>2 DEF DrawsCounted
      <4> QED
        BY <3>3, <4>3, <4>4 DEF StoreInv
    <3> QED
      BY <2>5, <3>4, <3>5
  <2>6. task.kind \in {"XP1", "XP2", "any", "type"}
    BY <1>3, <1>12 DEF NextShare
  <2> QED
    BY <2>3, <2>4, <2>5, <2>6
<1>13. ASSUME Return PROVE StoreInv'
  <2>1. /\ task' = [kind |-> "idle", type |-> "nil", count |-> 0, need |-> 0]
        /\ pool' = {} /\ out' = {} /\ picked' = 0 /\ attempts' = 0 /\ docs' = docs
    BY <1>13 DEF Return, Idle
  <2>2. StoreTyped'
    BY <1>1, <2>1 DEF StoreTyped
  <2>3. Otherwise'
    BY <2>1 DEF Otherwise
  <2> QED
    BY <2>2, <2>3, OtherwiseHolds
<1>14. CASE UNCHANGED storeVars
  BY <1>4, <1>14 DEF storeVars
<1> QED
  BY <1>5, <1>6, <1>7, <1>8, <1>9, <1>10, <1>11, <1>12, <1>13, <1>14 DEF StoreNext

\* Whatever the dictionary holds: an exercise that asks for words of a type gets
\* them as long as there are enough popular ones, or enough at all beyond those
\* that the first draws may lose (get_random_words_by_type).
THEOREM EnoughWordsFound == StoreSpec => []EnoughWords
<1>1. StoreInv => EnoughWords
  BY DEF StoreInv
<1> QED
  BY <1>1, StoreStart, StoreStep, PTL DEF StoreSpec

\* A link leads to its own word, to the one spelled as the link is, and to some
\* word if it is not behind too many more popular ones (find_word).
THEOREM LinksLeadHome == StoreSpec => []LinkFindsWord
BY StoreStart, FoundStep, FoundFits, PTL DEF StoreSpec

\* Of the results among translations the exact ones come first and none of them
\* is left out, for queries of up to four words and 116 bytes (search_mset).
THEOREM ExactComesFirst == StoreSpec => []ExactFirst
BY StoreStart, SeenStep, SeenFits, PTL DEF StoreSpec
=============================================================================
