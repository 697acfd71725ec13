------------------------- MODULE KernelLists_proofs -------------------------
(* Facts about the list operators, for lists of any length. *)
EXTENDS KernelLists, TLAPS, SequenceTheorems, FunctionTheorems, FiniteSetTheorems,
        WellFoundedInduction

LEMMA LeadingBound ==
    ASSUME NEW S, NEW s \in Seq(S), NEW w, NEW value
    PROVE  Cardinality(LeadingNotAbove(s, w, value)) \in 0 .. Len(s)
<1>1. Len(s) \in Nat /\ DOMAIN s = 1 .. Len(s)
  BY LenProperties
<1>2. LeadingNotAbove(s, w, value) \subseteq 1 .. Len(s)
  BY <1>1 DEF LeadingNotAbove
<1>3. IsFiniteSet(1 .. Len(s)) /\ Cardinality(1 .. Len(s)) = Len(s)
  <2>1. 1 \in Int /\ Len(s) \in Int
    BY <1>1
  <2>2. IsFiniteSet(1 .. Len(s)) /\ Cardinality(1 .. Len(s)) = IF 1 > Len(s) THEN 0 ELSE Len(s) - 1 + 1
    BY <2>1, FS_Interval
  <2> QED BY <1>1, <2>2
<1> DEFINE L == LeadingNotAbove(s, w, value)
<1> HIDE DEF L
<1>4. IsFiniteSet(L) /\ Cardinality(L) <= Len(s)
  BY <1>2, <1>3, FS_Subset DEF L
<1>5. Cardinality(L) \in Nat
  BY <1>4, FS_CardinalityType
<1> QED
  BY <1>1, <1>4, <1>5 DEF L

LEMMA InsertAtProperties ==
    ASSUME NEW S, NEW s \in Seq(S), NEW x \in S, NEW n \in 1 .. Len(s) + 1
    PROVE  LET r == InsertAt(s, n, x) IN
           /\ r \in Seq(S) /\ Len(r) = Len(s) + 1
           /\ \A i \in 1 .. n - 1 : r[i] = s[i]
           /\ r[n] = x
           /\ \A i \in n .. Len(s) : r[i + 1] = s[i]
<1> DEFINE a  == SubSeq(s, 1, n - 1)
           b  == SubSeq(s, n, Len(s))
           ax == a \o <<x>>
           r  == InsertAt(s, n, x)
<1>0. Len(s) \in Nat /\ n \in Nat /\ n >= 1 /\ n - 1 <= Len(s)
  BY LenProperties
<1>1. a \in Seq(S) /\ Len(a) = n - 1 /\ \A i \in 1..n - 1 : a[i] = s[i]
  BY <1>0, SubSeqProperties
<1>2. b \in Seq(S) /\ Len(b) = Len(s) - n + 1 /\ \A i \in 1..Len(s) - n + 1 : b[i] = s[n + i - 1]
  BY <1>0, SubSeqProperties
<1>3. <<x>> \in Seq(S) /\ Len(<<x>>) = 1 /\ <<x>>[1] = x
  OBVIOUS
<1>4. r = ax \o b
  BY DEF InsertAt
<1> HIDE DEF a, b, r
<1>5. ax \in Seq(S) /\ Len(ax) = n /\ ax[n] = x /\ \A i \in 1..n - 1 : ax[i] = s[i]
  BY <1>0, <1>1, <1>3, ConcatProperties
<1> HIDE DEF ax
<1>6. r \in Seq(S) /\ Len(r) = Len(s) + 1
  <2>1. r \in Seq(S) /\ Len(r) = Len(ax) + Len(b)
    BY <1>2, <1>4, <1>5, ConcatProperties
  <2> QED BY <1>0, <1>2, <1>5, <2>1
<1>7. r[n] = x /\ \A i \in 1..n - 1 : r[i] = s[i]
  BY <1>0, <1>2, <1>4, <1>5, ConcatProperties
<1>8. ASSUME NEW i \in n .. Len(s)
      PROVE  r[i + 1] = s[i]
  <2> DEFINE j == i - n + 1
  <2>1. j \in 1 .. Len(b) /\ i + 1 = Len(ax) + j
    BY <1>0, <1>2, <1>5
  <2>2. r[Len(ax) + j] = b[j]
    BY <1>2, <1>4, <1>5, <2>1, ConcatProperties
  <2>3. b[j] = s[n + j - 1] /\ n + j - 1 = i
    BY <1>0, <1>2
  <2> QED BY <2>1, <2>2, <2>3
<1> QED
  BY <1>6, <1>7, <1>8 DEF r

\* A sorted insertion adds its item and keeps the others, wherever it goes.
LEMMA vListInsertProperties ==
    ASSUME NEW S, NEW s \in Seq(S), NEW x \in S, NEW value
    PROVE  /\ vListInsert(s, x, value) \in Seq(S)
           /\ ToSet(vListInsert(s, x, value)) = ToSet(s) \cup {x}
           /\ NoDuplicates(s) /\ x \notin ToSet(s) => NoDuplicates(vListInsert(s, x, value))
<1> DEFINE n == Cardinality(LeadingNotAbove(s, value[x], value)) + 1
           r == InsertAt(s, n, x)
<1>0. Len(s) \in Nat /\ DOMAIN s = 1 .. Len(s)
  BY LenProperties
<1>1. n \in 1 .. Len(s) + 1
  BY <1>0, LeadingBound
<1>2. vListInsert(s, x, value) = r
  BY DEF vListInsert
<1> HIDE DEF n
<1>3. /\ r \in Seq(S) /\ Len(r) = Len(s) + 1
      /\ \A i \in 1 .. n - 1 : r[i] = s[i]
      /\ r[n] = x
      /\ \A i \in n .. Len(s) : r[i + 1] = s[i]
  BY <1>1, InsertAtProperties
<1> HIDE DEF r
<1>4. DOMAIN r = 1 .. Len(s) + 1
  BY <1>3, LenProperties
<1>5. ASSUME NEW i \in 1 .. Len(s) + 1
      PROVE  \/ i = n /\ r[i] = x
             \/ i \in 1 .. n - 1 /\ i \in DOMAIN s /\ r[i] = s[i]
             \/ i \in n + 1 .. Len(s) + 1 /\ i - 1 \in DOMAIN s /\ r[i] = s[i - 1]
  <2>1. CASE i > n
    <3>1. i - 1 \in n .. Len(s) /\ i - 1 + 1 = i
      BY <1>0, <1>1, <2>1
    <3> QED BY <1>0, <1>1, <1>3, <2>1, <3>1
  <2>2. CASE i <= n
    BY <1>0, <1>1, <1>3, <2>2
  <2> QED BY <1>0, <1>1, <2>1, <2>2
<1>6. ToSet(r) \subseteq ToSet(s) \cup {x}
  BY <1>4, <1>5 DEF ToSet
<1>7. ToSet(s) \cup {x} \subseteq ToSet(r)
  <2>1. x \in ToSet(r)
    BY <1>1, <1>3, <1>4 DEF ToSet
  <2>2. ASSUME NEW i \in DOMAIN s  PROVE s[i] \in ToSet(r)
    <3>1. CASE i < n
      BY <1>0, <1>1, <1>3, <1>4, <3>1 DEF ToSet
    <3>2. CASE i >= n
      <4>1. i + 1 \in DOMAIN r /\ r[i + 1] = s[i]
        BY <1>0, <1>1, <1>3, <1>4, <3>2
      <4> QED BY <4>1 DEF ToSet
    <3> QED BY <1>0, <1>1, <3>1, <3>2
  <2> QED BY <2>1, <2>2 DEF ToSet
<1>8. ASSUME NoDuplicates(s), x \notin ToSet(s)
      PROVE  NoDuplicates(r)
  <2> SUFFICES ASSUME NEW i \in 1 .. Len(s) + 1, NEW j \in 1 .. Len(s) + 1, r[i] = r[j]
               PROVE  i = j
    BY <1>4 DEF NoDuplicates
  <2>1. \A k \in DOMAIN s : s[k] # x
    BY <1>8 DEF ToSet
  <2> DEFINE from(k) == IF k < n THEN k ELSE k - 1
  <2>2. ASSUME NEW k \in 1 .. Len(s) + 1, k # n
        PROVE  from(k) \in DOMAIN s /\ r[k] = s[from(k)]
    <3>1. CASE k < n
      BY <1>0, <1>1, <1>5, <3>1
    <3>2. CASE k > n
      BY <1>0, <1>1, <1>5, <3>2
    <3> QED BY <1>0, <1>1, <2>2, <3>1, <3>2
  <2>3. CASE i = n
    <3> HIDE DEF from
    <3> QED BY <1>3, <2>1, <2>2, <2>3
  <2>4. CASE j = n
    <3> HIDE DEF from
    <3> QED BY <1>3, <2>1, <2>2, <2>4
  <2>5. CASE i # n /\ j # n
    <3>1. from(i) = from(j)
      <4>1. /\ from(i) \in DOMAIN s /\ r[i] = s[from(i)]
            /\ from(j) \in DOMAIN s /\ r[j] = s[from(j)]
        BY <2>2, <2>5
      <4> HIDE DEF from
      <4> QED BY <1>8, <4>1 DEF NoDuplicates
    <3> QED BY <1>0, <1>1, <2>5, <3>1
  <2> QED BY <2>3, <2>4, <2>5
<1> QED
  BY <1>2, <1>3, <1>6, <1>7, <1>8

\* Taking out an item closes the gap it leaves.
LEMMA uxListRemovePositions ==
    ASSUME NEW S, NEW s \in Seq(S), NEW x \in ToSet(s)
    PROVE  LET r == uxListRemove(s, x) IN
           \E n \in 1 .. Len(s) :
              /\ s[n] = x /\ r \in Seq(S) /\ Len(r) = Len(s) - 1
              /\ \A i \in 1 .. Len(s) - 1 : r[i] = IF i < n THEN s[i] ELSE s[i + 1]
<1> DEFINE n == CHOOSE i \in DOMAIN s : s[i] = x
           a == SubSeq(s, 1, n - 1)
           b == SubSeq(s, n + 1, Len(s))
           r == a \o b
<1>0. Len(s) \in Nat /\ DOMAIN s = 1 .. Len(s)
  BY LenProperties
<1>1. n \in 1 .. Len(s) /\ s[n] = x
  BY <1>0 DEF ToSet
<1>2. uxListRemove(s, x) = r
  BY DEF uxListRemove
<1> HIDE DEF n
<1>3. a \in Seq(S) /\ Len(a) = n - 1 /\ \A i \in 1..n - 1 : a[i] = s[i]
  <2>1. a \in Seq(S) /\ Len(a) = n - 1
    BY <1>0, <1>1, SubSeqProperties
  <2>2. \A i \in 1..n - 1 : a[i] = s[i]
    BY <1>0, <1>1, SubSeqProperties
  <2> QED BY <2>1, <2>2
<1>4. b \in Seq(S) /\ Len(b) = Len(s) - n /\ \A i \in 1..Len(s) - n : b[i] = s[n + i]
  <2>0. n + 1 \in 1 .. Len(s) + 1 /\ Len(s) \in n + 1 - 1 .. Len(s)
    BY <1>0, <1>1
  <2>1. b \in Seq(S) /\ Len(b) = Len(s) - n
    <3>1. b \in Seq(S) /\ Len(b) = Len(s) - (n + 1) + 1
      BY <2>0, SubSeqProperties
    <3> HIDE DEF b
    <3> QED BY <1>0, <1>1, <3>1
  <2>2. \A i \in 1..Len(s) - n : b[i] = s[n + i]
    BY <1>0, <1>1, SubSeqProperties
  <2> QED BY <2>1, <2>2
<1>c. r = a \o b
  OBVIOUS
<1> HIDE DEF a, b, r
<1>5. r \in Seq(S) /\ Len(r) = Len(a) + Len(b)
  BY <1>3, <1>4, <1>c, ConcatProperties
<1>6. Len(r) = Len(s) - 1
  BY <1>0, <1>1, <1>3, <1>4, <1>5
<1>7. ASSUME NEW i \in 1 .. Len(s) - 1
      PROVE  r[i] = IF i < n THEN s[i] ELSE s[i + 1]
  <2>1. CASE i < n
    BY <1>0, <1>1, <1>3, <1>4, <1>c, <2>1, ConcatProperties
  <2>2. CASE i >= n
    <3> DEFINE j == i - n + 1
    <3>1. j \in 1 .. Len(b) /\ i = Len(a) + j /\ n + j = i + 1 /\ ~(i < n)
      BY <1>0, <1>1, <1>3, <1>4, <2>2
    <3> HIDE DEF j
    <3>2. r[Len(a) + j] = b[j]
      BY <1>3, <1>4, <1>c, <3>1, ConcatProperties, SMTT(30)
    <3>3. b[j] = s[n + j]
      BY <1>4, <3>1
    <3> QED BY <3>1, <3>2, <3>3
  <2> QED BY <1>0, <1>1, <2>1, <2>2
<1> QED
  BY <1>1, <1>2, <1>5, <1>6, <1>7

\* Taking out an item keeps the others.
LEMMA uxListRemoveProperties ==
    ASSUME NEW S, NEW s \in Seq(S), NEW x \in ToSet(s), NoDuplicates(s)
    PROVE  /\ uxListRemove(s, x) \in Seq(S)
           /\ ToSet(uxListRemove(s, x)) = ToSet(s) \ {x}
           /\ NoDuplicates(uxListRemove(s, x))
<1> DEFINE r == uxListRemove(s, x)
<1>0. Len(s) \in Nat /\ DOMAIN s = 1 .. Len(s)
  BY LenProperties
<1>1. PICK n \in 1 .. Len(s) :
          /\ s[n] = x /\ r \in Seq(S) /\ Len(r) = Len(s) - 1
          /\ \A i \in 1 .. Len(s) - 1 : r[i] = IF i < n THEN s[i] ELSE s[i + 1]
  BY uxListRemovePositions
<1> HIDE DEF r
<1>6. DOMAIN r = 1 .. Len(s) - 1
  BY <1>1, LenProperties
<1>7. \A i \in 1 .. Len(s) - 1 : r[i] = IF i < n THEN s[i] ELSE s[i + 1]
  BY <1>1
<1>8. ToSet(r) = ToSet(s) \ {x}
  <2>1. ToSet(r) \subseteq ToSet(s) \ {x}
    <3> SUFFICES ASSUME NEW i \in DOMAIN r  PROVE r[i] \in ToSet(s) /\ r[i] # x
      BY DEF ToSet
    <3>1. \E j \in DOMAIN s : j # n /\ r[i] = s[j]
      <4>1. CASE i < n
        BY <1>0, <1>1, <1>6, <1>7, <4>1
      <4>2. CASE i >= n
        BY <1>0, <1>1, <1>6, <1>7, <4>2
      <4> QED BY <1>0, <1>1, <1>6, <4>1, <4>2
    <3>2. n \in DOMAIN s
      BY <1>0
    <3> QED BY <1>1, <3>1, <3>2 DEF ToSet, NoDuplicates
  <2>2. ASSUME NEW i \in DOMAIN s, s[i] # x  PROVE s[i] \in ToSet(r)
    <3>1. CASE i < n
      BY <1>0, <1>1, <1>6, <1>7, <3>1 DEF ToSet
    <3>2. CASE i > n
      <4>1. i - 1 \in DOMAIN r /\ r[i - 1] = s[i]
        BY <1>0, <1>1, <1>6, <1>7, <3>2
      <4> QED BY <4>1 DEF ToSet
    <3> QED BY <1>0, <1>1, <2>2, <3>1, <3>2
  <2> QED BY <2>1, <2>2 DEF ToSet
<1>9. NoDuplicates(r)
  <2> SUFFICES ASSUME NEW i \in 1 .. Len(s) - 1, NEW j \in 1 .. Len(s) - 1, r[i] = r[j]
               PROVE  i = j
    BY <1>6 DEF NoDuplicates
  <2> DEFINE p(k) == IF k < n THEN k ELSE k + 1
  <2>1. p(i) \in DOMAIN s /\ p(j) \in DOMAIN s
    BY <1>0, <1>1
  <2>2. r[i] = s[p(i)] /\ r[j] = s[p(j)]
    BY <1>7
  <2>3. p(i) = p(j)
    BY <2>1, <2>2 DEF NoDuplicates
  <2> QED BY <1>0, <1>1, <2>3
<1> QED
  BY <1>1, <1>8, <1>9 DEF r

\* Taking n items off the front splits the list.
LEMMA DropProperties ==
    ASSUME NEW S, NEW s \in Seq(S), NEW n \in 0 .. Len(s)
    PROVE  LET r == SubSeq(s, n + 1, Len(s))  front == {s[i] : i \in 1..n} IN
           /\ r \in Seq(S) /\ front \subseteq S
           /\ ToSet(s) = front \cup ToSet(r)
           /\ NoDuplicates(s) => NoDuplicates(r) /\ front \cap ToSet(r) = {}
<1> DEFINE r == SubSeq(s, n + 1, Len(s))
           front == {s[i] : i \in 1..n}
<1>0. /\ Len(s) \in Nat /\ DOMAIN s = 1 .. Len(s) /\ n \in Int /\ n + 1 \in Int
      /\ \A i \in 1 .. Len(s) : s[i] \in S
  BY LenProperties
<1>1. r \in Seq(S) /\ Len(r) = IF n + 1 <= Len(s) THEN Len(s) - (n + 1) + 1 ELSE 0
  BY <1>0, SubSeqProperties
<1>2. \A i \in 1 .. Len(s) - (n + 1) + 1 : r[i] = s[(n + 1) + i - 1]
  BY <1>0, SubSeqProperties
<1> HIDE DEF r
<1>3. DOMAIN r = 1 .. Len(s) - n
  <2>0. Len(s) \in Nat /\ n \in 0 .. Len(s)
    BY <1>0
  <2>1. Len(r) = IF n + 1 <= Len(s) THEN Len(s) - (n + 1) + 1 ELSE 0
    BY <1>1
  <2>2. Len(r) = Len(s) - n
    BY <2>0, <2>1
  <2>3. DOMAIN r = 1 .. Len(r)
    BY <1>1, LenProperties
  <2> QED BY <2>2, <2>3
<1>4. \A i \in 1 .. Len(s) - n : r[i] = s[n + i]
  BY <1>0, <1>2
<1>5. ToSet(s) = front \cup ToSet(r)
  <2>0. 1 .. n \subseteq DOMAIN s
    BY <1>0
  <2>1. ASSUME NEW i \in DOMAIN s  PROVE s[i] \in front \cup ToSet(r)
    <3>1. CASE i > n
      <4>0. i - n \in 1 .. Len(s) - n /\ n + (i - n) = i
        BY <1>0, <3>1
      <4>1. i - n \in DOMAIN r /\ r[i - n] = s[i]
        BY <1>3, <1>4, <4>0
      <4> QED BY <4>1 DEF ToSet
    <3>2. CASE i <= n
      <4>1. i \in 1 .. n
        BY <1>0, <3>2
      <4> QED BY <4>1
    <3> QED BY <1>0, <3>1, <3>2
  <2>2. ASSUME NEW k \in DOMAIN r  PROVE r[k] \in ToSet(s)
    <3>1. n + k \in DOMAIN s /\ r[k] = s[n + k]
      BY <1>0, <1>3, <1>4
    <3> QED BY <3>1 DEF ToSet
  <2>3. front \subseteq ToSet(s)
    BY <2>0 DEF ToSet
  <2> QED BY <2>1, <2>2, <2>3 DEF ToSet
<1>6. ASSUME NoDuplicates(s)  PROVE NoDuplicates(r) /\ front \cap ToSet(r) = {}
  <2>1. NoDuplicates(r)
    <3> SUFFICES ASSUME NEW i \in 1 .. Len(s) - n, NEW j \in 1 .. Len(s) - n, r[i] = r[j]
                 PROVE  i = j
      BY <1>3 DEF NoDuplicates
    <3>1. n + i \in DOMAIN s /\ n + j \in DOMAIN s /\ s[n + i] = s[n + j]
      BY <1>0, <1>4
    <3>2. n + i = n + j
      BY <1>6, <3>1 DEF NoDuplicates
    <3> QED BY <1>0, <3>2
  <2>2. ASSUME NEW x \in front, x \in ToSet(r)  PROVE FALSE
    <3>1. PICK i \in 1 .. n : x = s[i]
      BY <2>2
    <3>2. PICK k \in DOMAIN r : x = r[k]
      BY <2>2 DEF ToSet
    <3>3. k \in 1 .. Len(s) - n /\ x = s[n + k]
      BY <1>3, <1>4, <3>2
    <3>4. i \in DOMAIN s /\ n + k \in DOMAIN s /\ i # n + k
      BY <1>0, <3>1, <3>3
    <3>5. i = n + k
      BY <1>6, <3>1, <3>3, <3>4 DEF NoDuplicates
    <3> QED BY <3>4, <3>5
  <2> QED BY <2>1, <2>2
<1>7. front \subseteq S
  BY <1>0
<1> QED
  BY <1>1, <1>5, <1>6, <1>7 DEF r

\* Taking the head off a list that is not empty.
LEMMA HeadProperties ==
    ASSUME NEW S, NEW s \in Seq(S), s # << >>
    PROVE  /\ Head(s) \in S /\ Tail(s) \in Seq(S)
           /\ ToSet(s) = {Head(s)} \cup ToSet(Tail(s))
           /\ NoDuplicates(s) => NoDuplicates(Tail(s)) /\ Head(s) \notin ToSet(Tail(s))
<1>1. Len(s) \in Nat \ {0} /\ Head(s) = s[1]
  BY HeadTailProperties, EmptySeq, LenProperties
<1>2. Tail(s) = SubSeq(s, 1 + 1, Len(s))
  BY TailIsSubSeq
<1>3. {s[i] : i \in 1..1} = {Head(s)}
  BY <1>1
<1>4. Head(s) \in S /\ Tail(s) \in Seq(S)
  BY HeadTailProperties
<1> HIDE DEF ToSet, NoDuplicates
<1>5. 1 \in 0 .. Len(s)
  BY <1>1
<1>6. /\ ToSet(s) = {s[i] : i \in 1..1} \cup ToSet(SubSeq(s, 1 + 1, Len(s)))
      /\ NoDuplicates(s) => /\ NoDuplicates(SubSeq(s, 1 + 1, Len(s)))
                            /\ {s[i] : i \in 1..1} \cap ToSet(SubSeq(s, 1 + 1, Len(s))) = {}
  BY <1>5, DropProperties
<1> QED
  BY <1>2, <1>3, <1>4, <1>6
-----------------------------------------------------------------------------
(* Order: the items of an event list stand by ascending value. *)

Ascending(s, value) == \A i, j \in DOMAIN s : i <= j => value[s[i]] <= value[s[j]]

\* In an ordered list the loop of vListInsert walks past a prefix: every item
\* of it is not above w, and every item after it is.
LEMMA LeadingIsPrefix ==
    ASSUME NEW S, NEW s \in Seq(S), NEW w \in Int, NEW value \in [S -> Int], Ascending(s, value)
    PROVE  LET k == Cardinality(LeadingNotAbove(s, w, value)) IN
           /\ k \in 0 .. Len(s)
           /\ \A i \in 1 .. k : value[s[i]] <= w
           /\ \A i \in k + 1 .. Len(s) : value[s[i]] > w
<1> DEFINE L == LeadingNotAbove(s, w, value)
           k == Cardinality(L)
<1>0. /\ Len(s) \in Nat /\ DOMAIN s = 1 .. Len(s)
      /\ \A i \in 1 .. Len(s) : s[i] \in S /\ value[s[i]] \in Int
  BY LenProperties
<1>1. k \in 0 .. Len(s)
  BY LeadingBound
<1>2. /\ L \subseteq 1 .. Len(s)
      /\ \A i \in 1 .. Len(s) : i \in L <=> value[s[i]] <= w
  <2>1. ASSUME NEW i \in 1 .. Len(s)  PROVE i \in L <=> \A j \in 1 .. i : value[s[j]] <= w
    BY <1>0 DEF LeadingNotAbove
  <2>2. ASSUME NEW i \in 1 .. Len(s), value[s[i]] <= w, NEW j \in 1 .. i  PROVE value[s[j]] <= w
    <3>1. j \in 1 .. Len(s) /\ j <= i
      BY <1>0
    <3>2. value[s[j]] <= value[s[i]] /\ value[s[j]] \in Int /\ value[s[i]] \in Int
      BY <1>0, <3>1 DEF Ascending
    <3> QED BY <2>2, <3>2
  <2>3. L \subseteq 1 .. Len(s)
    BY <1>0 DEF LeadingNotAbove
  <2> HIDE DEF L
  <2>4. ASSUME NEW i \in 1 .. Len(s)  PROVE i \in 1 .. i
    BY <1>0
  <2> QED BY <2>1, <2>2, <2>3, <2>4
<1> HIDE DEF L
<1>3. IsFiniteSet(1 .. Len(s))
  BY <1>0, FS_Interval
<1>4. IsFiniteSet(L)
  BY <1>2, <1>3, FS_Subset
<1>5. ASSUME NEW i \in 1 .. Len(s), i \in L  PROVE i <= k
  <2>1. 1 .. i \subseteq L
    <3> SUFFICES ASSUME NEW j \in 1 .. i  PROVE j \in L
      OBVIOUS
    <3>1. j \in 1 .. Len(s) /\ j <= i
      BY <1>0
    <3>2. value[s[j]] <= value[s[i]] /\ value[s[i]] <= w
      BY <1>0, <1>2, <1>5, <3>1 DEF Ascending
    <3>3. value[s[j]] <= w
      BY <1>0, <3>1, <3>2
    <3> QED BY <1>2, <3>1, <3>3
  <2>2. Cardinality(1 .. i) <= k
    BY <1>4, <2>1, FS_Subset
  <2>3. Cardinality(1 .. i) = i
    <3>1. 1 \in Int /\ i \in Int /\ ~(1 > i) /\ i - 1 + 1 = i
      BY <1>0
    <3> QED BY <3>1, FS_Interval
  <2> QED BY <2>2, <2>3
<1>6. ASSUME NEW i \in 1 .. Len(s), i \notin L  PROVE k < i
  <2>1. L \subseteq 1 .. i - 1
    <3> SUFFICES ASSUME NEW j \in L, ~(j \in 1 .. i - 1)  PROVE FALSE
      OBVIOUS
    <3>1. j \in 1 .. Len(s) /\ i <= j
      BY <1>0, <1>2
    <3>2. value[s[i]] <= value[s[j]] /\ value[s[j]] <= w
      BY <1>0, <1>2, <3>1 DEF Ascending
    <3>3. value[s[i]] <= w
      BY <1>0, <3>1, <3>2
    <3> QED BY <1>2, <1>6, <3>3
  <2>2. 1 \in Int /\ i - 1 \in Int
    BY <1>0
  <2>3. IsFiniteSet(1 .. i - 1) /\ Cardinality(1 .. i - 1) = IF 1 > i - 1 THEN 0 ELSE i - 1 - 1 + 1
    BY <2>2, FS_Interval
  <2>4. k <= Cardinality(1 .. i - 1)
    BY <2>1, <2>3, FS_Subset
  <2>5. Cardinality(1 .. i - 1) = i - 1
    BY <1>0, <2>3
  <2> QED BY <1>0, <1>1, <2>4, <2>5
<1> HIDE DEF k
<1>7. ASSUME NEW i \in 1 .. k  PROVE value[s[i]] <= w
  <2>1. i \in 1 .. Len(s) /\ ~(k < i)
    BY <1>0, <1>1
  <2> QED BY <1>2, <1>6, <2>1
<1>8. ASSUME NEW i \in k + 1 .. Len(s)  PROVE value[s[i]] > w
  <2>1. i \in 1 .. Len(s) /\ ~(i <= k)
    BY <1>0, <1>1
  <2>2. ~(value[s[i]] <= w) /\ value[s[i]] \in Int
    BY <1>0, <1>2, <1>5, <2>1
  <2> QED BY <2>2
<1> QED BY <1>1, <1>7, <1>8 DEF k, L

\* A sorted insertion keeps the order.
LEMMA InsertKeepsOrder ==
    ASSUME NEW S, NEW s \in Seq(S), NEW x \in S, NEW value \in [S -> Int], Ascending(s, value)
    PROVE  Ascending(vListInsert(s, x, value), value)
<1> DEFINE k == Cardinality(LeadingNotAbove(s, value[x], value))
           n == k + 1
           r == InsertAt(s, n, x)
<1>0. /\ Len(s) \in Nat /\ DOMAIN s = 1 .. Len(s) /\ value[x] \in Int
      /\ \A i \in 1 .. Len(s) : value[s[i]] \in Int
  BY LenProperties
<1>1. /\ k \in 0 .. Len(s)
      /\ \A i \in 1 .. k : value[s[i]] <= value[x]
      /\ \A i \in k + 1 .. Len(s) : value[s[i]] > value[x]
  BY <1>0, LeadingIsPrefix
<1>2. vListInsert(s, x, value) = r
  BY DEF vListInsert
<1>3. n \in 1 .. Len(s) + 1 /\ n = k + 1
  BY <1>0, <1>1
<1> HIDE DEF k, n
<1>4. /\ r \in Seq(S) /\ Len(r) = Len(s) + 1
      /\ \A i \in 1 .. n - 1 : r[i] = s[i]
      /\ r[n] = x
      /\ \A i \in n .. Len(s) : r[i + 1] = s[i]
  BY <1>3, InsertAtProperties
<1> HIDE DEF r
<1>5. DOMAIN r = 1 .. Len(s) + 1
  BY <1>4, LenProperties
<1>6. ASSUME NEW i \in 1 .. Len(s) + 1
      PROVE  \/ i = n /\ r[i] = x
             \/ i < n /\ i \in 1 .. k /\ i \in DOMAIN s /\ r[i] = s[i]
             \/ i > n /\ i - 1 \in k + 1 .. Len(s) /\ i - 1 \in DOMAIN s /\ r[i] = s[i - 1]
  <2>1. CASE i > n
    <3>1. i - 1 \in n .. Len(s) /\ i - 1 + 1 = i
      BY <1>0, <1>3, <2>1
    <3>2. r[i] = s[i - 1]
      BY <1>4, <3>1
    <3> QED BY <1>0, <1>1, <1>3, <2>1, <3>1, <3>2
  <2>2. CASE i < n
    <3>1. i \in 1 .. n - 1 /\ i \in 1 .. k /\ i \in 1 .. Len(s)
      BY <1>0, <1>1, <1>3, <2>2
    <3> QED BY <1>0, <1>4, <2>2, <3>1
  <2>3. CASE i = n
    BY <1>4, <2>3
  <2> QED BY <1>0, <1>3, <2>1, <2>2, <2>3
<1> SUFFICES ASSUME NEW i \in 1 .. Len(s) + 1, NEW j \in 1 .. Len(s) + 1, i <= j
             PROVE  value[r[i]] <= value[r[j]]
  BY <1>2, <1>5 DEF Ascending
<1>7. CASE i = n
  <2>1. CASE j = n
    BY <1>0, <1>4, <1>7, <2>1
  <2>2. CASE j > n
    <3>1. r[i] = x /\ r[j] = s[j - 1] /\ value[s[j - 1]] > value[x] /\ value[s[j - 1]] \in Int
      BY <1>0, <1>1, <1>3, <1>6, <1>7, <2>2
    <3> QED BY <1>0, <3>1
  <2> QED BY <1>3, <1>7, <2>1, <2>2
<1>8. CASE i > n
  <2>0. j > n /\ i - 1 <= j - 1
    BY <1>0, <1>3, <1>8
  <2>1. i - 1 \in DOMAIN s /\ r[i] = s[i - 1] /\ j - 1 \in DOMAIN s /\ r[j] = s[j - 1] /\ i - 1 <= j - 1
    BY <1>0, <1>1, <1>3, <1>6, <1>8, <2>0
  <2> HIDE DEF r
  <2> QED BY <2>1 DEF Ascending
<1>9. CASE i < n
  <2>1. i \in 1 .. k /\ i \in DOMAIN s /\ r[i] = s[i] /\ value[s[i]] <= value[x] /\ value[s[i]] \in Int
    BY <1>0, <1>1, <1>3, <1>6, <1>9
  <2>2. CASE j < n
    <3>1. j \in DOMAIN s /\ r[j] = s[j]
      BY <1>0, <1>3, <1>6, <2>2
    <3> QED BY <2>1, <3>1 DEF Ascending
  <2>3. CASE j = n
    BY <1>4, <2>1, <2>3
  <2>4. CASE j > n
    <3>1. r[j] = s[j - 1] /\ value[s[j - 1]] > value[x] /\ value[s[j - 1]] \in Int
      BY <1>0, <1>1, <1>3, <1>6, <2>4
    <3> QED BY <1>0, <2>1, <3>1
  <2> QED BY <1>3, <2>2, <2>3, <2>4
<1> QED BY <1>3, <1>7, <1>8, <1>9

LEMMA RemoveKeepsOrder ==
    ASSUME NEW S, NEW s \in Seq(S), NEW x \in ToSet(s), NEW value, Ascending(s, value)
    PROVE  Ascending(uxListRemove(s, x), value)
<1> DEFINE r == uxListRemove(s, x)
<1>0. Len(s) \in Nat /\ DOMAIN s = 1 .. Len(s)
  BY LenProperties
<1>1. PICK n \in 1 .. Len(s) :
          /\ s[n] = x /\ r \in Seq(S) /\ Len(r) = Len(s) - 1
          /\ \A i \in 1 .. Len(s) - 1 : r[i] = IF i < n THEN s[i] ELSE s[i + 1]
  BY uxListRemovePositions
<1> HIDE DEF r
<1>2. DOMAIN r = 1 .. Len(s) - 1
  BY <1>1, LenProperties
<1> SUFFICES ASSUME NEW i \in 1 .. Len(s) - 1, NEW j \in 1 .. Len(s) - 1, i <= j
             PROVE  value[r[i]] <= value[r[j]]
  BY <1>2 DEF Ascending, r
<1> DEFINE p(k) == IF k < n THEN k ELSE k + 1
<1>3. p(i) \in DOMAIN s /\ p(j) \in DOMAIN s /\ p(i) <= p(j)
  BY <1>0
<1>4. r[i] = s[p(i)] /\ r[j] = s[p(j)]
  BY <1>1
<1> HIDE DEF p
<1> QED BY <1>3, <1>4 DEF Ascending

\* What is taken off the front is not above what stays, and the order stays.
LEMMA DropKeepsOrder ==
    ASSUME NEW S, NEW s \in Seq(S), NEW n \in 0 .. Len(s), NEW value, Ascending(s, value)
    PROVE  LET r == SubSeq(s, n + 1, Len(s)) IN
           /\ Ascending(r, value)
           /\ \A i \in 1 .. n, u \in ToSet(r) : value[s[i]] <= value[u]
<1> DEFINE r == SubSeq(s, n + 1, Len(s))
<1>0. Len(s) \in Nat /\ DOMAIN s = 1 .. Len(s) /\ n \in Int /\ n + 1 \in Int
  BY LenProperties
<1>1. r \in Seq(S) /\ Len(r) = IF n + 1 <= Len(s) THEN Len(s) - (n + 1) + 1 ELSE 0
  BY <1>0, SubSeqProperties
<1>2. \A i \in 1 .. Len(s) - (n + 1) + 1 : r[i] = s[(n + 1) + i - 1]
  BY <1>0, SubSeqProperties
<1> HIDE DEF r
<1>3. DOMAIN r = 1 .. Len(s) - n
  <2>0. Len(s) \in Nat /\ n \in 0 .. Len(s)
    BY <1>0
  <2>1. Len(r) = IF n + 1 <= Len(s) THEN Len(s) - (n + 1) + 1 ELSE 0
    BY <1>1
  <2>2. Len(r) = Len(s) - n
    BY <2>0, <2>1
  <2> QED BY <1>1, <2>2, LenProperties
<1>4. ASSUME NEW i \in DOMAIN r  PROVE r[i] = s[n + i] /\ n + i \in DOMAIN s /\ i \in Nat
  BY <1>0, <1>2, <1>3
<1>5. Ascending(r, value)
  <2> SUFFICES ASSUME NEW i \in DOMAIN r, NEW j \in DOMAIN r, i <= j
               PROVE  value[r[i]] <= value[r[j]]
    BY DEF Ascending
  <2>1. n + i <= n + j
    BY <1>0, <1>4
  <2> QED BY <1>4, <2>1 DEF Ascending
<1>6. ASSUME NEW i \in 1 .. n, NEW u \in ToSet(r)  PROVE value[s[i]] <= value[u]
  <2>1. PICK j \in DOMAIN r : u = r[j]
    BY DEF ToSet
  <2>2. i \in DOMAIN s /\ i <= n + j
    BY <1>0, <1>3
  <2> QED BY <1>4, <2>1, <2>2 DEF Ascending
<1> QED BY <1>5, <1>6 DEF r

\* A list without duplicates has as many items at its front as places there.
LEMMA FrontCardinality ==
    ASSUME NEW s, NoDuplicates(s), NEW n \in Nat, 1 .. n \subseteq DOMAIN s
    PROVE  LET front == {s[i] : i \in 1..n} IN
           IsFiniteSet(front) /\ Cardinality(front) = n
<1> DEFINE front == {s[i] : i \in 1..n}
           f == [i \in 1..n |-> s[i]]
<1>1. f \in Bijection(1..n, front)
  <2>1. f \in [1..n -> front] /\ \A y \in front : \E i \in 1..n : f[i] = y
    OBVIOUS
  <2>2. \A i, j \in 1..n : f[i] = f[j] => i = j
    BY DEF NoDuplicates
  <2> HIDE DEF f, front
  <2> QED BY <2>1, <2>2, Fun_IsBij
<1>2. IsFiniteSet(1..n) /\ Cardinality(1..n) = n
  <2>1. 1 \in Int /\ n \in Int /\ (IF 1 > n THEN 0 ELSE n - 1 + 1) = n
    OBVIOUS
  <2> QED BY <2>1, FS_Interval
<1> HIDE DEF f, front
<1>3. ExistsBijection(1..n, front)
  BY <1>1 DEF ExistsBijection
<1> QED BY <1>2, <1>3, FS_Bijection DEF front
-----------------------------------------------------------------------------
(* The ready lists R of the tasks S, with priorities prio in P: each holds *)
(* tasks of its own priority, once each, and pxIndex is inside it.  The    *)
(* bit of a priority is set while its list has a task, and exactly then.   *)

ListTypeOf(S) == [items : Seq(S), idx : Nat]

ReadyTypeOf(S, P) == [lists : [P -> ListTypeOf(S)], top : SUBSET P]

ListOK(l, p, prio) ==
    /\ l.idx <= Len(l.items) /\ NoDuplicates(l.items)
    /\ \A t \in ToSet(l.items) : prio[t] = p

ReadySound(R, prio, S, P) ==
    R \in ReadyTypeOf(S, P) /\ \A p \in P : ListOK(R.lists[p], p, prio)

BitsSet(R, P)   == \A p \in P : R.lists[p].items # << >> => p \in R.top
BitsExact(R, P) == \A p \in P : p \in R.top <=> R.lists[p].items # << >>

In(R, prio, t) == t \in ToSet(R.lists[prio[t]].items)

LEMMA EmptyToSet == ToSet(<< >>) = {}
  BY EmptySeq DEF ToSet

LEMMA InsertEndKeeps ==
    ASSUME NEW S, NEW l \in ListTypeOf(S), NEW p, NEW prio, NEW x \in S,
           ListOK(l, p, prio), x \notin ToSet(l.items), prio[x] = p
    PROVE  /\ vListInsertEnd(l, x) \in ListTypeOf(S) /\ ListOK(vListInsertEnd(l, x), p, prio)
           /\ vListInsertEnd(l, x).items # << >>
           /\ \A t : t \in ToSet(vListInsertEnd(l, x).items) <=> t = x \/ t \in ToSet(l.items)
<1> DEFINE r == vListInsertEnd(l, x)
           n == IF l.idx = 0 THEN Len(l.items) + 1 ELSE l.idx
<1> USE DEF ListTypeOf
<1>1. l.items \in Seq(S) /\ Len(l.items) \in Nat /\ DOMAIN l.items = 1 .. Len(l.items) /\ l.idx \in 0 .. Len(l.items)
  BY LenProperties DEF ListOK
<1>2. n \in 1 .. Len(l.items) + 1 /\ n \in Nat
  BY <1>1
<1>3. /\ r.items \in Seq(S) /\ Len(r.items) = Len(l.items) + 1
      /\ \A i \in 1 .. n - 1 : r.items[i] = l.items[i]
      /\ r.items[n] = x
      /\ \A i \in n .. Len(l.items) : r.items[i + 1] = l.items[i]
  <2>1. CASE l.idx = 0
    <3>1. r.items = Append(l.items, x)
      BY <2>1 DEF vListInsertEnd
    <3>2. /\ Append(l.items, x) \in Seq(S) /\ Len(Append(l.items, x)) = Len(l.items) + 1
          /\ \A i \in 1 .. Len(l.items) : Append(l.items, x)[i] = l.items[i]
          /\ Append(l.items, x)[Len(l.items) + 1] = x
      BY <1>1, AppendProperties
    <3> QED BY <1>1, <2>1, <3>1, <3>2
  <2>2. CASE l.idx # 0
    <3>1. r.items = InsertAt(l.items, n, x)
      BY <2>2 DEF vListInsertEnd
    <3> HIDE DEF n
    <3> QED BY <1>1, <1>2, <3>1, InsertAtProperties
  <2> QED BY <2>1, <2>2
<1>4. r \in ListTypeOf(S) /\ r.idx <= Len(r.items)
  <2>1. CASE l.idx = 0
    BY <1>1, <1>3, <2>1 DEF vListInsertEnd
  <2>2. CASE l.idx # 0
    BY <1>1, <1>3, <2>2 DEF vListInsertEnd
  <2> QED BY <2>1, <2>2
<1>5. DOMAIN r.items = 1 .. Len(l.items) + 1
  BY <1>3, LenProperties
<1> DEFINE s == r.items
<1> HIDE DEF n, r, s
<1>6. ToSet(s) = ToSet(l.items) \cup {x}
  <2>1. \A i \in 1 .. Len(l.items) + 1 : s[i] = x \/ \E j \in 1 .. Len(l.items) : s[i] = l.items[j]
    <3> TAKE i \in 1 .. Len(l.items) + 1
    <3>1. CASE i < n
      BY <1>1, <1>2, <1>3, <3>1 DEF s
    <3>2. CASE i = n
      BY <1>3, <3>2 DEF s
    <3>3. CASE i > n
      <4>1. i - 1 \in n .. Len(l.items) /\ i - 1 \in 1 .. Len(l.items) /\ (i - 1) + 1 = i
        BY <1>1, <1>2, <3>3
      <4> QED BY <1>3, <4>1 DEF s
    <3> QED BY <1>2, <3>1, <3>2, <3>3
  <2>2. \A j \in 1 .. Len(l.items) : \E i \in 1 .. Len(l.items) + 1 : s[i] = l.items[j]
    <3> TAKE j \in 1 .. Len(l.items)
    <3>1. CASE j < n
      BY <1>1, <1>2, <1>3, <3>1 DEF s
    <3>2. CASE j >= n
      <4>1. j \in n .. Len(l.items) /\ j + 1 \in 1 .. Len(l.items) + 1
        BY <1>1, <1>2, <3>2
      <4> QED BY <1>3, <4>1 DEF s
    <3> QED BY <1>2, <3>1, <3>2
  <2>3. s[n] = x /\ n \in 1 .. Len(l.items) + 1
    BY <1>2, <1>3 DEF s
  <2>4. DOMAIN s = 1 .. Len(l.items) + 1
    BY <1>5 DEF s
  <2>5. ToSet(l.items) = {l.items[j] : j \in 1 .. Len(l.items)} /\ ToSet(s) = {s[i] : i \in 1 .. Len(l.items) + 1}
    BY <1>1, <2>4 DEF ToSet
  <2>6. ToSet(s) \subseteq ToSet(l.items) \cup {x}
    BY <2>1, <2>5
  <2>7. ToSet(l.items) \cup {x} \subseteq ToSet(s)
    BY <2>2, <2>3, <2>5
  <2> QED BY <2>6, <2>7
<1>7. NoDuplicates(s)
  <2>1. \A i, j \in 1 .. Len(l.items) : l.items[i] = l.items[j] => i = j
    BY <1>1 DEF ListOK, NoDuplicates
  <2>2. \A i \in 1 .. Len(l.items) : l.items[i] # x
    BY <1>1 DEF ToSet
  <2>3. \A i \in 1 .. Len(l.items) + 1 : i = n \/ \E k \in 1 .. Len(l.items) :
           s[i] = l.items[k] /\ ((i < n /\ k = i) \/ (i > n /\ k = i - 1))
    <3> TAKE i \in 1 .. Len(l.items) + 1
    <3>1. CASE i < n
      BY <1>1, <1>2, <1>3, <3>1 DEF s
    <3>3. CASE i > n
      <4>1. i - 1 \in n .. Len(l.items) /\ i - 1 \in 1 .. Len(l.items) /\ (i - 1) + 1 = i
        BY <1>1, <1>2, <3>3
      <4> QED BY <1>3, <3>3, <4>1 DEF s
    <3> QED BY <1>2, <3>1, <3>3
  <2>4. s[n] = x
    BY <1>3 DEF s
  <2>5. ASSUME NEW i \in 1 .. Len(l.items) + 1, NEW j \in 1 .. Len(l.items) + 1, s[i] = s[j]
        PROVE  i = j
    BY <1>1, <1>2, <2>1, <2>2, <2>3, <2>4, <2>5
  <2> QED BY <1>5, <2>5 DEF s, NoDuplicates
<1>8. s # << >>
  BY <1>1, <1>5, EmptySeq, LenProperties, <1>3 DEF s
<1>9. \A t \in ToSet(s) : prio[t] = p
  BY <1>6 DEF ListOK
<1> QED BY <1>4, <1>6, <1>7, <1>8, <1>9 DEF r, s, ListOK

LEMMA InsertEndAdds ==
    ASSUME NEW S, NEW l \in ListTypeOf(S), NEW p, NEW prio, NEW x \in S,
           ListOK(l, p, prio), x \notin ToSet(l.items), prio[x] = p
    PROVE  ToSet(vListInsertEnd(l, x).items) = ToSet(l.items) \cup {x}
  BY InsertEndKeeps

LEMMA ReadyRemoveKeeps ==
    ASSUME NEW S, NEW l \in ListTypeOf(S), NEW p, NEW prio, NEW x \in ToSet(l.items),
           ListOK(l, p, prio)
    PROVE  LET r == uxReadyListRemove(l, x) IN
           /\ r \in ListTypeOf(S) /\ ListOK(r, p, prio)
           /\ \A t : t \in ToSet(r.items) <=> t # x /\ t \in ToSet(l.items)
<1> DEFINE r == uxReadyListRemove(l, x)
           k == CHOOSE i \in DOMAIN l.items : l.items[i] = x
<1> USE DEF ListTypeOf
<1>1. l.items \in Seq(S) /\ Len(l.items) \in Nat /\ DOMAIN l.items = 1 .. Len(l.items)
      /\ l.idx \in 0 .. Len(l.items) /\ NoDuplicates(l.items)
  BY LenProperties DEF ListOK
<1>2. k \in 1 .. Len(l.items)
  BY <1>1 DEF ToSet
<1>3. r = [items |-> uxListRemove(l.items, x), idx |-> IF k <= l.idx THEN l.idx - 1 ELSE l.idx]
  BY DEF uxReadyListRemove
<1>4. /\ uxListRemove(l.items, x) \in Seq(S)
      /\ ToSet(uxListRemove(l.items, x)) = ToSet(l.items) \ {x}
      /\ NoDuplicates(uxListRemove(l.items, x))
  BY <1>1, uxListRemoveProperties
<1>5. Len(uxListRemove(l.items, x)) = Len(l.items) - 1
  BY <1>1, uxListRemovePositions
<1> HIDE DEF r, k
<1>6. r.items = uxListRemove(l.items, x) /\ r.idx = IF k <= l.idx THEN l.idx - 1 ELSE l.idx
  BY <1>3
<1>7. r.idx \in Nat /\ r.idx <= Len(l.items) - 1
  BY <1>1, <1>2, <1>6
<1>8. r \in ListTypeOf(S)
  BY <1>3, <1>4, <1>6, <1>7
<1> QED BY <1>4, <1>5, <1>6, <1>7, <1>8 DEF r, ListOK

LEMMA NextOwnerKeeps ==
    ASSUME NEW S, NEW l \in ListTypeOf(S), NEW p, NEW prio, l.items # << >>,
           ListOK(l, p, prio)
    PROVE  LET r == listGET_OWNER_OF_NEXT_ENTRY(l) IN
           /\ r \in ListTypeOf(S) /\ ListOK(r, p, prio)
           /\ r.items = l.items /\ r.items[r.idx] \in ToSet(l.items)
<1> DEFINE r == listGET_OWNER_OF_NEXT_ENTRY(l)
<1> USE DEF ListTypeOf
<1>1. l.items \in Seq(S) /\ Len(l.items) \in Nat /\ DOMAIN l.items = 1 .. Len(l.items)
      /\ l.idx \in 0 .. Len(l.items) /\ Len(l.items) # 0
  BY LenProperties, EmptySeq DEF ListOK
<1>2. r.items = l.items /\ r.idx = IF l.idx = Len(l.items) THEN 1 ELSE l.idx + 1
  BY DEF listGET_OWNER_OF_NEXT_ENTRY
<1>3. r \in ListTypeOf(S)
  BY <1>1 DEF listGET_OWNER_OF_NEXT_ENTRY
<1> HIDE DEF r
<1>4. r.idx \in 1 .. Len(l.items)
  BY <1>1, <1>2
<1> QED BY <1>1, <1>2, <1>3, <1>4 DEF r, ListOK, ToSet

\* The tasks of the ready lists.
LEMMA ReadyTasks ==
    ASSUME NEW S, NEW P, NEW R, NEW prio \in [S -> P], ReadySound(R, prio, S, P), NEW q \in P
    PROVE  /\ R.lists[q] \in ListTypeOf(S) /\ ListOK(R.lists[q], q, prio)
           /\ ToSet(R.lists[q].items) \subseteq S
           /\ \A t \in S : t \in ToSet(R.lists[q].items) <=> prio[t] = q /\ In(R, prio, t)
<1>1. R.lists[q] \in ListTypeOf(S) /\ ListOK(R.lists[q], q, prio)
  BY DEF ReadySound, ReadyTypeOf
<1>2. ToSet(R.lists[q].items) \subseteq S
  BY <1>1, LenProperties DEF ToSet, ListTypeOf
<1>3. \A t \in S : t \in ToSet(R.lists[q].items) <=> prio[t] = q /\ In(R, prio, t)
  BY <1>1 DEF ListOK, In
<1> QED BY <1>1, <1>2, <1>3

\* A task becomes ready, with its priority set at the same time or not.
LEMMA AddReady ==
    ASSUME NEW S, NEW P, NEW R, NEW prio \in [S -> P], NEW prio2 \in [S -> P], NEW u \in S,
           NEW p, p = prio2[u], ReadySound(R, prio, S, P), ~In(R, prio, u),
           \A t \in S \ {u} : prio2[t] = prio[t],
           NEW R2, R2 = prvAddTaskToReadyList(R, u, p)
    PROVE  /\ ReadySound(R2, prio2, S, P)
           /\ BitsSet(R, P) => BitsSet(R2, P)
           /\ BitsExact(R, P) => BitsExact(R2, P)
           /\ \A t \in S : In(R2, prio2, t) <=> t = u \/ In(R, prio, t)
<1>1. p \in P
  OBVIOUS
<1>2. \A q \in P : /\ R.lists[q] \in ListTypeOf(S)
                   /\ ListOK(R.lists[q], q, prio2)
                   /\ u \notin ToSet(R.lists[q].items)
  <2> TAKE q \in P
  <2>1. /\ R.lists[q] \in ListTypeOf(S) /\ ListOK(R.lists[q], q, prio)
        /\ ToSet(R.lists[q].items) \subseteq S
        /\ \A t \in S : t \in ToSet(R.lists[q].items) <=> prio[t] = q /\ In(R, prio, t)
    BY ReadyTasks
  <2>2. ToSet(R.lists[q].items) \subseteq S \ {u}
    BY <2>1
  <2>3. ListOK(R.lists[q], q, prio2)
    BY <2>1, <2>2 DEF ListOK
  <2> QED BY <2>1, <2>2, <2>3
<1> DEFINE r == vListInsertEnd(R.lists[p], u)
<1>3. /\ R.lists[p] \in ListTypeOf(S) /\ ListOK(R.lists[p], p, prio2)
      /\ u \notin ToSet(R.lists[p].items) /\ prio2[u] = p
  BY <1>1, <1>2
<1>4. ToSet(r.items) = ToSet(R.lists[p].items) \cup {u}
  BY <1>3, InsertEndAdds
<1>5. r \in ListTypeOf(S) /\ ListOK(r, p, prio2) /\ r.items # << >>
  BY <1>3, InsertEndKeeps
<1>6. R2 = [lists |-> [R.lists EXCEPT ![p] = r], top |-> R.top \cup {p}]
  BY DEF prvAddTaskToReadyList
<1>7. R.lists \in [P -> ListTypeOf(S)] /\ R.top \subseteq P
  BY DEF ReadySound, ReadyTypeOf
<1> HIDE DEF r
<1> DEFINE L == [R.lists EXCEPT ![p] = r]
<1>8. L \in [P -> ListTypeOf(S)] /\ \A q \in P : L[q] = IF q = p THEN r ELSE R.lists[q]
  BY <1>1, <1>5, <1>7
<1> HIDE DEF L
<1>9. R2 \in ReadyTypeOf(S, P) /\ R2.lists = L /\ R2.top = R.top \cup {p}
  BY <1>1, <1>6, <1>7, <1>8 DEF ReadyTypeOf, L
<1>10. \A q \in P : ListOK(R2.lists[q], q, prio2)
  BY <1>2, <1>5, <1>8, <1>9
<1>11. BitsSet(R, P) => BitsSet(R2, P)
  BY <1>8, <1>9 DEF BitsSet
<1>12. BitsExact(R, P) => BitsExact(R2, P)
  BY <1>5, <1>8, <1>9 DEF BitsExact
<1>13. ASSUME NEW t \in S
       PROVE  In(R2, prio2, t) <=> t = u \/ In(R, prio, t)
  <2>1. CASE t = u
    BY <1>1, <1>4, <1>8, <1>9, <2>1 DEF In
  <2>2. CASE t # u
    <3>1. prio2[t] = prio[t] /\ prio[t] \in P
      BY <2>2
    <3>2. CASE prio[t] = p
      BY <1>4, <1>8, <1>9, <2>2, <3>1, <3>2 DEF In
    <3>3. CASE prio[t] # p
      BY <1>8, <1>9, <2>2, <3>1, <3>3 DEF In
    <3> QED BY <3>2, <3>3
  <2> QED BY <2>1, <2>2
<1> QED BY <1>9, <1>10, <1>11, <1>12, <1>13 DEF ReadySound

\* A task leaves the ready lists, and the bit of c is cleared if its list is empty.
LEMMA RemoveReady ==
    ASSUME NEW S, NEW P, NEW R, NEW prio \in [S -> P], NEW u \in S,
           ReadySound(R, prio, S, P), In(R, prio, u), NEW c \in P,
           NEW R2, R2 = RemoveAndClear(R, u, prio[u], c)
    PROVE  /\ ReadySound(R2, prio, S, P)
           /\ BitsSet(R, P) => BitsSet(R2, P)
           /\ BitsExact(R, P) /\ c = prio[u] => BitsExact(R2, P)
           /\ \A t \in S : In(R2, prio, t) <=> t # u /\ In(R, prio, t)
<1> DEFINE p == prio[u]
           r == uxReadyListRemove(R.lists[p], u)
<1>1. p \in P
  OBVIOUS
<1>2. \A q \in P : R.lists[q] \in ListTypeOf(S) /\ ListOK(R.lists[q], q, prio)
  BY DEF ReadySound, ReadyTypeOf
<1>3. u \in ToSet(R.lists[p].items)
  BY DEF In
<1>4. /\ r \in ListTypeOf(S) /\ ListOK(r, p, prio)
      /\ ToSet(r.items) = ToSet(R.lists[p].items) \ {u}
  <2>1. R.lists[p] \in ListTypeOf(S) /\ ListOK(R.lists[p], p, prio)
    BY <1>1, <1>2
  <2> DEFINE k == R.lists[p]
  <2>2. k \in ListTypeOf(S) /\ ListOK(k, p, prio) /\ u \in ToSet(k.items)
    BY <1>3, <2>1
  <2> HIDE DEF k
  <2>3. /\ uxReadyListRemove(k, u) \in ListTypeOf(S) /\ ListOK(uxReadyListRemove(k, u), p, prio)
        /\ \A t : t \in ToSet(uxReadyListRemove(k, u).items) <=> t # u /\ t \in ToSet(k.items)
    BY <2>2, ReadyRemoveKeeps
  <2> QED BY <2>3 DEF k
<1> DEFINE L == [R.lists EXCEPT ![p] = r]
<1>5. R2 = [lists |-> L, top |-> IF L[c].items = << >> THEN R.top \ {c} ELSE R.top]
  BY DEF RemoveAndClear
<1>6. R.lists \in [P -> ListTypeOf(S)] /\ R.top \subseteq P
  BY DEF ReadySound, ReadyTypeOf
<1> HIDE DEF r, p
<1>7. L \in [P -> ListTypeOf(S)] /\ \A q \in P : L[q] = IF q = p THEN r ELSE R.lists[q]
  BY <1>1, <1>4, <1>6
<1> HIDE DEF L
<1>8. R2 \in ReadyTypeOf(S, P) /\ R2.lists = L /\ R2.top = IF L[c].items = << >> THEN R.top \ {c} ELSE R.top
  BY <1>5, <1>6, <1>7 DEF ReadyTypeOf
<1>9. R.lists[p].items # << >>
  BY <1>3, EmptyToSet
<1>10. \A q \in P : ListOK(R2.lists[q], q, prio)
  BY <1>2, <1>4, <1>7, <1>8
<1>11. BitsSet(R, P) => BitsSet(R2, P)
  BY <1>7, <1>8, <1>9 DEF BitsSet
<1>12. BitsExact(R, P) /\ c = p => BitsExact(R2, P)
  BY <1>1, <1>7, <1>8, <1>9 DEF BitsExact
<1>13. ASSUME NEW t \in S
       PROVE  In(R2, prio, t) <=> t # u /\ In(R, prio, t)
  <2>1. prio[t] \in P
    OBVIOUS
  <2>2. CASE prio[t] = p
    BY <1>4, <1>7, <1>8, <2>1, <2>2 DEF In
  <2>3. CASE prio[t] # p
    BY <1>7, <1>8, <2>1, <2>3 DEF In, p
  <2> QED BY <2>2, <2>3
<1> QED BY <1>8, <1>10, <1>11, <1>12, <1>13 DEF ReadySound, p

\* The priority of a task that is not ready.
LEMMA Reprioritise ==
    ASSUME NEW S, NEW P, NEW R, NEW prio \in [S -> P], NEW prio2 \in [S -> P], NEW u \in S,
           ReadySound(R, prio, S, P), ~In(R, prio, u), \A t \in S \ {u} : prio2[t] = prio[t]
    PROVE  ReadySound(R, prio2, S, P) /\ \A t \in S : In(R, prio2, t) <=> In(R, prio, t)
<1>1. \A q \in P : ToSet(R.lists[q].items) \subseteq S \ {u}
  <2> TAKE q \in P
  <2>1. /\ ToSet(R.lists[q].items) \subseteq S
        /\ \A t \in S : t \in ToSet(R.lists[q].items) <=> prio[t] = q /\ In(R, prio, t)
    BY ReadyTasks
  <2> QED BY <2>1
<1>2. \A q \in P : ListOK(R.lists[q], q, prio2)
  BY <1>1 DEF ListOK, ReadySound
<1>3. \A t \in S : In(R, prio2, t) <=> In(R, prio, t)
  <2>1. prio2[u] \in P
    OBVIOUS
  <2>2. ~In(R, prio2, u)
    BY <1>1, <2>1 DEF In
  <2> QED BY <2>2 DEF In
<1> QED BY <1>2, <1>3 DEF ReadySound

\* The bit map has a highest bit, and its list a next task.
LEMMA MaxOfBounded ==
    ASSUME NEW N \in Nat, NEW T \in SUBSET (0 .. N), T # {}
    PROVE  Max(T) \in T /\ \A p \in T : p <= Max(T)
<1> DEFINE X == {N - p : p \in T}
<1>1. N \in Nat /\ \A p \in T : p \in Nat /\ p <= N
  OBVIOUS
<1>2. X \subseteq Nat /\ X # {}
  <2>1. \A p \in T : N - p \in Nat
    BY <1>1
  <2> QED BY <2>1
<1>3. \E x \in X : \A y \in X : ~ (<<y, x>> \in OpToRel(<, Nat))
  BY <1>2, NatLessThanWellFounded, WFMin
<1>4. PICK x \in X : \A y \in X : ~ (y < x)
  <2>1. PICK z \in X : \A y \in X : ~ (<<y, z>> \in OpToRel(<, Nat))
    BY <1>3
  <2>2. \A y \in X : <<y, z>> \in OpToRel(<, Nat) <=> y < z
    BY <1>2 DEF OpToRel
  <2>3. \A y \in X : ~ (y < z)
    BY <2>1, <2>2
  <2> HIDE DEF X
  <2> QED BY <2>1, <2>3
<1>5. PICK m \in T : x = N - m
  BY <1>4
<1>6. ASSUME NEW p \in T
      PROVE  m >= p
  <2>1. N - p \in X
    OBVIOUS
  <2>2. ~ (N - p < N - m)
    BY <1>4, <1>5, <2>1
  <2>3. x \in Nat /\ p \in Int /\ m \in Int /\ N \in Int
    BY <1>1, <1>2, <1>4
  <2> QED BY <2>2, <2>3
<1>7. \A p \in T : m >= p
  BY <1>6
<1> HIDE DEF X
<1>8. Max(T) = CHOOSE y \in T : \A p \in T : y >= p
  BY DEF Max
<1>9. Max(T) \in T /\ \A p \in T : Max(T) >= p
  BY <1>7, <1>8
<1> QED BY <1>1, <1>9

LEMMA SwitchReady ==
    ASSUME NEW S, NEW P, NEW R, NEW prio \in [S -> P], ReadySound(R, prio, S, P),
           NEW p, p \in R.top, \A q \in R.top : q <= p, R.lists[p].items # << >>,
           NEW l, l = listGET_OWNER_OF_NEXT_ENTRY(R.lists[p]),
           NEW R2, R2 = [R EXCEPT !.lists[p] = l],
           NEW t, t = l.items[l.idx]
    PROVE  /\ ReadySound(R2, prio, S, P)
           /\ BitsSet(R, P) => BitsSet(R2, P)
           /\ BitsExact(R, P) => BitsExact(R2, P)
           /\ \A u \in S : In(R2, prio, u) <=> In(R, prio, u)
           /\ t \in S /\ In(R, prio, t)
           /\ BitsSet(R, P) => \A u \in S : In(R, prio, u) => prio[u] <= prio[t]
<1>1. R.lists \in [P -> ListTypeOf(S)] /\ R.top \subseteq P
  BY DEF ReadySound, ReadyTypeOf
<1>2. p \in R.top /\ \A q \in R.top : q <= p
  OBVIOUS
<1>3. l = listGET_OWNER_OF_NEXT_ENTRY(R.lists[p]) /\ R2 = [R EXCEPT !.lists[p] = l]
  OBVIOUS
<1>4. R.lists[p].items # << >>
  OBVIOUS
<1>5. p \in P /\ R.lists[p] \in ListTypeOf(S) /\ ListOK(R.lists[p], p, prio)
  BY <1>1, <1>2 DEF ReadySound
<1>6. /\ l \in ListTypeOf(S) /\ ListOK(l, p, prio)
      /\ l.items = R.lists[p].items /\ t \in ToSet(R.lists[p].items)
  BY <1>3, <1>4, <1>5, NextOwnerKeeps
<1> DEFINE L == [R.lists EXCEPT ![p] = l]
<1>7. L \in [P -> ListTypeOf(S)] /\ \A q \in P : L[q] = IF q = p THEN l ELSE R.lists[q]
  BY <1>1, <1>5, <1>6
<1>8. R = [lists |-> R.lists, top |-> R.top]
  BY DEF ReadySound, ReadyTypeOf
<1>9. R2 = [lists |-> L, top |-> R.top]
  BY <1>3, <1>8
<1> HIDE DEF L
<1>10. R2 \in ReadyTypeOf(S, P) /\ R2.top = R.top /\ R2.lists = L
  <2>1. R2.top = R.top /\ R2.lists = L
    BY <1>9
  <2>2. R.top \in SUBSET P /\ L \in [P -> ListTypeOf(S)]
    BY <1>1, <1>7
  <2>3. [lists |-> L, top |-> R.top] \in ReadyTypeOf(S, P)
    BY <2>2 DEF ReadyTypeOf
  <2> QED BY <1>9, <2>1, <2>3
<1>11. t \in S /\ prio[t] = p /\ In(R, prio, t)
  <2>1. /\ ToSet(R.lists[p].items) \subseteq S
        /\ \A u \in S : u \in ToSet(R.lists[p].items) <=> prio[u] = p /\ In(R, prio, u)
    BY <1>5, ReadyTasks
  <2> QED BY <1>6, <2>1
<1>12. \A q \in P : ListOK(R2.lists[q], q, prio)
  BY <1>6, <1>7, <1>10 DEF ReadySound
<1>13. \A q \in P : R2.lists[q].items = R.lists[q].items
  BY <1>6, <1>7, <1>10
<1>14. /\ BitsSet(R, P) => BitsSet(R2, P)
       /\ BitsExact(R, P) => BitsExact(R2, P)
  BY <1>10, <1>13 DEF BitsSet, BitsExact
<1>15. \A u \in S : In(R2, prio, u) <=> In(R, prio, u)
  BY <1>13 DEF In
<1>16. ASSUME BitsSet(R, P), NEW u \in S, In(R, prio, u) PROVE prio[u] <= prio[t]
  <2>1. R.lists[prio[u]].items # << >> /\ prio[u] \in P
    BY <1>16, EmptyToSet DEF In
  <2>2. prio[u] \in R.top
    BY <1>16, <2>1 DEF BitsSet
  <2> QED BY <1>2, <1>11, <2>2
<1> QED BY <1>10, <1>11, <1>12, <1>14, <1>15, <1>16 DEF ReadySound

LEMMA SetToSeqProperties ==
    ASSUME NEW S, IsFiniteSet(S)
    PROVE  /\ SetToSeq(S) \in Seq(S) /\ NoDuplicates(SetToSeq(S)) /\ ToSet(SetToSeq(S)) = S
<1> DEFINE n == Cardinality(S)
           s == SetToSeq(S)
<1>1. n \in Nat /\ ExistsBijection(1 .. n, S)
  BY FS_CardinalityType
<1> HIDE DEF n
<1>2. \E f \in [1 .. n -> S] : IsInjective(f)
  BY <1>1 DEF ExistsBijection, Bijection, Injection
<1>3. s \in [1 .. n -> S] /\ IsInjective(s)
  BY <1>2 DEF SetToSeq, n
<1>4. Cardinality(1 .. n) = n
  <2>1. Cardinality(1 .. n) = IF 1 > n THEN 0 ELSE n - 1 + 1
    BY <1>1, FS_Interval
  <2> QED BY <1>1, <2>1
<1> HIDE DEF s
<1>5. s \in Injection(1 .. n, S)
  BY <1>3 DEF Injection
<1>6. s \in Surjection(1 .. n, S)
  BY <1>4, <1>5, FS_Injection DEF n
<1>7. s \in Seq(S)
  BY <1>1, <1>3, IsASeq
<1>8. NoDuplicates(s)
  BY <1>3 DEF IsInjective, NoDuplicates
<1>9. ToSet(s) = S
  BY <1>3, <1>6 DEF Surjection, ToSet
<1> QED BY <1>7, <1>8, <1>9 DEF s

LEMMA HeadIn ==
    ASSUME NEW S, NEW s \in Seq(S), s # << >>
    PROVE  Head(s) \in S /\ Head(s) \in ToSet(s) /\ Head(s) = s[1]
<1>1. Len(s) \in Nat /\ Len(s) # 0 /\ DOMAIN s = 1 .. Len(s) /\ Head(s) = s[1]
  BY LenProperties, EmptySeq, HeadTailProperties
<1>2. 1 \in DOMAIN s
  BY <1>1
<1> QED BY <1>1, <1>2, ElementOfSeq DEF ToSet

\* The lists of the priorities the tasks are created with.
LEMMA InitReady ==
    ASSUME NEW S, IsFiniteSet(S), NEW P, NEW prio \in [S -> P], NEW R,
           R = [lists |-> [p \in P |-> [items |-> SetToSeq({t \in S : prio[t] = p}), idx |-> 0]],
                top   |-> {prio[t] : t \in S}]
    PROVE  /\ ReadySound(R, prio, S, P) /\ BitsExact(R, P) /\ BitsSet(R, P)
           /\ \A t \in S : In(R, prio, t)
<1> DEFINE items == [p \in P |-> SetToSeq({t \in S : prio[t] = p})]
<1>1. ASSUME NEW p \in P
      PROVE  /\ items[p] \in Seq(S) /\ NoDuplicates(items[p]) /\ Len(items[p]) \in Nat
             /\ ToSet(items[p]) = {t \in S : prio[t] = p}
  <2> DEFINE T == {t \in S : prio[t] = p}
  <2>1. IsFiniteSet(T) /\ items[p] = SetToSeq(T)
    BY FS_Subset
  <2> HIDE DEF items, T
  <2>2. items[p] \in Seq(T) /\ NoDuplicates(items[p]) /\ ToSet(items[p]) = T
    BY <2>1, SetToSeqProperties
  <2>3. items[p] \in Seq(S)
    BY <2>2, ElementOfSeq, LenProperties, IsASeq, SeqDef DEF T
  <2> QED BY <2>2, <2>3, LenProperties DEF T
<1>2. R = [lists |-> [p \in P |-> [items |-> items[p], idx |-> 0]], top |-> {prio[t] : t \in S}]
  OBVIOUS
<1> HIDE DEF items
<1>3. /\ R.top = {prio[t] : t \in S}
      /\ \A p \in P : R.lists[p].items = items[p] /\ R.lists[p].idx = 0
  BY <1>2
<1>4. R \in ReadyTypeOf(S, P)
  <2>1. [p \in P |-> [items |-> items[p], idx |-> 0]] \in [P -> ListTypeOf(S)]
    BY <1>1 DEF ListTypeOf
  <2> QED BY <1>2, <2>1 DEF ReadyTypeOf
<1>5. \A p \in P : ListOK(R.lists[p], p, prio)
  BY <1>1, <1>3 DEF ListOK
<1>6. \A t \in S : In(R, prio, t)
  BY <1>1, <1>3 DEF In
<1>7. ASSUME NEW p \in P PROVE p \in R.top <=> R.lists[p].items # << >>
  <2>1. p \in R.top <=> \E t \in S : prio[t] = p
    BY <1>3
  <2>2. items[p] # << >> => Head(items[p]) \in ToSet(items[p])
    BY <1>1, HeadProperties
  <2>3. items[p] # << >> <=> \E t \in S : prio[t] = p
    BY <1>1, <2>2, EmptyToSet
  <2> QED BY <1>3, <2>1, <2>3
<1> QED BY <1>4, <1>5, <1>6, <1>7 DEF ReadySound, BitsExact, BitsSet
=============================================================================
