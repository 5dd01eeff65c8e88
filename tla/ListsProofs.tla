----------------------------- MODULE ListsProofs ------------------------------
(***************************************************************************)
(* What the filters and the sort of Lists return, for any lists.           *)
(***************************************************************************)
EXTENDS Lists, Sequences, FiniteSetTheorems, WellFoundedInduction, TLAPS

\* A finite set of whole numbers has a greatest one.
LEMMA GreatestExists ==
    ASSUME NEW J \in SUBSET Int, IsFiniteSet(J), J # {}
    PROVE  \E m \in J : \A j \in J : j <= m
<1> DEFINE From(i) == {j \in J : i <= j}
           T == {From(i) : i \in J}
<1>1. T # {} /\ T \subseteq FiniteSubsetsOf(J)
  <2>1. FiniteSubsetsOf(J) = SUBSET J
    BY FS_FiniteSubsetsOfFinite
  <2>2. \A i \in J : From(i) \in SUBSET J
    OBVIOUS
  <2>3. T # {}
    OBVIOUS
  <2> HIDE DEF From
  <2> QED
    BY <2>1, <2>2, <2>3
<1>2. PICK X \in T : \A Y \in T : <<Y, X>> \notin StrictSubsetOrdering(J)
  <2> HIDE DEF T
  <2> QED
    BY <1>1, FS_StrictSubsetOrderingWellFounded, WFMin
<1>3. PICK m \in J : X = From(m)
  OBVIOUS
<1>4. ASSUME NEW j \in J, ~(j <= m)
      PROVE  FALSE
  <2>1. m \in Int /\ m < j /\ m <= m
    BY <1>4
  <2>2. m \in From(m) /\ m \notin From(j)
    BY <2>1, <1>4
  <2>3. \A i \in J : j <= i => m <= i
    BY <2>1
  <2>4. From(j) \subseteq From(m)
    BY <2>3
  <2>5. From(j) \in SUBSET J /\ From(m) \in SUBSET J /\ From(j) \in T
    OBVIOUS
  <2>6. From(j) # From(m)
    BY <2>2
  <2> HIDE DEF From, T
  <2>7. <<From(j), X>> \in StrictSubsetOrdering(J)
    BY <2>4, <2>5, <2>6, <1>3 DEF StrictSubsetOrdering
  <2> QED
    BY <2>5, <2>7, <1>2
<1> QED
  BY <1>4

\* The k-th of finitely many whole numbers exists, whatever k up to their number.
LEMMA KthExists ==
    ASSUME NEW I \in SUBSET Int, IsFiniteSet(I), NEW k \in 1 .. Cardinality(I)
    PROVE  \E i \in I : Cardinality({j \in I : j < i}) = k - 1
<1> DEFINE Below(J, i) == {j \in J : j < i}
           Good(J) == \A n \in 1 .. Cardinality(J) :
                        \E i \in J : Cardinality(Below(J, i)) = n - 1
           Bad == {J \in SUBSET I : ~Good(J)}
<1>1. SUFFICES Good(I)
  OBVIOUS
<1>2. SUFFICES ASSUME ~Good(I)
               PROVE  FALSE
  OBVIOUS
<1>3. Bad # {} /\ Bad \subseteq FiniteSubsetsOf(I)
  <2>1. I \in Bad
    BY <1>2
  <2>2. FiniteSubsetsOf(I) = SUBSET I
    BY FS_FiniteSubsetsOfFinite
  <2> QED
    BY <2>1, <2>2
<1>4. PICK J \in Bad : \A K \in Bad : <<K, J>> \notin StrictSubsetOrdering(I)
  <2> HIDE DEF Bad
  <2> QED
    BY <1>3, FS_StrictSubsetOrderingWellFounded, WFMin
<1>5. J \in SUBSET I /\ ~Good(J)
  BY <1>4
<1>6. IsFiniteSet(J) /\ Cardinality(J) \in Nat
  BY <1>5, FS_Subset, FS_CardinalityType
<1>7. PICK n \in 1 .. Cardinality(J) : ~ \E i \in J : Cardinality(Below(J, i)) = n - 1
  BY <1>5
<1>8. J # {}
  BY <1>6, <1>7, FS_EmptySet
<1>9. \E m \in J : \A j \in J : j <= m
  <2> HIDE DEF Good
  <2> QED
    BY <1>5, <1>6, <1>8, GreatestExists
<1>10. PICK m \in J : \A j \in J : j <= m
  BY <1>9
<1> DEFINE K == J \ {m}
<1>11. IsFiniteSet(K) /\ Cardinality(K) = Cardinality(J) - 1
  BY <1>6, FS_RemoveElement
<1>12. Below(J, m) = K
  <2>1. m \in Int /\ \A j \in J : j \in Int
    BY <1>5
  <2>2. \A j \in J : j < m <=> j # m
    BY <2>1, <1>10
  <2> QED
    BY <2>2
<1>13. Good(K)
  <2>1. K \in SUBSET I /\ K # J /\ K \subseteq J
    BY <1>5
  <2>2. <<K, J>> \in StrictSubsetOrdering(I)
    BY <2>1, <1>5 DEF StrictSubsetOrdering
  <2> QED
    BY <2>1, <2>2, <1>4
<1>14. n - 1 # Cardinality(K)
  BY <1>7, <1>12
<1>15. n \in 1 .. Cardinality(K)
  BY <1>11, <1>14, <1>6
<1>16. PICK i \in K : Cardinality(Below(K, i)) = n - 1
  <2> HIDE DEF K
  <2> QED
    BY <1>13, <1>15
<1>17. Below(K, i) = Below(J, i)
  BY <1>5, <1>10
<1> QED
  BY <1>16, <1>17, <1>7

\* A filtered list has its entries from the places kept, each place once.
LEMMA EntriesKept ==
    ASSUME NEW S, NEW s \in Seq(S), NEW I \in SUBSET DOMAIN s
    PROVE  /\ Entries(s, I) \in Seq(S)
           /\ Len(Entries(s, I)) = Cardinality(I)
           /\ \A k \in DOMAIN Entries(s, I) :
                Kth(I, k) \in I /\ Entries(s, I)[k] = s[Kth(I, k)]
           /\ \A k, l \in DOMAIN Entries(s, I) : Kth(I, k) = Kth(I, l) => k = l
<1>1. DOMAIN s = 1 .. Len(s) /\ Len(s) \in Nat
  OBVIOUS
<1>2. I \in SUBSET Int /\ IsFiniteSet(I) /\ Cardinality(I) \in Nat
  <2>1. IsFiniteSet(1 .. Len(s))
    BY <1>1, FS_Interval
  <2> QED
    BY <1>1, <2>1, FS_Subset, FS_CardinalityType
<1>3. ASSUME NEW k \in 1 .. Cardinality(I)
      PROVE  Kth(I, k) \in I /\ Cardinality({j \in I : j < Kth(I, k)}) = k - 1
  BY <1>2, KthExists DEF Kth
<1> DEFINE e == Entries(s, I)
           n == Cardinality(I)
<1>4. e = [k \in 1 .. n |-> s[Kth(I, k)]]
  BY DEF Entries
<1>5. n \in Nat /\ \A k \in 1 .. n : s[Kth(I, k)] \in S
  <2>1. \A i \in I : s[i] \in S
    BY <1>1
  <2> QED
    BY <2>1, <1>2, <1>3
<1> HIDE DEF e, n
<1>6. e \in Seq(S) /\ Len(e) = n /\ DOMAIN e = 1 .. n
  BY <1>4, <1>5
<1>7. \A k, l \in 1 .. n : Kth(I, k) = Kth(I, l) => k = l
  <2>1. ASSUME NEW k \in 1 .. n, NEW l \in 1 .. n, Kth(I, k) = Kth(I, l)
        PROVE  k = l
    <3>1. k - 1 = l - 1
      BY <1>3, <2>1 DEF n
    <3> QED
      BY <3>1, <1>5
  <2> QED
    BY <2>1
<1> QED
  BY <1>3, <1>4, <1>6, <1>7 DEF e, n

\* A filtered list lacks no place kept.
LEMMA EntriesCover ==
    ASSUME NEW S, NEW s \in Seq(S), NEW I \in SUBSET DOMAIN s
    PROVE  \A i \in I : \E k \in DOMAIN Entries(s, I) : Kth(I, k) = i
<1> DEFINE e == Entries(s, I)
           D == DOMAIN e
           place == [k \in D |-> Kth(I, k)]
<1>1. /\ e \in Seq(S) /\ Len(e) = Cardinality(I)
      /\ \A k \in D : Kth(I, k) \in I
      /\ \A k, l \in D : Kth(I, k) = Kth(I, l) => k = l
  BY EntriesKept
<1>2. D = 1 .. Len(e) /\ Len(e) \in Nat
  <2> HIDE DEF e
  <2> QED
    BY <1>1
<1>3. IsFiniteSet(D) /\ Cardinality(D) = Cardinality(I)
  <2>1. \A n \in Nat : IsFiniteSet(1 .. n) /\ Cardinality(1 .. n) = n
    BY FS_Interval
  <2> HIDE DEF e
  <2> QED
    BY <1>1, <1>2, <2>1
<1>4. IsFiniteSet(I)
  <2>1. DOMAIN s = 1 .. Len(s) /\ Len(s) \in Nat
    OBVIOUS
  <2>2. IsFiniteSet(DOMAIN s)
    BY <2>1, FS_Interval
  <2> QED
    BY <2>2, FS_Subset
<1> HIDE DEF e, D
<1>5. place \in [D -> I] /\ \A k \in D : place[k] = Kth(I, k)
  BY <1>1
<1> HIDE DEF place
<1>6. place \in Injection(D, I)
  BY <1>1, <1>5 DEF Injection, IsInjective
<1>7. place \in Surjection(D, I)
  BY <1>3, <1>4, <1>6, FS_Injection
<1> QED
  BY <1>5, <1>7 DEF Surjection, D, e

\* A filter that keeps every place keeps the list.
LEMMA EntriesOfAll ==
    ASSUME NEW S, NEW s \in Seq(S)
    PROVE  Entries(s, DOMAIN s) = s
<1> DEFINE I == DOMAIN s
<1>1. I = 1 .. Len(s) /\ Len(s) \in Nat
  OBVIOUS
<1>2. IsFiniteSet(I) /\ Cardinality(I) = Len(s)
  BY <1>1, FS_Interval
<1>3. ASSUME NEW k \in I
      PROVE  Kth(I, k) = k
  <2>1. k \in 1 .. Cardinality(I) /\ I \in SUBSET Int
    BY <1>1, <1>2
  <2>2. Kth(I, k) \in I /\ Cardinality({j \in I : j < Kth(I, k)}) = k - 1
    BY <2>1, <1>2, KthExists DEF Kth
  <2>3. {j \in I : j < Kth(I, k)} = 1 .. Kth(I, k) - 1
    BY <1>1, <2>2
  <2>4. Cardinality(1 .. Kth(I, k) - 1) = Kth(I, k) - 1
    <3>1. Kth(I, k) \in Nat /\ Kth(I, k) > 0
      BY <1>1, <2>2
    <3> HIDE DEF I
    <3> QED
      BY <3>1, FS_Interval
  <2>5. Kth(I, k) \in Int /\ k \in Int
    BY <1>1, <2>2
  <2> HIDE DEF I
  <2>6. Kth(I, k) - 1 = k - 1
    BY <2>2, <2>3, <2>4
  <2> QED
    BY <2>5, <2>6
<1>4. Entries(s, I) = [k \in 1 .. Len(s) |-> s[k]]
  BY <1>1, <1>2, <1>3 DEF Entries
<1> QED
  BY <1>4

\* Each place of rows listed newest first is some row's: as many stand before it as are newer.
LEMMA RowAtPlace ==
    ASSUME NEW T, IsFiniteSet(T), \A t \in T : t.id \in Int, \A t, u \in T : t.id = u.id => t = u,
           NEW k \in 1 .. Cardinality(T)
    PROVE  \E t \in T : Cardinality({u \in T : u.id > t.id}) = k - 1
<1> DEFINE I == {-t.id : t \in T}
           Above(t) == {u \in T : u.id > t.id}
           n == Cardinality(T)
<1>1. n \in Nat
  BY FS_CardinalityType
<1>2. ASSUME NEW U \in SUBSET T
      PROVE  IsFiniteSet({-t.id : t \in U}) /\ Cardinality({-t.id : t \in U}) = Cardinality(U)
  <2> DEFINE f == [t \in U |-> -t.id]
             V == {-t.id : t \in U}
  <2>1. \A t, u \in U : -t.id = -u.id => t = u
    <3>1. ASSUME NEW t \in U, NEW u \in U, -t.id = -u.id
          PROVE  t = u
      <4>1. t.id \in Int /\ u.id \in Int
        OBVIOUS
      <4>2. t.id = u.id
        BY <4>1, <3>1
      <4> QED
        BY <4>2
    <3> QED
      BY <3>1
  <2>2. f \in Bijection(U, V)
    <3>1. f \in [U -> V] /\ \A t \in U : f[t] = -t.id
      OBVIOUS
    <3>2. \A v \in V : \E t \in U : v = -t.id
      OBVIOUS
    <3>3. \A v \in V : \E t \in U : f[t] = v
      BY <3>1, <3>2
    <3>4. \A t, u \in U : f[t] = f[u] => t = u
      BY <3>1, <2>1
    <3> HIDE DEF f, V
    <3> QED
      BY <3>1, <3>3, <3>4 DEF Bijection, Injection, Surjection, IsInjective
  <2>3. IsFiniteSet(U)
    BY FS_Subset
  <2> QED
    BY <2>2, <2>3, FS_Bijection DEF ExistsBijection
<1>3. IsFiniteSet(I) /\ Cardinality(I) = n /\ I \in SUBSET Int
  <2>1. I \in SUBSET Int
    OBVIOUS
  <2> QED
    BY <1>2, <2>1
<1>4. \E t \in T : Cardinality(Above(t)) = k - 1
  <2>1. PICK i \in I : Cardinality({j \in I : j < i}) = k - 1
    <3> HIDE DEF I
    <3> QED
      BY <1>3, KthExists
  <2>2. PICK t \in T : i = -t.id
    OBVIOUS
  <2>3. {j \in I : j < i} = {-u.id : u \in Above(t)}
    <3>1. ASSUME NEW u \in T
          PROVE  -u.id < i <=> u.id > t.id
      <4>1. u.id \in Int /\ t.id \in Int
        OBVIOUS
      <4> QED
        BY <4>1, <2>2
    <3> QED
      BY <3>1
  <2>4. Cardinality(Above(t)) = k - 1
    <3>1. Above(t) \in SUBSET T
      OBVIOUS
    <3> HIDE DEF Above, I
    <3> QED
      BY <2>1, <2>3, <3>1, <1>2
  <2> QED
    BY <2>4
<1> QED
  BY <1>4

\* The rows of a table listed newest first: every place has a row, none has two.
LEMMA NewestFirstLists ==
    ASSUME NEW T, IsFiniteSet(T), \A t \in T : t.id \in Int, \A t, u \in T : t.id = u.id => t = u
    PROVE  /\ NewestFirst(T) \in Seq(T) /\ Len(NewestFirst(T)) = Cardinality(T)
           /\ \A k, l \in 1 .. Cardinality(T) :
                NewestFirst(T)[k] = NewestFirst(T)[l] => k = l
<1> DEFINE Above(t) == {u \in T : u.id > t.id}
           n == Cardinality(T)
<1>1. n \in Nat
  BY FS_CardinalityType
<1>2. ASSUME NEW k \in 1 .. n
      PROVE  \E t \in T : Cardinality(Above(t)) = k - 1
  BY RowAtPlace
<1> DEFINE Row(k) == CHOOSE t \in T : Cardinality(Above(t)) = k - 1
<1>3. \A k \in 1 .. n : Row(k) \in T /\ Cardinality(Above(Row(k))) = k - 1
  BY <1>2
<1>4. NewestFirst(T) = [k \in 1 .. n |-> Row(k)]
  BY DEF NewestFirst
<1> DEFINE rows == NewestFirst(T)
<1> HIDE DEF Row, n, Above, rows
<1>5. rows \in Seq(T) /\ Len(rows) = n
  <2>1. rows = [k \in 1 .. n |-> Row(k)] /\ n \in Nat
    BY <1>1, <1>4 DEF rows
  <2>2. rows \in [1 .. n -> T]
    BY <2>1, <1>3
  <2> QED
    BY <2>1, <2>2
<1>6. \A k, l \in 1 .. n : Row(k) = Row(l) => k = l
  <2>1. ASSUME NEW k \in 1 .. n, NEW l \in 1 .. n, Row(k) = Row(l)
        PROVE  k = l
    <3>1. k - 1 = l - 1 /\ k \in Int /\ l \in Int
      BY <1>1, <1>3, <2>1
    <3> QED
      BY <3>1
  <2> QED
    BY <2>1
<1>7. \A k, l \in 1 .. n : rows[k] = rows[l] => k = l
  <2>1. \A k \in 1 .. n : rows[k] = Row(k)
    BY <1>4 DEF rows
  <2> QED
    BY <2>1, <1>6
<1> QED
  BY <1>5, <1>7 DEF n, rows

\* A part of a list has its entries from lo to hi.
LEMMA PartHas ==
    ASSUME NEW S, NEW s \in Seq(S), NEW lo \in 1 .. Len(s), NEW hi \in 1 .. Len(s),
           NEW i \in 1 .. Len(s), lo <= i, i <= hi
    PROVE  \E k \in DOMAIN SubSeq(s, lo, hi) : SubSeq(s, lo, hi)[k] = s[i]
<1>1. i - lo + 1 \in 1 .. (hi - lo + 1) /\ (i - lo + 1) + lo - 1 = i
  OBVIOUS
<1>2. i - lo + 1 \in DOMAIN SubSeq(s, lo, hi)
  BY <1>1
<1>3. SubSeq(s, lo, hi)[i - lo + 1] = s[i]
  BY <1>1
<1> QED
  BY <1>2, <1>3

\* R puts the members of B in a line, and how many come before s in it.
Orders(R, B) ==
    /\ \A s \in B : <<s, s>> \notin R
    /\ \A s, t, u \in B : <<s, t>> \in R /\ <<t, u>> \in R => <<s, u>> \in R
    /\ \A s, t \in B : s # t => <<s, t>> \in R \/ <<t, s>> \in R
RankIn(R, B, s) == Cardinality({t \in B : <<t, s>> \in R})
Ranks(q, R, B) ==
    /\ DOMAIN q = 1 .. Cardinality(B) /\ q = [k \in DOMAIN q |-> q[k]]
    /\ \A k \in DOMAIN q : q[k] \in B /\ RankIn(R, B, q[k]) = k - 1

\* Finitely many members compared by an order without ties: each place has a member, as
\* many before it as come before it.
LEMMA RanksFill ==
    ASSUME NEW B, IsFiniteSet(B), NEW R,
           Orders(R, B)
    PROVE  /\ Cardinality(B) \in Nat
           /\ \A k \in 1 .. Cardinality(B) :
                \E s \in B : RankIn(R, B, s) = k - 1
           /\ \A s \in B : RankIn(R, B, s) \in Nat
           /\ \A s, t \in B : <<s, t>> \in R => RankIn(R, B, s) < RankIn(R, B, t)
<1> DEFINE Below(s) == {t \in B : <<t, s>> \in R}
           n == Cardinality(B)
           D == 0 .. n - 1
           rank == [s \in B |-> Cardinality(Below(s))]
<1>0. \A s \in B : RankIn(R, B, s) = Cardinality(Below(s))
  BY DEF RankIn
<1>1. n \in Nat
  BY FS_CardinalityType
<1>2. ASSUME NEW s \in B
      PROVE  IsFiniteSet(Below(s)) /\ Cardinality(Below(s)) \in Nat
  <2>1. Below(s) \in SUBSET B
    OBVIOUS
  <2> HIDE DEF Below
  <2> QED
    BY <2>1, FS_Subset, FS_CardinalityType
<1>3. ASSUME NEW s \in B, NEW t \in B, <<s, t>> \in R
      PROVE  Cardinality(Below(s)) < Cardinality(Below(t))
  <2>1. Below(s) \in SUBSET Below(t) /\ s \in Below(t) /\ s \notin Below(s)
    BY <1>3 DEF Orders
  <2> HIDE DEF Below
  <2>2. Cardinality(Below(s)) <= Cardinality(Below(t))
        /\ Cardinality(Below(s)) # Cardinality(Below(t))
    BY <2>1, <1>2, FS_Subset
  <2> QED
    BY <2>2, <1>2
<1>4. ASSUME NEW s \in B
      PROVE  Cardinality(Below(s)) \in D
  <2>1. Below(s) \in SUBSET B /\ s \in B /\ s \notin Below(s)
    BY DEF Orders
  <2> HIDE DEF Below, D
  <2>2. Cardinality(Below(s)) <= n /\ Cardinality(Below(s)) # n
    BY <2>1, FS_Subset
  <2> QED
    BY <2>2, <1>1, <1>2 DEF D
<1>5. IsFiniteSet(D) /\ Cardinality(D) = n
  <2>1. 0 \in Int /\ n - 1 \in Int /\ (n # 0 => 0 <= n - 1)
    BY <1>1
  <2>2. IsFiniteSet(D) /\ Cardinality(D) = IF 0 > n - 1 THEN 0 ELSE (n - 1) - 0 + 1
    <3> HIDE DEF n
    <3> QED
      BY <2>1, FS_Interval
  <2> HIDE DEF D, n
  <2> QED
    BY <2>2, <1>1
<1>6. rank \in Injection(B, D)
  <2>1. rank \in [B -> D] /\ \A s \in B : rank[s] = Cardinality(Below(s))
    <3> HIDE DEF D, Below
    <3> QED
      BY <1>4
  <2>2. \A s, t \in B : rank[s] = rank[t] => s = t
    <3>1. ASSUME NEW s \in B, NEW t \in B, rank[s] = rank[t], s # t
          PROVE  FALSE
      <4>1. Cardinality(Below(s)) = Cardinality(Below(t))
        BY <2>1, <3>1
      <4>2. <<s, t>> \in R \/ <<t, s>> \in R
        BY <3>1 DEF Orders
      <4> HIDE DEF Below
      <4> QED
        BY <4>1, <4>2, <1>2, <1>3
    <3> QED
      BY <3>1
  <2> HIDE DEF rank, D
  <2> QED
    BY <2>1, <2>2 DEF Injection, IsInjective
<1>7. rank \in Surjection(B, D)
  <2> HIDE DEF rank, D, n
  <2> QED
    BY <1>5, <1>6, FS_Injection DEF n
<1>8. ASSUME NEW k \in 1 .. n
      PROVE  \E s \in B : Cardinality(Below(s)) = k - 1
  <2>1. k - 1 \in D
    BY <1>1
  <2>2. PICK s \in B : rank[s] = k - 1
    <3> HIDE DEF rank, D
    <3> QED
      BY <2>1, <1>7 DEF Surjection
  <2>3. rank[s] = Cardinality(Below(s))
    OBVIOUS
  <2> QED
    BY <2>2, <2>3
<1> HIDE DEF Below, n
<1> QED
  BY <1>0, <1>1, <1>2, <1>3, <1>8 DEF n

LEMMA PlacesCounted == \A m \in Nat : IsFiniteSet(1 .. m) /\ Cardinality(1 .. m) = m
  BY FS_Interval

\* A list whose every place has the member with that many before it is sorted and whole.
LEMMA RanksSort ==
    ASSUME NEW B, IsFiniteSet(B), NEW R,
           Orders(R, B),
           NEW q, Ranks(q, R, B)
    PROVE  /\ q \in Seq(B) /\ Len(q) = Cardinality(B) /\ Len(q) \in Nat
           /\ \A i, j \in 1 .. Len(q) : i < j => <<q[i], q[j]>> \in R
           /\ \A s \in B : \E k \in 1 .. Len(q) : q[k] = s
<1> DEFINE n == Cardinality(B)
           Rank(s) == RankIn(R, B, s)
<1>1. /\ n \in Nat /\ \A s \in B : Rank(s) \in Nat
      /\ \A s, t \in B : <<s, t>> \in R => Rank(s) < Rank(t)
  BY RanksFill
<1>2. \A k \in 1 .. n : q[k] \in B /\ Rank(q[k]) = k - 1
  BY DEF Ranks
<1>3. q \in Seq(B) /\ Len(q) = n
  <2>1. q \in [1 .. n -> B]
    BY <1>2 DEF Ranks
  <2> HIDE DEF n
  <2> QED
    BY <2>1, <1>1
<1> HIDE DEF Rank, n
<1>4. ASSUME NEW i \in 1 .. n, NEW j \in 1 .. n, i < j
      PROVE  <<q[i], q[j]>> \in R
  <2>1. q[i] \in B /\ q[j] \in B /\ Rank(q[i]) = i - 1 /\ Rank(q[j]) = j - 1
    BY <1>2
  <2>2. i \in Int /\ j \in Int
    BY <1>1
  <2>3. ~(Rank(q[j]) < Rank(q[i])) /\ Rank(q[i]) # Rank(q[j])
    BY <2>1, <2>2, <1>4
  <2>4. q[i] # q[j] /\ <<q[j], q[i]>> \notin R
    BY <2>1, <2>3, <1>1
  <2> QED
    BY <2>1, <2>4 DEF Orders
<1>5. ASSUME NEW s \in B
      PROVE  \E k \in 1 .. n : q[k] = s
  <2> DEFINE D == 1 .. n
  <2>1. IsFiniteSet(D) /\ Cardinality(D) = n
    BY PlacesCounted, <1>1
  <2>2. q \in Injection(D, B)
    <3>1. q \in [D -> B]
      BY <1>2 DEF n, Ranks
    <3>2. \A i, j \in D : q[i] = q[j] => i = j
      <4>1. ASSUME NEW i \in D, NEW j \in D, q[i] = q[j]
            PROVE  i = j
        <5>1. i - 1 = j - 1 /\ i \in Int /\ j \in Int
          BY <4>1, <1>1, <1>2
        <5> QED
          BY <5>1
      <4> QED
        BY <4>1
    <3> HIDE DEF D
    <3> QED
      BY <3>1, <3>2 DEF Injection, IsInjective
  <2>3. q \in Surjection(D, B)
    <3> HIDE DEF D
    <3> QED
      BY <2>1, <2>2, FS_Injection DEF n
  <2> HIDE DEF D
  <2>4. \E k \in D : q[k] = s
    BY <2>3 DEF Surjection
  <2> QED
    BY <2>4 DEF D
<1> QED
  BY <1>1, <1>3, <1>4, <1>5 DEF n

\* Some whole number is the least of those where a fact fails.
LEMMA LeastFails ==
    ASSUME NEW B \in SUBSET Nat, B # {}
    PROVE  \E n \in B : \A m \in B : n <= m
<1>1. PICK n \in B : \A m \in B : <<m, n>> \notin OpToRel(<, Nat)
  BY NatLessThanWellFounded, WFMin
<1>2. ASSUME NEW m \in B, m < n
      PROVE  FALSE
  BY <1>1, <1>2 DEF OpToRel
<1> QED
  BY <1>2

\* What is so at first and stays so at each of n steps is so after any of them.
LEMMA StepByStep ==
    ASSUME NEW n \in Nat, NEW P, 0 \in P, \A k \in 1 .. n : k - 1 \in P => k \in P
    PROVE  \A k \in 0 .. n : k \in P
<1> DEFINE B == {k \in 0 .. n : k \notin P}
<1>1. SUFFICES ASSUME B # {}
               PROVE  FALSE
  OBVIOUS
<1>2. PICK k \in B : \A m \in B : k <= m
  <2>1. B \in SUBSET Nat
    OBVIOUS
  <2> HIDE DEF B
  <2> QED
    BY <2>1, <1>1, LeastFails
<1>3. k \in 1 .. n /\ k - 1 \in 0 .. n
  <2>1. k # 0
    OBVIOUS
  <2> QED
    BY <2>1
<1>4. k - 1 \notin B
  BY <1>2, <1>3
<1> QED
  BY <1>3, <1>4

\* What goes step by step from a start has a solution: the functions a LET chooses exist.
Steps(g, n, base, F) == \A k \in 0 .. n : g[k] = IF k = 0 THEN base ELSE F[k][g[k - 1]]
LEMMA StepsExist ==
    ASSUME NEW n \in Nat, NEW X, NEW base \in X, NEW F,
           \A k \in 1 .. n : \A x \in X : F[k][x] \in X
    PROVE  \E g \in [0 .. n -> X] : Steps(g, n, base, F)
<1> DEFINE Solves(g, m) == Steps(g, m, base, F)
           P == {m \in 0 .. n : \E g \in [0 .. m -> X] : Solves(g, m)}
<1>1. 0 \in P
  <2> DEFINE g == [k \in 0 .. 0 |-> base]
  <2>1. g \in [0 .. 0 -> X] /\ Solves(g, 0)
    BY DEF Steps
  <2> HIDE DEF g, Solves
  <2>2. \E f \in [0 .. 0 -> X] : Solves(f, 0)
    BY <2>1
  <2> QED
    BY <2>2
<1>2. ASSUME NEW m \in 1 .. n, m - 1 \in P
      PROVE  m \in P
  <2>1. PICK g \in [0 .. m - 1 -> X] : Solves(g, m - 1)
    BY <1>2
  <2> DEFINE h == [k \in 0 .. m |-> IF k = m THEN F[m][g[m - 1]] ELSE g[k]]
  <2>2. F[m][g[m - 1]] \in X
    <3>1. m - 1 \in 0 .. m - 1
      OBVIOUS
    <3> QED
      BY <3>1
  <2>3. h \in [0 .. m -> X]
    BY <2>2
  <2>4. \A k \in 0 .. m - 1 : h[k] = g[k]
    OBVIOUS
  <2>5. h[m] = F[m][h[m - 1]]
    <3>1. m - 1 \in 0 .. m - 1 /\ m \in 0 .. m
      OBVIOUS
    <3>2. h[m - 1] = g[m - 1]
      BY <3>1, <2>4
    <3> QED
      BY <3>1, <3>2
  <2>6. ASSUME NEW k \in 0 .. m
        PROVE  h[k] = IF k = 0 THEN base ELSE F[k][h[k - 1]]
    <3>1. CASE k = m
      BY <3>1, <2>5
    <3>2. CASE k # m
      <4>1. k \in 0 .. m - 1 /\ (k # 0 => k - 1 \in 0 .. m - 1)
        BY <3>2
      <4> HIDE DEF h
      <4> QED
        BY <4>1, <2>1, <2>4 DEF Steps
    <3> QED
      BY <3>1, <3>2
  <2> HIDE DEF h
  <2> QED
    BY <2>3, <2>6 DEF Steps
<1>3. \A m \in 0 .. n : m \in P
  <2> HIDE DEF P
  <2> QED
    BY <1>1, <1>2, StepByStep
<1> QED
  BY <1>3
==============================================================================
