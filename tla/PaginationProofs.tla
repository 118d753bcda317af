-------------------------- MODULE PaginationProofs --------------------------
(***************************************************************************)
(* What a completed listing can have missed, for any page size, any list   *)
(* and any orders that enter it while it is read.                          *)
(*                                                                         *)
(* An order that comes in pushes others to the right, onto pages that are  *)
(* still to be asked for. So everything at a position the loop has passed  *)
(* is either seen or new, and whether the rest was seen as well is a       *)
(* matter of counting.                                                     *)
(***************************************************************************)
EXTENDS Pagination, FiniteSetTheorems, TLAPS

Orders == 1..(MaxListed + MaxInserts)

(* The positions of the pages read so far.                                 *)
Passed == IF status = "completed" THEN page * PageSize ELSE (page - 1) * PageSize

(* Orders are numbered as they come in, the listed ones first.             *)
ListInv ==
    /\ ToSet(list) = 1..Len(list)
    /\ IsFiniteSet(listed) /\ Cardinality(listed) <= MaxListed
    /\ Cardinality(listed) <= Len(list)
    /\ Inserts <= MaxInserts

TotalInv == total <= Len(list) /\ (total # 0 => Cardinality(listed) <= total)

PassedInv == \A i \in DOMAIN list : i <= Passed /\ list[i] \in listed => list[i] \in seen

(* Each page before the last adds an order, and no page adds more than it  *)
(* holds.                                                                  *)
SeenInv ==
    /\ page - 1 <= Cardinality(seen)
    /\ status = "paging" => Cardinality(seen) <= (page - 1) * PageSize

IInv ==
    /\ TypeOK
    /\ ListInv
    /\ TotalInv
    /\ PassedInv
    /\ SeenInv
    /\ OnlyTailMissed
    /\ NothingMissedWithoutCount

USE PageAssumption, BoundsAssumption

-----------------------------------------------------------------------------
(* The list after an insertion, place by place.                            *)
LEMMA Inserting ==
  ASSUME NEW S, NEW s \in Seq(S), NEW i \in 1..(Len(s) + 1), NEW e \in S
  PROVE  /\ InsertAt(s, i, e) \in Seq(S)
         /\ Len(InsertAt(s, i, e)) = Len(s) + 1
         /\ \A j \in 1..(i - 1) : InsertAt(s, i, e)[j] = s[j]
         /\ InsertAt(s, i, e)[i] = e
         /\ \A j \in (i + 1)..(Len(s) + 1) : InsertAt(s, i, e)[j] = s[j - 1]
<1> DEFINE left == SubSeq(s, 1, i - 1)
           right == SubSeq(s, i, Len(s))
<1>1. /\ left \in Seq(S) /\ Len(left) = i - 1
      /\ \A j \in 1..(i - 1) : left[j] = s[j]
  OBVIOUS
<1>2. /\ right \in Seq(S) /\ Len(right) = Len(s) - i + 1
      /\ \A j \in 1..(Len(s) - i + 1) : right[j] = s[i + j - 1]
  OBVIOUS
<1>3. InsertAt(s, i, e) = (left \o <<e>>) \o right
  BY DEF InsertAt
<1> HIDE DEF left, right
<1> DEFINE front == left \o <<e>>
<1>4. /\ front \in Seq(S) /\ Len(front) = i
      /\ \A j \in 1..(i - 1) : front[j] = s[j]
      /\ front[i] = e
  BY <1>1
<1> HIDE DEF front
<1>5. /\ front \o right \in Seq(S)
      /\ Len(front \o right) = Len(s) + 1
      /\ \A j \in 1..i : (front \o right)[j] = front[j]
  BY <1>2, <1>4
<1>6. ASSUME NEW j \in (i + 1)..(Len(s) + 1)
      PROVE  (front \o right)[j] = s[j - 1]
  <2>1. j - i \in 1..(Len(s) - i + 1) /\ i + (j - i) - 1 = j - 1
    OBVIOUS
  <2>2. (front \o right)[j] = right[j - i]
    BY <1>2, <1>4, <2>1
  <2>3. right[j - i] = s[i + (j - i) - 1]
    BY <1>2, <2>1
  <2> QED
    BY <2>1, <2>2, <2>3
<1> QED
  BY <1>3, <1>4, <1>5, <1>6 DEF front

(* The bound of the last break: that many pages hold that many orders.     *)
LEMMA PagesHold ==
  ASSUME NEW n \in Nat, NEW p \in Nat, p >= Pages(n)
  PROVE  n <= p * PageSize
BY DEF Pages

(* The pages' borders.                                                     *)
LEMMA Borders ==
  ASSUME NEW p \in Nat \ {0}
  PROVE  /\ (p - 1) * PageSize \in Nat /\ p * PageSize \in Nat
         /\ p * PageSize = (p - 1) * PageSize + PageSize
OBVIOUS

-----------------------------------------------------------------------------
LEMMA ListFacts ==
  ASSUME TypeOK, ListInv
  PROVE  /\ list \in Seq(Orders) /\ IsInjective(list)
         /\ Len(list) \in Nat /\ DOMAIN list = 1..Len(list)
         /\ Len(list) <= MaxListed + MaxInserts
         /\ listed \subseteq 1..Len(list) /\ Cardinality(listed) \in Nat
         /\ IsFiniteSet(1..Len(list)) /\ Cardinality(1..Len(list)) = Len(list)
         /\ seen \subseteq 1..Len(list) /\ IsFiniteSet(seen) /\ Cardinality(seen) \in Nat
         /\ page \in Nat \ {0}
<1>1. /\ list \in Seq(Orders) /\ IsInjective(list)
      /\ Len(list) \in Nat /\ DOMAIN list = 1..Len(list)
      /\ listed \subseteq 1..Len(list) /\ seen \subseteq 1..Len(list)
      /\ page \in Nat \ {0}
  BY DEF TypeOK, ListInv, Orders
<1>2. Len(list) \in Int /\ 1 \in Int
  BY <1>1
<1>3. IsFiniteSet(1..Len(list)) /\ Cardinality(1..Len(list)) = Len(list)
  BY <1>1, <1>2, FS_Interval
<1>4. Cardinality(listed) \in Nat
  BY FS_CardinalityType DEF ListInv
<1>5. IsFiniteSet(seen) /\ Cardinality(seen) \in Nat
  BY <1>1, <1>3, FS_Subset, FS_CardinalityType
<1>6. Len(list) <= MaxListed + MaxInserts
  BY <1>1, <1>4 DEF ListInv, Inserts
<1> QED
  BY <1>1, <1>3, <1>4, <1>5, <1>6

(* A stretch of the list has as many orders as places.                     *)
LEMMA Stretch ==
  ASSUME TypeOK, ListInv, NEW a \in Nat \ {0}, NEW b \in Nat, a <= b + 1, b <= Len(list),
         NEW T, \A i \in a..b : list[i] \in T, \A t \in T : \E i \in a..b : list[i] = t
  PROVE  IsFiniteSet(T) /\ Cardinality(T) = b - a + 1
<1> DEFINE f == [i \in a..b |-> list[i]]
<1>1. a..b \subseteq DOMAIN list
  BY ListFacts
<1>2. f \in Bijection(a..b, T)
  <2>1. f \in [a..b -> T]
    OBVIOUS
  <2>2. \A i, j \in a..b : f[i] = f[j] => i = j
    BY <1>1, ListFacts DEF IsInjective
  <2>3. \A t \in T : \E i \in a..b : f[i] = t
    OBVIOUS
  <2> QED
    BY <2>1, <2>2, <2>3 DEF Bijection, Injection, Surjection, IsInjective
<1>3. IsFiniteSet(a..b) /\ Cardinality(a..b) = b - a + 1
  <2>1. a \in Int /\ b \in Int
    OBVIOUS
  <2>2. /\ IsFiniteSet(a..b)
        /\ Cardinality(a..b) = IF a > b THEN 0 ELSE b - a + 1
    BY <2>1, FS_Interval
  <2> QED
    BY <2>2
<1> QED
  BY <1>2, <1>3, FS_Bijection DEF ExistsBijection

(* A page is full exactly if the list reaches to its end.                  *)
LEMMA PageSizes ==
  ASSUME TypeOK, ListInv
  PROVE  /\ IsFiniteSet(Items) /\ Cardinality(Items) \in Nat
         /\ Cardinality(Items) <= PageSize
         /\ page * PageSize <= Len(list) => Cardinality(Items) = PageSize
<1> DEFINE low == (page - 1) * PageSize
           high == page * PageSize
           end == IF high <= Len(list) THEN high ELSE Len(list)
<1>1. low \in Nat /\ high \in Nat /\ high = low + PageSize
  BY ListFacts, Borders
<1> HIDE DEF low, high
<1>2. CASE Len(list) < low
  <2>1. Items = {}
    BY <1>1, <1>2, ListFacts DEF Items, low, high
  <2> QED
    BY <2>1, <1>1, <1>2, FS_EmptySet, ListFacts DEF high
<1>3. CASE low <= Len(list)
  <2>1. end \in Nat /\ low <= end /\ end <= Len(list)
    BY <1>1, <1>3, ListFacts
  <2>2. Items = {list[i] : i \in (low + 1)..end}
    <3>1. {j \in DOMAIN list : low < j /\ j <= high} = (low + 1)..end
      BY <1>1, <1>3, ListFacts
    <3> QED
      BY <3>1 DEF Items, low, high
  <2>3. IsFiniteSet(Items) /\ Cardinality(Items) = end - low
    <3>1. low + 1 \in Nat \ {0} /\ low + 1 <= end + 1 /\ end - (low + 1) + 1 = end - low
      BY <1>1, <2>1
    <3>2. /\ \A i \in (low + 1)..end : list[i] \in Items
          /\ \A t \in Items : \E i \in (low + 1)..end : list[i] = t
      BY <2>2
    <3> HIDE DEF end
    <3> QED
      BY <2>1, <3>1, <3>2, Stretch, ListFacts
  <2>4. Cardinality(Items) \in Nat
    BY <2>3, FS_CardinalityType
  <2>5. Cardinality(Items) <= PageSize
    BY <2>1, <2>3, <1>1, <1>3, ListFacts
  <2>6. high <= Len(list) => Cardinality(Items) = PageSize
    BY <2>3, <1>1, ListFacts
  <2> QED
    BY <2>3, <2>4, <2>5, <2>6 DEF high
<1> QED
  BY <1>1, <1>2, <1>3, ListFacts

(* What a completed listing would then have passed over, if the positions  *)
(* up to a border hold nothing it should have seen.                        *)
LEMMA TailAfter ==
  ASSUME TypeOK, ListInv, NEW read, read \subseteq 1..Len(list), NEW border \in Nat,
         \A i \in DOMAIN list : i <= border /\ list[i] \in listed => list[i] \in read
  PROVE  /\ Len(list) <= border => listed \subseteq read
         /\ Cardinality(listed) <= border => Cardinality(listed \ read) <= Inserts
<1>1. ASSUME NEW o \in listed \ read
      PROVE  \E i \in DOMAIN list : list[i] = o /\ border < i
  <2>1. PICK i \in DOMAIN list : list[i] = o
    BY <1>1 DEF TypeOK, ToSet
  <2> QED
    BY <1>1, <2>1, ListFacts
<1>2. Len(list) <= border => listed \subseteq read
  BY <1>1, ListFacts
<1>3. ASSUME Cardinality(listed) <= border
      PROVE  Cardinality(listed \ read) <= Inserts
  <2>1. CASE Len(list) <= border
    <3>1. listed \ read = {}
      BY <1>2, <2>1
    <3>2. Cardinality(listed \ read) = 0
      BY <3>1, FS_EmptySet, Zenon
    <3> QED
      BY <3>2, ListFacts DEF ListInv, Inserts
  <2>2. CASE border < Len(list)
    <3> DEFINE tail == {list[i] : i \in (border + 1)..Len(list)}
    <3>1. IsFiniteSet(tail) /\ Cardinality(tail) = Len(list) - border
      <4>1. border + 1 \in Nat \ {0} /\ border + 1 <= Len(list) + 1
            /\ Len(list) - (border + 1) + 1 = Len(list) - border
        BY <2>2, ListFacts
      <4>2. /\ \A i \in (border + 1)..Len(list) : list[i] \in tail
            /\ \A t \in tail : \E i \in (border + 1)..Len(list) : list[i] = t
        OBVIOUS
      <4>3. Len(list) \in Nat /\ Len(list) <= Len(list)
        BY ListFacts
      <4> HIDE DEF tail
      <4>4. IsFiniteSet(tail) /\ Cardinality(tail) = Len(list) - (border + 1) + 1
        BY <4>1, <4>2, <4>3, Stretch
      <4> QED
        BY <4>1, <4>4
    <3>2. listed \ read \subseteq tail
      BY <1>1, ListFacts
    <3>3. /\ Cardinality(listed \ read) <= Cardinality(tail)
          /\ Cardinality(listed \ read) \in Nat
      BY <3>1, <3>2, FS_Subset, FS_CardinalityType
    <3> QED
      BY <1>3, <3>1, <3>3, ListFacts DEF Inserts
  <2> QED
    BY <2>1, <2>2, ListFacts
<1> QED
  BY <1>2, <1>3

(* The same, if as many orders were read as were listed.                   *)
LEMMA AllCounted ==
  ASSUME TypeOK, ListInv, NEW read, read \subseteq 1..Len(list),
         Cardinality(listed) <= Cardinality(read)
  PROVE  Cardinality(listed \ read) <= Inserts
<1>1. IsFiniteSet(read) /\ Cardinality(read) \in Nat
  BY ListFacts, FS_Subset, FS_CardinalityType
<1>2. (1..Len(list)) \cap read = read
  OBVIOUS
<1>3. /\ IsFiniteSet((1..Len(list)) \ read)
      /\ Cardinality((1..Len(list)) \ read) = Len(list) - Cardinality(read)
  BY <1>2, ListFacts, FS_Difference
<1>4. listed \ read \subseteq (1..Len(list)) \ read
  BY ListFacts
<1>5. /\ Cardinality(listed \ read) <= Cardinality((1..Len(list)) \ read)
      /\ Cardinality(listed \ read) \in Nat
  BY <1>3, <1>4, FS_Subset, FS_CardinalityType
<1> QED
  BY <1>1, <1>3, <1>5, ListFacts DEF Inserts

(* A full page of orders seen before takes as many insertions as it holds: *)
(* the pages up to its end have more places than orders were read from     *)
(* those before it, and the others must be new.                            *)
LEMMA DuplicatesTakeInserts ==
  ASSUME IInv, status = "paging", page * PageSize <= Len(list), Items \subseteq seen
  PROVE  PageSize <= Inserts
<1> DEFINE high == page * PageSize
           front == {list[i] : i \in 1..high}
           new == (1..Len(list)) \ listed
<1>1. TypeOK /\ ListInv /\ PassedInv /\ SeenInv
  BY DEF IInv
<1>2. high \in Nat /\ high <= Len(list) /\ high = (page - 1) * PageSize + PageSize
      /\ (page - 1) * PageSize \in Nat
  BY <1>1, ListFacts, Borders
<1>3. IsFiniteSet(front) /\ Cardinality(front) = high
  <2>1. /\ \A i \in 1..high : list[i] \in front
        /\ \A t \in front : \E i \in 1..high : list[i] = t
    OBVIOUS
  <2> HIDE DEF high, front
  <2>2. 1 \in Nat \ {0} /\ 1 <= high + 1
    BY <1>2
  <2>3. IsFiniteSet(front) /\ Cardinality(front) = high - 1 + 1
    BY <1>1, <1>2, <2>1, <2>2, Stretch
  <2> QED
    BY <1>2, <2>3
<1>4. front \subseteq seen \cup new
  <2> SUFFICES ASSUME NEW i \in 1..high, list[i] \in listed
               PROVE  list[i] \in seen
    <3>1. \A i \in 1..high : list[i] \in 1..Len(list)
      BY <1>1, <1>2, ListFacts DEF ListInv, ToSet
    <3> QED
      BY <3>1
  <2>1. i \in DOMAIN list
    BY <1>1, <1>2, ListFacts
  <2>2. CASE i <= (page - 1) * PageSize
    BY <1>1, <2>1, <2>2 DEF PassedInv, Passed
  <2>3. CASE (page - 1) * PageSize < i
    BY <2>1, <2>3 DEF Items
  <2> QED
    BY <1>2, <2>2, <2>3
<1>5. IsFiniteSet(new) /\ Cardinality(new) = Inserts
  <2>1. (1..Len(list)) \cap listed = listed
    BY <1>1, ListFacts
  <2> QED
    BY <1>1, <2>1, ListFacts, FS_Difference DEF Inserts
<1>6. IsFiniteSet(seen) /\ Cardinality(seen) \in Nat /\ Cardinality(seen) <= (page - 1) * PageSize
  BY <1>1, ListFacts DEF SeenInv
<1> HIDE DEF high, front, new
<1>7. /\ IsFiniteSet(seen \cup new)
      /\ Cardinality(seen \cup new) = Cardinality(seen) + Cardinality(new) - Cardinality(seen \cap new)
      /\ Cardinality(seen \cap new) \in Nat
  BY <1>5, <1>6, FS_Union, FS_Intersection, FS_CardinalityType
<1>8. Cardinality(front) <= Cardinality(seen \cup new)
  BY <1>4, <1>7, FS_Subset
<1>9. Inserts \in Int
  BY <1>1, ListFacts DEF Inserts
<1> QED
  BY <1>2, <1>3, <1>5, <1>6, <1>7, <1>8, <1>9

-----------------------------------------------------------------------------
LEMMA InitInv == Init => IInv
<1> SUFFICES ASSUME Init PROVE IInv
  OBVIOUS
<1>1. PICK n \in 0..MaxListed : list = [i \in 1..n |-> i]
  BY DEF Init
<1>2. /\ list \in Seq(Orders) /\ Len(list) = n /\ IsInjective(list)
      /\ ToSet(list) = 1..n
  BY <1>1 DEF Orders, ToSet, IsInjective
<1>3. n \in Int /\ 1 \in Int /\ IsFiniteSet(1..n) /\ Cardinality(1..n) = n
  BY FS_Interval
<1>4. Cardinality(seen) = 0
  BY FS_EmptySet DEF Init
<1> QED
  BY <1>2, <1>3, <1>4 DEF Init, IInv, TypeOK, ListInv, TotalInv, PassedInv, SeenInv,
     OnlyTailMissed, NothingMissedWithoutCount, Inserts, Passed, Orders

LEMMA InsertKeeps == ASSUME IInv, Insert PROVE IInv'
<1> DEFINE n == Len(list)
<1>1. TypeOK /\ ListInv /\ PassedInv
  BY DEF IInv
<1>2. PICK i \in 1..(n + 1) : list' = InsertAt(list, i, n + 1)
  BY DEF Insert
<1>3. n \in Nat /\ n + 1 <= MaxListed + MaxInserts /\ n + 1 \in Orders
  BY <1>1, ListFacts DEF Insert, Inserts, Orders, ListInv
<1>4. /\ list' \in Seq(Orders) /\ Len(list') = n + 1
      /\ \A j \in 1..(i - 1) : list'[j] = list[j]
      /\ list'[i] = n + 1
      /\ \A j \in (i + 1)..(n + 1) : list'[j] = list[j - 1]
  <2>1. list \in Seq(Orders) /\ i \in 1..(Len(list) + 1)
    BY <1>1, <1>2, ListFacts
  <2>2. /\ InsertAt(list, i, n + 1) \in Seq(Orders)
        /\ Len(InsertAt(list, i, n + 1)) = n + 1
        /\ \A j \in 1..(i - 1) : InsertAt(list, i, n + 1)[j] = list[j]
        /\ InsertAt(list, i, n + 1)[i] = n + 1
        /\ \A j \in (i + 1)..(n + 1) : InsertAt(list, i, n + 1)[j] = list[j - 1]
    BY <1>3, <2>1, Inserting
  <2> QED
    BY <1>2, <2>2
<1>5. /\ listed \subseteq 1..n /\ seen \subseteq 1..n /\ DOMAIN list = 1..n
      /\ \A j \in 1..n : list[j] \in 1..n
      /\ \A o \in 1..n : \E j \in 1..n : list[j] = o
      /\ \A j, k \in 1..n : list[j] = list[k] => j = k
  BY <1>1, ListFacts DEF ListInv, ToSet, IsInjective
<1>6. IsInjective(list')
  <2> SUFFICES ASSUME NEW j \in 1..(n + 1), NEW k \in 1..(n + 1), list'[j] = list'[k]
               PROVE  j = k
    BY <1>4 DEF IsInjective
  <2> DEFINE old(m) == IF m < i THEN m ELSE m - 1
  <2> HIDE DEF n
  <2>1. ASSUME NEW m \in 1..(n + 1), m # i
        PROVE  old(m) \in 1..n /\ list'[m] = list[old(m)] /\ list'[m] # n + 1
    <3>1. old(m) \in 1..n
      BY <1>3, <2>1
    <3>2. list'[m] = list[old(m)]
      <4>1. CASE m < i
        BY <1>4, <2>1, <4>1
      <4>2. CASE i < m
        BY <1>4, <2>1, <4>2
      <4> QED
        BY <2>1, <4>1, <4>2
    <3>3. list[old(m)] \in 1..n
      BY <1>5, <3>1
    <3> QED
      BY <1>3, <3>1, <3>2, <3>3
  <2>2. CASE j = i \/ k = i
    BY <1>4, <2>1, <2>2
  <2>3. CASE j # i /\ k # i
    <3>1. old(j) = old(k)
      <4>1. list[old(j)] = list[old(k)] /\ old(j) \in 1..n /\ old(k) \in 1..n
        BY <2>1, <2>3
      <4> HIDE DEF old
      <4> QED
        BY <1>5, <4>1
    <3> QED
      BY <2>3, <3>1
  <2> QED
    BY <2>2, <2>3
<1>7. ToSet(list') = 1..(n + 1)
  <2> HIDE DEF n
  <2>1. ASSUME NEW j \in 1..(n + 1) PROVE list'[j] \in 1..(n + 1)
    <3>1. CASE j < i
      <4>1. list'[j] = list[j] /\ j \in 1..n
        BY <1>3, <1>4, <3>1
      <4>2. list[j] \in 1..n
        BY <1>5, <4>1
      <4> QED
        BY <1>3, <4>1, <4>2
    <3>2. CASE j = i
      BY <1>3, <1>4, <3>2
    <3>3. CASE i < j
      <4>1. list'[j] = list[j - 1] /\ j - 1 \in 1..n
        BY <1>3, <1>4, <3>3
      <4>2. list[j - 1] \in 1..n
        BY <1>5, <4>1
      <4> QED
        BY <1>3, <4>1, <4>2
    <3> QED
      BY <3>1, <3>2, <3>3
  <2>2. ASSUME NEW o \in 1..(n + 1) PROVE \E j \in 1..(n + 1) : list'[j] = o
    <3>1. CASE o = n + 1
      BY <1>4, <3>1
    <3>2. CASE o # n + 1
      <4> o \in 1..n
        BY <1>3, <3>2
      <4>1. PICK j \in 1..n : list[j] = o
        BY <1>5
      <4>2. CASE j < i
        BY <1>3, <1>4, <4>1, <4>2
      <4>3. CASE i <= j
        <5>1. j + 1 \in (i + 1)..(n + 1) /\ j + 1 \in 1..(n + 1) /\ (j + 1) - 1 = j
          BY <1>3, <4>3
        <5>2. list'[j + 1] = o
          BY <1>4, <4>1, <5>1
        <5> QED
          BY <5>1, <5>2
      <4> QED
        BY <4>2, <4>3
    <3> QED
      BY <3>1, <3>2
  <2> QED
    <3>1. DOMAIN list' = 1..(n + 1)
      BY <1>4
    <3> QED
      BY <2>1, <2>2, <3>1 DEF ToSet
<1>8. Passed' = Passed /\ Passed \in Nat
  BY <1>1, ListFacts, Borders DEF Insert, Passed
<1>9. PassedInv'
  <2> SUFFICES ASSUME NEW j \in 1..(n + 1), j <= Passed, list'[j] \in listed
               PROVE  list'[j] \in seen
    BY <1>4, <1>8 DEF PassedInv, Insert
  <2>1. CASE j < i
    BY <1>1, <1>3, <1>4, <1>5, <2>1 DEF PassedInv
  <2>2. CASE j = i
    BY <1>3, <1>4, <1>5, <2>2
  <2>3. CASE i < j
    <3>1. j - 1 \in 1..n /\ j - 1 <= Passed
      BY <1>3, <1>8, <2>3
    <3>2. list'[j] = list[j - 1]
      BY <1>4, <2>3
    <3> QED
      BY <1>1, <1>5, <3>1, <3>2 DEF PassedInv
  <2> QED
    BY <2>1, <2>2, <2>3
<1>10. ListInv'
  BY <1>1, <1>3, <1>4, <1>7, ListFacts DEF Insert, ListInv, Inserts
<1>11. TypeOK'
  <2>1. listed' \subseteq ToSet(list') /\ seen' \subseteq ToSet(list')
    <3>1. listed' = listed /\ seen' = seen
      BY DEF Insert
    <3>2. 1..n \subseteq 1..(n + 1)
      BY <1>3
    <3> HIDE DEF n
    <3> QED
      BY <1>5, <1>7, <3>1, <3>2
  <2>2. UNCHANGED <<counts, page, total, status>>
    BY DEF Insert
  <2> QED
    BY <1>1, <1>4, <1>6, <2>1, <2>2 DEF TypeOK, Orders
<1>12. TotalInv'
  BY <1>1, <1>3, <1>4 DEF Insert, TotalInv, IInv, TypeOK
<1> QED
  BY <1>9, <1>10, <1>11, <1>12 DEF Insert, IInv, SeenInv, OnlyTailMissed, NothingMissedWithoutCount

LEMMA FetchPageKeeps == ASSUME IInv, FetchPage PROVE IInv'
<1> DEFINE read == seen \cup Items
           high == page * PageSize
<1>1. TypeOK /\ ListInv /\ TotalInv /\ PassedInv /\ SeenInv /\ status = "paging"
  BY DEF IInv, FetchPage
<1>2. /\ seen' = read /\ total' = TotalCount
      /\ UNCHANGED <<list, listed, counts>>
      /\ IF LastPage THEN status' = "completed" /\ page' = page
                     ELSE page' = page + 1 /\ status' = "paging"
  BY <1>1 DEF FetchPage
<1>3. high \in Nat /\ (page - 1) * PageSize \in Nat /\ high = (page - 1) * PageSize + PageSize
  BY <1>1, ListFacts, Borders
<1> HIDE DEF high
<1>4. Items \subseteq 1..Len(list) /\ read \subseteq 1..Len(list)
  <2>1. \A i \in DOMAIN list : list[i] \in 1..Len(list)
    BY <1>1 DEF ListInv, ToSet
  <2>2. Items \subseteq 1..Len(list)
    BY <2>1 DEF Items
  <2> QED
    BY <1>1, <2>2, ListFacts
<1>5. \A i \in DOMAIN list : i <= high /\ list[i] \in listed => list[i] \in read
  <2> SUFFICES ASSUME NEW i \in DOMAIN list, i <= high, list[i] \in listed
               PROVE  list[i] \in read
    OBVIOUS
  <2>1. i \in Nat
    BY <1>1, ListFacts
  <2>2. CASE i <= (page - 1) * PageSize
    BY <1>1, <2>2 DEF PassedInv, Passed
  <2>3. CASE (page - 1) * PageSize < i
    BY <2>3 DEF Items, high
  <2> QED
    BY <1>3, <2>1, <2>2, <2>3
<1>6. Passed' = high
  <2>1. CASE LastPage
    BY <1>2, <2>1 DEF Passed, high
  <2>2. CASE ~LastPage
    <3>1. status' = "paging" /\ page' = page + 1
      BY <1>2, <2>2
    <3>2. status' # "completed"
      BY <3>1
    <3>3. Passed' = (page' - 1) * PageSize
      BY <3>2, Zenon DEF Passed
    <3>4. page' - 1 = page
      BY <1>1, <3>1, ListFacts
    <3>5. (page' - 1) * PageSize = page * PageSize
      BY <3>4, Zenon
    <3> QED
      BY <3>3, <3>5 DEF high
  <2> QED
    BY <2>1, <2>2
<1>7. PassedInv'
  BY <1>2, <1>5, <1>6 DEF PassedInv
<1>8. /\ IsFiniteSet(read) /\ Cardinality(read) \in Nat
      /\ Cardinality(seen) <= Cardinality(read) /\ Cardinality(read) <= high
  <2>1. IsFiniteSet(read) /\ Cardinality(read) \in Nat
    BY <1>1, <1>4, ListFacts, FS_Subset, FS_CardinalityType
  <2>2. Cardinality(seen) <= Cardinality(read)
    BY <2>1, FS_Subset
  <2>3. /\ Cardinality(read) = Cardinality(seen) + Cardinality(Items) - Cardinality(seen \cap Items)
        /\ Cardinality(seen \cap Items) \in Nat
    BY <1>1, ListFacts, PageSizes, FS_Union, FS_Intersection, FS_CardinalityType
  <2> HIDE DEF read
  <2> QED
    BY <1>1, <1>3, <2>1, <2>2, <2>3, ListFacts, PageSizes DEF SeenInv
<1>9. /\ TotalCount \in Nat /\ TotalCount <= Len(list)
      /\ TotalCount # 0 => Cardinality(listed) <= TotalCount
      /\ counts => Cardinality(listed) <= TotalCount
  BY <1>1, ListFacts DEF TotalCount, TotalInv, TypeOK, ListInv
<1>10. TotalInv'
  BY <1>2, <1>9 DEF TotalInv
<1>11. ListInv'
  BY <1>1, <1>2 DEF ListInv, Inserts
<1> HIDE DEF read
<1>12. page' - 1 <= Cardinality(read)
  <2>1. CASE LastPage
    BY <1>1, <1>2, <1>8, <2>1, ListFacts DEF SeenInv
  <2>2. CASE ~LastPage
    <3>1. ~(Items \subseteq seen)
      BY <2>2 DEF LastPage
    <3>2. seen \subseteq read /\ seen # read
      BY <3>1 DEF read
    <3>3. Cardinality(seen) # Cardinality(read)
      BY <1>8, <3>2, FS_Subset
    <3> QED
      BY <1>1, <1>2, <1>8, <2>2, <3>3, ListFacts DEF SeenInv
  <2> QED
    BY <2>1, <2>2
<1>13. SeenInv'
  <2>1. status' = "paging" => (page' - 1) * PageSize = high
    BY <1>6 DEF Passed
  <2> QED
    BY <1>2, <1>8, <1>12, <2>1 DEF SeenInv
<1>14. Cardinality(read) <= Len(list)
  BY <1>1, <1>4, ListFacts, FS_Subset
<1>15. TypeOK'
  <2>1. page' \in 1..(MaxListed + MaxInserts + 1)
    BY <1>1, <1>2, <1>8, <1>12, <1>14, ListFacts
  <2>2. total' \in 0..(MaxListed + MaxInserts)
    BY <1>1, <1>2, <1>9, ListFacts
  <2>3. seen' \subseteq ToSet(list')
    BY <1>1, <1>2, <1>4 DEF ListInv
  <2> QED
    BY <1>1, <1>2, <2>1, <2>2, <2>3 DEF TypeOK
<1>16. ASSUME LastPage, Inserts < PageSize
       PROVE  /\ Cardinality(listed \ read) <= Inserts
              /\ ~counts => listed \subseteq read
  <2>1. CASE Items = {} \/ Cardinality(Items) < PageSize \/ Items \subseteq seen
    <3>1. Len(list) <= high
      <4>1. ~(high <= Len(list))
        <5>1. CASE Items \subseteq seen
          BY <1>1, <1>16, <5>1, DuplicatesTakeInserts, ListFacts DEF high, Inserts
        <5>2. CASE Items = {}
          <6>1. Cardinality(Items) = 0
            BY <5>2, FS_EmptySet, Zenon
          <6> QED
            BY <1>1, <6>1, PageSizes DEF high
        <5>3. CASE Cardinality(Items) < PageSize
          BY <1>1, <5>3, PageSizes DEF high
        <5> QED
          BY <2>1, <5>1, <5>2, <5>3
      <4> QED
        BY <1>1, <1>3, <4>1, ListFacts
    <3>2. Cardinality(listed) <= high
      BY <1>1, <1>3, <3>1, ListFacts DEF ListInv
    <3> QED
      BY <1>1, <1>3, <1>4, <1>5, <3>1, <3>2, TailAfter
  <2>2. CASE counts /\ Cardinality(read) >= TotalCount
    <3>1. Cardinality(listed) <= Cardinality(read)
      BY <1>1, <1>8, <1>9, <2>2, ListFacts
    <3> QED
      BY <1>1, <1>4, <2>2, <3>1, AllCounted
  <2>3. CASE counts /\ page >= Pages(TotalCount)
    <3>1. TotalCount <= high
      BY <1>1, <1>9, <2>3, PagesHold, ListFacts DEF high
    <3>2. Cardinality(listed) <= high
      BY <1>1, <1>3, <1>9, <2>3, <3>1, ListFacts
    <3> QED
      BY <1>1, <1>3, <1>4, <1>5, <2>3, <3>2, TailAfter
  <2> QED
    BY <1>16, <2>1, <2>2, <2>3 DEF LastPage, read
<1>17. OnlyTailMissed' /\ NothingMissedWithoutCount'
  <2> SUFFICES ASSUME LastPage, Inserts < PageSize
               PROVE  OnlyTailMissed' /\ NothingMissedWithoutCount'
    BY <1>2 DEF OnlyTailMissed, NothingMissedWithoutCount, Inserts
  <2>1. \A i \in DOMAIN list : list[i] \in listed \ read => i > high
    BY <1>1, <1>3, <1>5, ListFacts
  <2> QED
    BY <1>2, <1>16, <2>1 DEF OnlyTailMissed, NothingMissedWithoutCount, Inserts, high
<1> QED
  BY <1>7, <1>10, <1>11, <1>13, <1>15, <1>17 DEF IInv

LEMMA StepKeeps == IInv /\ [Next]_vars => IInv'
<1> SUFFICES ASSUME IInv, [Next]_vars PROVE IInv'
  OBVIOUS
<1>1. CASE Insert
  BY <1>1, InsertKeeps
<1>2. CASE FetchPage
  BY <1>2, FetchPageKeeps
<1>3. CASE ApiError
  BY <1>3 DEF ApiError, IInv, TypeOK, ListInv, Inserts, TotalInv, PassedInv, Passed, SeenInv,
     OnlyTailMissed, NothingMissedWithoutCount
<1>4. CASE UNCHANGED vars
  BY <1>4 DEF vars, IInv, TypeOK, ListInv, Inserts, TotalInv, PassedInv, Passed, SeenInv,
     OnlyTailMissed, NothingMissedWithoutCount
<1> QED
  BY <1>1, <1>2, <1>3, <1>4 DEF Next

LEMMA Invariance == Spec => []IInv
BY InitInv, StepKeeps, PTL DEF Spec

-----------------------------------------------------------------------------
(* Whatever comes in, every state is well-formed; in particular the page   *)
(* number is bounded, for each page but the last has brought an order.     *)
THEOREM TypeCorrect == Spec => []TypeOK
BY Invariance, PTL DEF IInv

(* The listing passes over nothing but a tail that new orders have pushed  *)
(* behind its last page (the breaks at sync.py:157-193).                   *)
THEOREM TailOnly == Spec => []OnlyTailMissed
BY Invariance, PTL DEF IInv

(* A loop that the API gives no count misses nothing while fewer orders    *)
(* come in than fit a page.                                                *)
THEOREM NothingMissed == Spec => []NothingMissedWithoutCount
BY Invariance, PTL DEF IInv

-----------------------------------------------------------------------------
(* What is left of the loop at most: pages the list may still have, and    *)
(* orders that may still enter it.                                         *)
Left ==
    IF status = "paging"
    THEN (MaxListed + MaxInserts + 2 - page) + (MaxInserts - Inserts) ELSE 0

(* Each step uses up some of it, so that the loop cannot go round for ever *)
(* and the longest run there is has a bound: every page but the last has   *)
(* brought a new order (the breaks at sync.py:157-193).                    *)
THEOREM LoopRunsOut == Spec => [](Left \in Nat) /\ [][Left' < Left]_vars
<1>1. IInv => Left \in Nat /\ (status = "paging" => Left > 0)
  <2> SUFFICES ASSUME IInv PROVE Left \in Nat /\ (status = "paging" => Left > 0)
    OBVIOUS
  <2>1. page \in 1..(MaxListed + MaxInserts + 1)
    BY DEF IInv, TypeOK
  <2>2. Inserts \in Nat /\ Inserts <= MaxInserts
    <3>1. Cardinality(listed) \in Nat /\ Cardinality(listed) <= Len(list) /\ Len(list) \in Nat
      BY FS_CardinalityType DEF IInv, TypeOK, ListInv
    <3> QED BY <3>1 DEF Inserts, IInv, ListInv
  <2> QED BY <2>1, <2>2 DEF Left
<1>2. (IInv => Left \in Nat /\ (status = "paging" => Left > 0))'
  BY <1>1, PTL
<1>3. IInv /\ IInv' /\ Next => Left' < Left
  <2> SUFFICES ASSUME IInv, IInv', Next PROVE Left' < Left
    OBVIOUS
  <2>1. /\ page \in Nat /\ page' \in Nat /\ Cardinality(listed) \in Nat /\ Len(list) \in Nat
        /\ Left \in Nat /\ Left' \in Nat /\ (status = "paging" => Left > 0)
    <3>1. IsFiniteSet(listed) /\ IsFiniteSet(listed)'
      BY DEF IInv, ListInv
    <3> QED BY <1>1, <1>2, <3>1, FS_CardinalityType DEF IInv, TypeOK
  <2>2. CASE Insert
    <3>1. Len(list') = Len(list) + 1 /\ listed' = listed /\ page' = page /\ status' = status
      <4>1. PICK i \in 1..(Len(list) + 1) : list' = InsertAt(list, i, Len(list) + 1)
        BY <2>2 DEF Insert
      <4>2. list \in Seq(Nat) /\ Len(list) + 1 \in Nat
        BY DEF IInv, TypeOK
      <4>3. Len(InsertAt(list, i, Len(list) + 1)) = Len(list) + 1
        BY <4>1, <4>2, Inserting
      <4> QED BY <2>2, <4>1, <4>3 DEF Insert
    <3> QED BY <2>1, <2>2, <3>1 DEF Left, Inserts, Insert
  <2>3. CASE FetchPage
    BY <2>1, <2>3 DEF FetchPage, Left, Inserts
  <2>4. CASE ApiError
    BY <2>1, <2>4 DEF ApiError, Left
  <2> QED BY <2>2, <2>3, <2>4 DEF Next
<1> QED BY <1>1, <1>3, Invariance, PTL DEF Spec
=============================================================================
