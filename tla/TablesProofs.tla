---------------------------- MODULE TablesProofs ----------------------------
(***************************************************************************)
(* What the operators of Tables contain, for every table, set and list.    *)
(***************************************************************************)
EXTENDS Tables, Sequences, FiniteSetTheorems, TLAPS

\* A strict order in which any two members compare.
Orders(before, S) ==
    /\ \A x \in S : <<x, x>> \notin before
    /\ \A x, y, z \in S : <<x, y>> \in before /\ <<y, z>> \in before => <<x, z>> \in before
    /\ \A x, y \in S : x # y => <<x, y>> \in before \/ <<y, x>> \in before

\* Every place of the list has a member of the set, and every member a place: as
\* many members come before it as there are places before its own.  And the list
\* is sorted.
LEMMA InOrderMembers ==
  ASSUME NEW S, IsFiniteSet(S), NEW before, Orders(before, S)
  PROVE  /\ Cardinality(S) \in Nat
         /\ DOMAIN InOrder(S, before) = 1..Cardinality(S)
         /\ \A k \in 1..Cardinality(S) : InOrder(S, before)[k] \in S
         /\ \A x \in S : \E k \in 1..Cardinality(S) : InOrder(S, before)[k] = x
         /\ \A j, k \in 1..Cardinality(S) :
              j < k => <<InOrder(S, before)[j], InOrder(S, before)[k]>> \in before
         /\ \A k \in 1..Cardinality(S) : \A x \in S :
              Cardinality({y \in S : <<y, x>> \in before}) = k - 1 <=> x = InOrder(S, before)[k]
<1> DEFINE n == Cardinality(S)
           ahead(x) == {y \in S : <<y, x>> \in before}
           rank == [x \in S |-> Cardinality(ahead(x))]
<1>1. n \in Nat
  BY FS_CardinalityType
<1>2. ASSUME NEW x \in S
      PROVE  IsFiniteSet(ahead(x)) /\ Cardinality(ahead(x)) \in 0..(n - 1)
  <2>1. ahead(x) \subseteq S \ {x}
    BY DEF Orders
  <2>2. IsFiniteSet(S \ {x}) /\ Cardinality(S \ {x}) = n - 1
    BY FS_RemoveElement
  <2>3. IsFiniteSet(ahead(x)) /\ Cardinality(ahead(x)) <= Cardinality(S \ {x})
    BY <2>1, <2>2, FS_Subset
  <2>4. Cardinality(ahead(x)) \in Nat
    BY <2>3, FS_CardinalityType
  <2> HIDE DEF ahead
  <2> QED
    BY <1>1, <2>2, <2>3, <2>4
<1>3. ASSUME NEW x \in S, NEW y \in S, <<x, y>> \in before
      PROVE  Cardinality(ahead(x)) < Cardinality(ahead(y))
  <2>1. ahead(x) \cup {x} \subseteq ahead(y) /\ x \notin ahead(x)
    BY <1>3 DEF Orders
  <2>2. IsFiniteSet(ahead(x)) /\ IsFiniteSet(ahead(y))
    BY <1>2
  <2>3. IsFiniteSet(ahead(x) \cup {x}) /\ Cardinality(ahead(x) \cup {x}) = Cardinality(ahead(x)) + 1
    BY <2>1, <2>2, FS_AddElement
  <2>4. Cardinality(ahead(x) \cup {x}) <= Cardinality(ahead(y))
    BY <2>1, <2>2, FS_Subset
  <2>5. Cardinality(ahead(x)) \in Nat /\ Cardinality(ahead(y)) \in Nat
    BY <2>2, FS_CardinalityType
  <2> HIDE DEF ahead
  <2> QED
    BY <2>3, <2>4, <2>5
<1>4. rank \in [S -> 0..(n - 1)]
  BY <1>2
<1>5. ASSUME NEW x \in S, NEW y \in S, rank[x] = rank[y] PROVE x = y
  <2>1. Cardinality(ahead(x)) = Cardinality(ahead(y)) /\ Cardinality(ahead(x)) \in Int
    <3>1. rank[x] = Cardinality(ahead(x)) /\ rank[y] = Cardinality(ahead(y))
      OBVIOUS
    <3>2. Cardinality(ahead(x)) \in 0..(n - 1)
      BY <1>2
    <3>3. Cardinality(ahead(x)) = Cardinality(ahead(y))
      BY <1>5, <3>1, Zenon
    <3> HIDE DEF ahead, rank, n
    <3> QED
      BY <1>1, <3>2, <3>3
  <2>2. <<x, y>> \notin before /\ <<y, x>> \notin before
    <3> HIDE DEF ahead, rank
    <3> QED
      BY <1>3, <2>1
  <2> QED
    BY <2>2 DEF Orders
<1>6. rank \in Injection(S, 0..(n - 1))
  BY <1>4, <1>5 DEF Injection, IsInjective
<1>7. IsFiniteSet(0..(n - 1)) /\ Cardinality(0..(n - 1)) = n
  BY <1>1, FS_Interval
<1>8. rank \in Surjection(S, 0..(n - 1))
  <2> HIDE DEF rank
  <2> QED
    BY <1>6, <1>7, FS_Injection
<1>9. ASSUME NEW k \in 1..n
      PROVE  \E x \in S : Cardinality(ahead(x)) = k - 1
  <2>1. k - 1 \in 0..(n - 1)
    BY <1>1
  <2>2. PICK x \in S : rank[x] = k - 1
    BY <1>8, <2>1 DEF Surjection
  <2> QED
    BY <2>2
<1>10. ASSUME NEW k \in 1..n
       PROVE  /\ InOrder(S, before)[k] \in S
              /\ Cardinality(ahead(InOrder(S, before)[k])) = k - 1
  BY <1>9 DEF InOrder
<1>11. ASSUME NEW x \in S PROVE \E k \in 1..n : InOrder(S, before)[k] = x
  <2>1. rank[x] \in 0..(n - 1)
    BY <1>4
  <2>2. rank[x] + 1 \in 1..n /\ (rank[x] + 1) - 1 = rank[x]
    <3> HIDE DEF rank
    <3> QED
      BY <1>1, <2>1
  <2> DEFINE y == InOrder(S, before)[rank[x] + 1]
  <2>3. y \in S /\ Cardinality(ahead(y)) = rank[x]
    BY <1>10, <2>2
  <2>4. rank[y] = rank[x]
    BY <2>3
  <2>5. y = x
    BY <1>5, <2>3, <2>4
  <2> QED
    BY <2>2, <2>5
<1>12. DOMAIN InOrder(S, before) = 1..n
  BY DEF InOrder
<1>13. ASSUME NEW j \in 1..n, NEW k \in 1..n, j < k
       PROVE  <<InOrder(S, before)[j], InOrder(S, before)[k]>> \in before
  <2> DEFINE x == InOrder(S, before)[j]
             y == InOrder(S, before)[k]
  <2>1. /\ x \in S /\ Cardinality(ahead(x)) = j - 1
        /\ y \in S /\ Cardinality(ahead(y)) = k - 1
    BY <1>10
  <2> HIDE DEF x, y, ahead
  <2>2. Cardinality(ahead(x)) < Cardinality(ahead(y))
    BY <1>13, <2>1
  <2>3. x # y /\ ~(Cardinality(ahead(y)) < Cardinality(ahead(x)))
    BY <2>1, <2>2
  <2>4. <<y, x>> \notin before
    BY <1>3, <2>1, <2>3
  <2>5. <<x, y>> \in before
    BY <2>1, <2>3, <2>4 DEF Orders
  <2> QED
    BY <2>5 DEF x, y
<1>14. ASSUME NEW k \in 1..n, NEW x \in S, Cardinality(ahead(x)) = k - 1
       PROVE  x = InOrder(S, before)[k]
  <2>1. rank[x] = k - 1 /\ rank[InOrder(S, before)[k]] = k - 1 /\ InOrder(S, before)[k] \in S
    BY <1>10, <1>14
  <2> QED
    BY <1>5, <2>1
<1> QED
  BY <1>1, <1>10, <1>11, <1>12, <1>13, <1>14

\* Numbers in their order.
LEMMA AscendingMembers ==
  ASSUME NEW S, IsFiniteSet(S), S \subseteq Int
  PROVE  /\ Cardinality(S) \in Nat
         /\ DOMAIN Ascending(S) = 1..Cardinality(S)
         /\ \A k \in 1..Cardinality(S) : Ascending(S)[k] \in S
         /\ \A x \in S : \E k \in 1..Cardinality(S) : Ascending(S)[k] = x
         /\ \A j, k \in 1..Cardinality(S) : j < k => Ascending(S)[j] < Ascending(S)[k]
<1> DEFINE before == {p \in S \X S : p[1] < p[2]}
<1>1. \A x, y \in S : <<x, y>> \in before <=> x < y
  OBVIOUS
<1>2. Orders(before, S)
  <2> HIDE DEF before
  <2> QED
    BY <1>1 DEF Orders
<1> HIDE DEF before
<1>0. /\ Cardinality(S) \in Nat
      /\ DOMAIN InOrder(S, before) = 1..Cardinality(S)
      /\ \A k \in 1..Cardinality(S) : InOrder(S, before)[k] \in S
      /\ \A x \in S : \E k \in 1..Cardinality(S) : InOrder(S, before)[k] = x
      /\ \A j, k \in 1..Cardinality(S) :
            j < k => <<InOrder(S, before)[j], InOrder(S, before)[k]>> \in before
      /\ \A k \in 1..Cardinality(S) : \A x \in S :
            Cardinality({y \in S : <<y, x>> \in before}) = k - 1 <=> x = InOrder(S, before)[k]
  BY <1>2, InOrderMembers
<1>3. Ascending(S) = InOrder(S, before)
  <2>1. \A x \in S : {y \in S : y < x} = {y \in S : <<y, x>> \in before}
    BY <1>1
  <2>2. ASSUME NEW k \in 1..Cardinality(S) PROVE Ascending(S)[k] = InOrder(S, before)[k]
    <3>1. \A x \in S : Cardinality({y \in S : y < x}) = k - 1 <=> x = InOrder(S, before)[k]
      BY <1>0, <2>1
    <3>2. InOrder(S, before)[k] \in S
      BY <1>0
    <3>3. Ascending(S)[k] = CHOOSE x \in S : Cardinality({y \in S : y < x}) = k - 1
      BY DEF Ascending
    <3>4. Ascending(S)[k] \in S /\ Cardinality({y \in S : y < Ascending(S)[k]}) = k - 1
      BY <3>1, <3>2, <3>3
    <3> QED
      BY <3>1, <3>4
  <2> QED
    BY <2>2 DEF Ascending, InOrder
<1> QED
  BY <1>0, <1>1, <1>3

\* What a filter keeps are the rows at the places it was given.
LEMMA KeptRows ==
  ASSUME NEW list, NEW places, IsFiniteSet(places), places \subseteq Int
  PROVE  /\ Cardinality(places) \in Nat
         /\ DOMAIN Kept(list, places) = 1..Cardinality(places)
         /\ \A k \in DOMAIN Kept(list, places) : \E i \in places : Kept(list, places)[k] = list[i]
         /\ \A i \in places : \E k \in DOMAIN Kept(list, places) : Kept(list, places)[k] = list[i]
<1>1. /\ Cardinality(places) \in Nat
      /\ DOMAIN Ascending(places) = 1..Cardinality(places)
      /\ \A k \in 1..Cardinality(places) : Ascending(places)[k] \in places
      /\ \A x \in places : \E k \in 1..Cardinality(places) : Ascending(places)[k] = x
  BY AscendingMembers
<1>2. /\ DOMAIN Kept(list, places) = 1..Cardinality(places)
      /\ \A k \in 1..Cardinality(places) : Kept(list, places)[k] = list[Ascending(places)[k]]
  BY DEF Kept
<1>3. ASSUME NEW i \in places
      PROVE  \E k \in DOMAIN Kept(list, places) : Kept(list, places)[k] = list[i]
  <2>1. PICK k \in 1..Cardinality(places) : Ascending(places)[k] = i
    BY <1>1
  <2>2. k \in DOMAIN Kept(list, places) /\ Kept(list, places)[k] = list[i]
    BY <1>1, <1>2, <2>1
  <2> QED
    BY <2>2
<1>4. ASSUME NEW k \in DOMAIN Kept(list, places)
      PROVE  \E i \in places : Kept(list, places)[k] = list[i]
  <2>1. Ascending(places)[k] \in places /\ Kept(list, places)[k] = list[Ascending(places)[k]]
    BY <1>1, <1>2
  <2> QED
    BY <2>1
<1>5. DOMAIN Kept(list, places) = 1..Cardinality(places)
  BY <1>1, <1>2
<1> QED
  BY <1>1, <1>3, <1>4, <1>5, Zenon

(***************************************************************************)
(* Lists.                                                                  *)
(***************************************************************************)

IsList(s) == s \in Seq(Range(s))

\* A function on the first numbers is a list.
LEMMA ListOf ==
  ASSUME NEW n \in Nat, NEW f, f = [i \in 1..n |-> f[i]]
  PROVE  IsList(f) /\ Len(f) = n /\ DOMAIN f = 1..n
<1>1. \A i \in 1..n : f[i] \in Range(f)
  <2>1. DOMAIN f = 1..n
    OBVIOUS
  <2> QED
    BY <2>1 DEF Range
<1>2. [i \in 1..n |-> f[i]] \in [1..n -> Range(f)]
  BY <1>1
<1>3. f \in Seq(Range(f))
  BY <1>2
<1> QED
  BY <1>3 DEF IsList

\* The places of a list, its first and the rest.
LEMMA ListPlaces ==
  ASSUME NEW s, IsList(s)
  PROVE  /\ Len(s) \in Nat /\ DOMAIN s = 1..Len(s) /\ IsFiniteSet(DOMAIN s) /\ DOMAIN s \subseteq Int
         /\ s # <<>> =>
              /\ 1 \in DOMAIN s /\ Head(s) = s[1] /\ IsList(Tail(s))
              /\ Len(Tail(s)) = Len(s) - 1 /\ (Tail(s) = <<>> <=> Len(s) = 1)
              /\ \A i \in DOMAIN Tail(s) : i + 1 \in DOMAIN s /\ Tail(s)[i] = s[i + 1]
<1> DEFINE T == Range(s)
<1>0. s \in Seq(T)
  BY DEF IsList
<1> HIDE DEF T
<1>1. Len(s) \in Nat /\ DOMAIN s = 1..Len(s)
  BY <1>0
<1>2. IsFiniteSet(1..Len(s))
  BY <1>1, FS_Interval
<1>3. ASSUME s # <<>>
      PROVE  /\ 1 \in DOMAIN s /\ Head(s) = s[1] /\ Tail(s) \in Seq(T)
             /\ Len(Tail(s)) = Len(s) - 1 /\ (Tail(s) = <<>> <=> Len(s) = 1)
             /\ \A i \in DOMAIN Tail(s) : i + 1 \in DOMAIN s /\ Tail(s)[i] = s[i + 1]
  <2>1. Len(s) # 0 /\ 1 \in DOMAIN s
    BY <1>0, <1>1, <1>3
  <2>2. Head(s) = s[1]
    BY <1>0, <1>3
  <2>3. Tail(s) \in Seq(T) /\ Len(Tail(s)) = Len(s) - 1
    BY <1>0, <1>3
  <2>4. DOMAIN Tail(s) = 1..(Len(s) - 1)
    BY <1>1, <2>1, <2>3
  <2>5. \A i \in 1..(Len(s) - 1) : Tail(s)[i] = s[i + 1]
    BY <1>0, <1>1, <1>3
  <2>6. \A i \in 1..(Len(s) - 1) : i + 1 \in 1..Len(s)
    BY <1>1
  <2>7. Tail(s) = <<>> <=> Len(s) = 1
    <3>1. ASSUME NEW t \in Seq(T) PROVE t = <<>> <=> Len(t) = 0
      OBVIOUS
    <3>2. Tail(s) = <<>> <=> Len(Tail(s)) = 0
      BY <2>3, <3>1
    <3> QED
      BY <1>1, <2>3, <3>2
  <2> QED
    BY <1>1, <2>1, <2>2, <2>3, <2>4, <2>5, <2>6, <2>7
<1>4. ASSUME NEW t \in Seq(T) PROVE IsList(t)
  <2>1. Len(t) \in Nat /\ t = [i \in 1..Len(t) |-> t[i]]
    OBVIOUS
  <2> QED
    BY <2>1, ListOf
<1>5. DOMAIN s \subseteq Int /\ IsFiniteSet(DOMAIN s)
  BY <1>1, <1>2
<1>6. s # <<>> => IsList(Tail(s))
  BY <1>3, <1>4
<1> QED
  BY <1>1, <1>3, <1>5, <1>6

\* A row more.
LEMMA AddRow ==
  ASSUME NEW T, NEW s \in Seq(T), NEW e \in T
  PROVE  /\ Append(s, e) \in Seq(T) /\ Len(Append(s, e)) = Len(s) + 1
         /\ DOMAIN Append(s, e) = 1..(Len(s) + 1)
         /\ \A j \in 1..Len(s) : Append(s, e)[j] = s[j]
         /\ Append(s, e)[Len(s) + 1] = e
  OBVIOUS

\* A list with a row added at its end.
LEMMA AddedList ==
  ASSUME NEW s, IsList(s), NEW e
  PROVE  /\ IsList(Append(s, e)) /\ Append(s, e) # <<>>
         /\ \A i \in DOMAIN Append(s, e) : Append(s, e)[i] = e \/ \E j \in DOMAIN s : Append(s, e)[i] = s[j]
<1> DEFINE T == Range(s) \cup {e}
           t == Append(s, e)
<1>1. Len(s) \in Nat /\ DOMAIN s = 1..Len(s) /\ s \in Seq(Range(s))
  BY ListPlaces DEF IsList
<1>2. s \in Seq(T) /\ e \in T
  BY <1>1
<1> HIDE DEF T
<1>3. /\ t \in Seq(T) /\ Len(t) = Len(s) + 1 /\ DOMAIN t = 1..(Len(s) + 1)
      /\ \A j \in 1..Len(s) : t[j] = s[j]
      /\ t[Len(s) + 1] = e
  BY <1>2, AddRow
<1> HIDE DEF t
<1>4. t = [j \in 1..(Len(s) + 1) |-> t[j]]
  BY <1>3
<1>5. IsList(t)
  BY <1>1, <1>4, ListOf
<1>6. t # <<>>
  BY <1>1, <1>3
<1>7. ASSUME NEW i \in DOMAIN t PROVE t[i] = e \/ \E j \in DOMAIN s : t[i] = s[j]
  <2>1. i = Len(s) + 1 \/ i \in 1..Len(s)
    BY <1>1, <1>3
  <2> QED
    BY <1>1, <1>3, <2>1
<1> QED
  BY <1>5, <1>6, <1>7 DEF t

\* No row.
LEMMA NoRows == IsList(<<>>) /\ DOMAIN <<>> = {} /\ Len(<<>>) = 0
  BY DEF IsList

\* The rows of a list that a filter keeps are rows of it, and are a list.
LEMMA KeptList ==
  ASSUME NEW s, IsList(s), NEW I, I \subseteq DOMAIN s
  PROVE  /\ IsList(Kept(s, I)) /\ DOMAIN Kept(s, I) = 1..Len(Kept(s, I))
         /\ \A k \in DOMAIN Kept(s, I) : \E i \in I : Kept(s, I)[k] = s[i]
<1>1. IsFiniteSet(DOMAIN s) /\ DOMAIN s \subseteq Int
  BY ListPlaces
<1>2. IsFiniteSet(I) /\ I \subseteq Int
  BY <1>1, FS_Subset
<1>3. /\ Cardinality(I) \in Nat /\ DOMAIN Kept(s, I) = 1..Cardinality(I)
      /\ \A k \in DOMAIN Kept(s, I) : \E i \in I : Kept(s, I)[k] = s[i]
  BY <1>2, KeptRows
<1>4. Kept(s, I) = [k \in 1..Cardinality(I) |-> Kept(s, I)[k]]
  BY <1>3 DEF Kept
<1>5. IsList(Kept(s, I)) /\ Len(Kept(s, I)) = Cardinality(I)
  BY <1>3, <1>4, ListOf
<1> QED
  BY <1>3, <1>5

\* A function on the places of a list is a list.
LEMMA MappedList ==
  ASSUME NEW s, IsList(s), NEW f, f = [i \in DOMAIN s |-> f[i]]
  PROVE  IsList(f) /\ DOMAIN f = DOMAIN s
<1>1. Len(s) \in Nat /\ DOMAIN s = 1..Len(s)
  BY ListPlaces
<1>2. f = [i \in 1..Len(s) |-> f[i]]
  BY <1>1
<1> QED
  BY <1>1, <1>2, ListOf

=============================================================================
