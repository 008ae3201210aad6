-------------------------- MODULE EntityStoreProofs --------------------------
(***************************************************************************)
(* For any addresses, flows, alerts, caps and crashes: what EntityStore    *)
(* holds to be saved is in entities.json, a dossier is of one piece, only  *)
(* the oldest are forgotten, and an alert reaches both its ends.           *)
(***************************************************************************)
EXTENDS EntityStore, FiniteSetTheorems, WellFoundedInduction, TLAPS

(* A tick is dirty from its first flow to its flush, and the file is never *)
(* larger than a loading would leave it.                                   *)
SavedInv ==
    /\ CleanMeansSaved
    /\ pc = "alerts" => dirty
    /\ Len(disk) <= MaxEntities

-----------------------------------------------------------------------------
LEMMA CutToCaps == ASSUME NEW d, NEW n \in Nat PROVE Len(CutTo(d, n)) <= n
<1>1. CASE Len(d) <= n
  BY <1>1 DEF CutTo
<1>2. CASE ~(Len(d) <= n)
  <2> DEFINE kept == DOMAIN d \ Lowest(d, Len(d) - n)
             e == [k \in 1 .. n |-> d[Nth(kept, k)]]
  <2>1. CutTo(d, n) = e
    BY <1>2 DEF CutTo
  <2> HIDE DEF kept
  <2>2. e \in Seq({d[Nth(kept, k)] : k \in 1 .. n}) /\ Len(e) = n
    OBVIOUS
  <2>3. QED
    BY <2>1, <2>2
<1>3. QED
  BY <1>1, <1>2

(* A store within its cap is loaded as it is.                              *)
LEMMA SmallStays == ASSUME NEW d, NEW n, Len(d) <= n PROVE CutTo(d, n) = d
  BY DEF CutTo

LEMMA SavedInit == Init => SavedInv
  BY SizeAssumption DEF Init, SavedInv, CleanMeansSaved

LEMMA SavedStep == ASSUME SavedInv, [Next]_vars PROVE SavedInv'
<1> USE SizeAssumption DEF SavedInv, CleanMeansSaved
<1>1. ASSUME NEW flows, NEW raised, ObserveFlows(flows, raised) PROVE SavedInv'
  BY <1>1 DEF ObserveFlows
<1>2. CASE NoteAlert
  <2>1. dirty /\ UNCHANGED disk /\ (dirty' = TRUE \/ UNCHANGED dirty)
    BY <1>2 DEF NoteAlert
  <2>2. QED
    BY <2>1
<1>3. ASSUME Save PROVE store' = disk' /\ Len(disk') <= MaxEntities
  BY <1>3, CutToCaps DEF Save
<1>4. CASE Flush
  BY <1>3, <1>4 DEF Flush
<1>5. CASE Stop
  BY <1>3, <1>5 DEF Stop
<1>6. CASE Kill
  BY <1>6 DEF Kill
<1>7. CASE Load
  BY <1>7, SmallStays DEF Load
<1>8. CASE UNCHANGED vars
  BY <1>8 DEF vars
<1>9. QED
  BY <1>1, <1>2, <1>4, <1>5, <1>6, <1>7, <1>8 DEF Next

(* Whatever a tick brings, and wherever it is interrupted: what memory     *)
(* holds and no flush has written is marked as dirty.                      *)
THEOREM NothingForgotten == Spec => []CleanMeansSaved
<1>1. SavedInv => CleanMeansSaved
  BY DEF SavedInv
<1>2. QED
  BY <1>1, SavedInit, SavedStep, PTL DEF Spec

-----------------------------------------------------------------------------
(* Cutting a dict down.  R orders a finite set K; the place of an element  *)
(* is how many come before it.                                             *)
Orders(R, K) ==
    /\ \A i \in K : <<i, i>> \notin R
    /\ \A i, j, k \in K : <<i, j>> \in R /\ <<j, k>> \in R => <<i, k>> \in R
    /\ \A i, j \in K : i = j \/ <<i, j>> \in R \/ <<j, i>> \in R

Ahead(R, K, i) == {j \in K : <<j, i>> \in R}

LEMMA AheadGrows ==
    ASSUME NEW K, IsFiniteSet(K), NEW R, Orders(R, K),
           NEW i \in K, NEW k \in K, <<i, k>> \in R
    PROVE  Cardinality(Ahead(R, K, i)) < Cardinality(Ahead(R, K, k))
<1>1. Ahead(R, K, i) \subseteq Ahead(R, K, k) /\ i \in Ahead(R, K, k)
      /\ i \notin Ahead(R, K, i)
  BY DEF Ahead, Orders
<1>2. IsFiniteSet(Ahead(R, K, k)) /\ IsFiniteSet(Ahead(R, K, i))
  BY FS_Subset DEF Ahead
<1>3. Cardinality(Ahead(R, K, i)) <= Cardinality(Ahead(R, K, k))
      /\ Cardinality(Ahead(R, K, i)) # Cardinality(Ahead(R, K, k))
  BY <1>1, <1>2, FS_Subset
<1>4. QED
  BY <1>2, <1>3, FS_CardinalityType

(* The places of n elements are 0 to n - 1, each taken once.               *)
LEMMA PlacesAreTaken ==
    ASSUME NEW K, IsFiniteSet(K), NEW R, Orders(R, K)
    PROVE  LET place == [i \in K |-> Cardinality(Ahead(R, K, i))]
           IN  place \in Bijection(K, 0 .. Cardinality(K) - 1)
<1> DEFINE place == [i \in K |-> Cardinality(Ahead(R, K, i))]
           T == 0 .. Cardinality(K) - 1
<1>1. Cardinality(K) \in Nat
  BY FS_CardinalityType
<1>2. ASSUME NEW i \in K PROVE place[i] \in T
  <2>1. Ahead(R, K, i) \subseteq K /\ i \notin Ahead(R, K, i)
    BY DEF Ahead, Orders
  <2>2. IsFiniteSet(Ahead(R, K, i))
        /\ Cardinality(Ahead(R, K, i)) <= Cardinality(K)
        /\ Cardinality(Ahead(R, K, i)) # Cardinality(K)
    BY <2>1, FS_Subset
  <2>3. Cardinality(Ahead(R, K, i)) \in Nat
    BY <2>2, FS_CardinalityType
  <2>4. QED
    BY <1>1, <2>2, <2>3
<1>3. ASSUME NEW i \in K, NEW k \in K, i # k PROVE place[i] # place[k]
  <2>1. place[i] \in Nat /\ place[k] \in Nat
    BY <1>2
  <2>2. CASE <<i, k>> \in R
    BY <2>1, <2>2, AheadGrows
  <2>3. CASE <<k, i>> \in R
    BY <2>1, <2>3, AheadGrows
  <2>4. QED
    BY <1>3, <2>2, <2>3 DEF Orders
<1>4. place \in Injection(K, T)
  BY <1>2, <1>3 DEF Injection, IsInjective
<1>5. IsFiniteSet(T) /\ Cardinality(T) = Cardinality(K)
  BY <1>1, FS_Interval
<1> HIDE DEF place, T
<1>6. place \in Surjection(K, T)
  BY <1>4, <1>5, FS_Injection
<1>7. QED
  BY <1>4, <1>6 DEF Bijection, place, T

(* The entries of d that are kept keep their order; each that goes comes   *)
(* before them all.                                                        *)
Sooner(d, j, i) == d[j].rank < d[i].rank \/ (d[j].rank = d[i].rank /\ j < i)

Ranked(d) == \A i \in DOMAIN d : d[i].rank \in Int

LEMMA LowestFacts ==
    ASSUME NEW S, NEW d \in Seq(S), Ranked(d), NEW n \in Nat, n < Len(d)
    PROVE  LET kept == DOMAIN d \ Lowest(d, Len(d) - n)
           IN  /\ IsFiniteSet(kept) /\ Cardinality(kept) = n
               /\ \A i \in DOMAIN d \ kept, k \in kept : Sooner(d, i, k)
<1> DEFINE K == DOMAIN d
           R == {x \in K \X K : Sooner(d, x[1], x[2])}
           m == Len(d) - n
           kept == K \ Lowest(d, m)
           place == [i \in K |-> Cardinality(Ahead(R, K, i))]
<1>1. K = 1 .. Len(d) /\ Len(d) \in Nat /\ m \in Nat
  OBVIOUS
<1>2. IsFiniteSet(K) /\ Cardinality(K) = Len(d)
  <2> HIDE DEF K
  <2>1. IsFiniteSet(1 .. Len(d)) /\ Cardinality(1 .. Len(d)) = IF 1 > Len(d) THEN 0 ELSE Len(d) - 1 + 1
    BY <1>1, FS_Interval
  <2>2. QED
    BY <1>1, <2>1
<1>3. Orders(R, K)
  <2>1. \A i, j \in K : <<i, j>> \in R <=> Sooner(d, i, j)
    <3> HIDE DEF K
    <3> SUFFICES ASSUME NEW i \in K, NEW j \in K
                 PROVE  <<i, j>> \in R <=> Sooner(d, i, j)
      OBVIOUS
    <3>1. <<i, j>> \in K \X K /\ <<i, j>>[1] = i /\ <<i, j>>[2] = j
      OBVIOUS
    <3>2. QED
      BY <3>1
  <2> HIDE DEF R
  <2>2. \A i \in K : d[i].rank \in Int /\ i \in Int
    BY <1>1 DEF Ranked
  <2>3. \A i \in K : ~Sooner(d, i, i)
    BY <2>2 DEF Sooner
  <2>4. ASSUME NEW i \in K, NEW j \in K, NEW k \in K, Sooner(d, i, j), Sooner(d, j, k)
        PROVE  Sooner(d, i, k)
    <3>1. /\ d[i].rank \in Int /\ d[j].rank \in Int /\ d[k].rank \in Int
          /\ i \in Int /\ j \in Int /\ k \in Int
      BY <2>2
    <3>2. QED
      BY <2>4, <3>1 DEF Sooner
  <2>5. ASSUME NEW i \in K, NEW j \in K PROVE i = j \/ Sooner(d, i, j) \/ Sooner(d, j, i)
    <3>1. d[i].rank \in Int /\ d[j].rank \in Int /\ i \in Int /\ j \in Int
      BY <2>2
    <3>2. QED
      BY <3>1 DEF Sooner
  <2>6. QED
    BY <2>1, <2>3, <2>4, <2>5 DEF Orders
<1>4. \A i \in K : Ahead(R, K, i) = {j \in K : Sooner(d, j, i)}
  BY DEF Ahead
<1>5. place \in Bijection(K, 0 .. Len(d) - 1)
  BY <1>2, <1>3, PlacesAreTaken
<1>6. \A i \in K : i \in kept <=> ~(place[i] < m)
  BY <1>4 DEF Lowest, Sooner
<1>7. \A i, k \in K : <<i, k>> \in R => place[i] < place[k]
  BY <1>2, <1>3, AheadGrows
<1> HIDE DEF place, kept, R, m
<1>8. \A i \in K : place[i] \in 0 .. Len(d) - 1
  BY <1>5 DEF Bijection, Injection
<1>9. ASSUME NEW i \in K \ kept, NEW k \in kept PROVE Sooner(d, i, k)
  <2>1. k \in K
    BY DEF kept
  <2>2. place[i] < place[k]
    BY <1>1, <1>6, <1>8, <2>1
  <2>3. ~(<<k, i>> \in R) /\ i # k
    BY <1>7, <1>8, <2>1, <2>2
  <2>4. <<i, k>> \in R
    BY <1>3, <2>1, <2>3 DEF Orders
  <2>5. QED
    BY <2>4 DEF R
<1>10. IsFiniteSet(kept) /\ Cardinality(kept) = n
  <2> DEFINE T == m .. Len(d) - 1
             g == [i \in kept |-> place[i]]
  <2>1. kept \subseteq K /\ IsFiniteSet(kept)
    BY <1>2, FS_Subset DEF kept
  <2>2. g \in [kept -> T]
    BY <1>1, <1>6, <1>8, <2>1
  <2>3. \A i, k \in kept : g[i] = g[k] => i = k
    BY <1>5, <2>1 DEF Bijection, Injection, IsInjective
  <2>4. \A t \in T : \E i \in kept : g[i] = t
    <3> TAKE t \in T
    <3>1. t \in 0 .. Len(d) - 1 /\ ~(t < m)
      BY <1>1
    <3>2. PICK i \in K : place[i] = t
      BY <1>5, <3>1 DEF Bijection, Surjection
    <3>3. i \in kept
      BY <1>6, <3>1, <3>2
    <3>4. QED
      BY <3>2, <3>3
  <2> HIDE DEF g, T
  <2>5. ExistsBijection(kept, T)
    BY <2>2, <2>3, <2>4 DEF ExistsBijection, Bijection, Injection, IsInjective, Surjection
  <2>6. Cardinality(T) = n
    BY <1>1, FS_Interval DEF T, m
  <2>7. QED
    BY <2>1, <2>5, <2>6, FS_Bijection
<1>11. QED
  BY <1>9, <1>10 DEF kept, m

(* The kept entries of a finite set of numbers, taken in order.            *)
LEMMA InOrder ==
    ASSUME NEW kept, kept \subseteq Nat, IsFiniteSet(kept), NEW n, n = Cardinality(kept)
    PROVE  /\ \A k \in 1 .. n : Nth(kept, k) \in kept
           /\ \A k, l \in 1 .. n : Nth(kept, k) = Nth(kept, l) => k = l
           /\ \A i \in kept : \E k \in 1 .. n : Nth(kept, k) = i
<1> DEFINE R == {x \in kept \X kept : x[1] < x[2]}
           place == [i \in kept |-> Cardinality(Ahead(R, kept, i))]
           Upto(i) == {j \in kept : j <= i}
<1>1. n \in Nat
  BY FS_CardinalityType
<1>2. Orders(R, kept)
  <2>1. \A i, j \in kept : <<i, j>> \in R <=> i < j
    OBVIOUS
  <2> HIDE DEF R
  <2>2. QED
    BY <2>1 DEF Orders
<1>3. place \in Bijection(kept, 0 .. n - 1)
  BY <1>2, PlacesAreTaken
<1>4. ASSUME NEW i \in kept PROVE Cardinality(Upto(i)) = place[i] + 1
  <2>1. Ahead(R, kept, i) = Upto(i) \ {i}
    <3>1. Ahead(R, kept, i) = {j \in kept : j < i}
      BY DEF Ahead
    <3>2. \A j \in kept : j < i <=> j <= i /\ j # i
      OBVIOUS
    <3>3. QED
      BY <3>1, <3>2
  <2>2. IsFiniteSet(Upto(i)) /\ i \in Upto(i)
    BY FS_Subset
  <2> HIDE DEF Upto
  <2>3. Cardinality(Upto(i) \ {i}) = Cardinality(Upto(i)) - 1
        /\ Cardinality(Upto(i)) \in Nat
    BY <2>2, FS_RemoveElement, FS_CardinalityType
  <2>4. place[i] = Cardinality(Upto(i)) - 1
    BY <2>1, <2>3
  <2>5. QED
    BY <2>3, <2>4
<1> HIDE DEF place, Upto, R
<1>5. \A i \in kept : place[i] \in 0 .. n - 1
  BY <1>3 DEF Bijection, Injection
<1>6. \A i, j \in kept : place[i] = place[j] => i = j
  BY <1>3 DEF Bijection, Injection, IsInjective
<1>7. ASSUME NEW k \in 1 .. n
      PROVE  Nth(kept, k) \in kept /\ Cardinality(Upto(Nth(kept, k))) = k
  <2>1. k - 1 \in 0 .. n - 1
    BY <1>1
  <2>2. PICK i \in kept : place[i] = k - 1
    BY <1>3, <2>1 DEF Bijection, Surjection
  <2>3. Cardinality(Upto(i)) = k
    BY <1>4, <2>2
  <2>4. QED
    BY <2>3 DEF Nth, Upto
<1>8. ASSUME NEW i \in kept PROVE \E k \in 1 .. n : Nth(kept, k) = i
  <2>1. Cardinality(Upto(i)) \in 1 .. n
    BY <1>1, <1>4, <1>5
  <2>2. PICK k \in 1 .. n : k = Cardinality(Upto(i))
    BY <2>1
  <2>3. Nth(kept, k) \in kept /\ Cardinality(Upto(Nth(kept, k))) = k
    BY <1>7
  <2>4. ASSUME NEW j \in kept, Cardinality(Upto(j)) = k PROVE j = i
    <3>1. place[j] + 1 = place[i] + 1 /\ place[j] \in Int /\ place[i] \in Int
      BY <1>4, <1>5, <2>2, <2>4
    <3>2. place[j] = place[i]
      BY <3>1
    <3>3. QED
      BY <1>6, <3>2
  <2>5. QED
    BY <2>3, <2>4
<1>9. \A k, l \in 1 .. n : Nth(kept, k) = Nth(kept, l) => k = l
  BY <1>7
<1>10. QED
  BY <1>7, <1>8, <1>9 DEF Upto

(* What CutTo keeps: every entry, or the n that come last.                 *)
LEMMA CutKeeps ==
    ASSUME NEW S, NEW d \in Seq(S), Ranked(d), NEW n \in Nat
    PROVE  \E p \in [1 .. Len(CutTo(d, n)) -> DOMAIN d] :
             /\ CutTo(d, n) \in Seq(S)
             /\ Len(CutTo(d, n)) = IF Len(d) <= n THEN Len(d) ELSE n
             /\ \A k \in 1 .. Len(CutTo(d, n)) : CutTo(d, n)[k] = d[p[k]]
             /\ \A k, l \in 1 .. Len(CutTo(d, n)) : p[k] = p[l] => k = l
             /\ \A i \in DOMAIN d :
                  \/ \E k \in 1 .. Len(CutTo(d, n)) : p[k] = i
                  \/ /\ Len(d) > n
                     /\ \A k \in 1 .. Len(CutTo(d, n)) : Sooner(d, i, p[k])
<1>1. Len(d) \in Nat /\ DOMAIN d = 1 .. Len(d)
  OBVIOUS
<1>2. CASE Len(d) <= n
  <2>1. CutTo(d, n) = d
    BY <1>2 DEF CutTo
  <2> DEFINE p == [k \in 1 .. Len(d) |-> k]
  <2>2. p \in [1 .. Len(d) -> DOMAIN d] /\ \A k \in 1 .. Len(d) : p[k] = k
    BY <1>1
  <2>3. \A i \in DOMAIN d : \E k \in 1 .. Len(d) : p[k] = i
    BY <1>1, <2>2
  <2> HIDE DEF p
  <2>4. QED
    BY <1>1, <1>2, <2>1, <2>2, <2>3
<1>3. CASE ~(Len(d) <= n)
  <2> DEFINE kept == DOMAIN d \ Lowest(d, Len(d) - n)
             e == [k \in 1 .. n |-> d[Nth(kept, k)]]
             p == [k \in 1 .. n |-> Nth(kept, k)]
  <2>1. CutTo(d, n) = e
    BY <1>3 DEF CutTo
  <2>2. /\ IsFiniteSet(kept) /\ Cardinality(kept) = n
        /\ \A i \in DOMAIN d \ kept, k \in kept : Sooner(d, i, k)
    <3>1. n < Len(d)
      BY <1>1, <1>3
    <3>2. QED
      BY <3>1, LowestFacts
  <2>3. kept \subseteq Nat
    BY <1>1
  <2>5. kept \subseteq DOMAIN d
    OBVIOUS
  <2> HIDE DEF kept
  <2>4. /\ \A k \in 1 .. n : Nth(kept, k) \in kept
        /\ \A k, l \in 1 .. n : Nth(kept, k) = Nth(kept, l) => k = l
        /\ \A i \in kept : \E k \in 1 .. n : Nth(kept, k) = i
    <3>1. n = Cardinality(kept) /\ IsFiniteSet(kept) /\ kept \subseteq Nat
      BY <2>2, <2>3
    <3>2. QED
      BY <3>1, InOrder
  <2>6. e \in Seq(S) /\ Len(e) = n
    <3>1. \A k \in 1 .. n : d[Nth(kept, k)] \in S
      BY <2>4, <2>5
    <3>2. QED
      BY <3>1
  <2>7. p \in [1 .. n -> DOMAIN d]
    BY <2>4, <2>5
  <2>8. \A i \in DOMAIN d : (\E k \in 1 .. n : p[k] = i)
                            \/ \A k \in 1 .. n : Sooner(d, i, p[k])
    <3> TAKE i \in DOMAIN d
    <3>1. CASE i \in kept
      BY <2>4, <3>1
    <3>2. CASE i \notin kept
      BY <2>2, <2>4, <3>2
    <3>3. QED
      BY <3>1, <3>2
  <2>9. /\ \A k \in 1 .. n : e[k] = d[p[k]]
        /\ \A k, l \in 1 .. n : p[k] = p[l] => k = l
    BY <2>4
  <2>10. Len(d) > n
    BY <1>1, <1>3
  <2> HIDE DEF e, p
  <2>11. QED
    BY <1>3, <2>1, <2>6, <2>7, <2>8, <2>9, <2>10
<1>4. QED
  BY <1>2, <1>3

-----------------------------------------------------------------------------
(* Dicts with entries of a type.                                           *)
Slot(K) == [key : K, rank : Int]

Unique(d) == \A i, j \in DOMAIN d : d[i].key = d[j].key => i = j

Holds(c, K, n) == c \in Seq(Slot(K)) /\ Dict(c, n)

LEMMA PlaceIs ==
    ASSUME NEW d, NEW k \in Keys(d)
    PROVE  Place(d, k) \in DOMAIN d /\ d[Place(d, k)].key = k
BY DEF Keys, Place

LEMMA PlaceOf ==
    ASSUME NEW d, Unique(d), NEW i \in DOMAIN d
    PROVE  Place(d, d[i].key) = i /\ d[i].key \in Keys(d)
<1>1. d[i].key \in Keys(d)
  BY DEF Keys
<1>2. QED
  BY <1>1, PlaceIs DEF Unique

(* Cutting leaves a dict, of entries that were there.                      *)
LEMMA CutDict ==
    ASSUME NEW S, NEW d \in Seq(S), Ranked(d), NEW n \in Nat, Unique(d)
    PROVE  /\ CutTo(d, n) \in Seq(S) /\ Dict(CutTo(d, n), n)
           /\ \A k \in DOMAIN CutTo(d, n) : \E i \in DOMAIN d : CutTo(d, n)[k] = d[i]
<1> DEFINE e == CutTo(d, n)
<1>1. PICK p \in [1 .. Len(e) -> DOMAIN d] :
             /\ e \in Seq(S)
             /\ \A k \in 1 .. Len(e) : e[k] = d[p[k]]
             /\ \A k, l \in 1 .. Len(e) : p[k] = p[l] => k = l
  BY CutKeeps
<1>2. Len(e) <= n
  BY CutToCaps
<1> HIDE DEF e
<1>3. DOMAIN e = 1 .. Len(e)
  BY <1>1
<1>4. \A k, l \in DOMAIN e : e[k].key = e[l].key => k = l
  BY <1>1, <1>3 DEF Unique
<1>5. QED
  BY <1>1, <1>2, <1>3, <1>4 DEF Dict, e

LEMMA PutDict ==
    ASSUME NEW K, NEW d \in Seq(Slot(K)), Unique(d), NEW k \in K, NEW r \in Int
    PROVE  Put(d, k, r) \in Seq(Slot(K)) /\ Unique(Put(d, k, r))
<1> DEFINE new == [key |-> k, rank |-> r]
<1>1. new \in Slot(K)
  BY DEF Slot
<1>2. CASE k \in Keys(d)
  <2>1. Put(d, k, r) = [d EXCEPT ![Place(d, k)] = new]
    BY <1>2 DEF Put
  <2>2. Place(d, k) \in DOMAIN d /\ d[Place(d, k)].key = k
    BY <1>2, PlaceIs
  <2> HIDE DEF new
  <2>3. Put(d, k, r) \in Seq(Slot(K))
    BY <1>1, <2>1, <2>2
  <2>4. new.key = k
    BY DEF new
  <2>5. Unique(Put(d, k, r))
    BY <2>1, <2>2, <2>4 DEF Unique
  <2>6. QED
    BY <2>3, <2>5
<1>3. CASE k \notin Keys(d)
  <2>1. Put(d, k, r) = Append(d, new)
    BY <1>3 DEF Put
  <2>2. \A i \in DOMAIN d : d[i].key # k
    BY <1>3 DEF Keys
  <2>3. new.key = k
    OBVIOUS
  <2> HIDE DEF new
  <2>4. /\ Append(d, new) \in Seq(Slot(K))
        /\ DOMAIN Append(d, new) = DOMAIN d \cup {Len(d) + 1}
        /\ \A i \in DOMAIN d : Append(d, new)[i] = d[i]
        /\ Append(d, new)[Len(d) + 1] = new
    BY <1>1
  <2>5. Unique(Append(d, new))
    BY <2>2, <2>3, <2>4 DEF Unique
  <2>6. QED
    BY <2>1, <2>4, <2>5
<1>4. QED
  BY <1>2, <1>3

LEMMA SlotsRanked ==
    ASSUME NEW K, NEW d \in Seq(Slot(K)) PROVE Ranked(d)
<1>1. \A i \in DOMAIN d : d[i] \in Slot(K)
  OBVIOUS
<1>2. \A x \in Slot(K) : x.rank \in Int
  BY DEF Slot
<1>3. QED
  BY <1>1, <1>2 DEF Ranked

(* An entry is put and the collection cut: partners and names.             *)
LEMMA PutHolds ==
    ASSUME NEW K, NEW n \in Nat, NEW c, Holds(c, K, n), NEW k \in K, NEW r \in Int
    PROVE  Holds(CutTo(Put(c, k, r), n), K, n)
<1>1. c \in Seq(Slot(K)) /\ Unique(c)
  BY DEF Holds, Dict, Unique
<1>2. Put(c, k, r) \in Seq(Slot(K)) /\ Unique(Put(c, k, r))
  BY <1>1, PutDict
<1>3. Ranked(Put(c, k, r))
  BY <1>2, SlotsRanked
<1>4. QED
  BY <1>2, <1>3, CutDict DEF Holds

(* The same for the ports, whose rank is a count.                          *)
LEMMA CountHolds ==
    ASSUME NEW K, NEW n \in Nat, NEW c, Holds(c, K, n), NEW k \in K
    PROVE  Holds(CutTo(Count(c, k), n), K, n)
<1>1. CASE k \in Keys(c)
  <2>1. c[Place(c, k)] \in Slot(K)
    BY <1>1, PlaceIs DEF Holds
  <2>2. c[Place(c, k)].rank + 1 \in Int
    BY <2>1 DEF Slot
  <2>3. QED
    BY <1>1, <2>2, PutHolds DEF Count
<1>2. CASE k \notin Keys(c)
  BY <1>2, PutHolds DEF Count
<1>3. QED
  BY <1>1, <1>2

-----------------------------------------------------------------------------
(* One dossier.                                                            *)
Classes == {a.class : a \in Alert}
Ports   == {f.port : f \in Feature}
Domains == {f.name : f \in Feature}
Refs    == [at : Int, class : Classes, severity : 0 .. 2]

DossierType ==
    [key : Host, rank : Int, first : Int, classes : SUBSET Classes,
     severity : 0 .. 2, priority : {"low", "medium", "high", "critical"},
     partners : Seq(Slot(Host)), ports : Seq(Slot(Ports)),
     domains : Seq(Slot(Domains)), refs : Seq(Refs), count : Nat]

(* What DossierCoherent says of it.                                        *)
Coherent(d) ==
    /\ d \in DossierType
    /\ Dict(d.partners, MaxPartners) /\ Dict(d.ports, MaxPorts)
    /\ Dict(d.domains, MaxDomains)
    /\ d.priority = Priority(d.severity, d.count, Cardinality(d.classes))
    /\ Len(d.refs) = IF d.count > MaxRefs THEN MaxRefs ELSE d.count
    /\ \A n \in DOMAIN d.refs : /\ d.refs[n].severity <= d.severity
                                /\ d.refs[n].class \in d.classes
                                /\ d.refs[n].at <= d.rank

LEMMA PriorityType ==
    \A s, n, m : Priority(s, n, m) \in {"low", "medium", "high", "critical"}
BY DEF Priority

LEMMA BlankCoherent ==
    ASSUME NEW h \in Host, NEW t \in Int PROVE Coherent(Blank(h, t))
<1> DEFINE b == Blank(h, t)
<1>1. b \in DossierType
  BY DEF Blank, DossierType
<1>2. /\ b.partners = <<>> /\ b.ports = <<>> /\ b.domains = <<>> /\ b.refs = <<>>
      /\ b.count = 0 /\ b.severity = 0 /\ b.classes = {} /\ b.priority = "low"
  BY DEF Blank
<1> HIDE DEF b
<1>3. Dict(b.partners, MaxPartners) /\ Dict(b.ports, MaxPorts) /\ Dict(b.domains, MaxDomains)
  BY <1>2, SizeAssumption DEF Dict
<1>4. b.priority = Priority(b.severity, b.count, Cardinality(b.classes))
  BY <1>2, FS_EmptySet DEF Priority
<1>5. Len(b.refs) = IF b.count > MaxRefs THEN MaxRefs ELSE b.count
  BY <1>2, SizeAssumption
<1>6. QED
  BY <1>1, <1>2, <1>3, <1>4, <1>5 DEF Coherent, b

(* A later last_seen.                                                      *)
LEMMA LaterCoherent ==
    ASSUME NEW d, Coherent(d), NEW t \in Int, d.rank <= t
    PROVE  Coherent([d EXCEPT !.rank = t])
<1> DEFINE e == [d EXCEPT !.rank = t]
<1>1. d \in DossierType
  BY DEF Coherent
<1>2. e \in DossierType
  BY <1>1 DEF DossierType
<1>3. /\ e.partners = d.partners /\ e.ports = d.ports /\ e.domains = d.domains
      /\ e.refs = d.refs /\ e.count = d.count /\ e.severity = d.severity
      /\ e.classes = d.classes /\ e.priority = d.priority /\ e.rank = t
  BY <1>1 DEF DossierType
<1> HIDE DEF e
<1>4. \A n \in DOMAIN d.refs : d.refs[n].at \in Int
  <2>1. d.refs \in Seq(Refs)
    BY <1>1 DEF DossierType
  <2>2. \A n \in DOMAIN d.refs : d.refs[n] \in Refs
    BY <2>1
  <2>3. QED
    BY <2>2 DEF Refs
<1>5. d.rank \in Int
  BY <1>1 DEF DossierType
<1>6. \A n \in DOMAIN e.refs : /\ e.refs[n].severity <= e.severity
                               /\ e.refs[n].class \in e.classes
                               /\ e.refs[n].at <= e.rank
  BY <1>3, <1>4, <1>5 DEF Coherent
<1>7. QED
  BY <1>2, <1>3, <1>6 DEF Coherent, e

(* Other partners, ports and names.                                        *)
Seen(d, partners, ports, domains) ==
    [d EXCEPT !.partners = partners, !.ports = ports, !.domains = domains]

LEMMA SeenCoherent ==
    ASSUME NEW d, Coherent(d), NEW partners, Holds(partners, Host, MaxPartners),
           NEW ports, Holds(ports, Ports, MaxPorts),
           NEW domains, Holds(domains, Domains, MaxDomains),
           NEW e, e = Seen(d, partners, ports, domains)
    PROVE  /\ Coherent(e) /\ e.key = d.key /\ e.rank = d.rank /\ e.first = d.first
           /\ e.count = d.count /\ e.refs = d.refs
<1>1. d \in DossierType
  BY DEF Coherent
<1>2. e \in DossierType
  BY <1>1 DEF DossierType, Holds, Seen
<1>3. /\ e.partners = partners /\ e.ports = ports /\ e.domains = domains
      /\ e.refs = d.refs /\ e.count = d.count /\ e.severity = d.severity
      /\ e.classes = d.classes /\ e.priority = d.priority
      /\ e.rank = d.rank /\ e.key = d.key /\ e.first = d.first
  BY <1>1 DEF DossierType, Seen
<1>4. Coherent(e)
  BY <1>2, <1>3 DEF Coherent, Holds
<1>5. QED
  BY <1>3, <1>4

(* note_alert on one dossier.                                              *)
LEMMA NotedCoherent ==
    ASSUME now \in Int, NEW d, Coherent(d), NEW a \in Alert, Ref(a).at <= d.rank,
           NEW peer \in Host \cup {NoHost}
    PROVE  LET e == Noted(d, a, peer)
           IN  /\ Coherent(e) /\ e.key = d.key /\ e.rank = d.rank /\ e.first = d.first
               /\ e.count = d.count + 1 /\ Last(e.refs) = Ref(a)
<1> DEFINE e == Noted(d, a, peer)
           refs == Append(d.refs, Ref(a))
           from == IF Len(refs) > MaxRefs THEN 2 ELSE 1
           partners == IF peer = NoHost THEN d.partners
                       ELSE CutTo(Put(d.partners, peer, Ref(a).at), MaxPartners)
<1>1. d \in DossierType /\ Ref(a) \in Refs /\ Ref(a).at \in Int
      /\ Ref(a).class = a.class /\ Ref(a).severity = a.severity /\ a.severity \in 0 .. 2
  BY InputAssumption DEF Coherent, Ref, Refs, Classes
<1>2. /\ e.key = d.key /\ e.rank = d.rank /\ e.first = d.first /\ e.count = d.count + 1
      /\ e.classes = d.classes \cup {a.class}
      /\ e.severity = IF a.severity >= d.severity THEN a.severity ELSE d.severity
      /\ e.partners = partners /\ e.ports = d.ports /\ e.domains = d.domains
      /\ e.refs = SubSeq(refs, from, Len(refs))
      /\ e.priority = Priority(e.severity, e.count, Cardinality(e.classes))
      /\ DOMAIN e = DOMAIN d
  BY <1>1 DEF Noted, NotedWith, DossierType
<1>3. Holds(partners, Host, MaxPartners)
  <2>1. Holds(d.partners, Host, MaxPartners)
    BY <1>1 DEF Holds, DossierType, Coherent
  <2>2. QED
    BY <1>1, <2>1, PutHolds, SizeAssumption
<1>4. /\ d.refs \in Seq(Refs) /\ d.count \in Nat /\ d.severity \in 0 .. 2 /\ d.rank \in Int
      /\ Len(d.refs) \in Nat
  BY <1>1 DEF DossierType
<1>5. /\ refs \in Seq(Refs) /\ Len(refs) = Len(d.refs) + 1
      /\ \A n \in 1 .. Len(d.refs) : refs[n] = d.refs[n]
      /\ refs[Len(d.refs) + 1] = Ref(a)
  BY <1>1, <1>4
<1> HIDE DEF refs, partners
<1>6. from \in 1 .. Len(refs)
  BY <1>4, <1>5, SizeAssumption
<1> HIDE DEF from
<1>7. /\ e.refs \in Seq(Refs) /\ Len(e.refs) = Len(refs) - from + 1
      /\ \A n \in 1 .. Len(e.refs) : e.refs[n] = refs[n + from - 1]
  BY <1>2, <1>5, <1>6
<1> HIDE DEF e
<1>8. Last(e.refs) = Ref(a)
  <2>1. Len(e.refs) \in 1 .. Len(e.refs) /\ Len(e.refs) + from - 1 = Len(refs)
    BY <1>4, <1>5, <1>6, <1>7
  <2>2. e.refs[Len(e.refs)] = refs[Len(refs)]
    BY <1>7, <2>1
  <2>3. QED
    BY <1>5, <2>2 DEF Last
<1>9. Len(e.refs) = IF e.count > MaxRefs THEN MaxRefs ELSE e.count
  BY <1>2, <1>4, <1>5, <1>7, SizeAssumption DEF Coherent, from
<1>10. ASSUME NEW n \in DOMAIN e.refs
       PROVE  /\ e.refs[n].severity <= e.severity
              /\ e.refs[n].class \in e.classes
              /\ e.refs[n].at <= e.rank
  <2>1. n \in 1 .. Len(e.refs)
    BY <1>7
  <2>6. n + from - 1 \in 1 .. Len(refs)
    <3>1. Len(refs) \in Int /\ from \in Int /\ n \in Int
      BY <1>4, <1>5, <1>6, <2>1
    <3>2. 1 <= from /\ from <= Len(refs) /\ 1 <= n /\ n <= Len(refs) - from + 1
      BY <1>6, <1>7, <2>1, <3>1
    <3>3. QED
      BY <3>1, <3>2
  <2>7. e.refs[n] = refs[n + from - 1]
    BY <1>7, <2>1
  <2>2. PICK m \in 1 .. Len(refs) : e.refs[n] = refs[m]
    BY <2>6, <2>7
  <2>3. CASE m = Len(d.refs) + 1
    <3>1. e.refs[n] = Ref(a)
      BY <1>5, <2>2, <2>3
    <3>2. QED
      BY <1>1, <1>2, <1>4, <3>1
  <2>4. CASE m # Len(d.refs) + 1
    <3>1. m \in DOMAIN d.refs /\ e.refs[n] = d.refs[m]
      BY <1>4, <1>5, <2>2, <2>4
    <3>6. d.refs[m] \in Refs
      BY <1>4, <3>1
    <3>2. /\ d.refs[m].severity <= d.severity /\ d.refs[m].class \in d.classes
          /\ d.refs[m].at <= d.rank /\ d.refs[m].severity \in 0 .. 2
      BY <3>1, <3>6 DEF Coherent, Refs
    <3>3. d.severity <= e.severity /\ e.severity \in 0 .. 2
      BY <1>1, <1>2, <1>4
    <3>4. d.refs[m].severity <= e.severity
      BY <1>4, <3>2, <3>3
    <3>5. QED
      BY <1>2, <3>1, <3>2, <3>4
  <2>5. QED
    BY <2>3, <2>4
<1>11. e \in DossierType
  <2>1. e.priority \in {"low", "medium", "high", "critical"}
    BY <1>2, PriorityType
  <2>2. e.severity \in 0 .. 2 /\ e.count \in Nat /\ e.classes \subseteq Classes
    BY <1>1, <1>2, <1>4 DEF Classes, DossierType
  <2>3. e.partners \in Seq(Slot(Host))
    BY <1>2, <1>3 DEF Holds
  <2>4. e = [d EXCEPT !.classes = e.classes, !.severity = e.severity,
              !.partners = e.partners, !.refs = e.refs, !.count = e.count,
              !.priority = e.priority]
    BY <1>1 DEF e, Noted, NotedWith, DossierType
  <2>5. QED
    BY <1>1, <1>7, <2>1, <2>2, <2>3, <2>4 DEF DossierType
<1>12. QED
  BY <1>2, <1>3, <1>8, <1>9, <1>10, <1>11 DEF Coherent, Holds, e

-----------------------------------------------------------------------------
(* The store, and how it may change.                                       *)
Orderly(s) ==
    /\ s \in Seq(DossierType) /\ Dict(s, MaxEntities)
    /\ \A i \in DOMAIN s : Coherent(s[i])

(* No dossier was last seen later than t.                                  *)
SeenBy(s, t) == \A i \in DOMAIN s : s[i].rank <= t

(* A dossier goes on, or is gone and the store full of ones seen since;    *)
(* and the oldest of a full store never becomes older.                     *)
Continues(d, e) ==
    e.key = d.key /\ e.first = d.first /\ e.count >= d.count /\ e.rank >= d.rank

MovesOn(s, t) ==
    /\ Len(s) <= Len(t)
    /\ \A i \in DOMAIN s :
          \/ \E j \in DOMAIN t : Continues(s[i], t[j])
          \/ Len(t) = MaxEntities /\ \A j \in DOMAIN t : t[j].rank >= s[i].rank
    /\ Len(s) = MaxEntities =>
          \A j \in DOMAIN t : \E i \in DOMAIN s : t[j].rank >= s[i].rank

(* Every dossier but the one of h is as it was, or pushed out by others    *)
(* seen since.                                                             *)
Besides(h, s, t) ==
    \A i \in DOMAIN s : s[i].key # h =>
        \/ \E j \in DOMAIN t : t[j] = s[i]
        \/ Len(t) = MaxEntities /\ \A j \in DOMAIN t : t[j].rank >= s[i].rank

LEMMA OrderlyFacts ==
    ASSUME NEW s, Orderly(s)
    PROVE  /\ Len(s) \in Nat /\ Len(s) <= MaxEntities /\ DOMAIN s = 1 .. Len(s)
           /\ \A i \in DOMAIN s : /\ s[i] \in DossierType /\ s[i].key \in Host
                                  /\ s[i].rank \in Int /\ s[i].count \in Nat
           /\ Ranked(s) /\ Unique(s)
<1>1. \A i \in DOMAIN s : s[i] \in DossierType
  BY DEF Orderly
<1>2. \A d \in DossierType : d.key \in Host /\ d.rank \in Int /\ d.count \in Nat
  BY DEF DossierType
<1>3. QED
  BY <1>1, <1>2 DEF Orderly, Ranked, Unique, Dict

LEMMA MovesOnTransitive ==
    ASSUME NEW r, NEW s, NEW t, Orderly(r), Orderly(s), Orderly(t),
           MovesOn(r, s), MovesOn(s, t)
    PROVE  MovesOn(r, t)
<1>1. /\ Len(r) \in Nat /\ Len(s) \in Nat /\ Len(t) \in Nat /\ Len(t) <= MaxEntities
      /\ Len(r) <= Len(s) /\ Len(s) <= Len(t)
  BY OrderlyFacts DEF MovesOn
<1>2. /\ \A i \in DOMAIN r : r[i].rank \in Int /\ r[i].count \in Int
      /\ \A i \in DOMAIN s : s[i].rank \in Int /\ s[i].count \in Int
      /\ \A i \in DOMAIN t : t[i].rank \in Int /\ t[i].count \in Int
  BY OrderlyFacts
<1>3. ASSUME NEW i \in DOMAIN r
      PROVE  \/ \E j \in DOMAIN t : Continues(r[i], t[j])
             \/ Len(t) = MaxEntities /\ \A j \in DOMAIN t : t[j].rank >= r[i].rank
  <2>1. CASE \E j \in DOMAIN s : Continues(r[i], s[j])
    <3>1. PICK j \in DOMAIN s : Continues(r[i], s[j])
      BY <2>1
    <3>2. CASE \E k \in DOMAIN t : Continues(s[j], t[k])
      BY <1>2, <3>1, <3>2 DEF Continues
    <3>3. CASE Len(t) = MaxEntities /\ \A k \in DOMAIN t : t[k].rank >= s[j].rank
      BY <1>2, <3>1, <3>3 DEF Continues
    <3>4. QED
      BY <3>2, <3>3 DEF MovesOn
  <2>2. CASE Len(s) = MaxEntities /\ \A j \in DOMAIN s : s[j].rank >= r[i].rank
    <3>1. Len(t) = MaxEntities
      BY <1>1, <2>2, SizeAssumption
    <3>2. \A k \in DOMAIN t : \E j \in DOMAIN s : t[k].rank >= s[j].rank
      BY <2>2 DEF MovesOn
    <3>3. \A k \in DOMAIN t : t[k].rank >= r[i].rank
      BY <1>2, <2>2, <3>2
    <3>4. QED
      BY <3>1, <3>3
  <2>3. QED
    BY <2>1, <2>2 DEF MovesOn
<1>4. ASSUME Len(r) = MaxEntities, NEW k \in DOMAIN t
      PROVE  \E i \in DOMAIN r : t[k].rank >= r[i].rank
  <2>1. Len(s) = MaxEntities
    BY <1>1, <1>4, SizeAssumption
  <2>2. PICK j \in DOMAIN s : t[k].rank >= s[j].rank
    BY <1>4, <2>1 DEF MovesOn
  <2>3. PICK i \in DOMAIN r : s[j].rank >= r[i].rank
    BY <1>4 DEF MovesOn
  <2>4. QED
    BY <1>2, <2>2, <2>3
<1>5. QED
  BY <1>1, <1>3, <1>4 DEF MovesOn

(* The same dossiers at the same places, none seen earlier than before.    *)
LEMMA SamePlaces ==
    ASSUME NEW s, NEW t, Orderly(s), Orderly(t), Len(t) = Len(s),
           \A i \in DOMAIN s : Continues(s[i], t[i])
    PROVE  MovesOn(s, t)
<1>1. Len(s) <= Len(t) /\ DOMAIN t = DOMAIN s
  BY OrderlyFacts
<1>2. QED
  BY <1>1 DEF MovesOn, Continues

(* One dossier is replaced by one that continues it.                       *)
LEMMA Replaced ==
    ASSUME NEW s, Orderly(s), NEW i \in DOMAIN s,
           NEW e, Coherent(e), Continues(s[i], e)
    PROVE  LET t == [s EXCEPT ![i] = e]
           IN  /\ Orderly(t) /\ MovesOn(s, t) /\ Len(t) = Len(s) /\ Keys(t) = Keys(s)
               /\ DOMAIN t = DOMAIN s /\ t[i] = e
               /\ \A j \in DOMAIN s : j # i => t[j] = s[j]
<1> DEFINE t == [s EXCEPT ![i] = e]
<1>1. e \in DossierType /\ e.key = s[i].key
  BY DEF Coherent, Continues
<1>2. /\ t \in Seq(DossierType) /\ Len(t) = Len(s) /\ DOMAIN t = DOMAIN s /\ t[i] = e
      /\ \A j \in DOMAIN s : j # i => t[j] = s[j]
  BY <1>1 DEF Orderly
<1> HIDE DEF t
<1>3. \A j \in DOMAIN s : t[j].key = s[j].key
  BY <1>1, <1>2
<1>4. Orderly(t)
  <2>1. Dict(t, MaxEntities)
    BY <1>2, <1>3 DEF Orderly, Dict
  <2>2. \A j \in DOMAIN t : Coherent(t[j])
    BY <1>2 DEF Orderly
  <2>3. QED
    BY <1>2, <2>1, <2>2 DEF Orderly
<1>5. \A j \in DOMAIN s : Continues(s[j], t[j])
  <2> TAKE j \in DOMAIN s
  <2>1. s[j].rank \in Int /\ s[j].count \in Int
    BY OrderlyFacts
  <2>2. CASE j = i
    BY <1>2, <2>2
  <2>3. CASE j # i
    BY <1>2, <2>1, <2>3 DEF Continues
  <2>4. QED
    BY <2>2, <2>3
<1>6. MovesOn(s, t)
  BY <1>2, <1>4, <1>5, SamePlaces
<1>7. Keys(t) = Keys(s)
  BY <1>2, <1>3 DEF Keys
<1>8. QED
  BY <1>2, <1>4, <1>6, <1>7 DEF t

(* p takes n of n + 1 places: it misses only one.                          *)
LEMMA OneMissed ==
    ASSUME NEW n \in Nat, NEW p \in [1 .. n -> 1 .. n + 1],
           \A k, l \in 1 .. n : p[k] = p[l] => k = l
    PROVE  /\ \E i \in 1 .. n + 1 : \A k \in 1 .. n : p[k] # i
           /\ (\A k \in 1 .. n : p[k] # n + 1) =>
                 \A i \in 1 .. n : \E k \in 1 .. n : p[k] = i
<1>1. /\ IsFiniteSet(1 .. n) /\ Cardinality(1 .. n) = n
      /\ IsFiniteSet(1 .. n + 1) /\ Cardinality(1 .. n + 1) = n + 1
  BY FS_Interval
<1>2. ASSUME \A i \in 1 .. n + 1 : \E k \in 1 .. n : p[k] = i PROVE FALSE
  <2>1. p \in Surjection(1 .. n, 1 .. n + 1)
    BY <1>2 DEF Surjection
  <2>2. n + 1 <= n
    BY <1>1, <2>1, FS_Surjection
  <2>3. QED
    BY <2>2
<1>3. ASSUME \A k \in 1 .. n : p[k] # n + 1
      PROVE  \A i \in 1 .. n : \E k \in 1 .. n : p[k] = i
  <2>1. \A k \in 1 .. n : p[k] \in 1 .. n
    BY <1>3
  <2>2. p \in Injection(1 .. n, 1 .. n)
    BY <2>1 DEF Injection, IsInjective
  <2>3. p \in Surjection(1 .. n, 1 .. n)
    BY <1>1, <2>2, FS_Injection
  <2>4. QED
    BY <2>3 DEF Surjection
<1>4. QED
  BY <1>2, <1>3

(* _touch of an address without a dossier.  It stays without one only when *)
(* every dossier of a full store was seen later.                           *)
LEMMA TouchNew ==
    ASSUME NEW s, Orderly(s), NEW h \in Host, h \notin Keys(s), NEW t \in Int
    PROVE  LET r == Touch(s, h, t)
           IN  /\ Orderly(r) /\ MovesOn(s, r) /\ Besides(h, s, r)
               /\ \A u \in Int : t <= u /\ SeenBy(s, u) => SeenBy(r, u)
               /\ \A i \in DOMAIN r : r[i].key = h => r[i].rank >= t
               /\ h \notin Keys(r) =>
                    Len(s) = MaxEntities /\ \A i \in DOMAIN s : s[i].rank > t
<1> DEFINE new == Blank(h, t)
           d == Append(s, new)
           r == CutTo(d, MaxEntities)
           n == Len(s)
<1>1. Touch(s, h, t) = r
  BY DEF Touch
<1>2. /\ n = Len(s) /\ n \in Nat /\ n <= MaxEntities /\ DOMAIN s = 1 .. n
      /\ MaxEntities \in Nat
      /\ \A i \in DOMAIN s : s[i].rank \in Int /\ s[i].count \in Nat
  BY OrderlyFacts, SizeAssumption
<1>3. Coherent(new) /\ new \in DossierType /\ new.key = h /\ new.rank = t
  BY BlankCoherent DEF Blank, Coherent
<1> HIDE DEF new
<1>4. /\ d \in Seq(DossierType) /\ Len(d) = n + 1 /\ DOMAIN d = 1 .. n + 1
      /\ \A i \in 1 .. n : d[i] = s[i]
      /\ d[n + 1] = new
  BY <1>2, <1>3 DEF Orderly
<1> HIDE DEF d
<1>5. Ranked(d) /\ Unique(d) /\ \A i \in DOMAIN d : Coherent(d[i]) /\ d[i].rank \in Int
  <2>1. \A i \in 1 .. n : s[i].key # h
    BY <1>2 DEF Keys
  <2>2. \A i \in 1 .. n + 1 : i \in 1 .. n \/ i = n + 1
    BY <1>2
  <2>3. Ranked(d)
    BY <1>2, <1>3, <1>4, <2>2 DEF Ranked
  <2>4. Unique(d)
    BY <1>2, <1>3, <1>4, <2>1, <2>2 DEF Unique, Orderly, Dict
  <2>5. \A i \in DOMAIN d : Coherent(d[i])
    BY <1>2, <1>3, <1>4, <2>2 DEF Orderly
  <2>6. QED
    BY <2>3, <2>4, <2>5 DEF Ranked
<1>6. PICK p \in [1 .. Len(r) -> DOMAIN d] :
             /\ Len(r) = IF Len(d) <= MaxEntities THEN Len(d) ELSE MaxEntities
             /\ \A k \in 1 .. Len(r) : r[k] = d[p[k]]
             /\ \A k, l \in 1 .. Len(r) : p[k] = p[l] => k = l
             /\ \A i \in DOMAIN d :
                  \/ \E k \in 1 .. Len(r) : p[k] = i
                  \/ Len(d) > MaxEntities /\ \A k \in 1 .. Len(r) : Sooner(d, i, p[k])
  BY <1>2, <1>4, <1>5, CutKeeps
<1>7. Orderly(r) /\ DOMAIN r = 1 .. Len(r)
  <2>1. /\ r \in Seq(DossierType) /\ Dict(r, MaxEntities)
        /\ \A k \in DOMAIN r : \E i \in DOMAIN d : r[k] = d[i]
    <3>1. MaxEntities \in Nat
      BY SizeAssumption
    <3>2. d \in Seq(DossierType) /\ Ranked(d) /\ Unique(d)
      BY <1>4, <1>5
    <3> HIDE DEF d
    <3>3. QED
      BY <3>1, <3>2, CutDict
  <2> HIDE DEF r
  <2>2. QED
    BY <1>5, <2>1 DEF Orderly
<1> HIDE DEF r, n
<1>8. \A i \in 1 .. n + 1 : i \in 1 .. n \/ i = n + 1
  BY <1>2
<1>9. \A i \in 1 .. n : i \in 1 .. n + 1 /\ d[i] = s[i]
  BY <1>2, <1>4
<1>10. ASSUME NEW k \in 1 .. Len(r)
       PROVE  r[k] = new \/ \E i \in DOMAIN s : r[k] = s[i]
  <2>1. p[k] \in 1 .. n + 1 /\ r[k] = d[p[k]]
    BY <1>4, <1>6
  <2>2. QED
    BY <1>2, <1>4, <1>8, <2>1
<1>11. \A u \in Int : t <= u /\ SeenBy(s, u) => SeenBy(r, u)
  BY <1>3, <1>7, <1>10 DEF SeenBy
<1>12. \A i \in DOMAIN r : r[i].key = h => r[i].rank >= t
  <2> SUFFICES ASSUME NEW i \in DOMAIN r, r[i].key = h PROVE r[i].rank >= t
    OBVIOUS
  <2>1. r[i] = new
    BY <1>7, <1>10 DEF Keys
  <2>2. QED
    BY <1>3, <2>1
<1>13. ASSUME n < MaxEntities
       PROVE  Len(r) = n + 1 /\ \A i \in DOMAIN d : \E k \in 1 .. Len(r) : r[k] = d[i]
  <2>1. Len(d) <= MaxEntities /\ ~(Len(d) > MaxEntities)
    BY <1>2, <1>4, <1>13
  <2>2. QED
    BY <1>4, <1>6, <2>1
<1>14. ASSUME n = MaxEntities
       PROVE  /\ Len(r) = n
              /\ p \in [1 .. n -> 1 .. n + 1]
              /\ \A k, l \in 1 .. n : p[k] = p[l] => k = l
              /\ \A i \in 1 .. n + 1 : \/ \E k \in 1 .. n : p[k] = i
                                       \/ \A k \in 1 .. n : Sooner(d, i, p[k])
  <2>1. Len(r) = n
    BY <1>2, <1>4, <1>6, <1>14
  <2>2. QED
    BY <1>4, <1>6, <2>1
<1>15. ASSUME n = MaxEntities
       PROVE  /\ \E i \in 1 .. n + 1 : \A k \in 1 .. n : p[k] # i
              /\ (\A k \in 1 .. n : p[k] # n + 1) =>
                    \A i \in 1 .. n : \E k \in 1 .. n : p[k] = i
  <2>1. n \in Nat
    BY <1>2
  <2>2. p \in [1 .. n -> 1 .. n + 1]
    BY <1>14, <1>15
  <2>3. \A k, l \in 1 .. n : p[k] = p[l] => k = l
    BY <1>14, <1>15
  <2>4. QED
    BY <2>1, <2>2, <2>3, OneMissed
<1>16. n < MaxEntities \/ n = MaxEntities
  BY <1>2
<1>17. MovesOn(s, r) /\ Besides(h, s, r)
  <2>1. CASE n < MaxEntities
    <3>1. Len(s) <= Len(r) /\ Len(s) # MaxEntities
      <4>1. Len(r) = n + 1 /\ n # MaxEntities
        BY <1>2, <1>13, <2>1
      <4>2. QED
        BY <1>2, <4>1
    <3>2. \A i \in DOMAIN s : \E j \in DOMAIN r : r[j] = s[i]
      BY <1>2, <1>4, <1>7, <1>9, <1>13, <2>1
    <3>3. \A i \in DOMAIN s : Continues(s[i], s[i])
      BY <1>2 DEF Continues
    <3>4. QED
      BY <3>1, <3>2, <3>3 DEF MovesOn, Besides
  <2>2. CASE n = MaxEntities
    <3>1. Len(s) <= Len(r) /\ Len(r) = MaxEntities
      BY <1>2, <1>14, <2>2
    <3>2. ASSUME NEW i \in DOMAIN s
          PROVE  \/ \E j \in DOMAIN r : r[j] = s[i]
                 \/ \A j \in DOMAIN r : r[j].rank >= s[i].rank
      <4>1. i \in 1 .. n + 1 /\ d[i] = s[i]
        BY <1>2, <1>9
      <4>2. CASE \E k \in 1 .. n : p[k] = i
        <5>1. PICK k \in 1 .. n : p[k] = i
          BY <4>2
        <5>2. r[k] = s[i] /\ k \in DOMAIN r
          BY <1>6, <1>7, <1>14, <2>2, <4>1, <5>1
        <5>3. QED
          BY <5>2
      <4>3. CASE \A k \in 1 .. n : Sooner(d, i, p[k])
        <5>1. ASSUME NEW k \in DOMAIN r PROVE r[k].rank >= s[i].rank
          <6>1. k \in 1 .. n /\ r[k] = d[p[k]] /\ p[k] \in DOMAIN d
            BY <1>6, <1>7, <1>14, <2>2
          <6>2. Sooner(d, i, p[k]) /\ d[p[k]].rank \in Int /\ d[i].rank \in Int
            BY <1>4, <1>5, <4>1, <4>3, <6>1
          <6>3. QED
            BY <4>1, <6>1, <6>2 DEF Sooner
        <5>2. QED
          BY <5>1
      <4>4. QED
        BY <1>14, <2>2, <4>1, <4>2, <4>3
    <3>3. ASSUME NEW j \in DOMAIN r PROVE \E i \in DOMAIN s : r[j].rank >= s[i].rank
      <4>1. CASE \E i \in DOMAIN s : r[j] = s[i]
        BY <1>2, <4>1
      <4>2. CASE r[j] = new
        <5>1. PICK i \in 1 .. n + 1 : \A k \in 1 .. n : p[k] # i
          BY <1>15, <2>2
        <5>2. j \in 1 .. n /\ r[j] = d[p[j]] /\ p[j] \in DOMAIN d
          BY <1>6, <1>7, <1>14, <2>2
        <5>3. Sooner(d, i, p[j])
          BY <1>14, <2>2, <5>1, <5>2
        <5>4. d[i].rank \in Int /\ d[i].rank <= t
          BY <1>3, <1>4, <1>5, <4>2, <5>2, <5>3 DEF Sooner
        <5>5. p[j] = n + 1
          <6>1. p[j] \in 1 .. n => p[j] \in DOMAIN s /\ s[p[j]].key = h
            BY <1>2, <1>3, <1>9, <4>2, <5>2
          <6>2. p[j] \notin 1 .. n
            BY <6>1 DEF Keys
          <6>3. QED
            BY <1>4, <1>8, <5>2, <6>2
        <5>6. i \in DOMAIN s /\ s[i] = d[i]
          BY <1>2, <1>8, <1>9, <5>1, <5>2, <5>5
        <5>7. QED
          BY <1>3, <4>2, <5>4, <5>6
      <4>3. QED
        BY <1>7, <1>10, <4>1, <4>2
    <3>4. \A i \in DOMAIN s : Continues(s[i], s[i])
      BY <1>2 DEF Continues
    <3>5. QED
      BY <3>1, <3>2, <3>3, <3>4 DEF MovesOn, Besides
  <2>3. QED
    BY <1>16, <2>1, <2>2
<1>18. ASSUME h \notin Keys(r)
       PROVE  n = MaxEntities /\ \A i \in DOMAIN s : s[i].rank > t
  <2>1. \A k \in 1 .. Len(r) : r[k] # new
    BY <1>3, <1>7, <1>18 DEF Keys
  <2>2. n + 1 \in DOMAIN d
    BY <1>2, <1>4
  <2>3. n = MaxEntities
    BY <1>4, <1>13, <1>16, <2>1, <2>2
  <2>4. \A k \in 1 .. n : p[k] # n + 1 /\ p[k] \in 1 .. n + 1
    BY <1>4, <1>6, <1>14, <2>1, <2>3
  <2>5. \A k \in 1 .. n : Sooner(d, n + 1, p[k])
    BY <1>14, <2>2, <2>3, <2>4, <1>4
  <2>6. ASSUME NEW i \in DOMAIN s PROVE s[i].rank > t
    <3>1. PICK k \in 1 .. n : p[k] = i
      BY <1>2, <1>15, <2>3, <2>4
    <3>2. Sooner(d, n + 1, i) /\ d[i] = s[i] /\ i \in 1 .. n /\ s[i].rank \in Int
      BY <1>2, <1>9, <2>5, <3>1
    <3>3. ~(n + 1 < i)
      BY <1>2, <3>2
    <3>4. QED
      BY <1>3, <1>4, <3>2, <3>3 DEF Sooner
  <2>7. QED
    BY <2>3, <2>6
<1>19. QED
  BY <1>1, <1>2, <1>7, <1>11, <1>12, <1>17, <1>18

(* _touch: the dossier is there, seen at t or later, or the store is full  *)
(* of ones seen later.                                                     *)
LEMMA TouchFacts ==
    ASSUME NEW s, Orderly(s), NEW h \in Host, NEW t \in Int
    PROVE  LET r == Touch(s, h, t)
           IN  /\ Orderly(r) /\ MovesOn(s, r) /\ Besides(h, s, r)
               /\ \A u \in Int : t <= u /\ SeenBy(s, u) => SeenBy(r, u)
               /\ \A i \in DOMAIN r : r[i].key = h => r[i].rank >= t
               /\ h \notin Keys(r) =>
                    Len(s) = MaxEntities /\ \A i \in DOMAIN s : s[i].rank > t
<1>1. CASE h \notin Keys(s)
  BY <1>1, TouchNew
<1>2. CASE h \in Keys(s)
  <2> DEFINE i == Place(s, h)
             m == IF s[i].rank >= t THEN s[i].rank ELSE t
             e == [s[i] EXCEPT !.rank = m]
             r == [s EXCEPT ![i] = e]
  <2>1. i \in DOMAIN s /\ s[i].key = h
    BY <1>2, PlaceIs
  <2>2. Touch(s, h, t) = r
    BY <1>2 DEF Touch
  <2>3. /\ Unique(s) /\ s[i] \in DossierType /\ s[i].rank \in Int /\ s[i].count \in Nat
        /\ Coherent(s[i])
    BY <2>1, OrderlyFacts DEF Orderly
  <2> HIDE DEF i
  <2>4. m \in Int /\ s[i].rank <= m /\ t <= m
    BY <2>3
  <2>5. Coherent(e)
    BY <2>3, <2>4, LaterCoherent
  <2>6. e.key = h /\ e.rank = m /\ Continues(s[i], e)
    BY <2>1, <2>3, <2>4 DEF DossierType, Continues
  <2> HIDE DEF e
  <2>7. /\ Orderly(r) /\ MovesOn(s, r) /\ Keys(r) = Keys(s) /\ DOMAIN r = DOMAIN s
        /\ r[i] = e /\ \A j \in DOMAIN s : j # i => r[j] = s[j]
    BY <2>1, <2>5, <2>6, Replaced
  <2> HIDE DEF r
  <2>8. \A u \in Int : t <= u /\ SeenBy(s, u) => SeenBy(r, u)
    <3> SUFFICES ASSUME NEW u \in Int, t <= u, SeenBy(s, u), NEW j \in DOMAIN s
                 PROVE  r[j].rank <= u
      BY <2>7 DEF SeenBy
    <3>1. CASE j = i
      BY <2>1, <2>6, <2>7, <3>1 DEF SeenBy
    <3>2. CASE j # i
      BY <2>7, <3>2 DEF SeenBy
    <3>3. QED
      BY <3>1, <3>2
  <2>9. \A j \in DOMAIN r : r[j].key = h => r[j].rank >= t
    <3> SUFFICES ASSUME NEW j \in DOMAIN r, r[j].key = h PROVE r[j].rank >= t
      OBVIOUS
    <3>1. j = i
      BY <2>1, <2>3, <2>7 DEF Unique
    <3>2. QED
      BY <2>3, <2>4, <2>6, <2>7, <3>1
  <2>10. Besides(h, s, r)
    <3>1. \A j \in DOMAIN s : s[j].key # h => r[j] = s[j] /\ j \in DOMAIN r
      BY <2>1, <2>7
    <3>2. QED
      BY <3>1 DEF Besides
  <2>11. QED
    BY <1>2, <2>2, <2>7, <2>8, <2>9, <2>10
<1>3. QED
  BY <1>1, <1>2

(* A batch is stamped with the present: what it touches is there.          *)
LEMMA TouchNow ==
    ASSUME NEW s, Orderly(s), NEW h \in Host, NEW t \in Int, SeenBy(s, t)
    PROVE  h \in Keys(Touch(s, h, t)) /\ SeenBy(Touch(s, h, t), t)
<1>1. SUFFICES ASSUME Len(s) = MaxEntities, \A i \in DOMAIN s : s[i].rank > t PROVE FALSE
  BY TouchFacts
<1>2. 1 \in DOMAIN s
  BY <1>1, OrderlyFacts, SizeAssumption
<1>3. s[1].rank \in Int /\ s[1].rank <= t /\ s[1].rank > t
  BY <1>1, <1>2, OrderlyFacts DEF SeenBy
<1>4. QED
  BY <1>3

LEMMA ObserveEndFacts ==
    ASSUME NEW s, Orderly(s), NEW t \in Int, SeenBy(s, t), NEW h \in Keys(s),
           NEW peer \in Host \cup {NoHost}, NEW f \in Feature
    PROVE  LET r == ObserveEnd(s, h, peer, f, t)
           IN  Orderly(r) /\ MovesOn(s, r) /\ SeenBy(r, t)
<1> DEFINE i == Place(s, h)
           partners == IF peer = NoHost THEN s[i].partners
                       ELSE CutTo(Put(s[i].partners, peer, t), MaxPartners)
           ports    == IF f.port = NoPort THEN s[i].ports
                       ELSE CutTo(Count(s[i].ports, f.port), MaxPorts)
           domains  == IF f.name = NoName THEN s[i].domains
                       ELSE CutTo(Put(s[i].domains, f.name, t), MaxDomains)
           e == [s[i] EXCEPT !.partners = partners, !.ports = ports, !.domains = domains]
           r == [s EXCEPT ![i] = e]
<1>1. i \in DOMAIN s
  BY PlaceIs
<1>2. ObserveEnd(s, h, peer, f, t) = r
  <2>1. ObserveEnd(s, h, peer, f, t) =
           [s EXCEPT ![i].partners = partners, ![i].ports = ports, ![i].domains = domains]
    BY DEF ObserveEnd
  <2> HIDE DEF partners, ports, domains, i
  <2>2. QED
    BY <1>1, <2>1 DEF Orderly
<1>3. Coherent(s[i]) /\ s[i] \in DossierType /\ s[i].rank \in Int /\ s[i].count \in Nat
  BY <1>1, OrderlyFacts DEF Orderly
<1> HIDE DEF i
<1>4. /\ Holds(s[i].partners, Host, MaxPartners) /\ Holds(s[i].ports, Ports, MaxPorts)
      /\ Holds(s[i].domains, Domains, MaxDomains)
  BY <1>3 DEF Coherent, Holds, DossierType
<1>5. f.port \in Ports /\ f.name \in Domains
  BY DEF Ports, Domains
<1>6. Holds(partners, Host, MaxPartners)
  BY <1>4, PutHolds, SizeAssumption
<1>7. Holds(ports, Ports, MaxPorts)
  BY <1>4, <1>5, CountHolds, SizeAssumption
<1>8. Holds(domains, Domains, MaxDomains)
  BY <1>4, <1>5, PutHolds, SizeAssumption
<1> HIDE DEF partners, ports, domains
<1> HIDE DEF e
<1>9. Coherent(e) /\ e.rank = s[i].rank /\ Continues(s[i], e)
  <2>1. /\ Coherent(e) /\ e.key = s[i].key /\ e.rank = s[i].rank
        /\ e.first = s[i].first /\ e.count = s[i].count
    <3>1. e = Seen(s[i], partners, ports, domains)
      BY DEF e, Seen
    <3>2. QED
      BY <1>3, <1>6, <1>7, <1>8, <3>1, SeenCoherent
  <2>2. QED
    BY <1>3, <2>1 DEF Continues
<1>10. /\ Orderly(r) /\ MovesOn(s, r) /\ DOMAIN r = DOMAIN s
       /\ r[i] = e /\ \A j \in DOMAIN s : j # i => r[j] = s[j]
  BY <1>1, <1>9, Replaced
<1> HIDE DEF r
<1>11. SeenBy(r, t)
  BY <1>1, <1>9, <1>10 DEF SeenBy
<1>12. QED
  BY <1>2, <1>10, <1>11

(* One flow of a batch.                                                    *)
LEMMA ObserveFacts ==
    ASSUME NEW s, Orderly(s), NEW t \in Int, SeenBy(s, t), NEW f \in Feature
    PROVE  LET r == Observe(s, f, t)
           IN  Orderly(r) /\ MovesOn(s, r) /\ SeenBy(r, t)
<1>1. f.src \in Host \cup {NoHost} /\ f.dst \in Host \cup {NoHost}
  BY InputAssumption
<1>2. ASSUME NEW q, Orderly(q), SeenBy(q, t), NEW h \in Host,
             NEW peer \in Host \cup {NoHost}
      PROVE  LET r == ObserveEnd(Touch(q, h, t), h, peer, f, t)
             IN  Orderly(r) /\ MovesOn(q, r) /\ SeenBy(r, t)
  <2> DEFINE m == Touch(q, h, t)
             r == ObserveEnd(m, h, peer, f, t)
  <2>1. Orderly(m) /\ MovesOn(q, m)
    BY <1>2, TouchFacts
  <2>2. h \in Keys(m) /\ SeenBy(m, t)
    BY <1>2, TouchNow
  <2> HIDE DEF m
  <2>3. Orderly(r) /\ MovesOn(m, r) /\ SeenBy(r, t)
    BY <2>1, <2>2, ObserveEndFacts
  <2> HIDE DEF r
  <2>4. MovesOn(q, r)
    BY <1>2, <2>1, <2>3, MovesOnTransitive
  <2>5. QED
    BY <2>3, <2>4 DEF r, m
<1> DEFINE atSrc == IF f.src = NoHost THEN s
                    ELSE ObserveEnd(Touch(s, f.src, t), f.src, f.dst, f, t)
<1>3. MovesOn(s, s)
  <2>1. \A i \in DOMAIN s : Continues(s[i], s[i])
    BY OrderlyFacts DEF Continues
  <2>2. QED
    BY <2>1, SamePlaces
<1>4. Orderly(atSrc) /\ MovesOn(s, atSrc) /\ SeenBy(atSrc, t)
  <2>1. CASE f.src = NoHost
    BY <1>3, <2>1
  <2>2. CASE f.src # NoHost
    <3>1. f.src \in Host
      BY <1>1, <2>2
    <3>2. QED
      BY <1>1, <1>2, <2>2, <3>1
  <2>3. QED
    BY <2>1, <2>2
<1>5. Observe(s, f, t) = IF f.dst = NoHost THEN atSrc
                         ELSE ObserveEnd(Touch(atSrc, f.dst, t), f.dst, f.src, f, t)
  BY DEF Observe
<1> HIDE DEF atSrc
<1>6. CASE f.dst = NoHost
  BY <1>4, <1>5, <1>6
<1>7. CASE f.dst # NoHost
  <2> DEFINE r == ObserveEnd(Touch(atSrc, f.dst, t), f.dst, f.src, f, t)
  <2>1. f.dst \in Host
    BY <1>1, <1>7
  <2>2. Orderly(r) /\ MovesOn(atSrc, r) /\ SeenBy(r, t)
    BY <1>1, <1>2, <1>4, <2>1
  <2> HIDE DEF r
  <2>3. MovesOn(s, r)
    BY <1>4, <2>2, MovesOnTransitive
  <2>4. QED
    BY <1>5, <1>7, <2>2, <2>3 DEF r
<1>8. QED
  BY <1>6, <1>7

(* One end of an alert: it is noted in the dossier, or nothing happens     *)
(* because the store is full of dossiers seen after the traffic.           *)
LEMMA NoteEndFacts ==
    ASSUME now \in Int, NEW s, Orderly(s), SeenBy(s, now), NEW a \in Alert,
           NEW h \in {a.src, a.dst}
    PROVE  LET r == NoteEnd(s, h, a)
           IN  /\ Orderly(r) /\ MovesOn(s, r) /\ SeenBy(r, now) /\ Besides(h, s, r)
               /\ h # NoHost =>
                    \/ \E j \in DOMAIN r : /\ r[j].key = h /\ r[j].rank >= Ref(a).at
                                           /\ Last(r[j].refs) = Ref(a)
                    \/ /\ r = s /\ Len(s) = MaxEntities
                       /\ \A i \in DOMAIN s : s[i].rank > Ref(a).at
<1> DEFINE t == Ref(a).at
           m == Touch(s, h, t)
<1>1. /\ a.src \in Host \cup {NoHost} /\ a.dst \in Host \cup {NoHost}
      /\ Peer(a, h) \in Host \cup {NoHost}
      /\ t \in Int /\ t <= now
  BY InputAssumption DEF Ref, Peer
<1>2. \A i \in DOMAIN s : Continues(s[i], s[i])
  BY OrderlyFacts DEF Continues
<1>3. MovesOn(s, s) /\ Besides(h, s, s)
  BY <1>2, SamePlaces DEF Besides
<1>4. NoteEnd(s, h, a) = IF h = NoHost \/ h \notin Keys(m) THEN s
                         ELSE [m EXCEPT ![Place(m, h)] = Noted(@, a, Peer(a, h))]
  BY DEF NoteEnd
<1>5. h # NoHost =>
         /\ Orderly(m) /\ MovesOn(s, m) /\ Besides(h, s, m) /\ SeenBy(m, now)
         /\ \A i \in DOMAIN m : m[i].key = h => m[i].rank >= t
         /\ h \notin Keys(m) =>
              Len(s) = MaxEntities /\ \A i \in DOMAIN s : s[i].rank > t
  BY <1>1, TouchFacts
<1> HIDE DEF m, t
<1>6. CASE h = NoHost
  BY <1>3, <1>4, <1>6
<1>7. CASE h # NoHost /\ h \notin Keys(m)
  BY <1>3, <1>4, <1>5, <1>7 DEF t
<1>8. CASE h # NoHost /\ h \in Keys(m)
  <2> DEFINE i == Place(m, h)
             e == Noted(m[i], a, Peer(a, h))
             r == [m EXCEPT ![i] = e]
  <2>1. i \in DOMAIN m /\ m[i].key = h
    BY <1>8, PlaceIs
  <2>2. NoteEnd(s, h, a) = r
    BY <1>4, <1>8
  <2> HIDE DEF i
  <2>3. /\ Coherent(m[i]) /\ m[i].rank \in Int /\ m[i].count \in Nat /\ t <= m[i].rank
        /\ Unique(m)
    BY <1>5, <1>8, <2>1, OrderlyFacts DEF Orderly
  <2>4. /\ Coherent(e) /\ e.key = m[i].key /\ e.rank = m[i].rank
        /\ e.first = m[i].first /\ e.count = m[i].count + 1 /\ Last(e.refs) = Ref(a)
    BY <1>1, <2>3, NotedCoherent DEF t
  <2>5. Continues(m[i], e)
    BY <2>3, <2>4 DEF Continues
  <2> HIDE DEF e
  <2>6. /\ Orderly(r) /\ MovesOn(m, r) /\ DOMAIN r = DOMAIN m /\ Len(r) = Len(m)
        /\ r[i] = e /\ \A j \in DOMAIN m : j # i => r[j] = m[j]
    BY <1>5, <1>8, <2>1, <2>4, <2>5, Replaced
  <2> HIDE DEF r
  <2>7. MovesOn(s, r)
    BY <1>5, <1>8, <2>6, MovesOnTransitive
  <2>8. \A j \in DOMAIN r : r[j].rank = m[j].rank
    BY <2>4, <2>6
  <2>9. SeenBy(r, now)
    BY <1>5, <1>8, <2>6, <2>8 DEF SeenBy
  <2>10. Besides(h, s, r)
    <3> SUFFICES ASSUME NEW k \in DOMAIN s, s[k].key # h
                 PROVE  \/ \E j \in DOMAIN r : r[j] = s[k]
                        \/ Len(r) = MaxEntities /\ \A j \in DOMAIN r : r[j].rank >= s[k].rank
      BY DEF Besides
    <3>1. CASE \E j \in DOMAIN m : m[j] = s[k]
      BY <2>1, <2>6, <3>1
    <3>2. CASE Len(m) = MaxEntities /\ \A j \in DOMAIN m : m[j].rank >= s[k].rank
      BY <2>6, <2>8, <3>2
    <3>3. QED
      BY <1>5, <1>8, <3>1, <3>2 DEF Besides
  <2>11. r[i].key = h /\ r[i].rank >= t /\ Last(r[i].refs) = Ref(a) /\ i \in DOMAIN r
    BY <2>1, <2>3, <2>4, <2>6
  <2>12. QED
    BY <2>2, <2>6, <2>7, <2>9, <2>10, <2>11 DEF t
<1>9. QED
  BY <1>6, <1>7, <1>8

-----------------------------------------------------------------------------
(* The least of a set of numbers.                                          *)
LEMMA LeastNat ==
    ASSUME NEW S \in SUBSET Nat, S # {}
    PROVE  \E m \in S : \A n \in S : m <= n
<1> DEFINE R == OpToRel(<, Nat)
<1>1. PICK m \in S : \A n \in S : ~(<<n, m>> \in R)
  BY NatLessThanWellFounded, WFMin
<1>2. \A n \in S : ~(n < m)
  BY <1>1 DEF OpToRel
<1>3. QED
  BY <1>2

(* The stores a batch goes through, one after each flow.                   *)
Through(f, s, flows, t, n) ==
    f = [i \in 0 .. n |-> IF i = 0 THEN s ELSE Observe(f[i - 1], flows[i], t)]

LEMMA ThroughIsDefined ==
    ASSUME NEW s, NEW flows, NEW t, NEW n \in Nat
    PROVE  \E f : Through(f, s, flows, t, n)
<1> DEFINE Missing == {m \in Nat : ~\E f : Through(f, s, flows, t, m)}
<1>1. SUFFICES ASSUME Missing # {} PROVE FALSE
  OBVIOUS
<1>2. PICK m \in Missing : \A k \in Missing : m <= k
  BY <1>1, LeastNat
<1>3. Through([i \in 0 .. 0 |-> s], s, flows, t, 0)
  BY DEF Through
<1>4. m # 0
  BY <1>2, <1>3
<1>5. m - 1 \in Nat /\ ~(m <= m - 1)
  BY <1>2, <1>4
<1>6. PICK f : Through(f, s, flows, t, m - 1)
  BY <1>2, <1>5
<1> DEFINE g == [i \in 0 .. m |-> IF i = m THEN Observe(f[m - 1], flows[m], t) ELSE f[i]]
           h == [i \in 0 .. m |-> IF i = 0 THEN s ELSE Observe(g[i - 1], flows[i], t)]
<1>7. \A i \in 0 .. m - 1 : g[i] = f[i] /\ f[i] = IF i = 0 THEN s ELSE Observe(f[i - 1], flows[i], t)
  <2>1. \A i \in 0 .. m - 1 : i \in 0 .. m /\ i # m
    BY <1>2, <1>5
  <2>2. QED
    BY <1>6, <2>1 DEF Through
<1>8. ASSUME NEW i \in 0 .. m PROVE g[i] = h[i]
  <2>1. CASE i = m
    <3>1. m - 1 \in 0 .. m - 1 /\ i # 0
      BY <1>4, <1>5, <2>1
    <3>2. g[m - 1] = f[m - 1]
      BY <1>7, <3>1
    <3>3. QED
      BY <2>1, <3>1, <3>2
  <2>2. CASE i # m
    <3>1. i \in 0 .. m - 1
      BY <1>2, <2>2
    <3>2. i # 0 => i - 1 \in 0 .. m - 1
      BY <1>2, <3>1
    <3>3. i # 0 => g[i - 1] = f[i - 1]
      BY <1>7, <3>2
    <3>4. g[i] = IF i = 0 THEN s ELSE Observe(f[i - 1], flows[i], t)
      BY <1>7, <3>1
    <3>5. h[i] = IF i = 0 THEN s ELSE Observe(g[i - 1], flows[i], t)
      OBVIOUS
    <3> HIDE DEF g, h
    <3>6. QED
      BY <3>3, <3>4, <3>5
  <2>3. QED
    BY <2>1, <2>2
<1>9. g = h
  BY <1>8
<1>10. Through(g, s, flows, t, m)
  BY <1>9 DEF Through
<1>11. QED
  BY <1>2, <1>10

(* What every flow of a batch keeps, the batch keeps.                      *)
LEMMA ObserveAllFacts ==
    ASSUME NEW s, Orderly(s), NEW t \in Int, SeenBy(s, t), NEW flows \in Seq(Feature)
    PROVE  LET r == ObserveAll(s, flows, t)
           IN  Orderly(r) /\ MovesOn(s, r) /\ SeenBy(r, t)
<1> DEFINE n == Len(flows)
           after == CHOOSE f : Through(f, s, flows, t, n)
           Kept(r) == Orderly(r) /\ MovesOn(s, r) /\ SeenBy(r, t)
           Bad == {i \in 0 .. n : ~Kept(after[i])}
<1>1. n \in Nat
  OBVIOUS
<1>2. ObserveAll(s, flows, t) = after[n]
  BY DEF ObserveAll, Through
<1>3. Through(after, s, flows, t, n)
  BY <1>1, ThroughIsDefined
<1> HIDE DEF after, n
<1>4. \A i \in 0 .. n : after[i] = IF i = 0 THEN s ELSE Observe(after[i - 1], flows[i], t)
  BY <1>3 DEF Through
<1>5. Kept(s)
  <2>1. \A i \in DOMAIN s : Continues(s[i], s[i])
    BY OrderlyFacts DEF Continues
  <2>2. QED
    BY <2>1, SamePlaces
<1> HIDE DEF Kept
<1>6. ASSUME Bad # {} PROVE FALSE
  <2>1. Bad \in SUBSET Nat
    BY <1>1
  <2>2. PICK i \in Bad : \A j \in Bad : i <= j
    BY <1>6, <2>1, LeastNat
  <2>3. i \in 0 .. n /\ ~Kept(after[i])
    BY <2>2
  <2>4. i # 0
    BY <1>4, <1>5, <2>3
  <2>5. i - 1 \in 0 .. n /\ ~(i <= i - 1) /\ i \in 1 .. Len(flows)
    BY <1>1, <2>3, <2>4 DEF n
  <2>6. Kept(after[i - 1])
    BY <2>2, <2>5
  <2>7. flows[i] \in Feature
    BY <2>5
  <2>8. after[i] = Observe(after[i - 1], flows[i], t)
    BY <1>4, <2>3, <2>4
  <2> DEFINE q == after[i - 1]
  <2>9. Kept(q)
    BY <2>6
  <2>10. after[i] = Observe(q, flows[i], t)
    BY <2>8
  <2> HIDE DEF q
  <2>11. /\ Orderly(after[i]) /\ MovesOn(q, after[i]) /\ SeenBy(after[i], t)
    BY <2>7, <2>9, <2>10, ObserveFacts DEF Kept
  <2>12. Kept(after[i])
    BY <2>9, <2>11, MovesOnTransitive DEF Kept
  <2>13. QED
    BY <2>3, <2>12
<1>7. n \in 0 .. n
  BY <1>1
<1>8. QED
  BY <1>2, <1>6, <1>7 DEF Kept

-----------------------------------------------------------------------------
(* The engine's loop.                                                      *)
LoopType ==
    /\ now \in Nat /\ pc \in {"idle", "alerts", "failing", "down"}
    /\ alerts \in Seq(Alert) /\ dirty \in BOOLEAN /\ lastFlush \in Int

StoreInv ==
    /\ LoopType
    /\ Orderly(store) /\ SeenBy(store, now)
    /\ Orderly(disk) /\ SeenBy(disk, now)

LEMMA EmptyOrderly == ASSUME NEW t PROVE Orderly(<<>>) /\ SeenBy(<<>>, t)
BY SizeAssumption DEF Orderly, Dict, SeenBy

LEMMA BatchesAreSequences ==
    ASSUME NEW S, NEW n \in Nat, NEW b \in Batches(S, n) PROVE b \in Seq(S)
<1>1. PICK k \in 0 .. n : b \in [1 .. k -> S]
  BY DEF Batches
<1>2. k \in Nat
  OBVIOUS
<1>3. QED
  BY <1>1, <1>2

LEMMA SameMovesOn == ASSUME NEW s, Orderly(s) PROVE MovesOn(s, s)
<1>1. \A i \in DOMAIN s : Continues(s[i], s[i])
  BY OrderlyFacts DEF Continues
<1>2. QED
  BY <1>1, SamePlaces

(* A batch makes time pass.                                                *)
LEMMA BatchFacts ==
    ASSUME StoreInv,
           NEW flows \in Batches(Feature, MaxFlows), NEW raised \in Batches(Alert, MaxAlerts),
           ObserveFlows(flows, raised)
    PROVE  /\ now' \in Nat /\ now <= now' /\ raised \in Seq(Alert)
           /\ Orderly(store') /\ MovesOn(store, store') /\ SeenBy(store', now')
           /\ SeenBy(disk, now')
<1>1. flows \in Seq(Feature) /\ raised \in Seq(Alert)
  BY BatchesAreSequences, SizeAssumption
<1>2. now' \in Nat /\ now' \in Int /\ now \in Int /\ now <= now'
  BY DEF ObserveFlows, StoreInv, LoopType
<1>3. ASSUME NEW s, Orderly(s), SeenBy(s, now) PROVE SeenBy(s, now')
  <2>1. \A i \in DOMAIN s : s[i].rank \in Int
    BY <1>3, OrderlyFacts
  <2>2. QED
    BY <1>2, <1>3, <2>1 DEF SeenBy
<1>4. Orderly(store) /\ SeenBy(store, now') /\ SeenBy(disk, now')
  BY <1>3 DEF StoreInv
<1>5. store' = ObserveAll(store, flows, now')
  BY DEF ObserveFlows
<1>6. QED
  BY <1>1, <1>2, <1>4, <1>5, ObserveAllFacts

(* An alert reaches one end, then the other.                               *)
LEMMA AlertFacts ==
    ASSUME StoreInv, NoteAlert
    PROVE  LET a == Head(alerts)
               atSrc == NoteEnd(store, a.src, a)
           IN  /\ a \in Alert
               /\ Orderly(atSrc) /\ MovesOn(store, atSrc) /\ SeenBy(atSrc, now)
               /\ Orderly(store') /\ MovesOn(store, store') /\ SeenBy(store', now)
<1> DEFINE a == Head(alerts)
           atSrc == NoteEnd(store, a.src, a)
           both == NoteEnd(atSrc, a.dst, a)
<1>1. a \in Alert /\ now \in Int /\ Orderly(store) /\ SeenBy(store, now)
  BY DEF NoteAlert, StoreInv, LoopType
<1>2. store' = both \/ store' = store \/ store' = atSrc
  BY DEF NoteAlert
<1> HIDE DEF a
<1>3. Orderly(atSrc) /\ MovesOn(store, atSrc) /\ SeenBy(atSrc, now)
  BY <1>1, NoteEndFacts
<1> HIDE DEF atSrc
<1>4. Orderly(both) /\ MovesOn(atSrc, both) /\ SeenBy(both, now)
  BY <1>1, <1>3, NoteEndFacts
<1> HIDE DEF both
<1>5. MovesOn(store, both)
  BY <1>1, <1>3, <1>4, MovesOnTransitive
<1>6. MovesOn(store, store)
  BY <1>1, SameMovesOn
<1>7. QED
  BY <1>1, <1>2, <1>3, <1>4, <1>5, <1>6 DEF a, atSrc

LEMMA SaveFacts == ASSUME StoreInv, Save PROVE store' = store /\ disk' = store
BY SmallStays DEF Save, StoreInv, Orderly, Dict

LEMMA LoopStep == ASSUME LoopType, [Next]_vars PROVE LoopType'
<1>1. -FlushEvery \in Int
  BY SizeAssumption
<1>2. ASSUME NEW flows \in Batches(Feature, MaxFlows), NEW raised \in Batches(Alert, MaxAlerts),
             ObserveFlows(flows, raised)
      PROVE  LoopType'
  <2>1. raised \in Seq(Alert)
    BY BatchesAreSequences, SizeAssumption
  <2>2. QED
    BY <1>2, <2>1 DEF ObserveFlows, LoopType
<1>3. CASE NoteAlert
  <2>1. alerts # <<>> => Tail(alerts) \in Seq(Alert)
    BY DEF LoopType
  <2>2. <<>> \in Seq(Alert)
    OBVIOUS
  <2>3. /\ alerts' \in {<<>>, Tail(alerts)} /\ alerts # <<>>
        /\ pc' \in {pc, "failing"} /\ dirty' \in {TRUE, dirty}
        /\ now' = now /\ lastFlush' = lastFlush
    BY <1>3 DEF NoteAlert
  <2>4. QED
    BY <2>1, <2>2, <2>3 DEF LoopType
<1>4. CASE Flush
  <2>1. /\ now' = now /\ pc' = "idle" /\ alerts' = alerts
        /\ dirty' \in {FALSE, dirty} /\ lastFlush' \in {now, lastFlush}
    BY <1>4 DEF Flush, Save
  <2>2. now \in Int
    BY DEF LoopType
  <2>3. lastFlush' \in Int /\ dirty' \in BOOLEAN
    BY <2>1, <2>2, Zenon DEF LoopType
  <2>4. QED
    BY <2>1, <2>3 DEF LoopType
<1>5. CASE Stop
  <2>1. /\ now' = now /\ pc' = "down" /\ alerts' = <<>>
        /\ dirty' = FALSE /\ lastFlush' = now
    BY <1>5 DEF Stop, Save
  <2>2. now \in Int /\ <<>> \in Seq(Alert)
    BY DEF LoopType
  <2>3. now' \in Nat /\ alerts' \in Seq(Alert)
    BY <2>1, <2>2 DEF LoopType
  <2>4. pc' \in {"idle", "alerts", "failing", "down"}
    BY <2>1
  <2>5. dirty' \in BOOLEAN /\ lastFlush' \in Int
    BY <2>1, <2>2, Zenon
  <2>6. QED
    BY <2>3, <2>4, <2>5, Zenon DEF LoopType
<1>6. CASE Kill
  <2>1. /\ now' = now /\ pc' = "down" /\ alerts' = <<>>
        /\ dirty' = FALSE /\ lastFlush' = -FlushEvery
    BY <1>6 DEF Kill
  <2>2. <<>> \in Seq(Alert)
    OBVIOUS
  <2>3. now' \in Nat /\ alerts' \in Seq(Alert)
    BY <2>1, <2>2 DEF LoopType
  <2>4. dirty' \in BOOLEAN /\ lastFlush' \in Int
    BY <1>1, <2>1, Zenon
  <2>5. QED
    BY <2>1, <2>3, <2>4, Zenon DEF LoopType
<1>7. CASE Load
  BY <1>1, <1>7 DEF Load, LoopType
<1>8. CASE UNCHANGED vars
  BY <1>8 DEF vars, LoopType
<1>9. QED
  BY <1>2, <1>3, <1>4, <1>5, <1>6, <1>7, <1>8 DEF Next

LEMMA StoreInit == Init => StoreInv
<1> SUFFICES ASSUME Init PROVE StoreInv
  OBVIOUS
<1>1. Orderly(store) /\ SeenBy(store, now) /\ Orderly(disk) /\ SeenBy(disk, now)
  BY EmptyOrderly DEF Init
<1>2. alerts \in Seq(Alert) /\ lastFlush \in Int
  BY SizeAssumption DEF Init
<1>3. QED
  BY <1>1, <1>2 DEF Init, StoreInv, LoopType

LEMMA StoreStep == ASSUME StoreInv, [Next]_vars PROVE StoreInv'
<1>1. LoopType'
  BY LoopStep DEF StoreInv
<1>2. SUFFICES /\ Orderly(store') /\ SeenBy(store', now')
               /\ Orderly(disk') /\ SeenBy(disk', now')
  BY <1>1 DEF StoreInv
<1> USE DEF StoreInv
<1>3. ASSUME NEW flows \in Batches(Feature, MaxFlows), NEW raised \in Batches(Alert, MaxAlerts),
             ObserveFlows(flows, raised)
      PROVE  /\ Orderly(store') /\ SeenBy(store', now')
             /\ Orderly(disk') /\ SeenBy(disk', now')
  <2>1. Orderly(store') /\ SeenBy(store', now') /\ SeenBy(disk, now')
    BY <1>3, BatchFacts
  <2>2. disk' = disk
    BY <1>3 DEF ObserveFlows
  <2>3. QED
    BY <2>1, <2>2
<1>4. CASE NoteAlert
  <2>1. Orderly(store') /\ SeenBy(store', now)
    BY <1>4, AlertFacts
  <2>2. disk' = disk /\ now' = now
    BY <1>4 DEF NoteAlert
  <2>3. QED
    BY <2>1, <2>2
<1>5. ASSUME Save, now' = now
      PROVE  /\ Orderly(store') /\ SeenBy(store', now')
             /\ Orderly(disk') /\ SeenBy(disk', now')
  <2>1. store' = store /\ disk' = store
    BY <1>5, SaveFacts
  <2>2. QED
    BY <1>5, <2>1
<1>6. CASE Flush
  <2>1. now' = now /\ (Save \/ (store' = store /\ disk' = disk))
    BY <1>6 DEF Flush
  <2>2. QED
    BY <1>5, <2>1
<1>7. CASE Stop
  BY <1>5, <1>7 DEF Stop
<1>8. CASE Kill
  <2>1. store' = <<>> /\ disk' = disk /\ now' = now
    BY <1>8 DEF Kill
  <2>2. QED
    BY <2>1, EmptyOrderly
<1>9. CASE Load
  <2>1. disk' = disk /\ now' = now /\ store' = CutTo(disk, MaxEntities)
    BY <1>9 DEF Load
  <2>2. store' = disk
    BY <2>1, SmallStays DEF Orderly, Dict
  <2>3. QED
    BY <2>1, <2>2
<1>10. CASE UNCHANGED vars
  BY <1>10 DEF vars
<1>11. QED
  BY <1>3, <1>4, <1>6, <1>7, <1>8, <1>9, <1>10 DEF Next

LEMMA StoreAlways == Spec => []StoreInv
  BY StoreInit, StoreStep, PTL DEF Spec

-----------------------------------------------------------------------------
LEMMA OrderlyIsCoherent ==
    ASSUME NEW s, Orderly(s), NEW i \in DOMAIN s
    PROVE  LET d == s[i]
           IN  /\ d.key \in Host /\ d.rank \in Int /\ d.first \in Int
               /\ Dict(d.partners, MaxPartners) /\ Keys(d.partners) \subseteq Host
               /\ Dict(d.ports, MaxPorts) /\ Dict(d.domains, MaxDomains)
               /\ Len(d.refs) <= MaxRefs /\ d.count >= Len(d.refs)
               /\ d.priority = Priority(d.severity, d.count, Cardinality(d.classes))
               /\ Len(d.refs) = IF d.count > MaxRefs THEN MaxRefs ELSE d.count
               /\ \A n \in DOMAIN d.refs : d.refs[n].severity <= d.severity
                                           /\ d.refs[n].class \in d.classes
                                           /\ d.refs[n].at <= d.rank
<1> DEFINE d == s[i]
<1>1. Coherent(d) /\ d \in DossierType
  BY DEF Orderly, Coherent
<1> HIDE DEF d
<1>2. /\ d.key \in Host /\ d.rank \in Int /\ d.first \in Int /\ d.count \in Nat
      /\ d.partners \in Seq(Slot(Host))
  BY <1>1 DEF DossierType
<1>3. Keys(d.partners) \subseteq Host
  <2>1. \A j \in DOMAIN d.partners : d.partners[j] \in Slot(Host)
    BY <1>2
  <2>2. \A x \in Slot(Host) : x.key \in Host
    BY DEF Slot
  <2>3. QED
    BY <2>1, <2>2 DEF Keys
<1>4. Len(d.refs) <= MaxRefs /\ d.count >= Len(d.refs)
  BY <1>1, <1>2, SizeAssumption DEF Coherent
<1>5. QED
  BY <1>1, <1>2, <1>3, <1>4 DEF Coherent, d

(* Whatever the flows and the alerts: a dossier is of one piece, in memory *)
(* and in the file.                                                        *)
THEOREM DossiersStayWhole == Spec => []DossierCoherent
<1>1. ASSUME StoreInv PROVE DossierCoherent
  <2>1. \A s \in {store, disk} : Orderly(s) /\ Dict(s, MaxEntities)
    BY <1>1 DEF StoreInv, Orderly
  <2>2. TypeOK
    BY <1>1, <2>1, OrderlyIsCoherent DEF StoreInv, LoopType, TypeOK
  <2>3. QED
    BY <2>1, <2>2, OrderlyIsCoherent DEF DossierCoherent
<1>2. QED
  BY <1>1, StoreAlways, PTL

(* A step of a running loop.                                               *)
LEMMA LoopMovesOn ==
    ASSUME StoreInv, [Next]_vars, pc # "down", pc' # "down"
    PROVE  Orderly(store') /\ MovesOn(store, store')
<1>1. Orderly(store')
  BY StoreStep DEF StoreInv
<1>2. ASSUME store' = store PROVE MovesOn(store, store')
  BY <1>2, SameMovesOn DEF StoreInv
<1>3. ASSUME NEW flows \in Batches(Feature, MaxFlows), NEW raised \in Batches(Alert, MaxAlerts),
             ObserveFlows(flows, raised)
      PROVE  MovesOn(store, store')
  BY <1>3, BatchFacts
<1>4. CASE NoteAlert
  BY <1>4, AlertFacts
<1>5. CASE Flush
  <2>1. Save \/ store' = store
    BY <1>5 DEF Flush
  <2>2. QED
    BY <1>1, <1>2, <2>1, SaveFacts
<1>6. ~Stop /\ ~Kill /\ ~Load
  BY DEF Stop, Kill, Load
<1>7. CASE UNCHANGED vars
  <2>1. store' = store
    BY <1>7 DEF vars
  <2>2. QED
    BY <1>1, <1>2, <2>1
<1>8. QED
  BY <1>1, <1>3, <1>4, <1>5, <1>6, <1>7 DEF Next

(* What a tick may do to the store: an address loses its dossier, or its   *)
(* dossier starts over, only when the store is full of others seen since.  *)
THEOREM TheOldestGoFirst == Spec => EvictsOnlyOldest
<1> DEFINE A == \A h \in Keys(store) :
             \/ /\ h \in Keys(store')
                /\ Dossier(store', h).first = Dossier(store, h).first
                /\ Dossier(store', h).count >= Dossier(store, h).count
             \/ /\ Len(store') = MaxEntities
                /\ \A k \in Keys(store') :
                     Dossier(store', k).rank >= Dossier(store, h).rank
<1>1. ASSUME StoreInv, [Next]_vars, pc # "down", pc' # "down", NEW h \in Keys(store)
      PROVE  \/ /\ h \in Keys(store')
                /\ Dossier(store', h).first = Dossier(store, h).first
                /\ Dossier(store', h).count >= Dossier(store, h).count
             \/ /\ Len(store') = MaxEntities
                /\ \A k \in Keys(store') :
                     Dossier(store', k).rank >= Dossier(store, h).rank
  <2>1. Orderly(store') /\ MovesOn(store, store')
    BY <1>1, LoopMovesOn
  <2> DEFINE i == Place(store, h)
  <2>2. i \in DOMAIN store /\ store[i].key = h
    BY <1>1, PlaceIs
  <2>3. Dossier(store, h) = store[i]
    BY DEF Dossier
  <2> HIDE DEF i
  <2>4. CASE \E j \in DOMAIN store' : Continues(store[i], store'[j])
    <3>1. PICK j \in DOMAIN store' : Continues(store[i], store'[j])
      BY <2>4
    <3>2. store'[j].key = h /\ Unique(store')
      BY <2>1, <2>2, <3>1, OrderlyFacts DEF Continues
    <3>3. Place(store', h) = j /\ h \in Keys(store')
      BY <3>2, PlaceOf
    <3>4. Dossier(store', h) = store'[j]
      BY <3>3 DEF Dossier
    <3>5. QED
      BY <2>3, <3>1, <3>3, <3>4 DEF Continues
  <2>5. CASE /\ Len(store') = MaxEntities
             /\ \A j \in DOMAIN store' : store'[j].rank >= store[i].rank
    <3>1. \A k \in Keys(store') : Place(store', k) \in DOMAIN store'
      BY PlaceIs
    <3>2. QED
      BY <2>3, <2>5, <3>1 DEF Dossier
  <2>6. QED
    BY <2>1, <2>2, <2>4, <2>5 DEF MovesOn
<1>2. StoreInv /\ [Next]_vars => (pc # "down" /\ pc' # "down" => A)
  BY <1>1
<1>3. QED
  BY <1>2, StoreAlways, PTL DEF Spec, EvictsOnlyOldest

(* The end h of an alert about traffic at t has been noted in s; or s is   *)
(* full of dossiers seen after the traffic.                                *)
Has(s, h, a) ==
    \E j \in DOMAIN s : /\ s[j].key = h /\ s[j].rank >= Ref(a).at
                        /\ Last(s[j].refs) = Ref(a)

FullSince(s, t) == Len(s) = MaxEntities /\ \A i \in DOMAIN s : s[i].rank > t

LEMMA HasReached ==
    ASSUME NEW s, Orderly(s), NEW h, NEW a, Has(s, h, a)
    PROVE  h \in Keys(s) /\ Last(Dossier(s, h).refs) = Ref(a)
<1>1. PICK j \in DOMAIN s : s[j].key = h /\ Last(s[j].refs) = Ref(a)
  BY DEF Has
<1>2. Place(s, h) = j /\ h \in Keys(s)
  BY <1>1, PlaceOf, OrderlyFacts
<1>3. QED
  BY <1>1, <1>2 DEF Dossier

(* A full store of dossiers seen after t stays one.                        *)
LEMMA FullStays ==
    ASSUME NEW s, NEW r, Orderly(s), Orderly(r), MovesOn(s, r), NEW t \in Int, FullSince(s, t)
    PROVE  FullSince(r, t)
<1>1. Len(r) = MaxEntities
  <2>1. Len(s) <= Len(r) /\ Len(r) \in Nat /\ Len(s) = MaxEntities /\ Len(r) <= MaxEntities
    BY OrderlyFacts DEF MovesOn, FullSince
  <2>2. QED
    BY <2>1
<1>2. ASSUME NEW j \in DOMAIN r PROVE r[j].rank > t
  <2>1. PICK i \in DOMAIN s : r[j].rank >= s[i].rank
    BY DEF MovesOn, FullSince
  <2>2. r[j].rank \in Int /\ s[i].rank \in Int /\ s[i].rank > t
    BY OrderlyFacts DEF FullSince
  <2>3. QED
    BY <2>1, <2>2
<1>3. QED
  BY <1>1, <1>2 DEF FullSince

(* The two ends of an alert, one after the other.                          *)
LEMMA BothEnds ==
    ASSUME now \in Int, NEW s, Orderly(s), SeenBy(s, now), NEW a \in Alert
    PROVE  LET q == NoteEnd(s, a.src, a)
               r == NoteEnd(q, a.dst, a)
           IN  /\ a.dst # NoHost => Has(r, a.dst, a) \/ FullSince(r, Ref(a).at)
               /\ a.src # NoHost =>
                    \/ Has(r, a.src, a) \/ FullSince(r, Ref(a).at)
                    \/ /\ a.dst # NoHost /\ Has(r, a.dst, a)
                       /\ Len(r) = MaxEntities
                       /\ \A j \in DOMAIN r : r[j].rank >= Ref(a).at
<1> DEFINE q == NoteEnd(s, a.src, a)
           r == NoteEnd(q, a.dst, a)
           t == Ref(a).at
<1>1. t \in Int
  BY InputAssumption DEF Ref
<1>2. /\ Orderly(q) /\ MovesOn(s, q) /\ SeenBy(q, now)
      /\ a.src # NoHost => Has(q, a.src, a) \/ (q = s /\ FullSince(s, t))
  BY NoteEndFacts DEF Has, FullSince
<1> HIDE DEF q
<1>3. /\ Orderly(r) /\ MovesOn(q, r) /\ Besides(a.dst, q, r)
      /\ a.dst # NoHost => Has(r, a.dst, a) \/ (r = q /\ FullSince(q, t))
  BY <1>2, NoteEndFacts DEF Has, FullSince
<1>4. a.dst = NoHost => r = q
  BY DEF NoteEnd
<1> HIDE DEF r, t
<1>5. ASSUME a.src # NoHost
      PROVE  \/ Has(r, a.src, a) \/ FullSince(r, t)
             \/ /\ a.dst # NoHost /\ Has(r, a.dst, a)
                /\ Len(r) = MaxEntities
                /\ \A j \in DOMAIN r : r[j].rank >= t
  <2>1. CASE q = s /\ FullSince(s, t)
    BY <1>1, <1>2, <1>3, <2>1, FullStays
  <2>2. CASE Has(q, a.src, a)
    <3>1. PICK i \in DOMAIN q : /\ q[i].key = a.src /\ q[i].rank >= t
                                /\ Last(q[i].refs) = Ref(a)
      BY <2>2 DEF Has, t
    <3>2. CASE a.dst = NoHost \/ r = q
      BY <1>4, <2>2, <3>2
    <3>3. CASE a.dst # NoHost /\ r # q
      <4>1. Has(r, a.dst, a)
        BY <1>3, <3>3
      <4>2. CASE a.src = a.dst
        BY <4>1, <4>2
      <4>3. CASE \E j \in DOMAIN r : r[j] = q[i]
        BY <3>1, <4>3 DEF Has, t
      <4>4. CASE Len(r) = MaxEntities /\ \A j \in DOMAIN r : r[j].rank >= q[i].rank
        <5>1. q[i].rank \in Int /\ \A j \in DOMAIN r : r[j].rank \in Int
          BY <1>2, <1>3, OrderlyFacts
        <5>2. \A j \in DOMAIN r : r[j].rank >= t
          BY <1>1, <3>1, <4>4, <5>1
        <5>3. QED
          BY <3>3, <4>1, <4>4, <5>2
      <4>5. QED
        BY <1>3, <3>1, <4>2, <4>3, <4>4 DEF Besides
    <3>4. QED
      BY <3>2, <3>3
  <2>3. QED
    BY <1>2, <1>5, <2>1, <2>2
<1>6. a.dst # NoHost => Has(r, a.dst, a) \/ FullSince(r, t)
  BY <1>3
<1>7. QED
  BY <1>5, <1>6 DEF r, q, t

(* An alert that does not fail reaches both its ends; an end is missed     *)
(* only when the store is full of others seen after the traffic, or when   *)
(* it made room for the other end.                                         *)
THEOREM AlertsReachTheirEnds == Spec => LostOnlyWhenOlder
<1> DEFINE a == Head(alerts)
           Reached(h) == h \in Keys(store') /\ Last(Dossier(store', h).refs) = Ref(a)
           Others == {Dossier(store', k).rank : k \in Keys(store') \ {a.src, a.dst}}
           A == \A h \in {a.src, a.dst} \ {NoHost} :
                  \/ Reached(h)
                  \/ Len(store') = MaxEntities /\ \A t \in Others : t > Ref(a).at
                  \/ /\ h = a.src /\ a.dst # NoHost /\ Reached(a.dst)
                     /\ Len(store') = MaxEntities /\ \A t \in Others : t >= Ref(a).at
<1>1. ASSUME StoreInv, NoteAlert, pc' = "alerts" PROVE A
  <2> DEFINE both == NoteEnd(NoteEnd(store, a.src, a), a.dst, a)
             at == Ref(a).at
  <2>1. store' = both
    BY <1>1 DEF NoteAlert
  <2>2. a \in Alert /\ now \in Int /\ Orderly(store) /\ SeenBy(store, now) /\ Orderly(store')
    BY <1>1, AlertFacts DEF NoteAlert, StoreInv, LoopType
  <2> HIDE DEF a
  <2>3. /\ a.dst # NoHost => Has(both, a.dst, a) \/ FullSince(both, at)
        /\ a.src # NoHost =>
             \/ Has(both, a.src, a) \/ FullSince(both, at)
             \/ /\ a.dst # NoHost /\ Has(both, a.dst, a)
                /\ Len(both) = MaxEntities
                /\ \A j \in DOMAIN both : both[j].rank >= at
    BY <2>2, BothEnds
  <2> HIDE DEF both, at
  <2>4. \A h : Has(store', h, a) => Reached(h)
    BY <2>2, HasReached
  <2>5. \A t \in Others : \E j \in DOMAIN store' : t = store'[j].rank
    BY PlaceIs DEF Dossier
  <2> HIDE DEF Reached, Others
  <2>6. FullSince(store', at) => Len(store') = MaxEntities /\ \A t \in Others : t > at
    BY <2>5 DEF FullSince
  <2>7. (\A j \in DOMAIN store' : store'[j].rank >= at) => \A t \in Others : t >= at
    BY <2>5
  <2>8. ASSUME NEW h \in {a.src, a.dst} \ {NoHost}
        PROVE  \/ Reached(h)
               \/ Len(store') = MaxEntities /\ \A t \in Others : t > at
               \/ /\ h = a.src /\ a.dst # NoHost /\ Reached(a.dst)
                  /\ Len(store') = MaxEntities /\ \A t \in Others : t >= at
    BY <2>1, <2>3, <2>4, <2>6, <2>7
  <2>9. QED
    BY <2>8 DEF at
<1> HIDE DEF A
<1>2. StoreInv /\ [Next]_vars => [pc = "alerts" /\ pc' = "alerts" => A]_vars
  <2> SUFFICES ASSUME StoreInv, Next, pc = "alerts", pc' = "alerts" PROVE A
    OBVIOUS
  <2>1. \A flows, raised : ~ObserveFlows(flows, raised)
    BY DEF ObserveFlows
  <2>2. ~Flush /\ ~Stop /\ ~Kill /\ ~Load
    BY DEF Flush, Stop, Kill, Load
  <2>3. NoteAlert
    BY <2>1, <2>2 DEF Next
  <2>4. QED
    BY <1>1, <2>3
<1>3. QED
  BY <1>2, StoreAlways, PTL DEF Spec, LostOnlyWhenOlder, A

=============================================================================
