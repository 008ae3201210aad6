-------------------------- MODULE EngineTickProofs --------------------------
(***************************************************************************)
(* For any traffic, thresholds and caps: what EngineTick says of its own   *)
(* blind spots is true, every sign of spoofing is reported, the order of a *)
(* batch does not matter to what is reported, and one packet more of an    *)
(* attack hides none.                                                      *)
(***************************************************************************)
EXTENDS EngineTick, FiniteSetTheorems, WellFoundedInduction, TLAPS

-----------------------------------------------------------------------------
(* R orders a finite set K; the place of an element is how many come       *)
(* before it.                                                              *)
Orders(R, K) ==
    /\ \A i \in K : <<i, i>> \notin R
    /\ \A i, j, k \in K : <<i, j>> \in R /\ <<j, k>> \in R => <<i, k>> \in R
    /\ \A i, j \in K : i = j \/ <<i, j>> \in R \/ <<j, i>> \in R

Ahead(R, K, i) == {j \in K : <<j, i>> \in R}

LEMMA AheadGrows ==
    ASSUME NEW K, IsFiniteSet(K), NEW R, Orders(R, K),
           NEW i \in K, NEW k \in K, <<i, k>> \in R
    PROVE  Cardinality(Ahead(R, K, i)) < Cardinality(Ahead(R, K, k))
<1>1. Ahead(R, K, i) \subseteq Ahead(R, K, k) /\ i \in Ahead(R, K, k)
      /\ i \notin Ahead(R, K, i)
  BY DEF Ahead, Orders
<1>2. IsFiniteSet(Ahead(R, K, k)) /\ IsFiniteSet(Ahead(R, K, i))
  BY FS_Subset DEF Ahead
<1>3. Cardinality(Ahead(R, K, i)) <= Cardinality(Ahead(R, K, k))
      /\ Cardinality(Ahead(R, K, i)) # Cardinality(Ahead(R, K, k))
  BY <1>1, <1>2, FS_Subset
<1>4. QED
  BY <1>2, <1>3, FS_CardinalityType

(* The places of n elements are 0 to n - 1, each taken once.               *)
LEMMA PlacesAreTaken ==
    ASSUME NEW K, IsFiniteSet(K), NEW R, Orders(R, K)
    PROVE  LET place == [i \in K |-> Cardinality(Ahead(R, K, i))]
           IN  place \in Bijection(K, 0 .. Cardinality(K) - 1)
<1> DEFINE place == [i \in K |-> Cardinality(Ahead(R, K, i))]
           T == 0 .. Cardinality(K) - 1
<1>1. Cardinality(K) \in Nat
  BY FS_CardinalityType
<1>2. ASSUME NEW i \in K PROVE place[i] \in T
  <2>1. Ahead(R, K, i) \subseteq K /\ i \notin Ahead(R, K, i)
    BY DEF Ahead, Orders
  <2>2. IsFiniteSet(Ahead(R, K, i))
        /\ Cardinality(Ahead(R, K, i)) <= Cardinality(K)
        /\ Cardinality(Ahead(R, K, i)) # Cardinality(K)
    BY <2>1, FS_Subset
  <2>3. Cardinality(Ahead(R, K, i)) \in Nat
    BY <2>2, FS_CardinalityType
  <2>4. QED
    BY <1>1, <2>2, <2>3
<1>3. ASSUME NEW i \in K, NEW k \in K, i # k PROVE place[i] # place[k]
  <2>1. place[i] \in Nat /\ place[k] \in Nat
    BY <1>2
  <2>2. CASE <<i, k>> \in R
    BY <2>1, <2>2, AheadGrows
  <2>3. CASE <<k, i>> \in R
    BY <2>1, <2>3, AheadGrows
  <2>4. QED
    BY <1>3, <2>2, <2>3 DEF Orders
<1>4. place \in Injection(K, T)
  BY <1>2, <1>3 DEF Injection, IsInjective
<1>5. IsFiniteSet(T) /\ Cardinality(T) = Cardinality(K)
  BY <1>1, FS_Interval
<1> HIDE DEF place, T
<1>6. place \in Surjection(K, T)
  BY <1>4, <1>5, FS_Injection
<1>7. QED
  BY <1>4, <1>6 DEF Bijection, place, T

-----------------------------------------------------------------------------
(* The cap of a tick.                                                      *)
Heavier(b, j, i) ==
    b[j].packets > b[i].packets \/ (b[j].packets = b[i].packets /\ j < i)

Weighed(b) == \A i \in DOMAIN b : b[i].packets \in Nat

LEMMA PlacesOfFlows ==
    ASSUME NEW S, NEW b \in Seq(S), Weighed(b)
    PROVE  /\ \A i \in DOMAIN b : Place(b, i) \in 1 .. Len(b)
           /\ \A i, j \in DOMAIN b : Place(b, i) = Place(b, j) => i = j
           /\ \A n \in 1 .. Len(b) : \E i \in DOMAIN b : Place(b, i) = n
<1> DEFINE K == DOMAIN b
           R == {x \in K \X K : Heavier(b, x[1], x[2])}
           place == [i \in K |-> Cardinality(Ahead(R, K, i))]
           Upto(i) == {j \in K : b[j].packets > b[i].packets
                                  \/ (b[j].packets = b[i].packets /\ j <= i)}
<1>1. K = 1 .. Len(b) /\ Len(b) \in Nat
  OBVIOUS
<1>2. IsFiniteSet(K) /\ Cardinality(K) = Len(b)
  BY <1>1, FS_Interval
<1>3. \A i, j \in K : <<i, j>> \in R <=> Heavier(b, i, j)
  OBVIOUS
<1>4. \A i \in K : b[i].packets \in Int /\ i \in Int
  BY <1>1 DEF Weighed
<1> HIDE DEF R
<1>5. Orders(R, K)
  <2>1. \A i \in K : ~Heavier(b, i, i)
    BY <1>4 DEF Heavier
  <2>2. ASSUME NEW i \in K, NEW j \in K, NEW k \in K, Heavier(b, i, j), Heavier(b, j, k)
        PROVE  Heavier(b, i, k)
    <3>1. /\ b[i].packets \in Int /\ b[j].packets \in Int /\ b[k].packets \in Int
          /\ i \in Int /\ j \in Int /\ k \in Int
      BY <1>4
    <3>2. QED
      BY <2>2, <3>1 DEF Heavier
  <2>3. ASSUME NEW i \in K, NEW j \in K PROVE i = j \/ Heavier(b, i, j) \/ Heavier(b, j, i)
    <3>1. b[i].packets \in Int /\ b[j].packets \in Int /\ i \in Int /\ j \in Int
      BY <1>4
    <3>2. QED
      BY <3>1 DEF Heavier
  <2>4. QED
    BY <1>3, <2>1, <2>2, <2>3 DEF Orders
<1>6. place \in Bijection(K, 0 .. Len(b) - 1)
  BY <1>2, <1>5, PlacesAreTaken
<1>7. \A i \in K : Ahead(R, K, i) = {j \in K : Heavier(b, j, i)}
  BY <1>3 DEF Ahead
<1>8. ASSUME NEW i \in K PROVE Place(b, i) = place[i] + 1
  <2>1. Place(b, i) = Cardinality(Upto(i))
    BY DEF Place
  <2>2. Ahead(R, K, i) = Upto(i) \ {i}
    <3>1. \A j \in K : Heavier(b, j, i) <=>
             (b[j].packets > b[i].packets \/ (b[j].packets = b[i].packets /\ j <= i)) /\ j # i
      BY <1>4 DEF Heavier
    <3>2. QED
      BY <1>7, <3>1
  <2>3. IsFiniteSet(Upto(i)) /\ i \in Upto(i)
    BY <1>2, <1>4, FS_Subset
  <2> HIDE DEF Upto
  <2>4. Cardinality(Upto(i) \ {i}) = Cardinality(Upto(i)) - 1 /\ Cardinality(Upto(i)) \in Nat
    BY <2>3, FS_RemoveElement, FS_CardinalityType
  <2>5. place[i] = Cardinality(Upto(i)) - 1
    BY <2>2, <2>4
  <2>6. QED
    BY <2>1, <2>4, <2>5
<1> HIDE DEF place
<1>9. /\ \A i \in K : place[i] \in 0 .. Len(b) - 1
      /\ \A i, j \in K : place[i] = place[j] => i = j
      /\ \A m \in 0 .. Len(b) - 1 : \E i \in K : place[i] = m
  BY <1>6 DEF Bijection, Injection, IsInjective, Surjection
<1>10. \A i \in K : Place(b, i) \in 1 .. Len(b)
  BY <1>1, <1>8, <1>9
<1>11. \A i, j \in K : Place(b, i) = Place(b, j) => i = j
  <2> TAKE i, j \in K
  <2>1. place[i] \in Int /\ place[j] \in Int
    BY <1>1, <1>9
  <2>2. QED
    BY <1>8, <1>9, <2>1
<1>12. \A n \in 1 .. Len(b) : \E i \in K : Place(b, i) = n
  <2> TAKE n \in 1 .. Len(b)
  <2>1. n - 1 \in 0 .. Len(b) - 1
    BY <1>1
  <2>2. PICK i \in K : place[i] = n - 1
    BY <1>9, <2>1
  <2>3. QED
    BY <1>8, <2>2
<1>13. QED
  BY <1>10, <1>11, <1>12

LEMMA CappedFacts ==
    ASSUME NEW S, NEW b \in Seq(S), Weighed(b)
    PROVE  /\ Capped(b) \in Seq(S) /\ ToSet(Capped(b)) \subseteq ToSet(b)
           /\ Len(b) - Len(Capped(b)) \in Nat
           /\ Len(b) <= MaxScorePerTick => Capped(b) = b
<1>1. CASE Len(b) <= MaxScorePerTick
  BY <1>1 DEF Capped
<1>2. CASE ~(Len(b) <= MaxScorePerTick)
  <2> DEFINE at(n) == CHOOSE i \in DOMAIN b : Place(b, i) = n
             c == [n \in 1 .. MaxScorePerTick |-> b[at(n)]]
  <2>1. Capped(b) = c
    BY <1>2 DEF Capped
  <2>2. MaxScorePerTick \in Nat /\ Len(b) \in Nat /\ MaxScorePerTick < Len(b)
    BY <1>2, EngineAssumption
  <2>3. \A n \in 1 .. MaxScorePerTick : at(n) \in DOMAIN b
    <3> TAKE n \in 1 .. MaxScorePerTick
    <3>1. n \in 1 .. Len(b)
      BY <2>2
    <3>2. \E i \in DOMAIN b : Place(b, i) = n
      BY <3>1, PlacesOfFlows
    <3>3. QED
      BY <3>2
  <2> HIDE DEF at
  <2>4. \A n \in 1 .. MaxScorePerTick : b[at(n)] \in S /\ b[at(n)] \in ToSet(b)
    BY <2>3 DEF ToSet
  <2>5. c \in Seq(S) /\ Len(c) = MaxScorePerTick
    BY <2>2, <2>4
  <2>6. ToSet(c) \subseteq ToSet(b)
    BY <2>2, <2>4 DEF ToSet
  <2>7. QED
    BY <1>2, <2>1, <2>2, <2>5, <2>6
<1>3. QED
  BY <1>1, <1>2

-----------------------------------------------------------------------------
(* What the window hands over: flows of the network, new or not.           *)
Handed == {[f EXCEPT !.new = n] : f \in UNION Scenarios, n \in BOOLEAN}

LEMMA HandedFacts ==
    ASSUME NEW g \in Handed
    PROVE  /\ g.sport \in Nat /\ g.dport \in Nat /\ g.packets \in Nat \ {0} /\ g.new \in BOOLEAN
           /\ FlowId(g)[4] = g.sport /\ FlowId(g)[6] = g.dport
<1>1. PICK f \in UNION Scenarios, n \in BOOLEAN : g = [f EXCEPT !.new = n]
  BY DEF Handed
<1>2. Fields \subseteq DOMAIN f /\ f.sport \in Nat /\ f.dport \in Nat /\ f.packets \in Nat \ {0}
  BY FlowAssumption
<1>3. {"sport", "dport", "packets", "new"} \subseteq DOMAIN f
  BY <1>2 DEF Fields
<1>4. g.sport = f.sport /\ g.dport = f.dport /\ g.packets = f.packets /\ g.new = n
  BY <1>1, <1>3
<1>5. QED
  BY <1>2, <1>4 DEF FlowId

(* A flow keeps its id when the window marks it.                           *)
LEMMA MarkedFlow ==
    ASSUME NEW S \in Scenarios, NEW f \in S, NEW n \in BOOLEAN
    PROVE  LET g == [f EXCEPT !.new = n]
           IN  g \in Handed /\ FlowId(g) = FlowId(f) /\ g.new = n
<1>1. {"proto", "src", "sport", "dst", "dport", "new"} \subseteq DOMAIN f
  BY FlowAssumption DEF Fields
<1>2. QED
  BY <1>1 DEF Handed, FlowId

(* The ids of the flows that came new, and those whose ports tell which    *)
(* side is the server.                                                     *)
NewIds(fs) == {FlowId(f) : f \in {h \in fs : h.new}}

Told(ids) == {k \in ids : k[4] # k[6]}

TallyType ==
    /\ network \in Scenarios /\ phase \in {"gather", "written", "stopped"}
    /\ batch \in Seq(Handed)
    /\ \A i, j \in DOMAIN batch : FlowId(batch[i]) = FlowId(batch[j]) => i = j
    /\ IsFiniteSet(known) /\ missed \subseteq known
    /\ \A f \in ToSet(batch) : FlowId(f) \in known
    /\ toServer \in Nat /\ toClient \in Nat /\ dropped \in Nat /\ lost \in Nat

(* The tap has counted what is known, but for the batch that is not yet    *)
(* accounted for and what the cap has dropped.  While the alerts are       *)
(* written, the flows of the batch that were dropped are missed already.   *)
TallyInv ==
    /\ TallyType
    /\ phase = "gather" =>
         /\ \A f \in ToSet(batch) : f.new => FlowId(f) \notin missed
         /\ dropped = lost /\ status.dropped = lost
    /\ phase = "written" =>
         /\ \A f \in ToSet(batch) : f.new =>
               (FlowId(f) \in missed <=> f \notin ToSet(Capped(batch)))
         /\ lost = dropped + Excess
         /\ \A w \in written : lost > 0 <=> "drops" \in w.notes
    /\ phase # "stopped" =>
         toServer + toClient = Cardinality(Told(known \ (NewIds(ToSet(batch)) \cup missed)))

LEMMA BatchFacts ==
    ASSUME TallyType
    PROVE  /\ Weighed(batch) /\ Excess \in Nat
           /\ ToSet(Capped(batch)) \subseteq ToSet(batch)
           /\ ToSet(batch) \subseteq Handed /\ IsFiniteSet(ToSet(batch))
           /\ \A f, g \in ToSet(batch) : FlowId(f) = FlowId(g) => f = g
<1>1. batch \in Seq(Handed)
  BY DEF TallyType
<1>2. \A i \in DOMAIN batch : batch[i] \in Handed
  BY <1>1
<1>3. Weighed(batch)
  BY <1>2, HandedFacts DEF Weighed
<1>4. Excess \in Nat /\ ToSet(Capped(batch)) \subseteq ToSet(batch)
  BY <1>1, <1>3, CappedFacts DEF Excess
<1>5. DOMAIN batch = 1 .. Len(batch) /\ Len(batch) \in Nat
  BY <1>1
<1>6. IsFiniteSet(DOMAIN batch)
  BY <1>5, FS_Interval
<1>7. IsFiniteSet(ToSet(batch))
  <2>1. batch \in [DOMAIN batch -> ToSet(batch)]
    BY <1>1 DEF ToSet
  <2>2. \A f \in ToSet(batch) : \E i \in DOMAIN batch : batch[i] = f
    BY DEF ToSet
  <2>3. batch \in Surjection(DOMAIN batch, ToSet(batch))
    BY <2>1, <2>2 DEF Surjection
  <2>4. QED
    BY <1>6, <2>3, FS_Surjection
<1>8. QED
  BY <1>2, <1>3, <1>4, <1>7 DEF ToSet, TallyType

LEMMA TallyInit == Init => TallyInv
<1> SUFFICES ASSUME Init PROVE TallyInv
  OBVIOUS
<1>1. /\ batch = <<>> /\ known = {} /\ missed = {} /\ written = {} /\ phase = "gather"
      /\ toServer = 0 /\ toClient = 0 /\ dropped = 0 /\ lost = 0 /\ status = NoStatus
      /\ network \in Scenarios
  BY DEF Init
<1>2. DOMAIN batch = {} /\ batch \in Seq(Handed)
  BY <1>1
<1>3. ToSet(batch) = {}
  BY <1>2 DEF ToSet
<1>4. Told(known \ (NewIds(ToSet(batch)) \cup missed)) = {}
  BY <1>1 DEF Told
<1>5. IsFiniteSet(known) /\ Cardinality({}) = 0
  BY <1>1, FS_EmptySet
<1>6. TallyType
  BY <1>1, <1>2, <1>3, <1>5 DEF TallyType
<1>7. status.dropped = 0
  BY <1>1 DEF NoStatus
<1>8. 0 + 0 = Cardinality(Told(known \ (NewIds(ToSet(batch)) \cup missed)))
  BY <1>4, <1>5
<1>9. \A f \in ToSet(batch) : f.new => FlowId(f) \notin missed
  BY <1>3
<1>10. QED
  BY <1>1, <1>6, <1>7, <1>8, <1>9 DEF TallyInv

(* One more flow: counted later if it is new, before if it is not.         *)
LEMMA HandOverTally == ASSUME TallyInv, HandOver PROVE TallyInv'
<1>1. PICK f \in network :
        /\ FlowId(f) \notin {FlowId(h) : h \in ToSet(batch)}
        /\ batch' = Append(batch, [f EXCEPT !.new = FlowId(f) \notin known])
        /\ known' = known \cup {FlowId(f)}
  BY DEF HandOver
<1> DEFINE n == FlowId(f) \notin known
           g == [f EXCEPT !.new = n]
           id == FlowId(f)
<1>2. g \in Handed /\ FlowId(g) = id /\ (g.new <=> n)
  BY MarkedFlow DEF TallyInv, TallyType
<1>3. batch \in Seq(Handed)
  BY DEF TallyInv, TallyType
<1>4. /\ batch' = Append(batch, g) /\ known' = known \cup {id}
      /\ \A h \in ToSet(batch) : FlowId(h) # id
  BY <1>1
<1>5. n <=> id \notin known
  OBVIOUS
<1> HIDE DEF n, g, id
<1>6. /\ batch' \in Seq(Handed) /\ Len(batch') = Len(batch) + 1 /\ Len(batch) \in Nat
      /\ \A i \in 1 .. Len(batch) : batch'[i] = batch[i]
      /\ batch'[Len(batch) + 1] = g
  BY <1>2, <1>3, <1>4
<1>7. DOMAIN batch = 1 .. Len(batch) /\ DOMAIN batch' = 1 .. Len(batch) \cup {Len(batch) + 1}
  BY <1>3, <1>6
<1>8. ToSet(batch') = ToSet(batch) \cup {g}
  BY <1>6, <1>7 DEF ToSet
<1>9. /\ UNCHANGED <<network, phase, toServer, toClient, message, dropped, written, status,
                     missed, lost>>
      /\ phase = "gather"
  BY DEF HandOver, tap
<1>10. IsFiniteSet(known')
  BY <1>4, FS_AddElement DEF TallyInv, TallyType
<1>11. TallyType'
  <2>1. \A i, j \in DOMAIN batch' : FlowId(batch'[i]) = FlowId(batch'[j]) => i = j
    <3>1. \A i \in 1 .. Len(batch) : FlowId(batch[i]) # id
      BY <1>4, <1>7 DEF ToSet
    <3>2. \A i, j \in 1 .. Len(batch) : FlowId(batch[i]) = FlowId(batch[j]) => i = j
      BY <1>7 DEF TallyInv, TallyType
    <3>3. QED
      BY <1>2, <1>6, <1>7, <3>1, <3>2
  <2>2. missed' \subseteq known' /\ \A h \in ToSet(batch') : FlowId(h) \in known'
    BY <1>2, <1>4, <1>8, <1>9 DEF TallyInv, TallyType
  <2>3. QED
    BY <1>6, <1>9, <1>10, <2>1, <2>2 DEF TallyInv, TallyType
<1>12. \A h \in ToSet(batch') : h.new => FlowId(h) \notin missed'
  BY <1>2, <1>5, <1>8, <1>9 DEF TallyInv, TallyType
<1>13. NewIds(ToSet(batch')) = NewIds(ToSet(batch)) \cup (IF n THEN {id} ELSE {})
  BY <1>2, <1>8 DEF NewIds
<1>14. known' \ (NewIds(ToSet(batch')) \cup missed') = known \ (NewIds(ToSet(batch)) \cup missed)
  <2>1. CASE n
    BY <1>4, <1>5, <1>9, <1>13, <2>1
  <2>2. CASE ~n
    BY <1>4, <1>5, <1>9, <1>13, <2>2
  <2>3. QED
    BY <2>1, <2>2
<1>15. QED
  BY <1>9, <1>11, <1>12, <1>14 DEF TallyInv

(* The alerts are written: what the cap drops is missed from here on.      *)
LEMMA WriteTally == ASSUME TallyInv, WriteAlerts PROVE TallyInv'
<1> DEFINE B == ToSet(batch)
           C == ToSet(Capped(batch))
<1>1. /\ UNCHANGED <<network, batch, known, toServer, toClient, message, dropped, status>>
      /\ phase = "gather" /\ phase' = "written" /\ lost' = lost + Excess
      /\ missed' = missed \cup {FlowId(f) : f \in {h \in B \ C : h.new}}
  BY DEF WriteAlerts, tap
<1>2. /\ TallyType /\ C \subseteq B /\ B \subseteq Handed /\ Excess \in Nat
      /\ \A f, g \in B : FlowId(f) = FlowId(g) => f = g
      /\ \A f \in B : FlowId(f) \in known
      /\ \A f \in B : f.new => FlowId(f) \notin missed
      /\ lost = dropped /\ lost \in Nat /\ dropped \in Nat
  BY <1>1, BatchFacts DEF TallyInv, TallyType
<1>3. \A w \in written' : lost' > 0 <=> "drops" \in w.notes
  <2> SUFFICES ASSUME NEW w \in written' PROVE lost' > 0 <=> "drops" \in w.notes
    OBVIOUS
  <2>1. w.notes = CoverageNotes(Snapshot, dropped + Excess)
    BY DEF WriteAlerts
  <2>2. "drops" \in w.notes <=> dropped + Excess > 0
    BY <2>1 DEF CoverageNotes
  <2>3. QED
    BY <1>1, <1>2, <2>2
<1>4. Excess' = Excess /\ ToSet(batch') = B /\ ToSet(Capped(batch')) = C
  BY <1>1 DEF Excess
<1>5. missed' \subseteq known
  BY <1>1, <1>2 DEF TallyType
<1>6. NewIds(B) \cup missed' = NewIds(B) \cup missed
  BY <1>1 DEF NewIds
<1> HIDE DEF B, C
<1>7. \A f \in B : f.new => (FlowId(f) \in missed' <=> f \notin C)
  BY <1>1, <1>2
<1>8. TallyType'
  BY <1>1, <1>2, <1>5 DEF TallyType
<1>9. QED
  BY <1>1, <1>2, <1>3, <1>4, <1>6, <1>7, <1>8 DEF TallyInv, B

(* The new flows of the batch are counted, as far as they were scored.     *)
LEMMA CountedFlows ==
    ASSUME TallyInv, phase = "written"
    PROVE  LET S == {f \in ToSet(Capped(batch)) : f.new}
               up   == {f \in S : f.dport < f.sport}
               down == {f \in S : f.dport > f.sport}
           IN  /\ Cardinality(up) \in Nat /\ Cardinality(down) \in Nat
               /\ toServer + toClient + Cardinality(up) + Cardinality(down)
                    = Cardinality(Told(known \ missed))
<1> DEFINE B == ToSet(batch)
           C == ToSet(Capped(batch))
           S == {f \in C : f.new}
           up   == {f \in S : f.dport < f.sport}
           down == {f \in S : f.dport > f.sport}
           ids == {FlowId(f) : f \in up \cup down}
           before == Told(known \ (NewIds(B) \cup missed))
           after  == Told(known \ missed)
<1>1. /\ TallyType /\ C \subseteq B /\ B \subseteq Handed /\ IsFiniteSet(B)
      /\ \A f, g \in B : FlowId(f) = FlowId(g) => f = g
      /\ \A f \in B : FlowId(f) \in known
      /\ \A f \in B : f.new => (FlowId(f) \in missed <=> f \notin C)
      /\ IsFiniteSet(known) /\ toServer \in Nat /\ toClient \in Nat
      /\ toServer + toClient = Cardinality(before)
  BY BatchFacts DEF TallyInv, TallyType
<1>2. \A f \in B : /\ FlowId(f)[4] = f.sport /\ FlowId(f)[6] = f.dport
                    /\ f.sport \in Nat /\ f.dport \in Nat
  BY <1>1, HandedFacts
<1> HIDE DEF B, C
<1>3. IsFiniteSet(up) /\ IsFiniteSet(down) /\ IsFiniteSet(up \cup down)
  <2>1. up \subseteq B /\ down \subseteq B /\ up \cup down \subseteq B
    BY <1>1
  <2>2. QED
    BY <1>1, <2>1, FS_Subset
<1>4. Cardinality(up) + Cardinality(down) = Cardinality(up \cup down)
  <2>1. up \cap down = {}
    <3>1. \A f \in up : f.dport < f.sport /\ f.dport \in Nat /\ f.sport \in Nat
      BY <1>1, <1>2
    <3>2. \A f \in up : f \notin down
      BY <3>1
    <3>3. QED
      BY <3>2
  <2> HIDE DEF up, down
  <2>2. /\ Cardinality(up \cup down) = Cardinality(up) + Cardinality(down) - Cardinality({})
        /\ Cardinality({}) = 0
    BY <1>3, <2>1, FS_Union, FS_EmptySet
  <2>3. Cardinality(up) \in Nat /\ Cardinality(down) \in Nat
    BY <1>3, FS_CardinalityType
  <2>4. QED
    BY <2>2, <2>3
<1>5. \A f \in B : f \in up \cup down <=> f \in C /\ f.new /\ f.sport # f.dport
  BY <1>1, <1>2
<1>6. up \cup down \subseteq B
  BY <1>1
<1> HIDE DEF up, down, S
<1>7. Cardinality(ids) = Cardinality(up \cup down)
  <2> DEFINE g == [f \in up \cup down |-> FlowId(f)]
  <2>1. g \in Bijection(up \cup down, ids)
    <3>1. \A f, h \in up \cup down : g[f] = g[h] => f = h
      BY <1>1, <1>6
    <3>2. g \in [up \cup down -> ids] /\ \A k \in ids : \E f \in up \cup down : g[f] = k
      OBVIOUS
    <3> HIDE DEF g, ids
    <3>3. QED
      BY <3>1, <3>2 DEF Bijection, Injection, IsInjective, Surjection
  <2> HIDE DEF g, ids
  <2>2. ExistsBijection(up \cup down, ids)
    BY <2>1 DEF ExistsBijection
  <2>3. QED
    BY <1>3, <2>2, FS_Bijection
<1>8. IsFiniteSet(ids) /\ IsFiniteSet(before) /\ IsFiniteSet(after)
  <2>1. ids \subseteq known /\ before \subseteq known /\ after \subseteq known
    BY <1>1, <1>6 DEF Told
  <2>2. QED
    BY <1>1, <2>1, FS_Subset
<1>9. ids \subseteq NewIds(B) /\ ids \cap before = {}
  BY <1>5, <1>6 DEF NewIds, Told
<1>10. after = before \cup ids
  <2>1. ASSUME NEW k \in after PROVE k \in before \cup ids
    <3>1. k \in known /\ k \notin missed /\ k[4] # k[6]
      BY <2>1 DEF Told
    <3>2. CASE k \in NewIds(B)
      <4>1. PICK f \in B : f.new /\ k = FlowId(f)
        BY <3>2 DEF NewIds
      <4>2. f \in up \cup down
        BY <1>1, <1>2, <1>5, <3>1, <4>1
      <4>3. QED
        BY <4>1, <4>2
    <3>3. CASE k \notin NewIds(B)
      BY <3>1, <3>3 DEF Told
    <3>4. QED
      BY <3>2, <3>3
  <2>2. before \subseteq after
    BY DEF Told
  <2>3. ASSUME NEW k \in ids PROVE k \in after
    <3>1. PICK f \in up \cup down : k = FlowId(f)
      OBVIOUS
    <3>2. f \in B /\ f \in C /\ f.new /\ f.sport # f.dport
      BY <1>5, <1>6
    <3>3. k \in known /\ k \notin missed /\ k[4] # k[6]
      BY <1>1, <1>2, <3>1, <3>2
    <3>4. QED
      BY <3>3 DEF Told
  <2>4. QED
    BY <2>1, <2>2, <2>3
<1> HIDE DEF ids, before, after
<1>11. Cardinality(after) = Cardinality(before) + Cardinality(ids)
  <2>1. Cardinality(before \cup ids)
           = Cardinality(before) + Cardinality(ids) - Cardinality(before \cap ids)
    BY <1>8, FS_Union
  <2>2. Cardinality(before \cap ids) = 0
    <3>1. before \cap ids = {}
      BY <1>9
    <3>2. QED
      BY <3>1, FS_EmptySet
  <2>3. Cardinality(before) \in Nat /\ Cardinality(ids) \in Nat
    BY <1>8, FS_CardinalityType
  <2>4. QED
    BY <1>10, <2>1, <2>2, <2>3
<1>12. Cardinality(up) \in Nat /\ Cardinality(down) \in Nat
  BY <1>3, FS_CardinalityType
<1>13. QED
  BY <1>1, <1>4, <1>7, <1>11, <1>12 DEF up, down, S, C, after

LEMMA AccountTally == ASSUME TallyInv, Account PROVE TallyInv'
<1> DEFINE S == {f \in ToSet(Capped(batch)) : f.new}
           up   == {f \in S : f.dport < f.sport}
           down == {f \in S : f.dport > f.sport}
<1>1. /\ UNCHANGED <<network, known, missed, lost>> /\ batch' = <<>>
      /\ phase = "written" /\ phase' = "gather"
      /\ dropped' = dropped + Excess /\ status'.dropped = dropped'
      /\ toServer' = toServer + Cardinality(up)
      /\ toClient' = toClient + Cardinality(down)
  BY DEF Account, Note, Counted, Status
<1>2. /\ Cardinality(up) \in Nat /\ Cardinality(down) \in Nat
      /\ toServer + toClient + Cardinality(up) + Cardinality(down)
           = Cardinality(Told(known \ missed))
  BY <1>1, CountedFlows
<1> HIDE DEF up, down
<1>3. /\ TallyType /\ Excess \in Nat /\ lost = dropped + Excess
      /\ dropped \in Nat /\ toServer \in Nat /\ toClient \in Nat
  BY <1>1, BatchFacts DEF TallyInv, TallyType
<1>4. ToSet(batch') = {} /\ NewIds(ToSet(batch')) = {}
  BY <1>1 DEF ToSet, NewIds
<1>5. known' \ (NewIds(ToSet(batch')) \cup missed') = known \ missed
  BY <1>1, <1>4
<1>6. toServer' \in Nat /\ toClient' \in Nat /\ dropped' \in Nat
      /\ toServer' + toClient' = Cardinality(Told(known \ missed))
  BY <1>1, <1>2, <1>3
<1>7. TallyType'
  <2>1. DOMAIN batch' = {} /\ batch' \in Seq(Handed)
    BY <1>1
  <2>2. QED
    BY <1>1, <1>3, <1>4, <1>6, <2>1 DEF TallyType
<1>8. QED
  BY <1>1, <1>3, <1>4, <1>5, <1>6, <1>7 DEF TallyInv

LEMMA TallyStep == ASSUME TallyInv, [Next]_vars PROVE TallyInv'
<1>1. CASE Interrupt
  <2>1. /\ UNCHANGED <<network, batch, known, toServer, toClient, dropped, missed, lost>>
        /\ phase' = "stopped"
    BY <1>1 DEF Interrupt, tap
  <2>2. QED
    BY <2>1 DEF TallyInv, TallyType
<1>2. CASE UNCHANGED vars
  BY <1>2 DEF vars, tap, TallyInv, TallyType, Excess
<1>3. QED
  BY <1>1, <1>2, HandOverTally, WriteTally, AccountTally DEF Next

(* For any traffic and caps: every alert and every status since a flow was *)
(* dropped says so, and the tap has counted every conversation once, but   *)
(* for those the cap dropped when they were new.                           *)
THEOREM HealthIsKept == Spec => []HealthIsTrue
<1>1. ASSUME TallyInv PROVE HealthIsTrue
  <2>1. DropsDeclared
    BY <1>1 DEF TallyInv, DropsDeclared
  <2>2. ConversationsCountedOnce
    BY <1>1 DEF TallyInv, ConversationsCountedOnce, Told, NewIds
  <2>3. QED
    BY <2>1, <2>2 DEF HealthIsTrue
<1>2. QED
  BY <1>1, TallyInit, TallyStep, PTL DEF Spec

-----------------------------------------------------------------------------
(* Numbers: the least of a set, the greatest, the confidence of a ratio.   *)
LEMMA LeastNat ==
    ASSUME NEW S \in SUBSET Nat, S # {}
    PROVE  \E m \in S : \A n \in S : m <= n
<1> DEFINE R == OpToRel(<, Nat)
<1>1. PICK m \in S : \A n \in S : ~(<<n, m>> \in R)
  BY NatLessThanWellFounded, WFMin
<1>2. \A n \in S : ~(n < m)
  BY <1>1 DEF OpToRel
<1>3. QED
  BY <1>2

LEMMA MaxIsOne ==
    ASSUME NEW S \in SUBSET Int, NEW m \in S, \A n \in S : n <= m
    PROVE  Max(S) \in S /\ \A n \in S : n <= Max(S)
<1>1. \A y \in S : m >= y
  OBVIOUS
<1>2. Max(S) \in S /\ \A y \in S : Max(S) >= y
  BY <1>1 DEF Max
<1>3. QED
  BY <1>2

LEMMA MaxOfTwo ==
    ASSUME NEW a \in Int, NEW b \in Int
    PROVE  Max({a, b}) \in {a, b} /\ a <= Max({a, b}) /\ b <= Max({a, b})
<1>1. CASE a <= b
  BY <1>1, MaxIsOne
<1>2. CASE ~(a <= b)
  BY <1>2, MaxIsOne
<1>3. QED
  BY <1>1, <1>2

LEMMA MaxOfPercents ==
    ASSUME NEW S \in SUBSET (0 .. 100), S # {}
    PROVE  Max(S) \in S
<1> DEFINE T == {100 - x : x \in S}
<1>1. T \in SUBSET Nat /\ T # {}
  <2>1. \A x \in S : 100 - x \in Nat
    OBVIOUS
  <2>2. QED
    BY <2>1
<1>2. PICK t \in T : \A u \in T : t <= u
  BY <1>1, LeastNat
<1>3. PICK m \in S : t = 100 - m
  OBVIOUS
<1>4. \A n \in S : n <= m
  <2> TAKE n \in S
  <2>1. t <= 100 - n
    BY <1>2
  <2>2. n \in Int /\ m \in Int
    OBVIOUS
  <2>3. QED
    BY <1>3, <2>1, <2>2
<1>5. S \in SUBSET Int
  OBVIOUS
<1>6. QED
  BY <1>4, <1>5, MaxIsOne

(* What is at its threshold is believed at least by half.                  *)
LEMMA RatioFacts ==
    ASSUME NEW v \in Int, NEW t \in Int, NEW c \in {14, 30, 40, 50}
    PROVE  RatioConfidence(v, t, c) \in 50 .. 95
<1>1. CASE t <= 0 \/ v <= t
  BY <1>1 DEF RatioConfidence
<1>2. CASE ~(t <= 0 \/ v <= t)
  <2> DEFINE x == 450 * (v - t)
             y == t * (c - 10)
             q == x \div y
  <2>1. x \in Nat /\ y \in Nat /\ y > 0
    BY <1>2
  <2> HIDE DEF x, y
  <2>2. q \in Int /\ q >= 0
    BY <2>1
  <2> HIDE DEF q
  <2>3. Clip(q, 45) \in 0 .. 45
    BY <2>2 DEF Clip
  <2>4. RatioConfidence(v, t, c) = 50 + Clip(q, 45)
    BY <1>2 DEF RatioConfidence, q, x, y
  <2>5. QED
    BY <2>3, <2>4
<1>3. QED
  BY <1>1, <1>2

-----------------------------------------------------------------------------
(* The sum of w over every subset of g.                                    *)
Sums(F, g, w) ==
    F = [s \in SUBSET g |->
            IF s = {} THEN 0
            ELSE w[CHOOSE x \in s : TRUE] + F[s \ {CHOOSE x \in s : TRUE}]]

One(s) == CHOOSE x \in s : TRUE

LEMMA OneLess ==
    ASSUME NEW g, IsFiniteSet(g), NEW s \in SUBSET g, s # {}
    PROVE  /\ One(s) \in s /\ One(s) \in g /\ s \ {One(s)} \in SUBSET g
           /\ Cardinality(s) \in Nat /\ Cardinality(s \ {One(s)}) = Cardinality(s) - 1
<1>1. One(s) \in s
  BY DEF One
<1>2. IsFiniteSet(s)
  BY FS_Subset
<1> HIDE DEF One
<1>3. QED
  BY <1>1, <1>2, FS_RemoveElement, FS_CardinalityType

LEMMA SumsExist ==
    ASSUME NEW g, IsFiniteSet(g), NEW w \in [g -> Nat]
    PROVE  \E F : Sums(F, g, w)
<1> DEFINE Right(F, s) == IF s = {} THEN 0 ELSE w[One(s)] + F[s \ {One(s)}]
           Upto(F, n) == \A s \in SUBSET g : Cardinality(s) <= n => F[s] = Right(F, s)
           Missing == {n \in Nat : ~\E F \in [SUBSET g -> Nat] : Upto(F, n)}
<1>1. ASSUME Missing # {} PROVE FALSE
  <2>1. PICK m \in Missing : \A n \in Missing : m <= n
    BY <1>1, LeastNat
  <2>2. m # 0
    <3> DEFINE Z == [s \in SUBSET g |-> 0]
    <3>1. \A s \in SUBSET g : Cardinality(s) <= 0 => s = {}
      <4> TAKE s \in SUBSET g
      <4>1. IsFiniteSet(s)
        BY FS_Subset
      <4>2. Cardinality(s) \in Nat /\ (Cardinality(s) = 0 <=> s = {})
        BY <4>1, FS_CardinalityType, FS_EmptySet
      <4>3. QED
        BY <4>2
    <3>2. Z \in [SUBSET g -> Nat] /\ Upto(Z, 0)
      BY <3>1
    <3> HIDE DEF Z, Upto
    <3>3. 0 \notin Missing
      BY <3>2
    <3> HIDE DEF Missing
    <3>4. QED
      BY <2>1, <3>3
  <2>3. m - 1 \in Nat /\ m - 1 \notin Missing
    <3>1. m \in Nat /\ m - 1 \in Nat /\ ~(m <= m - 1)
      BY <2>1, <2>2
    <3> HIDE DEF Missing
    <3>2. QED
      BY <2>1, <3>1
  <2>4. PICK F \in [SUBSET g -> Nat] : Upto(F, m - 1)
    BY <2>3
  <2> DEFINE G == [s \in SUBSET g |-> Right(F, s)]
  <2>5. G \in [SUBSET g -> Nat]
    <3>1. ASSUME NEW s \in SUBSET g PROVE Right(F, s) \in Nat
      <4>1. CASE s = {}
        BY <4>1
      <4>2. CASE s # {}
        <5>1. One(s) \in g /\ s \ {One(s)} \in SUBSET g
          BY <4>2, OneLess
        <5>2. w[One(s)] \in Nat /\ F[s \ {One(s)}] \in Nat
          BY <5>1
        <5>3. QED
          BY <4>2, <5>2
      <4>3. QED
        BY <4>1, <4>2
    <3> HIDE DEF Right
    <3>2. QED
      BY <3>1
  <2>6. Upto(G, m)
    <3> SUFFICES ASSUME NEW s \in SUBSET g, Cardinality(s) <= m PROVE G[s] = Right(G, s)
      OBVIOUS
    <3>1. CASE s = {}
      BY <3>1
    <3>2. CASE s # {}
      <4> DEFINE r == s \ {One(s)}
      <4>1. r \in SUBSET g /\ Cardinality(s) \in Nat /\ Cardinality(r) = Cardinality(s) - 1
        BY <3>2, OneLess
      <4>2. Cardinality(r) <= m - 1
        BY <4>1
      <4>3. F[r] = Right(F, r)
        BY <2>4, <4>1, <4>2
      <4>4. G[r] = Right(F, r)
        BY <4>1
      <4>5. G[s] = w[One(s)] + F[r]
        BY <3>2
      <4>6. Right(G, s) = w[One(s)] + G[r]
        BY <3>2
      <4>7. QED
        BY <4>3, <4>4, <4>5, <4>6
    <3>3. QED
      BY <3>1, <3>2
  <2>7. QED
    BY <2>1, <2>5, <2>6
<1>2. Cardinality(g) \in Nat
  BY FS_CardinalityType
<1>3. PICK F \in [SUBSET g -> Nat] : Upto(F, Cardinality(g))
  BY <1>1, <1>2
<1>4. \A s \in SUBSET g : Cardinality(s) <= Cardinality(g)
  BY FS_Subset
<1>5. \A s \in SUBSET g : F[s] = Right(F, s)
  BY <1>3, <1>4
<1>6. F = [s \in SUBSET g |-> Right(F, s)]
  BY <1>5
<1>7. Sums(F, g, w)
  BY <1>6 DEF Sums, One
<1>8. QED
  BY <1>7

LEMMA SumsAreNat ==
    ASSUME NEW g, IsFiniteSet(g), NEW w \in [g -> Nat], NEW F, Sums(F, g, w), NEW t \in SUBSET g
    PROVE  F[t] \in Nat
<1> DEFINE Bad == {n \in Nat : \E s \in SUBSET g : F[s] \notin Nat /\ Cardinality(s) = n}
<1>1. \A s \in SUBSET g : F[s] = IF s = {} THEN 0 ELSE w[One(s)] + F[s \ {One(s)}]
  BY DEF Sums, One
<1>2. ASSUME Bad # {} PROVE FALSE
  <2>1. PICK m \in Bad : \A n \in Bad : m <= n
    BY <1>2, LeastNat
  <2>2. PICK s \in SUBSET g : F[s] \notin Nat /\ Cardinality(s) = m
    BY <2>1
  <2>3. s # {}
    BY <1>1, <2>2
  <2> DEFINE r == s \ {One(s)}
  <2>4. /\ One(s) \in g /\ r \in SUBSET g
        /\ Cardinality(s) \in Nat /\ Cardinality(r) = Cardinality(s) - 1
    BY <2>3, OneLess
  <2>5. Cardinality(r) \in Nat
    BY <2>4, FS_Subset, FS_CardinalityType
  <2>6. F[r] \in Nat
    BY <2>1, <2>2, <2>4, <2>5
  <2>7. F[s] = w[One(s)] + F[r] /\ w[One(s)] \in Nat
    BY <1>1, <2>3, <2>4
  <2>8. QED
    BY <2>2, <2>6, <2>7
<1>3. IsFiniteSet(t) /\ Cardinality(t) \in Nat
  BY FS_Subset, FS_CardinalityType
<1>4. QED
  BY <1>2, <1>3

(* Any element may be taken out of a sum, not only the one it was added by. *)
LEMMA SumLess ==
    ASSUME NEW g, IsFiniteSet(g), NEW w \in [g -> Nat], NEW F, Sums(F, g, w),
           NEW t \in SUBSET g, NEW y \in t
    PROVE  F[t] = w[y] + F[t \ {y}]
<1> DEFINE Bad == {n \in Nat : \E s \in SUBSET g : \E x \in s :
                     F[s] # w[x] + F[s \ {x}] /\ Cardinality(s) = n}
<1>1. \A s \in SUBSET g : s # {} => F[s] = w[One(s)] + F[s \ {One(s)}]
  BY DEF Sums, One
<1>2. ASSUME Bad # {} PROVE FALSE
  <2>1. PICK m \in Bad : \A n \in Bad : m <= n
    BY <1>2, LeastNat
  <2>2. PICK s \in SUBSET g : \E x \in s : F[s] # w[x] + F[s \ {x}] /\ Cardinality(s) = m
    BY <2>1
  <2>3. PICK x \in s : F[s] # w[x] + F[s \ {x}] /\ Cardinality(s) = m
    BY <2>2
  <2> DEFINE o == One(s)
             r == s \ {o}
             q == s \ {x}
             b == s \ {o, x}
  <2>4. /\ o \in s /\ r \in SUBSET g /\ q \in SUBSET g /\ b \in SUBSET g
        /\ Cardinality(s) \in Nat /\ Cardinality(r) = Cardinality(s) - 1
    BY OneLess
  <2>5. Cardinality(q) = Cardinality(s) - 1 /\ Cardinality(q) \in Nat
    BY FS_Subset, FS_RemoveElement, FS_CardinalityType
  <2>6. F[s] = w[o] + F[r]
    BY <1>1
  <2> HIDE DEF o
  <2>7. x # o /\ x \in r /\ o \in q /\ r \ {x} = b /\ q \ {o} = b
    BY <2>3, <2>4, <2>6
  <2> HIDE DEF r, q, b
  <2>8. Cardinality(r) \in Nat /\ Cardinality(r) \notin Bad /\ Cardinality(q) \notin Bad
    <3>1. m \in Nat /\ Cardinality(r) \in Nat /\ ~(m <= Cardinality(r)) /\ Cardinality(q) = Cardinality(r)
      BY <2>1, <2>3, <2>4, <2>5
    <3> HIDE DEF Bad
    <3>2. QED
      BY <2>1, <3>1
  <2>9. F[r] = w[x] + F[b]
    BY <2>4, <2>7, <2>8
  <2>10. F[q] = w[o] + F[b]
    BY <2>4, <2>5, <2>7, <2>8
  <2>11. w[x] \in Nat /\ w[o] \in Nat /\ F[b] \in Nat
    BY <2>4, SumsAreNat
  <2>12. F[s] = w[x] + F[q]
    BY <2>6, <2>9, <2>10, <2>11
  <2>13. QED
    BY <2>3, <2>12 DEF q
<1>3. IsFiniteSet(t) /\ Cardinality(t) \in Nat
  BY FS_Subset, FS_CardinalityType
<1>4. QED
  BY <1>2, <1>3

(* Sums do not depend on what is added up, nor in which order, but on the  *)
(* weights: phi takes the elements of t to those of u.                     *)
LEMMA SumsAgree ==
    ASSUME NEW g, IsFiniteSet(g), NEW w \in [g -> Nat], NEW F, Sums(F, g, w), NEW t \in SUBSET g,
           NEW k, IsFiniteSet(k), NEW v \in [k -> Nat], NEW G, Sums(G, k, v), NEW u \in SUBSET k,
           NEW phi \in Bijection(t, u), \A x \in t : v[phi[x]] = w[x]
    PROVE  F[t] = G[u]
<1> DEFINE Img(s) == {phi[x] : x \in s}
           Bad == {n \in Nat : \E s \in SUBSET t : F[s] # G[Img(s)] /\ Cardinality(s) = n}
<1>1. /\ \A x \in t : phi[x] \in u
      /\ \A x, y \in t : phi[x] = phi[y] => x = y
      /\ \A z \in u : \E x \in t : phi[x] = z
  <2>1. phi \in Injection(t, u) /\ phi \in Surjection(t, u)
    BY DEF Bijection
  <2>2. phi \in [t -> u] /\ \A x, y \in t : phi[x] = phi[y] => x = y
    BY <2>1 DEF Injection, IsInjective
  <2>3. \A z \in u : \E x \in t : phi[x] = z
    BY <2>1 DEF Surjection
  <2>4. QED
    BY <2>2, <2>3
<1>2. ASSUME Bad # {} PROVE FALSE
  <2>1. PICK m \in Bad : \A n \in Bad : m <= n
    BY <1>2, LeastNat
  <2>2. PICK s \in SUBSET t : F[s] # G[Img(s)] /\ Cardinality(s) = m
    BY <2>1
  <2>3. s # {}
    <3>1. ASSUME s = {} PROVE FALSE
      <4>1. Img(s) = {}
        BY <3>1
      <4>2. F[{}] = 0 /\ G[{}] = 0
        BY DEF Sums
      <4>3. QED
        BY <2>2, <3>1, <4>1, <4>2
    <3>2. QED
      BY <3>1
  <2>4. PICK x \in s : TRUE
    BY <2>3
  <2> DEFINE r == s \ {x}
  <2>5. r \in SUBSET t /\ Cardinality(r) = Cardinality(s) - 1 /\ Cardinality(r) \in Nat
    BY FS_Subset, FS_RemoveElement, FS_CardinalityType
  <2>6. F[r] = G[Img(r)]
    <3>1. m \in Nat /\ ~(m <= Cardinality(r))
      BY <2>1, <2>2, <2>5
    <3>2. Cardinality(r) \notin Bad
      <4> HIDE DEF Bad
      <4>1. QED
        BY <2>1, <3>1
    <3>3. QED
      BY <2>5, <3>2
  <2>7. Img(s) \in SUBSET k /\ phi[x] \in Img(s) /\ Img(s) \ {phi[x]} = Img(r)
    BY <1>1
  <2>8. F[s] = w[x] + F[r]
    BY SumLess
  <2>9. G[Img(s)] = v[phi[x]] + G[Img(s) \ {phi[x]}]
    <3> DEFINE a == Img(s)
               z == phi[x]
    <3>1. a \in SUBSET k /\ z \in a
      BY <2>7
    <3> HIDE DEF a, z, Bad, Img, r
    <3>2. G[a] = v[z] + G[a \ {z}]
      BY <3>1, SumLess
    <3>3. QED
      BY <3>2 DEF a, z
  <2>10. QED
    BY <2>2, <2>6, <2>7, <2>8, <2>9
<1>3. IsFiniteSet(t) /\ Cardinality(t) \in Nat
  BY FS_Subset, FS_CardinalityType
<1>4. F[t] = G[Img(t)]
  BY <1>2, <1>3
<1>5. Img(t) = u
  BY <1>1
<1>6. QED
  BY <1>4, <1>5

(* What the detectors add up is a sum over their group.                    *)
LEMMA PacketsSum ==
    ASSUME NEW g, IsFiniteSet(g), \A f \in g : f.packets \in Nat
    PROVE  LET w == [f \in g |-> f.packets]
           IN  w \in [g -> Nat] /\ \E F : Sums(F, g, w) /\ Packets(g) = F[g]
<1> DEFINE w == [f \in g |-> f.packets]
           Iter(F) == F = [s \in SUBSET g |->
                             IF s = {} THEN 0
                             ELSE (CHOOSE x \in s : TRUE).packets + F[s \ {CHOOSE x \in s : TRUE}]]
           iter == CHOOSE F : Iter(F)
<1>1. Packets(g) = iter[g]
  BY DEF Packets, MapThenSumSet, MapThenFoldSet
<1>2. \A F : Iter(F) <=> Sums(F, g, w)
  <2>1. \A s \in SUBSET g : s # {} => w[CHOOSE x \in s : TRUE] = (CHOOSE x \in s : TRUE).packets
    OBVIOUS
  <2> HIDE DEF w
  <2>2. QED
    BY <2>1 DEF Sums
<1>3. w \in [g -> Nat]
  OBVIOUS
<1> HIDE DEF Iter, w
<1>4. Sums(iter, g, w)
  BY <1>2, <1>3, SumsExist
<1>5. QED
  BY <1>1, <1>3, <1>4 DEF w

LEMMA PacketsIsNat ==
    ASSUME NEW g, IsFiniteSet(g), \A f \in g : f.packets \in Nat
    PROVE  Packets(g) \in Nat
<1> DEFINE w == [f \in g |-> f.packets]
<1>1. w \in [g -> Nat] /\ \E F : Sums(F, g, w) /\ Packets(g) = F[g]
  BY PacketsSum
<1>2. g \in SUBSET g
  OBVIOUS
<1> HIDE DEF w
<1>3. QED
  BY <1>1, <1>2, SumsAreNat

LEMMA RatesSum ==
    ASSUME NEW g, IsFiniteSet(g), \A f \in g : f.pps \in Nat
    PROVE  LET w == [f \in g |-> f.pps]
           IN  w \in [g -> Nat] /\ \E F : Sums(F, g, w) /\ Rate(g) = F[g]
<1> DEFINE w == [f \in g |-> f.pps]
           Iter(F) == F = [s \in SUBSET g |->
                             IF s = {} THEN 0
                             ELSE (CHOOSE x \in s : TRUE).pps + F[s \ {CHOOSE x \in s : TRUE}]]
           iter == CHOOSE F : Iter(F)
<1>1. Rate(g) = iter[g]
  BY DEF Rate, MapThenSumSet, MapThenFoldSet
<1>2. \A F : Iter(F) <=> Sums(F, g, w)
  <2>1. \A s \in SUBSET g : s # {} => w[CHOOSE x \in s : TRUE] = (CHOOSE x \in s : TRUE).pps
    OBVIOUS
  <2> HIDE DEF w
  <2>2. QED
    BY <2>1 DEF Sums
<1>3. w \in [g -> Nat]
  OBVIOUS
<1> HIDE DEF Iter, w
<1>4. Sums(iter, g, w)
  BY <1>2, <1>3, SumsExist
<1>5. QED
  BY <1>1, <1>3, <1>4 DEF w

LEMMA RateIsNat ==
    ASSUME NEW g, IsFiniteSet(g), \A f \in g : f.pps \in Nat
    PROVE  Rate(g) \in Nat
<1> DEFINE w == [f \in g |-> f.pps]
<1>1. w \in [g -> Nat] /\ \E F : Sums(F, g, w) /\ Rate(g) = F[g]
  BY RatesSum
<1>2. g \in SUBSET g
  OBVIOUS
<1> HIDE DEF w
<1>3. QED
  BY <1>1, <1>2, SumsAreNat

LEMMA AcksSum ==
    ASSUME NEW g, IsFiniteSet(g), \A f \in g : f.ack \in Nat
    PROVE  LET w == [f \in g |-> f.ack]
           IN  w \in [g -> Nat] /\ \E F : Sums(F, g, w) /\ Acks(g) = F[g]
<1> DEFINE w == [f \in g |-> f.ack]
           Iter(F) == F = [s \in SUBSET g |->
                             IF s = {} THEN 0
                             ELSE (CHOOSE x \in s : TRUE).ack + F[s \ {CHOOSE x \in s : TRUE}]]
           iter == CHOOSE F : Iter(F)
<1>1. Acks(g) = iter[g]
  BY DEF Acks, MapThenSumSet, MapThenFoldSet
<1>2. \A F : Iter(F) <=> Sums(F, g, w)
  <2>1. \A s \in SUBSET g : s # {} => w[CHOOSE x \in s : TRUE] = (CHOOSE x \in s : TRUE).ack
    OBVIOUS
  <2> HIDE DEF w
  <2>2. QED
    BY <2>1 DEF Sums
<1>3. w \in [g -> Nat]
  OBVIOUS
<1> HIDE DEF Iter, w
<1>4. Sums(iter, g, w)
  BY <1>2, <1>3, SumsExist
<1>5. QED
  BY <1>1, <1>3, <1>4 DEF w

LEMMA AcksIsNat ==
    ASSUME NEW g, IsFiniteSet(g), \A f \in g : f.ack \in Nat
    PROVE  Acks(g) \in Nat
<1> DEFINE w == [f \in g |-> f.ack]
<1>1. w \in [g -> Nat] /\ \E F : Sums(F, g, w) /\ Acks(g) = F[g]
  BY AcksSum
<1>2. g \in SUBSET g
  OBVIOUS
<1> HIDE DEF w
<1>3. QED
  BY <1>1, <1>2, SumsAreNat

LEMMA SynsSum ==
    ASSUME NEW g, IsFiniteSet(g), \A f \in g : f.syn \in Nat
    PROVE  LET w == [f \in g |-> f.syn]
           IN  w \in [g -> Nat] /\ \E F : Sums(F, g, w) /\ Syns(g) = F[g]
<1> DEFINE w == [f \in g |-> f.syn]
           Iter(F) == F = [s \in SUBSET g |->
                             IF s = {} THEN 0
                             ELSE (CHOOSE x \in s : TRUE).syn + F[s \ {CHOOSE x \in s : TRUE}]]
           iter == CHOOSE F : Iter(F)
<1>1. Syns(g) = iter[g]
  BY DEF Syns, MapThenSumSet, MapThenFoldSet
<1>2. \A F : Iter(F) <=> Sums(F, g, w)
  <2>1. \A s \in SUBSET g : s # {} => w[CHOOSE x \in s : TRUE] = (CHOOSE x \in s : TRUE).syn
    OBVIOUS
  <2> HIDE DEF w
  <2>2. QED
    BY <2>1 DEF Sums
<1>3. w \in [g -> Nat]
  OBVIOUS
<1> HIDE DEF Iter, w
<1>4. Sums(iter, g, w)
  BY <1>2, <1>3, SumsExist
<1>5. QED
  BY <1>1, <1>3, <1>4 DEF w

LEMMA SynsIsNat ==
    ASSUME NEW g, IsFiniteSet(g), \A f \in g : f.syn \in Nat
    PROVE  Syns(g) \in Nat
<1> DEFINE w == [f \in g |-> f.syn]
<1>1. w \in [g -> Nat] /\ \E F : Sums(F, g, w) /\ Syns(g) = F[g]
  BY SynsSum
<1>2. g \in SUBSET g
  OBVIOUS
<1> HIDE DEF w
<1>3. QED
  BY <1>1, <1>2, SumsAreNat

-----------------------------------------------------------------------------
(* A tick of flows that can be scored.                                     *)
Traits == {"known_bad_ja3", "legacy_tls_version", "tls_without_sni"}

Scorable(fs) ==
    /\ IsFiniteSet(fs)
    /\ \A f \in fs : /\ f.packets \in Nat \ {0} /\ f.pps \in Nat /\ f.syn \in Nat
                     /\ f.ack \in Nat /\ f.total \in Nat
                     /\ f.ml \in 0 .. 100 /\ f.at \in Nat
                     /\ f.traits \subseteq Traits

LEMMA ScorablePart ==
    ASSUME NEW fs, Scorable(fs), NEW g \in SUBSET fs
    PROVE  Scorable(g)
<1>1. IsFiniteSet(g)
  BY FS_Subset DEF Scorable
<1>2. QED
  BY <1>1 DEF Scorable

LEMMA FirstIsOne ==
    ASSUME NEW g, Scorable(g), g # {}
    PROVE  First(g) \in g /\ First(g).at \in Nat
<1> DEFINE T == {f.at : f \in g}
<1>1. T \in SUBSET Nat /\ T # {}
  <2>1. \A f \in g : f.at \in Nat
    BY DEF Scorable
  <2>2. QED
    BY <2>1
<1>2. PICK t \in T : \A u \in T : t <= u
  BY <1>1, LeastNat
<1>3. \E f \in g : \A h \in g : f.at <= h.at
  BY <1>2
<1>4. First(g) \in g
  BY <1>3 DEF First
<1>5. QED
  BY <1>4 DEF Scorable

LEMMA SourcesAreFew ==
    ASSUME NEW g, Scorable(g)
    PROVE  Cardinality(Sources(g)) \in Nat
<1> DEFINE src == [f \in g |-> f.src]
<1>1. src \in Surjection(g, Sources(g))
  BY DEF Surjection, Sources
<1>2. IsFiniteSet(Sources(g))
  BY <1>1, FS_Surjection DEF Scorable
<1>3. QED
  BY <1>2, FS_CardinalityType

LEMMA FamiliesAreFew == ASSUME NEW T PROVE Cardinality(TtlFamilies(T)) \in Nat
<1>1. IsFiniteSet(0 .. 255)
  <2> DEFINE top == 255
  <2>1. 0 \in Int /\ top \in Int
    OBVIOUS
  <2> HIDE DEF top
  <2>2. IsFiniteSet(0 .. top)
    BY <2>1, FS_Interval
  <2>3. QED
    BY <2>2 DEF top
<1>2. TtlFamilies(T) \subseteq 0 .. 255
  BY DEF TtlFamilies
<1>3. QED
  BY <1>1, <1>2, FS_Subset, FS_CardinalityType

-----------------------------------------------------------------------------
(* An alert as the last steps of Detector.score need it.                   *)
Believed == 50 .. 95

AlertFields == {"class", "subtype", "sev", "conf", "id", "src", "dst", "dport", "at"}

Raised(a) ==
    /\ DOMAIN a = AlertFields /\ a = [x \in AlertFields |-> a[x]]
    /\ a.conf \in Believed /\ a.at \in Nat

LEMMA RaisedAlert ==
    ASSUME NEW class, NEW subtype, NEW sev, NEW conf \in Believed, NEW id, NEW src, NEW dst,
           NEW dport, NEW g, Scorable(g), g # {}
    PROVE  LET a == Alert(class, subtype, sev, conf, id, src, dst, dport, g)
           IN  Raised(a) /\ a.class = class /\ a.subtype = subtype /\ a.id = id /\ a.dst = dst
<1>1. First(g).at \in Nat
  BY FirstIsOne
<1> DEFINE a == Alert(class, subtype, sev, conf, id, src, dst, dport, g)
<1>2. /\ DOMAIN a = AlertFields /\ a.conf = conf /\ a.at = First(g).at
      /\ a = [x \in AlertFields |-> a[x]]
      /\ a.class = class /\ a.subtype = subtype /\ a.id = id /\ a.dst = dst
  BY DEF Alert, AlertFields
<1> HIDE DEF a
<1>3. Raised(a)
  BY <1>1, <1>2 DEF Raised
<1>4. QED
  BY <1>2, <1>3 DEF a

LEMMA RaisedForFlow ==
    ASSUME NEW fs, Scorable(fs), NEW f \in fs, NEW class, NEW subtype, NEW sev,
           NEW conf \in Believed
    PROVE  LET a == AlertOfFlow(f, class, subtype, sev, conf)
           IN  Raised(a) /\ a.class = class /\ a.subtype = subtype
<1> DEFINE g == {f}
           id == FlowId(f)
<1>1. Scorable(g) /\ g # {}
  BY ScorablePart
<1>2. AlertOfFlow(f, class, subtype, sev, conf)
        = Alert(class, subtype, sev, conf, id, f.src, f.dst, f.dport, g)
  BY DEF AlertOfFlow
<1> HIDE DEF g, id
<1>3. QED
  BY <1>1, <1>2, RaisedAlert

LEMMA RatioIsBelieved ==
    ASSUME NEW v \in Int, NEW t \in Int, NEW c \in {14, 30, 40, 50}
    PROVE  RatioConfidence(v, t, c) \in Believed
  BY RatioFacts DEF Believed

-----------------------------------------------------------------------------
(* Every sign of spoofing is one, and is believed.                         *)
LEMMA SpoofingRaised ==
    ASSUME NEW fs, Scorable(fs), NEW a \in Spoofing(fs)
    PROVE  Raised(a) /\ a.class = "ip_spoofing"
<1>1. 90 \in Believed /\ 55 \in Believed /\ 75 \in Believed
  BY DEF Believed
<1>2. CASE a \in PerFlowSpoof(fs)
  <2>1. \E f \in fs : \/ a = AlertOfFlow(f, "ip_spoofing", "land_attack", "high", 90)
                      \/ a = AlertOfFlow(f, "ip_spoofing", "ttl_anomaly", "low", 55)
    BY <1>2 DEF PerFlowSpoof
  <2>2. QED
    BY <1>1, <2>1, RaisedForFlow
<1>3. CASE a \in TtlInconsistency(fs)
  <2> DEFINE sent == {f \in fs : ~Martian(f.src) /\ f.ttl > 0}
             Of(s) == {f \in sent : f.src = s}
             Ttls(s) == {f.ttl : f \in Of(s)}
             conf(s) == RatioConfidence(Cardinality(TtlFamilies(Ttls(s))), Cfg.ttl_min_families, 14)
  <2>1. PICK s \in Sources(sent) :
          a = Alert("ip_spoofing", "ttl_inconsistency", "high", conf(s), <<"src", s>>,
                    s, "", 0, Of(s))
    BY <1>3 DEF TtlInconsistency
  <2>2. Of(s) \in SUBSET fs /\ Of(s) # {}
    BY DEF Sources
  <2>3. conf(s) \in Believed
    <3>1. Cardinality(TtlFamilies(Ttls(s))) \in Int /\ Cfg.ttl_min_families \in Int
      BY FamiliesAreFew, CfgAssumption
    <3>2. QED
      BY <3>1, RatioIsBelieved
  <2>4. First(Of(s)).at \in Nat
    BY <2>2, ScorablePart, FirstIsOne
  <2> HIDE DEF Of, conf
  <2>5. QED
    BY <2>1, <2>3, <2>4 DEF Alert, AlertFields, Raised
<1>4. CASE a \in SpoofedSynStorm(fs)
  <2> DEFINE tcp == Over(fs, "tcp")
             At(d) == Toward(tcp, d)
             conf(d) == RatioConfidence(Cardinality(Sources(At(d))),
                                        Cfg.spoofed_syn_min_sources, 30)
  <2>1. PICK d \in Targets(tcp) :
          a = Alert("ip_spoofing", "spoofed_syn_storm", "high", conf(d), <<"dst", "tcp", d>>,
                    "", d, 0, At(d))
    BY <1>4 DEF SpoofedSynStorm
  <2>2. At(d) \in SUBSET fs /\ At(d) # {}
    BY DEF Targets, Toward, Over
  <2>3. Scorable(At(d))
    BY <2>2, ScorablePart
  <2>4. conf(d) \in Believed
    <3>1. Cardinality(Sources(At(d))) \in Int /\ Cfg.spoofed_syn_min_sources \in Int
      BY <2>3, SourcesAreFew, CfgAssumption
    <3>2. QED
      BY <3>1, RatioIsBelieved
  <2>5. First(At(d)).at \in Nat
    BY <2>2, <2>3, FirstIsOne
  <2> HIDE DEF At, conf
  <2>6. QED
    BY <2>1, <2>4, <2>5 DEF Alert, AlertFields, Raised
<1>5. CASE a \in MartianSources(fs)
  <2> DEFINE At(d) == {f \in Toward(fs, d) : Kind[f.src] \in {"bogon", "multicast"} /\ ~Loopback(d)}
  <2>1. PICK d \in Targets(fs) :
          /\ At(d) # {}
          /\ \/ a = Alert("ip_spoofing", "martian_source_storm", "high", 90,
                          <<"dst", "any", d>>, "", d, 0, At(d))
             \/ a = Alert("ip_spoofing", "martian_source", "high", 75,
                          <<"pair", First(At(d)).src, d>>, First(At(d)).src, d, 0, At(d))
    BY <1>5 DEF MartianSources
  <2>2. At(d) \in SUBSET fs
    BY DEF Toward
  <2>3. Scorable(At(d))
    BY <2>2, ScorablePart
  <2>4. First(At(d)).at \in Nat
    BY <2>1, <2>3, FirstIsOne
  <2> DEFINE src == First(At(d)).src
             n == First(At(d)).at
  <2> HIDE DEF src, n
  <2>5. n \in Nat
    BY <2>4 DEF n
  <2>6. CASE a = Alert("ip_spoofing", "martian_source_storm", "high", 90,
                      <<"dst", "any", d>>, "", d, 0, At(d))
    BY <1>1, <2>5, <2>6 DEF Alert, AlertFields, Raised, n
  <2>7. CASE a = Alert("ip_spoofing", "martian_source", "high", 75,
                      <<"pair", src, d>>, src, d, 0, At(d))
    BY <1>1, <2>5, <2>7 DEF Alert, AlertFields, Raised, n
  <2> HIDE DEF At
  <2>8. QED
    BY <2>1, <2>6, <2>7 DEF src
<1>6. QED
  BY <1>2, <1>3, <1>4, <1>5 DEF Spoofing

-----------------------------------------------------------------------------
(* The floods of a destination are among those there are, and believed.    *)
LEMMA FloodRaised ==
    ASSUME NEW fs, Scorable(fs), NEW d \in Targets(fs), NEW s \in Floods(Toward(fs, d))
    PROVE  LET a == FloodAlert(s, d, Toward(fs, d))
           IN  /\ Raised(a) /\ s \in FloodSubtypes /\ a.class = "volumetric_ddos"
               /\ a.subtype = s /\ a.dst = d /\ a.id = <<"dst", s, d>>
<1> DEFINE g == Toward(fs, d)
           a == FloodAlert(s, d, g)
           synConf == RatioConfidence(Syns(g), Cfg.syn_flood_min_syn_ratio * Max({1, Acks(g)}), 30)
           udpRate == RatioConfidence(Rate(FloodUdp(g)), Cfg.udp_flood_packet_rate, 30)
           udpWide == RatioConfidence(Cardinality(Sources(FloodUdp(g))), Cfg.min_unique_sources, 30)
           icmpConf == RatioConfidence(Rate(Over(g, "icmp")), Cfg.icmp_flood_packet_rate, 30)
           fanConf == RatioConfidence(Rate(g), Cfg.dst_packet_rate, 30)
           conf == [syn_flood |-> synConf, udp_flood |-> Max({udpRate, udpWide}),
                    icmp_flood |-> icmpConf, fan_in_flood |-> fanConf]
           sev == IF s = "syn_flood" /\ ~(Cardinality(Sources(g)) >= Cfg.min_unique_sources)
                  THEN "medium" ELSE "high"
           id == <<"dst", s, d>>
<1>1. a = Alert("volumetric_ddos", s, sev, conf[s], id, "", d, 0, g)
  BY DEF FloodAlert
<1>2. s \in FloodSubtypes
  BY DEF Floods, Specific, FloodSubtypes
<1>3. g \in SUBSET fs /\ g # {}
  BY DEF Targets, Toward
<1>4. FloodUdp(g) \in SUBSET fs /\ Over(g, "icmp") \in SUBSET fs
  BY <1>3 DEF FloodUdp, Over
<1>5. Scorable(g) /\ Scorable(FloodUdp(g)) /\ Scorable(Over(g, "icmp"))
  BY <1>3, <1>4, ScorablePart
<1> HIDE DEF g
<1>6. /\ Syns(g) \in Nat /\ Acks(g) \in Nat /\ Rate(g) \in Nat
      /\ Rate(FloodUdp(g)) \in Nat /\ Rate(Over(g, "icmp")) \in Nat
  BY <1>5, RateIsNat, AcksIsNat, SynsIsNat DEF Scorable
<1>7. Cardinality(Sources(FloodUdp(g))) \in Nat
  BY <1>5, SourcesAreFew
<1>8. /\ Cfg.syn_flood_min_syn_ratio \in Int /\ Cfg.udp_flood_packet_rate \in Int
      /\ Cfg.min_unique_sources \in Int /\ Cfg.icmp_flood_packet_rate \in Int
      /\ Cfg.dst_packet_rate \in Int
  BY CfgAssumption
<1>9. synConf \in Believed
  <2> DEFINE one == 1
             acks == Acks(g)
  <2>1. one \in Int /\ acks \in Int
    BY <1>6
  <2> HIDE DEF one, acks
  <2>2. Max({one, acks}) \in Int
    BY <2>1, MaxOfTwo
  <2>3. Max({1, Acks(g)}) \in Int
    BY <2>2 DEF one, acks
  <2>4. Cfg.syn_flood_min_syn_ratio * Max({1, Acks(g)}) \in Int
    BY <1>8, <2>3
  <2>5. QED
    BY <1>6, <2>4, RatioIsBelieved
<1>10. /\ udpRate \in Believed /\ udpWide \in Believed /\ icmpConf \in Believed
       /\ fanConf \in Believed
  BY <1>6, <1>7, <1>8, RatioIsBelieved
<1> HIDE DEF synConf, udpRate, udpWide, icmpConf, fanConf
<1>11. Max({udpRate, udpWide}) \in Believed
  <2>1. udpRate \in Int /\ udpWide \in Int
    BY <1>10 DEF Believed
  <2>2. QED
    BY <1>10, <2>1, MaxOfTwo
<1>12. conf[s] \in Believed
  BY <1>2, <1>9, <1>10, <1>11 DEF FloodSubtypes
<1> DEFINE c == conf[s]
<1> HIDE DEF conf, sev, id, c
<1>13. a = Alert("volumetric_ddos", s, sev, c, id, "", d, 0, g)
  BY <1>1 DEF c
<1>14. c \in Believed
  BY <1>12 DEF c
<1> HIDE DEF a
<1>15. First(g).at \in Nat
  BY <1>3, <1>5, FirstIsOne
<1>16. Raised(a) /\ a.class = "volumetric_ddos" /\ a.subtype = s /\ a.id = id /\ a.dst = d
  BY <1>13, <1>14, <1>15 DEF Alert, AlertFields, Raised
<1>17. QED
  BY <1>2, <1>16 DEF a, g, id

-----------------------------------------------------------------------------
(* Only spoofing.py says "ip_spoofing", and only volumetric.py speaks of   *)
(* floods, of each once.                                                   *)
LEMMA VolumetricIsEither ==
    ASSUME NEW fs, NEW a \in Volumetric(fs)
    PROVE  \/ \E d \in Targets(fs) : \E s \in Floods(Toward(fs, d)) :
                 a = FloodAlert(s, d, Toward(fs, d))
           \/ a.class = "volumetric_ddos" /\ a.subtype \notin FloodSubtypes
<1>1. CASE \E f \in fs : a = AlertOfFlow(f, "volumetric_ddos", HighRateSubtype(f), "medium",
                                         RatioConfidence(f.pps, Cfg.flow_packet_rate, 30))
  <2>1. PICK f \in fs : a.subtype = HighRateSubtype(f) /\ a.class = "volumetric_ddos"
    BY <1>1 DEF AlertOfFlow, Alert
  <2>2. HighRateSubtype(f) \notin FloodSubtypes
    BY DEF HighRateSubtype, FloodSubtypes
  <2>3. QED
    BY <2>1, <2>2
<1>2. CASE \E d \in Targets(fs) : a \in {FloodAlert(s, d, Toward(fs, d)) :
                                           s \in Floods(Toward(fs, d))}
  BY <1>2
<1>3. QED
  <2> DEFINE At(d) == {FloodAlert(s, d, Toward(fs, d)) : s \in Floods(Toward(fs, d))}
             Fast == {AlertOfFlow(f, "volumetric_ddos", HighRateSubtype(f), "medium",
                                  RatioConfidence(f.pps, Cfg.flow_packet_rate, 30)) :
                        f \in {h \in fs : HighRate(h)}}
             Groups == {At(d) : d \in Targets(fs)}
  <2>1. Volumetric(fs) = Fast \cup (UNION Groups)
    BY DEF Volumetric
  <2>2. a \in Fast => \E f \in fs : a = AlertOfFlow(f, "volumetric_ddos", HighRateSubtype(f),
                             "medium", RatioConfidence(f.pps, Cfg.flow_packet_rate, 30))
    OBVIOUS
  <2> HIDE DEF At, Fast
  <2>3. a \in Fast \/ \E d \in Targets(fs) : a \in At(d)
    <3>1. ASSUME NEW G \in Groups PROVE \E d \in Targets(fs) : G = At(d)
      OBVIOUS
    <3> HIDE DEF Groups
    <3>2. a \in Fast \/ \E G \in Groups : a \in G
      BY <2>1
    <3>3. QED
      BY <3>1, <3>2
  <2>4. QED
    BY <1>1, <1>2, <2>2, <2>3 DEF At

LEMMA FlowAlertClass ==
    ASSUME NEW f, NEW class, NEW subtype, NEW sev, NEW conf
    PROVE  AlertOfFlow(f, class, subtype, sev, conf).class = class
  BY DEF AlertOfFlow, Alert

LEMMA DnsClass == ASSUME NEW fs, NEW a \in DnsAbuse(fs) PROVE a.class = "dns_abuse"
<1>1. ASSUME NEW f, a \in QueryAlerts(f) PROVE a.class = "dns_abuse"
  <2>1. \/ a = AlertOfFlow(f, "dns_abuse", "dga_domain", "medium", 75)
        \/ a = AlertOfFlow(f, "dns_abuse", "dns_tunnel", "high", 50)
        \/ a = AlertOfFlow(f, "dns_abuse", "oversized_query", "low", 55)
    BY <1>1 DEF QueryAlerts
  <2>2. QED
    BY <2>1 DEF AlertOfFlow, Alert
<1>2. ASSUME a \in TunnelVolume(fs) PROVE a.class = "dns_abuse"
  <2> DEFINE queries == {f \in fs : f.query # NoQuery}
             Of(parent) == {f \in queries : f.query.parent = parent}
             server(p) == Least(Targets(Of(p)))
             many(p) == RatioConfidence(Cardinality(Subdomains(p, fs)),
                                        Cfg.tunnel_min_subdomains, 40)
  <2>1. \E p : a = Alert("dns_abuse", "dns_tunnel_volume", "high", many(p),
                         <<"resolver", server(p)>>, "", server(p), 53, Of(p))
    BY <1>2 DEF TunnelVolume
  <2> DEFINE id(p) == <<"resolver", server(p)>>
             none == ""
             port == 53
  <2>2. \E p : a = Alert("dns_abuse", "dns_tunnel_volume", "high", many(p), id(p), none,
                         server(p), port, Of(p))
    BY <2>1
  <2> HIDE DEF Of, many, id, server, none, port
  <2>3. QED
    BY <2>2 DEF Alert
<1>3. QED
  <2> DEFINE All == {QueryAlerts(f) : f \in {h \in fs : h.query # NoQuery}}
  <2>1. DnsAbuse(fs) = TunnelVolume(fs) \cup (UNION All)
    BY DEF DnsAbuse
  <2>2. ASSUME NEW G \in All PROVE \E f : G = QueryAlerts(f)
    OBVIOUS
  <2> HIDE DEF All
  <2>3. a \in TunnelVolume(fs) \/ \E G \in All : a \in G
    BY <2>1
  <2>4. QED
    BY <1>1, <1>2, <2>2, <2>3

LEMMA EncryptedClass ==
    ASSUME NEW fs, NEW a \in Encrypted(fs) PROVE a.class = "encrypted_anomaly"
<1> DEFINE Of(f) == {AlertOfFlow(f, "encrypted_anomaly", t, TraitSeverity(t)[1],
                                 TraitSeverity(t)[2]) : t \in TlsTraits(f)}
           tls == {h \in fs : h.hello = "tls" /\ ~Loopback(h.src) /\ ~Loopback(h.dst)}
           quic == {AlertOfFlow(f, "encrypted_anomaly", "quic_on_nonstandard_port", "low", 55) :
                     f \in {h \in fs : h.hello = "quic" /\ ~OnServicePort(h, Cfg.quic_ports)}}
           Groups == {Of(f) : f \in tls}
<1>1. a \in quic \cup (UNION Groups)
  BY DEF Encrypted
<1>2. a \in quic => a.class = "encrypted_anomaly"
  BY FlowAlertClass
<1>3. \A f : a \in Of(f) => a.class = "encrypted_anomaly"
  BY FlowAlertClass
<1> HIDE DEF Of, tls, quic
<1>4. ASSUME NEW G \in Groups PROVE \E f : G = Of(f)
  OBVIOUS
<1> HIDE DEF Groups
<1>5. a \in quic \/ \E G \in Groups : a \in G
  BY <1>1
<1>6. QED
  BY <1>2, <1>3, <1>4, <1>5

LEMMA ScanClass ==
    ASSUME NEW fs, NEW a \in VerticalScans(fs) \cup HorizontalSweeps(fs)
    PROVE  a.class = "recon_scanning"
<1>1. CASE a \in VerticalScans(fs)
  <2> DEFINE Of(p) == {f \in Probes(fs) : f.src = p[1] /\ f.dst = p[2]}
             Ports(p) == {f.dport : f \in Of(p)} \cap 1 .. Cfg.max_scan_dst_port
             conf(p) == RatioConfidence(Cardinality(Ports(p)), Cfg.min_ports_per_dst, 50)
             id(p) == <<"pair", First(Of(p)).proto, p[1], p[2]>>
  <2>1. \E p : a = Alert("recon_scanning", "vertical_port_scan", "medium", conf(p), id(p),
                         p[1], p[2], 0, Of(p))
    BY <1>1 DEF VerticalScans
  <2> HIDE DEF Of, conf, id
  <2>2. QED
    BY <2>1 DEF Alert
<1>2. CASE a \in HorizontalSweeps(fs)
  <2> DEFINE Of(p) == {f \in Probes(fs) : f.src = p[1] /\ f.dport = p[2]}
             conf(p) == RatioConfidence(Cardinality(Targets(Of(p))), Cfg.min_dsts_per_port, 50)
             id(p) == <<"port", First(Of(p)).proto, p[1], p[2]>>
  <2>1. \E p : a = Alert("recon_scanning", "horizontal_sweep", "medium", conf(p), id(p),
                         p[1], "", p[2], Of(p))
    BY <1>2 DEF HorizontalSweeps
  <2> DEFINE none == ""
             src(p) == p[1]
             dport(p) == p[2]
  <2>2. \E p : a = Alert("recon_scanning", "horizontal_sweep", "medium", conf(p), id(p),
                         src(p), none, dport(p), Of(p))
    BY <2>1
  <2> HIDE DEF Of, conf, id, none, src, dport
  <2>3. QED
    BY <2>2 DEF Alert
<1>3. QED
  BY <1>1, <1>2

LEMMA ExfiltrationClass ==
    ASSUME NEW fs, NEW a \in Exfiltration(fs) PROVE a.class = "data_exfiltration"
<1> DEFINE conf(f) == Max({RatioConfidence(f.total, Cfg.min_outbound_bytes, 30)} \cup
                          {RatioConfidence(f.total, Cfg.min_ratio * Max({1, r.total}), 30) :
                             r \in ReverseOf(f, fs)})
<1>1. \E f : a = AlertOfFlow(f, "data_exfiltration", "asymmetric_outbound_volume", "high", conf(f))
  BY DEF Exfiltration
<1> HIDE DEF conf
<1>2. QED
  BY <1>1 DEF AlertOfFlow, Alert

LEMMA RawClasses ==
    ASSUME NEW fs, Scorable(fs), NEW a \in Raw(fs)
    PROVE  /\ a.class = "ip_spoofing" => a \in Spoofing(fs)
           /\ a.class = "volumetric_ddos" => a \in Volumetric(fs)
           /\ a.class = "recon_scanning" => a \in VerticalScans(fs) \cup HorizontalSweeps(fs)
<1>1. a \in Volumetric(fs) => a.class = "volumetric_ddos"
  BY VolumetricIsEither, FloodRaised
<1>2. a \in DropFloodNoise(Spoofing(fs), Volumetric(fs)) => a \in Spoofing(fs)
  BY DEF DropFloodNoise
<1>3. a \in Spoofing(fs) => a.class = "ip_spoofing"
  BY SpoofingRaised
<1>4. QED
  BY <1>1, <1>2, <1>3, DnsClass, EncryptedClass, ScanClass, ExfiltrationClass DEF Raw

LEMMA FloodsAreOne ==
    ASSUME NEW fs, Scorable(fs), NEW a \in Volumetric(fs), NEW b \in Volumetric(fs),
           a.subtype \in FloodSubtypes, Key(a) = Key(b)
    PROVE  a = b /\ Raised(a) /\ a.class = "volumetric_ddos"
<1>1. a.subtype = b.subtype /\ a.id = b.id
  BY DEF Key
<1>2. PICK d \in Targets(fs) : \E s \in Floods(Toward(fs, d)) :
        a = FloodAlert(s, d, Toward(fs, d))
  BY VolumetricIsEither
<1>3. PICK s \in Floods(Toward(fs, d)) : a = FloodAlert(s, d, Toward(fs, d))
  BY <1>2
<1>4. PICK e \in Targets(fs) : \E r \in Floods(Toward(fs, e)) :
        b = FloodAlert(r, e, Toward(fs, e))
  BY <1>1, VolumetricIsEither
<1>5. PICK r \in Floods(Toward(fs, e)) : b = FloodAlert(r, e, Toward(fs, e))
  BY <1>4
<1>6. /\ a.subtype = s /\ a.id = <<"dst", s, d>> /\ Raised(a) /\ a.class = "volumetric_ddos"
      /\ b.subtype = r /\ b.id = <<"dst", r, e>>
  BY <1>3, <1>5, FloodRaised
<1>7. s = r /\ d = e
  <2>1. <<"dst", s, d>> = <<"dst", r, e>>
    BY <1>1, <1>6
  <2>2. QED
    BY <2>1
<1>8. QED
  BY <1>3, <1>5, <1>6, <1>7

-----------------------------------------------------------------------------
(* What is raised and first of its key is reported: the model only         *)
(* confirms, and what is believed passes the gate.                         *)
LEMMA Confirmed ==
    ASSUME NEW fs, Scorable(fs), NEW a, Raised(a)
    PROVE  LET b == ApplyModel(a, fs)
           IN  /\ Key(b) = Key(a) /\ b.class = a.class /\ b.subtype = a.subtype /\ b.id = a.id
               /\ b.src = a.src /\ b.dst = a.dst /\ b.dport = a.dport
               /\ b.conf \in Int /\ b.conf >= 50
<1> DEFINE own == {f \in fs : FlowId(f) = a.id}
           of  == IF own # {} THEN own ELSE Toward(fs, a.dst)
           S   == {0} \cup {f.ml : f \in of}
           p   == Max(S)
           c   == a.conf
           gap == 40 * p * (100 - c)
           new == c + gap \div 10000
<1>1. ApplyModel(a, fs) = [a EXCEPT !.conf = new]
  BY DEF ApplyModel
<1>2. p \in 0 .. 100
  <2>1. of \subseteq fs
    BY DEF Toward
  <2> HIDE DEF of
  <2>2. \A f \in of : f.ml \in 0 .. 100
    BY <2>1 DEF Scorable
  <2>3. S \in SUBSET (0 .. 100) /\ S # {}
    BY <2>2
  <2> HIDE DEF S
  <2>4. QED
    BY <2>3, MaxOfPercents
<1>3. c \in 50 .. 95
  BY DEF Raised, Believed
<1> HIDE DEF p, c
<1>4. gap \in Nat
  <2>1. 40 * p \in Nat /\ 100 - c \in Nat
    BY <1>2, <1>3
  <2>2. QED
    BY <2>1
<1> HIDE DEF gap
<1>5. gap \div 10000 \in Int /\ gap \div 10000 >= 0
  BY <1>4
<1>6. new \in Int /\ new >= 50
  BY <1>3, <1>5
<1> HIDE DEF new
<1>7. {"class", "subtype", "id", "src", "dst", "dport", "conf"} \subseteq DOMAIN a
  BY DEF Raised, AlertFields
<1> DEFINE b == [a EXCEPT !.conf = new]
<1>8. /\ b.class = a.class /\ b.subtype = a.subtype /\ b.id = a.id
      /\ b.src = a.src /\ b.dst = a.dst /\ b.dport = a.dport /\ b.conf = new
  BY <1>7
<1> HIDE DEF b
<1>9. Key(b) = Key(a)
  BY <1>8 DEF Key
<1>10. ApplyModel(a, fs) = b
  BY <1>1 DEF b
<1>11. QED
  BY <1>6, <1>8, <1>9, <1>10

LEMMA FirstIsReported ==
    ASSUME NEW fs, Scorable(fs), Cfg.min_confidence <= 50, NEW a \in Dedupe(Raw(fs)), Raised(a)
    PROVE  \E b \in Score(fs) : Key(b) = Key(a) /\ b.subtype = a.subtype /\ b.dst = a.dst
<1> DEFINE b == ApplyModel(a, fs)
<1>1. /\ Key(b) = Key(a) /\ b.subtype = a.subtype /\ b.dst = a.dst
      /\ b.conf \in Int /\ b.conf >= 50
  BY Confirmed
<1>2. Cfg.min_confidence \in Int
  BY CfgAssumption
<1>3. b.conf >= Cfg.min_confidence
  BY <1>1, <1>2
<1>4. b \in Score(fs)
  BY <1>3 DEF Score
<1>5. QED
  BY <1>1, <1>4

(* A sign of spoofing is reported, or the flood it is the noise of.        *)
LEMMA SpoofingReported ==
    ASSUME NEW fs, Scorable(fs), Cfg.min_confidence <= 50, NEW s \in Spoofing(fs)
    PROVE  \/ \E a \in Score(fs) : Key(a) = Key(s)
           \/ /\ s.subtype \in SpoofNoise
              /\ \E a \in Score(fs) : a.subtype \in FloodSubtypes /\ a.dst = s.dst
<1> DEFINE V == Volumetric(fs)
<1>1. CASE s \in DropFloodNoise(Spoofing(fs), V)
  <2> DEFINE Same == {b \in Raw(fs) : Key(b) = Key(s)}
             T == {b.at : b \in Same}
  <2>1. s \in Same
    BY <1>1 DEF Raw
  <2>2. \A b \in Same : Raised(b)
    <3> TAKE b \in Same
    <3>1. b.class = s.class
      BY DEF Key
    <3>2. b \in Spoofing(fs)
      BY <3>1, SpoofingRaised, RawClasses
    <3>3. QED
      BY <3>2, SpoofingRaised
  <2>3. \A b \in Same : b.at \in Nat
    BY <2>2 DEF Raised
  <2>4. PICK t \in T : \A u \in T : t <= u
    <3> HIDE DEF Same
    <3>1. T \in SUBSET Nat /\ T # {}
      BY <2>1, <2>3
    <3> HIDE DEF T
    <3>2. QED
      BY <3>1, LeastNat
  <2>5. PICK b \in Same : b.at = t
    OBVIOUS
  <2>6. b \in Dedupe(Raw(fs))
    BY <2>4, <2>5 DEF Dedupe
  <2>7. QED
    BY <2>2, <2>5, <2>6, FirstIsReported
<1>2. CASE s \notin DropFloodNoise(Spoofing(fs), V)
  <2>1. s.subtype \in SpoofNoise
        /\ s.dst \in {a.dst : a \in {v \in V : v.subtype \in FloodSubtypes}}
    BY <1>2 DEF DropFloodNoise
  <2>2. PICK v \in V : v.subtype \in FloodSubtypes /\ v.dst = s.dst
    BY <2>1
  <2>3. Raised(v) /\ v.class = "volumetric_ddos" /\ v.at \in Nat
    BY <2>2, FloodsAreOne DEF Raised
  <2>4. v \in Raw(fs)
    BY DEF Raw
  <2>5. \A c \in Raw(fs) : Key(c) = Key(v) => v.at <= c.at
    <3> SUFFICES ASSUME NEW c \in Raw(fs), Key(c) = Key(v) PROVE v.at <= c.at
      OBVIOUS
    <3>1. c.class = v.class
      BY DEF Key
    <3>2. c \in V
      BY <2>3, <3>1, RawClasses
    <3>3. c = v
      BY <2>2, <3>2, FloodsAreOne
    <3>4. QED
      BY <2>3, <3>3
  <2>6. v \in Dedupe(Raw(fs))
    BY <2>4, <2>5 DEF Dedupe
  <2>7. QED
    BY <2>1, <2>2, <2>3, <2>6, FirstIsReported
<1>3. QED
  BY <1>1, <1>2

(* The batches of the loop can be scored.                                  *)
LEMMA FeaturesScorable == ASSUME NEW c \in Seq(Handed) PROVE Scorable(Features(c))
<1> DEFINE F == Features(c)
<1>2. DOMAIN c = 1 .. Len(c) /\ Len(c) \in Nat /\ \A i \in DOMAIN c : c[i] \in Handed
  OBVIOUS
<1>3. IsFiniteSet(F)
  <2> DEFINE m == [i \in DOMAIN c |-> [c[i] EXCEPT !.at = i]]
  <2>1. m \in Surjection(DOMAIN c, F)
    BY DEF Surjection, Features
  <2>2. IsFiniteSet(DOMAIN c)
    BY <1>2, FS_Interval
  <2> HIDE DEF m
  <2>3. QED
    BY <2>1, <2>2, FS_Surjection
<1>4. ASSUME NEW f \in F
      PROVE  /\ f.packets \in Nat \ {0} /\ f.pps \in Nat /\ f.syn \in Nat /\ f.ack \in Nat
             /\ f.total \in Nat /\ f.ml \in 0 .. 100 /\ f.at \in Nat
             /\ f.traits \subseteq Traits
  <2>1. PICK i \in DOMAIN c : f = [c[i] EXCEPT !.at = i]
    BY DEF Features
  <2>2. PICK h \in UNION Scenarios, n \in BOOLEAN : c[i] = [h EXCEPT !.new = n]
    BY <1>2 DEF Handed
  <2>3. {"packets", "pps", "syn", "ack", "total", "ml", "traits", "new", "at"} \subseteq DOMAIN h
    BY FlowAssumption DEF Fields
  <2>4. /\ h.packets \in Nat \ {0} /\ h.pps \in Nat /\ h.syn \in Nat /\ h.ack \in Nat
        /\ h.total \in Nat /\ h.ml \in 0 .. 100 /\ h.traits \subseteq Traits
    BY FlowAssumption DEF Traits
  <2> DEFINE g == c[i]
  <2>5. {"packets", "pps", "syn", "ack", "total", "ml", "traits", "at"} \subseteq DOMAIN g
    BY <2>2, <2>3
  <2>6. /\ g.packets = h.packets /\ g.pps = h.pps /\ g.syn = h.syn /\ g.ack = h.ack
        /\ g.total = h.total /\ g.ml = h.ml /\ g.traits = h.traits
    BY <2>2, <2>3
  <2>7. f = [g EXCEPT !.at = i] /\ i \in Nat
    BY <1>2, <2>1
  <2> HIDE DEF g
  <2>8. /\ f.packets = g.packets /\ f.pps = g.pps /\ f.syn = g.syn /\ f.ack = g.ack
        /\ f.total = g.total /\ f.ml = g.ml /\ f.traits = g.traits /\ f.at = i
    BY <2>5, <2>7
  <2>9. QED
    BY <2>4, <2>6, <2>7, <2>8
<1>5. QED
  BY <1>3, <1>4 DEF Scorable

LEMMA BatchIsScorable == ASSUME TallyType PROVE Scorable(Features(Capped(batch)))
<1>1. Capped(batch) \in Seq(Handed)
  BY BatchFacts, CappedFacts DEF TallyType
<1>2. QED
  BY <1>1, FeaturesScorable

(* For any thresholds and traffic, as long as what is believed by half is  *)
(* reported (as shipped): no sign of spoofing is lost, but to a flood of   *)
(* the same destination that is itself reported after every filter.        *)
THEOREM SpoofingIsReported ==
    ASSUME Cfg.min_confidence <= 50
    PROVE  Spec => []SpoofingNotLost
<1>1. ASSUME TallyInv PROVE SpoofingNotLost
  <2>1. Scorable(Features(Capped(batch)))
    BY <1>1, BatchIsScorable DEF TallyInv
  <2>2. QED
    BY <2>1, SpoofingReported DEF SpoofingNotLost, Scored
<1>2. QED
  BY <1>1, TallyInit, TallyStep, PTL DEF Spec

-----------------------------------------------------------------------------
(* Two groups of flows that differ only in the places the flows had in     *)
(* their ticks.                                                            *)
Like(f, h) ==
    /\ f.proto = h.proto /\ f.src = h.src /\ f.sport = h.sport
    /\ f.dst = h.dst /\ f.dport = h.dport
    /\ f.packets = h.packets /\ f.pps = h.pps /\ f.ms = h.ms /\ f.syn = h.syn /\ f.ack = h.ack
    /\ f.ttl = h.ttl /\ f.total = h.total /\ f.query = h.query /\ f.hello = h.hello
    /\ f.traits = h.traits /\ f.ml = h.ml

Distinct(g) == \A f, h \in g : FlowId(f) = FlowId(h) => f = h

Alike(g, k) ==
    /\ Scorable(g) /\ Scorable(k) /\ Distinct(g) /\ Distinct(k)
    /\ \A f \in g : \E h \in k : Like(f, h)
    /\ \A h \in k : \E f \in g : Like(f, h)

LEMMA LikeSwaps ==
    ASSUME NEW f, NEW h, Like(f, h)
    PROVE  Like(h, f) /\ FlowId(f) = FlowId(h)
  BY DEF Like, FlowId

LEMMA AlikeSwaps == ASSUME NEW g, NEW k, Alike(g, k) PROVE Alike(k, g)
  BY LikeSwaps DEF Alike

(* What is chosen from both by a property of flows, and not of places, is  *)
(* alike.                                                                  *)
LEMMA AlikeParts ==
    ASSUME NEW g, NEW k, Alike(g, k), NEW p \in SUBSET g, NEW q \in SUBSET k,
           \A f \in g, h \in k : Like(f, h) => (f \in p <=> h \in q)
    PROVE  Alike(p, q)
<1>1. Scorable(p) /\ Scorable(q)
  BY ScorablePart DEF Alike
<1>2. Distinct(p) /\ Distinct(q)
  BY DEF Alike, Distinct
<1>3. \A f \in p : \E h \in q : Like(f, h)
  BY DEF Alike
<1>4. \A h \in q : \E f \in p : Like(f, h)
  BY DEF Alike
<1>5. QED
  BY <1>1, <1>2, <1>3, <1>4 DEF Alike

LEMMA AlikeBijection ==
    ASSUME NEW g, NEW k, Alike(g, k)
    PROVE  \E phi \in Bijection(g, k) : \A f \in g : Like(f, phi[f])
<1> DEFINE phi == [f \in g |-> CHOOSE h \in k : Like(f, h)]
<1>1. \A f \in g : phi[f] \in k /\ Like(f, phi[f])
  BY DEF Alike
<1>2. phi \in [g -> k]
  BY <1>1
<1> HIDE DEF phi
<1>3. \A f, h \in g : phi[f] = phi[h] => f = h
  BY <1>1, LikeSwaps DEF Alike, Distinct
<1>4. \A h \in k : \E f \in g : phi[f] = h
  <2> TAKE h \in k
  <2>1. PICK f \in g : Like(f, h)
    BY DEF Alike
  <2>2. FlowId(phi[f]) = FlowId(h) /\ phi[f] \in k
    BY <1>1, <2>1, LikeSwaps
  <2>3. phi[f] = h
    BY <2>2 DEF Alike, Distinct
  <2>4. QED
    BY <2>3
<1>5. DOMAIN phi = g
  BY <1>2
<1>6. phi \in Injection(g, k) /\ phi \in Surjection(g, k)
  BY <1>2, <1>3, <1>4, <1>5 DEF Injection, IsInjective, Surjection
<1>7. QED
  BY <1>1, <1>6 DEF Bijection

(* All that the detectors read of a group.                                 *)
LEMMA AlikeFacts ==
    ASSUME NEW g, NEW k, Alike(g, k)
    PROVE  /\ Cardinality(g) = Cardinality(k) /\ (g = {} <=> k = {})
           /\ Sources(g) = Sources(k) /\ Targets(g) = Targets(k)
<1>1. PICK phi \in Bijection(g, k) : TRUE
  BY AlikeBijection
<1>2. Cardinality(g) = Cardinality(k)
  BY <1>1, FS_Bijection DEF Alike, Scorable, ExistsBijection
<1>3. g = {} <=> k = {}
  BY DEF Alike
<1>4. Sources(g) = Sources(k)
  BY DEF Alike, Like, Sources
<1>5. Targets(g) = Targets(k)
  BY DEF Alike, Like, Targets
<1>6. QED
  BY <1>2, <1>3, <1>4, <1>5

LEMMA PacketsAgree == ASSUME NEW g, NEW k, Alike(g, k) PROVE Packets(g) = Packets(k)
<1> DEFINE w == [f \in g |-> f.packets]
           v == [f \in k |-> f.packets]
<1>1. IsFiniteSet(g) /\ IsFiniteSet(k) /\ g \in SUBSET g /\ k \in SUBSET k
  BY DEF Alike, Scorable
<1>2. w \in [g -> Nat] /\ \E F : Sums(F, g, w) /\ Packets(g) = F[g]
  BY PacketsSum DEF Alike, Scorable
<1>3. v \in [k -> Nat] /\ \E G : Sums(G, k, v) /\ Packets(k) = G[k]
  BY PacketsSum DEF Alike, Scorable
<1>4. PICK phi \in Bijection(g, k) : \A f \in g : Like(f, phi[f])
  BY AlikeBijection
<1>5. \A f \in g : phi[f] \in k
  BY <1>4 DEF Bijection, Surjection
<1>6. \A f \in g : v[phi[f]] = w[f]
  BY <1>4, <1>5 DEF Like
<1> HIDE DEF w, v
<1>7. QED
  BY <1>1, <1>2, <1>3, <1>4, <1>6, SumsAgree

LEMMA RateAgree == ASSUME NEW g, NEW k, Alike(g, k) PROVE Rate(g) = Rate(k)
<1> DEFINE w == [f \in g |-> f.pps]
           v == [f \in k |-> f.pps]
<1>1. IsFiniteSet(g) /\ IsFiniteSet(k) /\ g \in SUBSET g /\ k \in SUBSET k
  BY DEF Alike, Scorable
<1>2. w \in [g -> Nat] /\ \E F : Sums(F, g, w) /\ Rate(g) = F[g]
  BY RatesSum DEF Alike, Scorable
<1>3. v \in [k -> Nat] /\ \E G : Sums(G, k, v) /\ Rate(k) = G[k]
  BY RatesSum DEF Alike, Scorable
<1>4. PICK phi \in Bijection(g, k) : \A f \in g : Like(f, phi[f])
  BY AlikeBijection
<1>5. \A f \in g : phi[f] \in k
  BY <1>4 DEF Bijection, Surjection
<1>6. \A f \in g : v[phi[f]] = w[f]
  BY <1>4, <1>5 DEF Like
<1> HIDE DEF w, v
<1>7. QED
  BY <1>1, <1>2, <1>3, <1>4, <1>6, SumsAgree

LEMMA AcksAgree == ASSUME NEW g, NEW k, Alike(g, k) PROVE Acks(g) = Acks(k)
<1> DEFINE w == [f \in g |-> f.ack]
           v == [f \in k |-> f.ack]
<1>1. IsFiniteSet(g) /\ IsFiniteSet(k) /\ g \in SUBSET g /\ k \in SUBSET k
  BY DEF Alike, Scorable
<1>2. w \in [g -> Nat] /\ \E F : Sums(F, g, w) /\ Acks(g) = F[g]
  BY AcksSum DEF Alike, Scorable
<1>3. v \in [k -> Nat] /\ \E G : Sums(G, k, v) /\ Acks(k) = G[k]
  BY AcksSum DEF Alike, Scorable
<1>4. PICK phi \in Bijection(g, k) : \A f \in g : Like(f, phi[f])
  BY AlikeBijection
<1>5. \A f \in g : phi[f] \in k
  BY <1>4 DEF Bijection, Surjection
<1>6. \A f \in g : v[phi[f]] = w[f]
  BY <1>4, <1>5 DEF Like
<1> HIDE DEF w, v
<1>7. QED
  BY <1>1, <1>2, <1>3, <1>4, <1>6, SumsAgree

LEMMA SynsAgree == ASSUME NEW g, NEW k, Alike(g, k) PROVE Syns(g) = Syns(k)
<1> DEFINE w == [f \in g |-> f.syn]
           v == [f \in k |-> f.syn]
<1>1. IsFiniteSet(g) /\ IsFiniteSet(k) /\ g \in SUBSET g /\ k \in SUBSET k
  BY DEF Alike, Scorable
<1>2. w \in [g -> Nat] /\ \E F : Sums(F, g, w) /\ Syns(g) = F[g]
  BY SynsSum DEF Alike, Scorable
<1>3. v \in [k -> Nat] /\ \E G : Sums(G, k, v) /\ Syns(k) = G[k]
  BY SynsSum DEF Alike, Scorable
<1>4. PICK phi \in Bijection(g, k) : \A f \in g : Like(f, phi[f])
  BY AlikeBijection
<1>5. \A f \in g : phi[f] \in k
  BY <1>4 DEF Bijection, Surjection
<1>6. \A f \in g : v[phi[f]] = w[f]
  BY <1>4, <1>5 DEF Like
<1> HIDE DEF w, v
<1>7. QED
  BY <1>1, <1>2, <1>3, <1>4, <1>6, SumsAgree

-----------------------------------------------------------------------------
(* The groups the detectors form are alike.                                *)
LEMMA OverAlike ==
    ASSUME NEW g, NEW k, Alike(g, k), NEW proto
    PROVE  Alike(Over(g, proto), Over(k, proto))
<1>1. \A f \in g, h \in k : Like(f, h) => (f \in Over(g, proto) <=> h \in Over(k, proto))
  BY DEF Over, Like
<1>2. Over(g, proto) \in SUBSET g /\ Over(k, proto) \in SUBSET k
  BY DEF Over
<1>3. QED
  BY <1>1, <1>2, AlikeParts

LEMMA TowardAlike ==
    ASSUME NEW g, NEW k, Alike(g, k), NEW d
    PROVE  Alike(Toward(g, d), Toward(k, d))
<1>1. \A f \in g, h \in k : Like(f, h) => (f \in Toward(g, d) <=> h \in Toward(k, d))
  BY DEF Toward, Like
<1>2. Toward(g, d) \in SUBSET g /\ Toward(k, d) \in SUBSET k
  BY DEF Toward
<1>3. QED
  BY <1>1, <1>2, AlikeParts

LEMMA FloodUdpAlike ==
    ASSUME NEW g, NEW k, Alike(g, k)
    PROVE  Alike(FloodUdp(g), FloodUdp(k))
<1>1. Alike(Over(g, "udp"), Over(k, "udp"))
  BY OverAlike
<1>2. \A f \in Over(g, "udp"), h \in Over(k, "udp") :
        Like(f, h) => (f \in FloodUdp(g) <=> h \in FloodUdp(k))
  BY DEF FloodUdp, BenignUdp, Like
<1>3. FloodUdp(g) \in SUBSET Over(g, "udp") /\ FloodUdp(k) \in SUBSET Over(k, "udp")
  BY DEF FloodUdp
<1>4. QED
  BY <1>1, <1>2, <1>3, AlikeParts

LEMMA SynOnlyAgree ==
    ASSUME NEW g, NEW k, Alike(g, k), NEW percent
    PROVE  MostlySynOnly(g, percent) <=> MostlySynOnly(k, percent)
<1> DEFINE p == {f \in g : SynOnly(f)}
           q == {f \in k : SynOnly(f)}
<1>1. \A f \in g, h \in k : Like(f, h) => (f \in p <=> h \in q)
  BY DEF SynOnly, Like
<1>2. Alike(p, q)
  BY <1>1, AlikeParts
<1>3. Cardinality(p) = Cardinality(q) /\ Cardinality(g) = Cardinality(k)
  BY <1>2, AlikeFacts
<1>4. QED
  BY <1>3 DEF MostlySynOnly

LEMMA FloodsAgree ==
    ASSUME NEW g, NEW k, Alike(g, k)
    PROVE  Floods(g) = Floods(k)
<1>1. /\ Alike(Over(g, "tcp"), Over(k, "tcp")) /\ Alike(FloodUdp(g), FloodUdp(k))
      /\ Alike(Over(g, "icmp"), Over(k, "icmp"))
  BY OverAlike, FloodUdpAlike
<1>2. IsSynFlood(g) <=> IsSynFlood(k)
  <2>1. /\ Cardinality(Over(g, "tcp")) = Cardinality(Over(k, "tcp"))
        /\ Syns(Over(g, "tcp")) = Syns(Over(k, "tcp"))
        /\ Acks(Over(g, "tcp")) = Acks(Over(k, "tcp"))
        /\ (MostlySynOnly(Over(g, "tcp"), Cfg.syn_only_fraction)
              <=> MostlySynOnly(Over(k, "tcp"), Cfg.syn_only_fraction))
    BY <1>1, AlikeFacts, SynsAgree, AcksAgree, SynOnlyAgree
  <2>2. QED
    BY <2>1 DEF IsSynFlood
<1>3. MuteGeneric(g) <=> MuteGeneric(k)
  BY DEF MuteGeneric, Alike, Like
<1>4. IsUdpFlood(g) <=> IsUdpFlood(k)
  <2>1. /\ Cardinality(FloodUdp(g)) = Cardinality(FloodUdp(k))
        /\ Sources(FloodUdp(g)) = Sources(FloodUdp(k))
        /\ Packets(FloodUdp(g)) = Packets(FloodUdp(k))
        /\ Rate(FloodUdp(g)) = Rate(FloodUdp(k))
    BY <1>1, AlikeFacts, PacketsAgree, RateAgree
  <2>2. QED
    BY <1>3, <2>1 DEF IsUdpFlood
<1>5. IsIcmpFlood(g) <=> IsIcmpFlood(k)
  <2>1. /\ Cardinality(Over(g, "icmp")) = Cardinality(Over(k, "icmp"))
        /\ Rate(Over(g, "icmp")) = Rate(Over(k, "icmp"))
    BY <1>1, AlikeFacts, RateAgree
  <2>2. QED
    BY <2>1 DEF IsIcmpFlood
<1>6. IsFanIn(g) <=> IsFanIn(k)
  <2>1. Sources(g) = Sources(k) /\ Rate(g) = Rate(k)
    BY AlikeFacts, RateAgree
  <2>2. QED
    BY <1>3, <2>1 DEF IsFanIn
<1>7. Specific(g) = Specific(k)
  BY <1>2, <1>4, <1>5 DEF Specific
<1>8. QED
  BY <1>6, <1>7 DEF Floods

-----------------------------------------------------------------------------
(* Alerts with one outline, and what spoofing and floods need to know of   *)
(* each other.                                                             *)
Twin(a, b) ==
    /\ a.class = b.class /\ a.subtype = b.subtype /\ a.dst = b.dst /\ a.dport = b.dport
    /\ a.subtype = "martian_source" \/ a.src = b.src
    /\ a.subtype = "martian_source" \/ a.class = "recon_scanning" \/ a.id = b.id

LEMMA TwinAlerts ==
    ASSUME NEW class, NEW subtype, NEW sev, NEW conf, NEW id, NEW src, NEW dst, NEW dport, NEW g,
           NEW sev2, NEW conf2, NEW k
    PROVE  Twin(Alert(class, subtype, sev, conf, id, src, dst, dport, g),
                Alert(class, subtype, sev2, conf2, id, src, dst, dport, k))
  BY DEF Twin, Alert

LEMMA TwinsOfFlows ==
    ASSUME NEW f, NEW h, Like(f, h), NEW class, NEW subtype, NEW sev, NEW conf, NEW sev2, NEW conf2
    PROVE  Twin(AlertOfFlow(f, class, subtype, sev, conf), AlertOfFlow(h, class, subtype, sev2, conf2))
<1>1. FlowId(f) = FlowId(h) /\ f.src = h.src /\ f.dst = h.dst /\ f.dport = h.dport
  BY DEF Like, FlowId
<1>2. QED
  BY <1>1, TwinAlerts DEF AlertOfFlow

LEMMA FloodTwins ==
    ASSUME NEW s, NEW d, NEW g, NEW k
    PROVE  Twin(FloodAlert(s, d, g), FloodAlert(s, d, k))
<1> DEFINE conf(q) == [syn_flood |-> RatioConfidence(Syns(q),
                                Cfg.syn_flood_min_syn_ratio * Max({1, Acks(q)}), 30),
                 udp_flood |-> Max({RatioConfidence(Rate(FloodUdp(q)), Cfg.udp_flood_packet_rate, 30),
                                    RatioConfidence(Cardinality(Sources(FloodUdp(q))),
                                                    Cfg.min_unique_sources, 30)}),
                 icmp_flood |-> RatioConfidence(Rate(Over(q, "icmp")), Cfg.icmp_flood_packet_rate, 30),
                 fan_in_flood |-> RatioConfidence(Rate(q), Cfg.dst_packet_rate, 30)]
           c(q) == conf(q)[s]
           sev(q) == IF s = "syn_flood" /\ ~(Cardinality(Sources(q)) >= Cfg.min_unique_sources)
                     THEN "medium" ELSE "high"
           id == <<"dst", s, d>>
           none == ""
           port == 0
           class == "volumetric_ddos"
<1>1. /\ FloodAlert(s, d, g) = Alert(class, s, sev(g), c(g), id, none, d, port, g)
      /\ FloodAlert(s, d, k) = Alert(class, s, sev(k), c(k), id, none, d, port, k)
  BY DEF FloodAlert
<1> HIDE DEF conf, c, sev, id, none, port, class
<1>2. QED
  BY <1>1, TwinAlerts

LEMMA VolumetricTwins ==
    ASSUME NEW fs, NEW gs, Alike(fs, gs), NEW a \in Volumetric(fs)
    PROVE  \E b \in Volumetric(gs) : Twin(a, b)
<1> DEFINE At(fl, d) == {FloodAlert(s, d, Toward(fl, d)) : s \in Floods(Toward(fl, d))}
           Groups(fl) == {At(fl, d) : d \in Targets(fl)}
           sure(f) == RatioConfidence(f.pps, Cfg.flow_packet_rate, 30)
           Of(f) == AlertOfFlow(f, "volumetric_ddos", HighRateSubtype(f), "medium", sure(f))
           Fast(fl) == {Of(f) : f \in {h \in fl : HighRate(h)}}
<1>1. /\ Volumetric(fs) = Fast(fs) \cup (UNION Groups(fs))
      /\ Volumetric(gs) = Fast(gs) \cup (UNION Groups(gs))
  BY DEF Volumetric
<1>2. CASE a \in Fast(fs)
  <2>1. PICK f \in fs : HighRate(f) /\ a = Of(f)
    BY <1>2
  <2>2. PICK h \in gs : Like(f, h)
    BY DEF Alike
  <2>3. HighRate(h) /\ HighRateSubtype(h) = HighRateSubtype(f)
    BY <2>1, <2>2 DEF Like, HighRate, HighRateSubtype, SynOnly
  <2>4. Of(h) \in Fast(gs)
    BY <2>3
  <2> HIDE DEF sure
  <2>5. Twin(Of(f), Of(h))
    BY <2>2, <2>3, TwinsOfFlows
  <2> HIDE DEF Of, Fast
  <2>6. QED
    BY <1>1, <2>1, <2>4, <2>5
<1>3. CASE a \in UNION Groups(fs)
  <2>1. PICK d \in Targets(fs) : a \in At(fs, d)
    BY <1>3
  <2>2. PICK s \in Floods(Toward(fs, d)) : a = FloodAlert(s, d, Toward(fs, d))
    BY <2>1
  <2>3. d \in Targets(gs) /\ s \in Floods(Toward(gs, d))
    BY <2>2, AlikeFacts, TowardAlike, FloodsAgree
  <2>4. FloodAlert(s, d, Toward(gs, d)) \in At(gs, d) /\ At(gs, d) \in Groups(gs)
    BY <2>3
  <2> HIDE DEF Groups, At, Fast
  <2>5. FloodAlert(s, d, Toward(gs, d)) \in Volumetric(gs)
    BY <1>1, <2>4
  <2>6. QED
    BY <2>2, <2>5, FloodTwins
<1>4. QED
  <2> HIDE DEF Groups, Fast
  <2>1. QED
    BY <1>1, <1>2, <1>3

-----------------------------------------------------------------------------
LEMMA PerFlowSpoofTwins ==
    ASSUME NEW fs, NEW gs, Alike(fs, gs), NEW a \in PerFlowSpoof(fs)
    PROVE  \E b \in PerFlowSpoof(gs) : Twin(a, b)
<1> DEFINE Land(f) == AlertOfFlow(f, "ip_spoofing", "land_attack", "high", 90)
           Ttl(f) == AlertOfFlow(f, "ip_spoofing", "ttl_anomaly", "low", 55)
<1>1. CASE \E f \in fs : f.src = f.dst /\ ~Loopback(f.src) /\ a = Land(f)
  <2>1. PICK f \in fs : f.src = f.dst /\ ~Loopback(f.src) /\ a = Land(f)
    BY <1>1
  <2>2. PICK h \in gs : Like(f, h)
    BY DEF Alike
  <2>3. h.src = h.dst /\ ~Loopback(h.src)
    BY <2>1, <2>2 DEF Like
  <2>4. Land(h) \in PerFlowSpoof(gs)
    BY <2>3 DEF PerFlowSpoof
  <2>5. Twin(Land(f), Land(h))
    BY <2>2, TwinsOfFlows
  <2>6. QED
    BY <2>1, <2>4, <2>5
<1>2. CASE \E f \in fs : ~Martian(f.src) /\ f.ttl = 0 /\ a = Ttl(f)
  <2>1. PICK f \in fs : ~Martian(f.src) /\ f.ttl = 0 /\ a = Ttl(f)
    BY <1>2
  <2>2. PICK h \in gs : Like(f, h)
    BY DEF Alike
  <2>3. ~Martian(h.src) /\ h.ttl = 0
    BY <2>1, <2>2 DEF Like
  <2>4. Ttl(h) \in PerFlowSpoof(gs)
    BY <2>3 DEF PerFlowSpoof
  <2>5. Twin(Ttl(f), Ttl(h))
    BY <2>2, TwinsOfFlows
  <2>6. QED
    BY <2>1, <2>4, <2>5
<1>3. QED
  BY <1>1, <1>2 DEF PerFlowSpoof

LEMMA TtlTwins ==
    ASSUME NEW fs, NEW gs, Alike(fs, gs), NEW a \in TtlInconsistency(fs)
    PROVE  \E b \in TtlInconsistency(gs) : Twin(a, b)
<1> DEFINE sent(fl) == {f \in fl : ~Martian(f.src) /\ f.ttl > 0}
           Of(fl, s) == {f \in sent(fl) : f.src = s}
           Ttls(fl, s) == {f.ttl : f \in Of(fl, s)}
           conf(fl, s) == RatioConfidence(Cardinality(TtlFamilies(Ttls(fl, s))),
                                          Cfg.ttl_min_families, 14)
           Many(fl, s) == /\ Cardinality(Ttls(fl, s)) >= Cfg.ttl_variance_min_values
                          /\ Cardinality(TtlFamilies(Ttls(fl, s))) >= Cfg.ttl_min_families
           Report(fl, s) == Alert("ip_spoofing", "ttl_inconsistency", "high", conf(fl, s),
                                  <<"src", s>>, s, "", 0, Of(fl, s))
<1>1. \A fl : TtlInconsistency(fl) = {Report(fl, s) : s \in {r \in Sources(sent(fl)) : Many(fl, r)}}
  BY DEF TtlInconsistency
<1>2. PICK s \in Sources(sent(fs)) : Many(fs, s) /\ a = Report(fs, s)
  BY <1>1
<1>3. Alike(sent(fs), sent(gs))
  <2>1. \A f \in fs, h \in gs : Like(f, h) => (f \in sent(fs) <=> h \in sent(gs))
    BY DEF Like
  <2>2. sent(fs) \in SUBSET fs /\ sent(gs) \in SUBSET gs
    OBVIOUS
  <2> HIDE DEF sent
  <2>3. QED
    BY <2>1, <2>2, AlikeParts
<1>4. Ttls(fs, s) = Ttls(gs, s)
  <2> HIDE DEF sent
  <2>1. QED
    BY <1>3 DEF Alike, Like
<1>5. s \in Sources(sent(gs))
  <2> HIDE DEF sent
  <2>1. QED
    BY <1>3, AlikeFacts
<1>6. Many(gs, s)
  <2> HIDE DEF Ttls
  <2>1. QED
    BY <1>2, <1>4
<1>7. Report(gs, s) \in TtlInconsistency(gs)
  <2> HIDE DEF Many, Report
  <2>1. QED
    BY <1>1, <1>5, <1>6
<1>8. Twin(Report(fs, s), Report(gs, s))
  <2> HIDE DEF conf, Of
  <2>1. QED
    BY TwinAlerts
<1>9. QED
  BY <1>2, <1>7, <1>8

LEMMA SynStormTwins ==
    ASSUME NEW fs, NEW gs, Alike(fs, gs), NEW a \in SpoofedSynStorm(fs)
    PROVE  \E b \in SpoofedSynStorm(gs) : Twin(a, b)
<1> DEFINE At(fl, d) == Toward(Over(fl, "tcp"), d)
           conf(fl, d) == RatioConfidence(Cardinality(Sources(At(fl, d))),
                                          Cfg.spoofed_syn_min_sources, 30)
           Storm(fl, e) == /\ Cardinality(At(fl, e)) >= Cfg.spoofed_syn_min_flows
                           /\ Cardinality(Sources(At(fl, e))) >= Cfg.spoofed_syn_min_sources
                           /\ MostlySynOnly(At(fl, e), Cfg.spoofed_syn_only_fraction)
                           /\ Acks(At(fl, e)) = 0
           Report(fl, d) == Alert("ip_spoofing", "spoofed_syn_storm", "high", conf(fl, d),
                                  <<"dst", "tcp", d>>, "", d, 0, At(fl, d))
<1>1. \A fl : SpoofedSynStorm(fl)
                = {Report(fl, d) : d \in {e \in Targets(Over(fl, "tcp")) : Storm(fl, e)}}
  BY DEF SpoofedSynStorm
<1>2. PICK d \in Targets(Over(fs, "tcp")) : Storm(fs, d) /\ a = Report(fs, d)
  BY <1>1
<1>3. Alike(Over(fs, "tcp"), Over(gs, "tcp"))
  BY OverAlike
<1>4. d \in Targets(Over(gs, "tcp")) /\ Alike(At(fs, d), At(gs, d))
  BY <1>3, AlikeFacts, TowardAlike
<1>5. Storm(gs, d)
  <2> HIDE DEF At
  <2>1. /\ Cardinality(At(fs, d)) = Cardinality(At(gs, d))
        /\ Sources(At(fs, d)) = Sources(At(gs, d)) /\ Acks(At(fs, d)) = Acks(At(gs, d))
        /\ (MostlySynOnly(At(fs, d), Cfg.spoofed_syn_only_fraction)
              <=> MostlySynOnly(At(gs, d), Cfg.spoofed_syn_only_fraction))
    BY <1>4, AlikeFacts, AcksAgree, SynOnlyAgree
  <2>2. QED
    BY <1>2, <2>1
<1>6. Report(gs, d) \in SpoofedSynStorm(gs)
  <2> HIDE DEF Storm, Report
  <2>1. QED
    BY <1>1, <1>4, <1>5
<1>7. Twin(Report(fs, d), Report(gs, d))
  <2> HIDE DEF conf, At
  <2>1. QED
    BY TwinAlerts
<1>8. QED
  BY <1>2, <1>6, <1>7

LEMMA MartianTwins ==
    ASSUME NEW fs, NEW gs, Alike(fs, gs), NEW a \in MartianSources(fs)
    PROVE  \E b \in MartianSources(gs) : Twin(a, b)
<1> DEFINE At(fl, d) == {f \in Toward(fl, d) : Kind[f.src] \in {"bogon", "multicast"} /\ ~Loopback(d)}
           Storm(fl, d) == Alert("ip_spoofing", "martian_source_storm", "high", 90,
                                 <<"dst", "any", d>>, "", d, 0, At(fl, d))
           one(fl, d) == First(At(fl, d)).src
           Single(fl, d) == Alert("ip_spoofing", "martian_source", "high", 75,
                                  <<"pair", one(fl, d), d>>, one(fl, d), d, 0, At(fl, d))
           Many(fl, d) == Cardinality(Sources(At(fl, d))) >= Cfg.martian_storm_sources
           Report(fl, d) == IF Many(fl, d) THEN Storm(fl, d) ELSE Single(fl, d)
<1>1. \A fl : MartianSources(fl) = {Report(fl, d) : d \in {e \in Targets(fl) : At(fl, e) # {}}}
  BY DEF MartianSources
<1>2. PICK d \in Targets(fs) : At(fs, d) # {} /\ a = Report(fs, d)
  BY <1>1
<1>3. Alike(At(fs, d), At(gs, d))
  <2>1. Alike(Toward(fs, d), Toward(gs, d))
    BY TowardAlike
  <2>2. \A f \in Toward(fs, d), h \in Toward(gs, d) :
           Like(f, h) => (f \in At(fs, d) <=> h \in At(gs, d))
    BY DEF Like
  <2>3. At(fs, d) \in SUBSET Toward(fs, d) /\ At(gs, d) \in SUBSET Toward(gs, d)
    OBVIOUS
  <2> HIDE DEF At
  <2>4. QED
    BY <2>1, <2>2, <2>3, AlikeParts
<1>4. d \in Targets(gs)
  BY AlikeFacts
<1> HIDE DEF At
<1>5. At(gs, d) # {} /\ (Many(fs, d) <=> Many(gs, d))
  BY <1>2, <1>3, AlikeFacts
<1>6. Report(gs, d) \in MartianSources(gs)
  <2> HIDE DEF Report
  <2>1. QED
    BY <1>1, <1>4, <1>5
<1>7. Twin(Storm(fs, d), Storm(gs, d))
  BY DEF Twin, Alert
<1>8. Twin(Single(fs, d), Single(gs, d))
  <2> HIDE DEF one
  <2>1. QED
    BY DEF Twin, Alert
<1> HIDE DEF Many, Storm, Single
<1>9. QED
  BY <1>2, <1>5, <1>6, <1>7, <1>8

LEMMA SpoofingTwins ==
    ASSUME NEW fs, NEW gs, Alike(fs, gs), NEW a \in Spoofing(fs)
    PROVE  \E b \in Spoofing(gs) : Twin(a, b)
  BY PerFlowSpoofTwins, TtlTwins, SynStormTwins, MartianTwins DEF Spoofing

(* What is dropped as the noise of a flood is dropped in any order.        *)
LEMMA NoiseTwins ==
    ASSUME NEW fs, NEW gs, Alike(fs, gs), NEW a \in DropFloodNoise(Spoofing(fs), Volumetric(fs))
    PROVE  \E b \in DropFloodNoise(Spoofing(gs), Volumetric(gs)) : Twin(a, b)
<1>1. a \in Spoofing(fs)
      /\ ~(a.subtype \in SpoofNoise
             /\ \E v \in Volumetric(fs) : v.subtype \in FloodSubtypes /\ v.dst = a.dst)
  BY DEF DropFloodNoise
<1>2. PICK b \in Spoofing(gs) : Twin(a, b)
  BY <1>1, SpoofingTwins
<1>3. ASSUME b.subtype \in SpoofNoise,
             NEW v \in Volumetric(gs), v.subtype \in FloodSubtypes, v.dst = b.dst
      PROVE  FALSE
  <2>1. Alike(gs, fs)
    BY AlikeSwaps
  <2>2. PICK u \in Volumetric(fs) : Twin(v, u)
    BY <2>1, VolumetricTwins
  <2>3. u.subtype \in FloodSubtypes /\ u.dst = a.dst /\ a.subtype \in SpoofNoise
    BY <1>2, <1>3, <2>2 DEF Twin
  <2>4. QED
    BY <1>1, <2>3
<1>4. b \in DropFloodNoise(Spoofing(gs), Volumetric(gs))
  BY <1>3 DEF DropFloodNoise
<1>5. QED
  BY <1>2, <1>4

-----------------------------------------------------------------------------
LEMMA ProbesAlike ==
    ASSUME NEW fs, NEW gs, Alike(fs, gs)
    PROVE  Alike(Probes(fs), Probes(gs))
<1>1. \A f \in fs, h \in gs : Like(f, h) => (f \in Probes(fs) <=> h \in Probes(gs))
  BY DEF Probes, Over, Like
<1>2. Probes(fs) \in SUBSET fs /\ Probes(gs) \in SUBSET gs
  BY DEF Probes, Over
<1>3. QED
  BY <1>1, <1>2, AlikeParts

LEMMA ProbingAgree ==
    ASSUME NEW g, NEW k, Alike(g, k)
    PROVE  LooksLikeProbing(g) <=> LooksLikeProbing(k)
<1>1. Alike(Over(g, "tcp"), Over(k, "tcp"))
  BY OverAlike
<1>2. (Over(g, "tcp") # {} <=> Over(k, "tcp") # {})
      /\ (MostlySynOnly(Over(g, "tcp"), Cfg.min_syn_only_fraction)
            <=> MostlySynOnly(Over(k, "tcp"), Cfg.min_syn_only_fraction))
  BY <1>1, AlikeFacts, SynOnlyAgree
<1>3. Cardinality(g) = Cardinality(k) /\ Packets(g) = Packets(k)
  BY AlikeFacts, PacketsAgree
<1>4. QED
  BY <1>2, <1>3 DEF LooksLikeProbing

(* The two scans as the alerts they give for a pair p.                     *)
OfHosts(fs, p) == {f \in Probes(fs) : f.src = p[1] /\ f.dst = p[2]}
OfPort(fs, p) == {f \in Probes(fs) : f.src = p[1] /\ f.dport = p[2]}
PortsTried(fs, p) == {f.dport : f \in OfHosts(fs, p)} \cap 1 .. Cfg.max_scan_dst_port

IsVertical(fs, p) ==
    /\ Cardinality(PortsTried(fs, p)) >= Cfg.min_ports_per_dst
    /\ LooksLikeProbing(OfHosts(fs, p))
IsHorizontal(fs, p) ==
    /\ p[2] <= Cfg.max_scan_dst_port
    /\ Cardinality(Targets(OfPort(fs, p))) >= Cfg.min_dsts_per_port
    /\ LooksLikeProbing(OfPort(fs, p))

VerticalAlert(fs, p) ==
    Alert("recon_scanning", "vertical_port_scan", "medium",
          RatioConfidence(Cardinality(PortsTried(fs, p)), Cfg.min_ports_per_dst, 50),
          <<"pair", First(OfHosts(fs, p)).proto, p[1], p[2]>>, p[1], p[2], 0, OfHosts(fs, p))
HorizontalAlert(fs, p) ==
    Alert("recon_scanning", "horizontal_sweep", "medium",
          RatioConfidence(Cardinality(Targets(OfPort(fs, p))), Cfg.min_dsts_per_port, 50),
          <<"port", First(OfPort(fs, p)).proto, p[1], p[2]>>, p[1], "", p[2], OfPort(fs, p))

LEMMA VerticalCases ==
    ASSUME NEW fs
    PROVE  \A a : a \in VerticalScans(fs)
             <=> \E h \in Probes(fs) : /\ IsVertical(fs, <<h.src, h.dst>>)
                                       /\ a = VerticalAlert(fs, <<h.src, h.dst>>)
<1>1. VerticalScans(fs) =
        {VerticalAlert(fs, p) : p \in {<<f.src, f.dst>> : f \in {h \in Probes(fs) :
                                          IsVertical(fs, <<h.src, h.dst>>)}}}
  BY DEF VerticalScans, VerticalAlert, IsVertical, PortsTried, OfHosts
<1>2. QED
  BY <1>1

LEMMA HorizontalCases ==
    ASSUME NEW fs
    PROVE  \A a : a \in HorizontalSweeps(fs)
             <=> \E h \in Probes(fs) : /\ IsHorizontal(fs, <<h.src, h.dport>>)
                                       /\ a = HorizontalAlert(fs, <<h.src, h.dport>>)
<1>1. HorizontalSweeps(fs) =
        {HorizontalAlert(fs, p) : p \in {<<f.src, f.dport>> : f \in {h \in Probes(fs) :
                                          IsHorizontal(fs, <<h.src, h.dport>>)}}}
  BY DEF HorizontalSweeps, HorizontalAlert, IsHorizontal, OfPort
<1>2. QED
  BY <1>1

LEMMA VerticalTwins ==
    ASSUME NEW fs, NEW gs, Alike(fs, gs), NEW a \in VerticalScans(fs)
    PROVE  \E b \in VerticalScans(gs) : Twin(a, b)
<1>1. PICK f \in Probes(fs) : /\ IsVertical(fs, <<f.src, f.dst>>)
                              /\ a = VerticalAlert(fs, <<f.src, f.dst>>)
  BY VerticalCases
<1>2. PICK h \in Probes(gs) : Like(f, h)
  BY ProbesAlike DEF Alike
<1> DEFINE p == <<f.src, f.dst>>
<1>3. p = <<h.src, h.dst>>
  BY <1>2 DEF Like
<1> HIDE DEF p
<1>4. Alike(OfHosts(fs, p), OfHosts(gs, p))
  <2>1. \A x \in Probes(fs), y \in Probes(gs) :
          Like(x, y) => (x \in OfHosts(fs, p) <=> y \in OfHosts(gs, p))
    BY DEF Like, OfHosts
  <2>2. OfHosts(fs, p) \in SUBSET Probes(fs) /\ OfHosts(gs, p) \in SUBSET Probes(gs)
    BY DEF OfHosts
  <2>3. QED
    BY <2>1, <2>2, ProbesAlike, AlikeParts
<1>5. PortsTried(fs, p) = PortsTried(gs, p)
  BY <1>4 DEF PortsTried, Alike, Like
<1>6. IsVertical(gs, p)
  BY <1>1, <1>4, <1>5, ProbingAgree DEF IsVertical, p
<1>7. VerticalAlert(gs, p) \in VerticalScans(gs)
  BY <1>3, <1>6, VerticalCases
<1>8. Twin(VerticalAlert(fs, p), VerticalAlert(gs, p))
  BY DEF VerticalAlert, Twin, Alert
<1>9. QED
  BY <1>1, <1>7, <1>8 DEF p

LEMMA HorizontalTwins ==
    ASSUME NEW fs, NEW gs, Alike(fs, gs), NEW a \in HorizontalSweeps(fs)
    PROVE  \E b \in HorizontalSweeps(gs) : Twin(a, b)
<1>1. PICK f \in Probes(fs) : /\ IsHorizontal(fs, <<f.src, f.dport>>)
                              /\ a = HorizontalAlert(fs, <<f.src, f.dport>>)
  BY HorizontalCases
<1>2. PICK h \in Probes(gs) : Like(f, h)
  BY ProbesAlike DEF Alike
<1> DEFINE p == <<f.src, f.dport>>
<1>3. p = <<h.src, h.dport>>
  BY <1>2 DEF Like
<1> HIDE DEF p
<1>4. Alike(OfPort(fs, p), OfPort(gs, p))
  <2>1. \A x \in Probes(fs), y \in Probes(gs) :
          Like(x, y) => (x \in OfPort(fs, p) <=> y \in OfPort(gs, p))
    BY DEF Like, OfPort
  <2>2. OfPort(fs, p) \in SUBSET Probes(fs) /\ OfPort(gs, p) \in SUBSET Probes(gs)
    BY DEF OfPort
  <2>3. QED
    BY <2>1, <2>2, ProbesAlike, AlikeParts
<1>5. Targets(OfPort(fs, p)) = Targets(OfPort(gs, p))
  BY <1>4, AlikeFacts
<1>6. IsHorizontal(gs, p)
  BY <1>1, <1>4, <1>5, ProbingAgree DEF IsHorizontal, p
<1>7. HorizontalAlert(gs, p) \in HorizontalSweeps(gs)
  BY <1>3, <1>6, HorizontalCases
<1>8. Twin(HorizontalAlert(fs, p), HorizontalAlert(gs, p))
  BY DEF HorizontalAlert, Twin, Alert
<1>9. QED
  BY <1>1, <1>7, <1>8 DEF p

-----------------------------------------------------------------------------
LEMMA ExfiltrationTwins ==
    ASSUME NEW fs, NEW gs, Alike(fs, gs), NEW a \in Exfiltration(fs)
    PROVE  \E b \in Exfiltration(gs) : Twin(a, b)
<1> DEFINE conf(fl, f) == Max({RatioConfidence(f.total, Cfg.min_outbound_bytes, 30)} \cup
                              {RatioConfidence(f.total, Cfg.min_ratio * Max({1, r.total}), 30) :
                                 r \in ReverseOf(f, fl)})
           Leak(fl, h) ==
                /\ Kind[h.src] = "private" /\ Kind[h.dst] = "public"
                /\ h.total >= Cfg.min_outbound_bytes /\ h.ms >= Cfg.min_duration_ms
                /\ \E r \in ReverseOf(h, fl) : h.total >= Cfg.min_ratio * Max({1, r.total})
           Report(fl, f) == AlertOfFlow(f, "data_exfiltration", "asymmetric_outbound_volume",
                                        "high", conf(fl, f))
<1>1. \A fl : Exfiltration(fl) = {Report(fl, f) : f \in {h \in fl : Leak(fl, h)}}
  BY DEF Exfiltration
<1>2. PICK f \in fs : Leak(fs, f) /\ a = Report(fs, f)
  BY <1>1
<1>3. PICK h \in gs : Like(f, h)
  BY DEF Alike
<1>4. PICK r \in ReverseOf(f, fs) : f.total >= Cfg.min_ratio * Max({1, r.total})
  BY <1>2
<1>5. PICK q \in gs : Like(r, q)
  BY <1>4 DEF Alike, ReverseOf
<1>6. q \in ReverseOf(h, gs)
  BY <1>3, <1>4, <1>5 DEF ReverseOf, Like
<1>7. h.total >= Cfg.min_ratio * Max({1, q.total})
  <2>1. h.total = f.total /\ q.total = r.total
    BY <1>3, <1>5 DEF Like
  <2>2. QED
    BY <1>4, <2>1
<1>8. Leak(gs, h)
  <2>1. /\ Kind[h.src] = "private" /\ Kind[h.dst] = "public"
        /\ h.total >= Cfg.min_outbound_bytes /\ h.ms >= Cfg.min_duration_ms
    BY <1>2, <1>3 DEF Like
  <2>2. QED
    BY <1>6, <1>7, <2>1
<1>9. Report(gs, h) \in Exfiltration(gs)
  <2> HIDE DEF Report, Leak
  <2>1. QED
    BY <1>1, <1>8
<1>10. Twin(Report(fs, f), Report(gs, h))
  <2> HIDE DEF conf
  <2>1. QED
    BY <1>3, TwinsOfFlows
<1>11. QED
  BY <1>2, <1>9, <1>10

LEMMA QueryTwins ==
    ASSUME NEW f, NEW h, Like(f, h), NEW a \in QueryAlerts(f)
    PROVE  \E b \in QueryAlerts(h) : Twin(a, b)
<1> DEFINE Dga(x) == AlertOfFlow(x, "dns_abuse", "dga_domain", "medium", 75)
           Tunnel(x) == AlertOfFlow(x, "dns_abuse", "dns_tunnel", "high", 50)
           Long(x) == AlertOfFlow(x, "dns_abuse", "oversized_query", "low", 55)
           IsLong(x) == "stuffed" \notin x.query.shape /\ "long" \in x.query.shape
<1>1. ASSUME NEW x
      PROVE  \A c : c \in QueryAlerts(x)
               <=> \/ "random" \in x.query.shape /\ c = Dga(x)
                   \/ "stuffed" \in x.query.shape /\ c = Tunnel(x)
                   \/ IsLong(x) /\ c = Long(x)
  BY DEF QueryAlerts
<1>2. f.query.shape = h.query.shape
  BY DEF Like
<1>3. Twin(Dga(f), Dga(h)) /\ Twin(Tunnel(f), Tunnel(h)) /\ Twin(Long(f), Long(h))
  BY TwinsOfFlows
<1> HIDE DEF Dga, Tunnel, Long
<1>4. QED
  BY <1>1, <1>2, <1>3

LEMMA TunnelTwins ==
    ASSUME NEW fs, NEW gs, Alike(fs, gs), NEW a \in TunnelVolume(fs)
    PROVE  \E b \in TunnelVolume(gs) : Twin(a, b)
<1> DEFINE queries(fl) == {f \in fl : f.query # NoQuery}
           Of(fl, p) == {f \in queries(fl) : f.query.parent = p}
           Resolver(fl, p) == Least(Targets(Of(fl, p)))
           conf(fl, p) == RatioConfidence(Cardinality(Subdomains(p, fl)),
                                          Cfg.tunnel_min_subdomains, 40)
           Many(fl, p) == p # "" /\ Cardinality(Subdomains(p, fl)) >= Cfg.tunnel_min_subdomains
           Report(fl, p) == Alert("dns_abuse", "dns_tunnel_volume", "high", conf(fl, p),
                                  <<"resolver", Resolver(fl, p)>>, "", Resolver(fl, p), 53, Of(fl, p))
<1>1. \A fl : TunnelVolume(fl)
                = {Report(fl, p) : p \in {q \in {f.query.parent : f \in queries(fl)} : Many(fl, q)}}
  BY DEF TunnelVolume
<1>2. PICK f \in queries(fs) : Many(fs, f.query.parent) /\ a = Report(fs, f.query.parent)
  BY <1>1
<1>3. Alike(queries(fs), queries(gs))
  <2>1. \A x \in fs, y \in gs : Like(x, y) => (x \in queries(fs) <=> y \in queries(gs))
    BY DEF Like
  <2>2. queries(fs) \in SUBSET fs /\ queries(gs) \in SUBSET gs
    OBVIOUS
  <2> HIDE DEF queries
  <2>3. QED
    BY <2>1, <2>2, AlikeParts
<1>4. PICK h \in queries(gs) : Like(f, h)
  BY <1>3 DEF Alike
<1> DEFINE p == f.query.parent
<1>5. p = h.query.parent
  BY <1>4 DEF Like
<1> HIDE DEF p
<1>6. Subdomains(p, fs) = Subdomains(p, gs)
  <2>1. ASSUME NEW fl, NEW gl, Alike(fl, gl) PROVE Subdomains(p, fl) \subseteq Subdomains(p, gl)
    BY <2>1 DEF Alike, Like, Subdomains
  <2>2. QED
    BY <2>1, AlikeSwaps
<1>7. Resolver(fs, p) = Resolver(gs, p)
  <2>1. \A x \in queries(fs), y \in queries(gs) : Like(x, y) => (x \in Of(fs, p) <=> y \in Of(gs, p))
    BY DEF Like
  <2>2. Of(fs, p) \in SUBSET queries(fs) /\ Of(gs, p) \in SUBSET queries(gs)
    OBVIOUS
  <2> HIDE DEF queries, Of
  <2>3. Alike(Of(fs, p), Of(gs, p))
    BY <1>3, <2>1, <2>2, AlikeParts
  <2>4. QED
    BY <2>3, AlikeFacts
<1>8. Many(gs, p)
  BY <1>2, <1>6 DEF p
<1>9. Report(gs, p) \in TunnelVolume(gs)
  <2> HIDE DEF Many, Report, queries
  <2>1. QED
    BY <1>1, <1>5, <1>8
<1>10. Twin(Report(fs, p), Report(gs, p))
  <2> HIDE DEF conf, Of, Resolver
  <2>1. QED
    BY <1>7 DEF Twin, Alert
<1>11. QED
  BY <1>2, <1>9, <1>10 DEF p

LEMMA DnsTwins ==
    ASSUME NEW fs, NEW gs, Alike(fs, gs), NEW a \in DnsAbuse(fs)
    PROVE  \E b \in DnsAbuse(gs) : Twin(a, b)
<1>1. \A fl, c : c \in DnsAbuse(fl)
        <=> \/ c \in TunnelVolume(fl)
            \/ \E f \in fl : f.query # NoQuery /\ c \in QueryAlerts(f)
  BY DEF DnsAbuse
<1>2. CASE a \in TunnelVolume(fs)
  BY <1>1, <1>2, TunnelTwins
<1>3. CASE \E f \in fs : f.query # NoQuery /\ a \in QueryAlerts(f)
  <2>1. PICK f \in fs : f.query # NoQuery /\ a \in QueryAlerts(f)
    BY <1>3
  <2>2. PICK h \in gs : Like(f, h)
    BY DEF Alike
  <2>3. h.query # NoQuery
    BY <2>1, <2>2 DEF Like
  <2>4. QED
    BY <1>1, <2>1, <2>2, <2>3, QueryTwins
<1>4. QED
  BY <1>1, <1>2, <1>3

LEMMA EncryptedCases ==
    ASSUME NEW fs
    PROVE  \A a : a \in Encrypted(fs)
             <=> \E f \in fs :
                   \/ /\ f.hello = "quic" /\ ~OnServicePort(f, Cfg.quic_ports)
                      /\ a = AlertOfFlow(f, "encrypted_anomaly", "quic_on_nonstandard_port", "low", 55)
                   \/ /\ f.hello = "tls" /\ ~Loopback(f.src) /\ ~Loopback(f.dst)
                      /\ \E t \in TlsTraits(f) :
                            a = AlertOfFlow(f, "encrypted_anomaly", t,
                                            TraitSeverity(t)[1], TraitSeverity(t)[2])
  BY DEF Encrypted

LEMMA EncryptedTwins ==
    ASSUME NEW fs, NEW gs, Alike(fs, gs), NEW a \in Encrypted(fs)
    PROVE  \E b \in Encrypted(gs) : Twin(a, b)
<1> DEFINE Quic(f) == AlertOfFlow(f, "encrypted_anomaly", "quic_on_nonstandard_port", "low", 55)
           Tls(f, t) == AlertOfFlow(f, "encrypted_anomaly", t, TraitSeverity(t)[1], TraitSeverity(t)[2])
<1>1. PICK f \in fs :
        \/ /\ f.hello = "quic" /\ ~OnServicePort(f, Cfg.quic_ports) /\ a = Quic(f)
        \/ /\ f.hello = "tls" /\ ~Loopback(f.src) /\ ~Loopback(f.dst)
           /\ \E t \in TlsTraits(f) : a = Tls(f, t)
  BY EncryptedCases
<1>2. PICK h \in gs : Like(f, h)
  BY DEF Alike
<1>3. /\ f.hello = h.hello /\ f.src = h.src /\ f.dst = h.dst
      /\ \A ports : OnServicePort(f, ports) <=> OnServicePort(h, ports)
      /\ TlsTraits(f) = TlsTraits(h)
  BY <1>2 DEF Like, OnServicePort, TlsTraits
<1>4. Twin(Quic(f), Quic(h)) /\ \A t : Twin(Tls(f, t), Tls(h, t))
  BY <1>2, TwinsOfFlows
<1>5. CASE f.hello = "quic" /\ ~OnServicePort(f, Cfg.quic_ports) /\ a = Quic(f)
  <2>1. Quic(h) \in Encrypted(gs)
    BY <1>3, <1>5, EncryptedCases
  <2>2. QED
    BY <1>4, <1>5, <2>1
<1>6. CASE /\ f.hello = "tls" /\ ~Loopback(f.src) /\ ~Loopback(f.dst)
           /\ \E t \in TlsTraits(f) : a = Tls(f, t)
  <2>1. PICK t \in TlsTraits(f) : a = Tls(f, t)
    BY <1>6
  <2>2. Tls(h, t) \in Encrypted(gs)
    BY <1>3, <1>6, EncryptedCases
  <2>3. QED
    BY <1>4, <2>1, <2>2
<1>7. QED
  BY <1>1, <1>5, <1>6

(* Whatever a detector says of a tick, it says of it in any order.         *)
LEMMA RawTwins ==
    ASSUME NEW fs, NEW gs, Alike(fs, gs), NEW a \in Raw(fs)
    PROVE  \E b \in Raw(gs) : Twin(a, b)
  BY VolumetricTwins, NoiseTwins, DnsTwins, EncryptedTwins, VerticalTwins, HorizontalTwins,
     ExfiltrationTwins DEF Raw

-----------------------------------------------------------------------------
(* What is said of an alert depends on its key.                            *)
FlowSubtypes ==
    {"udp_high_rate_flow", "icmp_high_rate_flow", "syn_high_rate_flow", "high_rate_flow",
     "dga_domain", "dns_tunnel", "oversized_query", "dns_tunnel_volume",
     "quic_on_nonstandard_port", "tls_on_nonstandard_port", "asymmetric_outbound_volume"}
    \cup Traits

Keyed(a) ==
    /\ Raised(a)
    /\ \/ a.subtype \in FloodSubtypes /\ a.dst = a.id[3] /\ a.class = "volumetric_ddos"
       \/ a.subtype = "martian_source" /\ a.dst = a.id[3] /\ a.class = "ip_spoofing"
       \/ /\ a.subtype = "vertical_port_scan" /\ a.class = "recon_scanning"
          /\ a.src = a.id[3] /\ a.dst = a.id[4] /\ a.dport = 0
       \/ /\ a.subtype = "horizontal_sweep" /\ a.class = "recon_scanning"
          /\ a.src = a.id[3] /\ a.dst = "" /\ a.dport = a.id[4]
       \/ /\ a.subtype \notin FloodSubtypes \cup {"martian_source"}
          /\ a.class # "recon_scanning"

LEMMA CountIsInt ==
    ASSUME NEW S, NEW T, IsFiniteSet(S), NEW F \in Surjection(S, T)
    PROVE  Cardinality(T) \in Int
  BY FS_Surjection, FS_CardinalityType

LEMMA KeyedForFlow ==
    ASSUME NEW fs, Scorable(fs), NEW f \in fs, NEW class, class # "recon_scanning",
           NEW subtype \in FlowSubtypes, NEW sev, NEW conf \in Believed
    PROVE  Keyed(AlertOfFlow(f, class, subtype, sev, conf))
<1> DEFINE a == AlertOfFlow(f, class, subtype, sev, conf)
<1>1. Raised(a) /\ a.class = class /\ a.subtype = subtype
  BY RaisedForFlow
<1>2. subtype \notin FloodSubtypes \cup {"martian_source"}
  BY DEF FlowSubtypes, FloodSubtypes, Traits
<1> HIDE DEF a
<1>3. Keyed(a)
  BY <1>1, <1>2 DEF Keyed
<1>4. QED
  BY <1>3 DEF a

LEMMA VolumetricKeyed ==
    ASSUME NEW fs, Scorable(fs), NEW a \in Volumetric(fs)
    PROVE  Keyed(a)
<1> DEFINE At(d) == {FloodAlert(s, d, Toward(fs, d)) : s \in Floods(Toward(fs, d))}
           Groups == {At(d) : d \in Targets(fs)}
           sure(f) == RatioConfidence(f.pps, Cfg.flow_packet_rate, 30)
           Of(f) == AlertOfFlow(f, "volumetric_ddos", HighRateSubtype(f), "medium", sure(f))
           Fast == {Of(f) : f \in {h \in fs : HighRate(h)}}
<1>1. Volumetric(fs) = Fast \cup (UNION Groups)
  BY DEF Volumetric
<1>2. CASE a \in Fast
  <2>1. PICK f \in fs : a = Of(f)
    BY <1>2
  <2>2. sure(f) \in Believed
    <3>1. f.pps \in Int /\ Cfg.flow_packet_rate \in Int
      BY CfgAssumption DEF Scorable
    <3>2. QED
      BY <3>1, RatioIsBelieved
  <2>3. HighRateSubtype(f) \in FlowSubtypes
    BY DEF HighRateSubtype, FlowSubtypes
  <2> HIDE DEF sure
  <2>4. QED
    BY <2>1, <2>2, <2>3, KeyedForFlow
<1>3. CASE a \in UNION Groups
  <2>1. PICK d \in Targets(fs) : a \in At(d)
    BY <1>3
  <2>2. PICK s \in Floods(Toward(fs, d)) : a = FloodAlert(s, d, Toward(fs, d))
    BY <2>1
  <2>3. /\ Raised(a) /\ s \in FloodSubtypes /\ a.class = "volumetric_ddos"
        /\ a.subtype = s /\ a.dst = d /\ a.id = <<"dst", s, d>>
    BY <2>2, FloodRaised
  <2>4. QED
    BY <2>3 DEF Keyed
<1>4. QED
  <2> HIDE DEF Fast, Groups
  <2>1. QED
    BY <1>1, <1>2, <1>3

LEMMA MartianKeyed ==
    ASSUME NEW fs, NEW a \in Spoofing(fs)
    PROVE  /\ a.subtype \notin FloodSubtypes
           /\ a.subtype = "martian_source" => a.dst = a.id[3]
<1> DEFINE Fine == /\ a.subtype \notin FloodSubtypes
                   /\ a.subtype = "martian_source" => a.dst = a.id[3]
<1>1. ASSUME a \in PerFlowSpoof(fs) PROVE Fine
  <2>1. PICK f \in fs : \/ a = AlertOfFlow(f, "ip_spoofing", "land_attack", "high", 90)
                        \/ a = AlertOfFlow(f, "ip_spoofing", "ttl_anomaly", "low", 55)
    BY <1>1 DEF PerFlowSpoof
  <2>2. a.subtype \in {"land_attack", "ttl_anomaly"}
    BY <2>1 DEF AlertOfFlow, Alert
  <2>3. QED
    BY <2>2 DEF FloodSubtypes
<1>2. ASSUME a \in TtlInconsistency(fs) PROVE Fine
  <2> DEFINE sent == {f \in fs : ~Martian(f.src) /\ f.ttl > 0}
             Of(s) == {f \in sent : f.src = s}
             Ttls(s) == {f.ttl : f \in Of(s)}
             conf(s) == RatioConfidence(Cardinality(TtlFamilies(Ttls(s))), Cfg.ttl_min_families, 14)
  <2>1. PICK s \in Sources(sent) :
          a = Alert("ip_spoofing", "ttl_inconsistency", "high", conf(s), <<"src", s>>,
                    s, "", 0, Of(s))
    BY <1>2 DEF TtlInconsistency
  <2> HIDE DEF conf, Of
  <2>2. a.subtype = "ttl_inconsistency"
    BY <2>1 DEF Alert
  <2>3. QED
    BY <2>2 DEF FloodSubtypes
<1>3. ASSUME a \in SpoofedSynStorm(fs) PROVE Fine
  <2> DEFINE tcp == Over(fs, "tcp")
             At(d) == Toward(tcp, d)
             conf(d) == RatioConfidence(Cardinality(Sources(At(d))),
                                        Cfg.spoofed_syn_min_sources, 30)
  <2>1. PICK d \in Targets(tcp) :
          a = Alert("ip_spoofing", "spoofed_syn_storm", "high", conf(d), <<"dst", "tcp", d>>,
                    "", d, 0, At(d))
    BY <1>3 DEF SpoofedSynStorm
  <2> HIDE DEF conf, At
  <2>2. a.subtype = "spoofed_syn_storm"
    BY <2>1 DEF Alert
  <2>3. QED
    BY <2>2 DEF FloodSubtypes
<1>4. ASSUME a \in MartianSources(fs) PROVE Fine
  <2> DEFINE At(d) == {f \in Toward(fs, d) : Kind[f.src] \in {"bogon", "multicast"} /\ ~Loopback(d)}
             one(d) == First(At(d)).src
  <2>1. PICK d \in Targets(fs) :
             \/ a = Alert("ip_spoofing", "martian_source_storm", "high", 90,
                          <<"dst", "any", d>>, "", d, 0, At(d))
             \/ a = Alert("ip_spoofing", "martian_source", "high", 75,
                          <<"pair", one(d), d>>, one(d), d, 0, At(d))
    BY <1>4 DEF MartianSources
  <2> HIDE DEF At, one
  <2>2. CASE a = Alert("ip_spoofing", "martian_source_storm", "high", 90,
                       <<"dst", "any", d>>, "", d, 0, At(d))
    <3>1. a.subtype = "martian_source_storm"
      BY <2>2 DEF Alert
    <3>2. QED
      BY <3>1 DEF FloodSubtypes
  <2>3. CASE a = Alert("ip_spoofing", "martian_source", "high", 75,
                       <<"pair", one(d), d>>, one(d), d, 0, At(d))
    <3>1. a.subtype = "martian_source" /\ a.dst = d /\ a.id = <<"pair", one(d), d>>
      BY <2>3 DEF Alert
    <3>2. a.id[3] = d
      BY <3>1
    <3>3. QED
      BY <3>1, <3>2 DEF FloodSubtypes
  <2>4. QED
    BY <2>1, <2>2, <2>3
<1>5. QED
  BY <1>1, <1>2, <1>3, <1>4 DEF Spoofing

LEMMA SpoofingKeyed ==
    ASSUME NEW fs, Scorable(fs), NEW a \in Spoofing(fs)
    PROVE  Keyed(a)
<1>1. Raised(a) /\ a.class = "ip_spoofing"
  BY SpoofingRaised
<1>2. QED
  BY <1>1, MartianKeyed DEF Keyed

LEMMA DnsKeyed ==
    ASSUME NEW fs, Scorable(fs), NEW a \in DnsAbuse(fs)
    PROVE  Keyed(a)
<1>1. a \in TunnelVolume(fs) \/ \E f \in fs : a \in QueryAlerts(f)
  BY DEF DnsAbuse
<1>2. CASE \E f \in fs : a \in QueryAlerts(f)
  <2>1. PICK f \in fs : \/ a = AlertOfFlow(f, "dns_abuse", "dga_domain", "medium", 75)
                        \/ a = AlertOfFlow(f, "dns_abuse", "dns_tunnel", "high", 50)
                        \/ a = AlertOfFlow(f, "dns_abuse", "oversized_query", "low", 55)
    BY <1>2 DEF QueryAlerts
  <2>2. /\ 75 \in Believed /\ 50 \in Believed /\ 55 \in Believed
        /\ {"dga_domain", "dns_tunnel", "oversized_query"} \subseteq FlowSubtypes
    BY DEF Believed, FlowSubtypes
  <2>3. QED
    BY <2>1, <2>2, KeyedForFlow
<1>3. CASE a \in TunnelVolume(fs)
  <2> DEFINE queries == {f \in fs : f.query # NoQuery}
             Of(p) == {f \in queries : f.query.parent = p}
             server(p) == Least(Targets(Of(p)))
             conf(p) == RatioConfidence(Cardinality(Subdomains(p, fs)), Cfg.tunnel_min_subdomains, 40)
  <2>1. PICK f \in queries :
          a = Alert("dns_abuse", "dns_tunnel_volume", "high", conf(f.query.parent),
                    <<"resolver", server(f.query.parent)>>, "", server(f.query.parent), 53,
                    Of(f.query.parent))
    BY <1>3 DEF TunnelVolume
  <2> DEFINE p == f.query.parent
  <2>2. Of(p) \in SUBSET fs /\ Of(p) # {}
    OBVIOUS
  <2>3. conf(p) \in Believed
    <3> DEFINE named == {h \in fs : h.query # NoQuery /\ h.query.parent = p}
               name == [h \in named |-> h.query.name]
    <3>1. IsFiniteSet(named)
      BY FS_Subset DEF Scorable
    <3>2. name \in Surjection(named, Subdomains(p, fs))
      BY DEF Surjection, Subdomains
    <3> HIDE DEF named, name
    <3>3. Cardinality(Subdomains(p, fs)) \in Int /\ Cfg.tunnel_min_subdomains \in Int
      BY <3>1, <3>2, CountIsInt, CfgAssumption
    <3>4. QED
      BY <3>3, RatioIsBelieved
  <2>4. First(Of(p)).at \in Nat
    BY <2>2, ScorablePart, FirstIsOne
  <2> HIDE DEF Of, server, conf, p
  <2>5. Raised(a) /\ a.subtype = "dns_tunnel_volume" /\ a.class = "dns_abuse"
    BY <2>1, <2>3, <2>4 DEF Alert, AlertFields, Raised, p
  <2>6. QED
    BY <2>5 DEF Keyed, FloodSubtypes
<1>4. QED
  BY <1>1, <1>2, <1>3

LEMMA EncryptedKeyed ==
    ASSUME NEW fs, Scorable(fs), NEW a \in Encrypted(fs)
    PROVE  Keyed(a)
<1>1. PICK f \in fs :
        \/ a = AlertOfFlow(f, "encrypted_anomaly", "quic_on_nonstandard_port", "low", 55)
        \/ \E t \in TlsTraits(f) : a = AlertOfFlow(f, "encrypted_anomaly", t,
                                                   TraitSeverity(t)[1], TraitSeverity(t)[2])
  BY EncryptedCases
<1>2. 55 \in Believed /\ "quic_on_nonstandard_port" \in FlowSubtypes
  BY DEF Believed, FlowSubtypes
<1>3. \A t \in TlsTraits(f) : t \in FlowSubtypes /\ TraitSeverity(t)[2] \in Believed
  <2> TAKE t \in TlsTraits(f)
  <2>1. f.traits \subseteq Traits
    BY DEF Scorable
  <2>2. t \in FlowSubtypes
    BY <2>1 DEF TlsTraits, FlowSubtypes
  <2>3. TraitSeverity(t)[2] \in Believed
    BY DEF TraitSeverity, Believed
  <2>4. QED
    BY <2>2, <2>3
<1>4. QED
  BY <1>1, <1>2, <1>3, KeyedForFlow

LEMMA ScansKeyed ==
    ASSUME NEW fs, Scorable(fs), NEW a \in VerticalScans(fs) \cup HorizontalSweeps(fs)
    PROVE  Keyed(a)
<1>1. Probes(fs) \in SUBSET fs
  BY DEF Probes, Over
<1>2. CASE a \in VerticalScans(fs)
  <2>1. PICK h \in Probes(fs) : a = VerticalAlert(fs, <<h.src, h.dst>>)
    BY <1>2, VerticalCases
  <2> DEFINE p == <<h.src, h.dst>>
             g == OfHosts(fs, p)
             ports == {f.dport : f \in g}
             conf == RatioConfidence(Cardinality(PortsTried(fs, p)), Cfg.min_ports_per_dst, 50)
  <2>2. h \in g /\ g \in SUBSET fs
    BY <1>1 DEF OfHosts
  <2>3. IsFiniteSet(g)
    BY <2>2, FS_Subset DEF Scorable
  <2>4. Cardinality(PortsTried(fs, p)) \in Int
    <3> DEFINE port == [f \in g |-> f.dport]
    <3>1. port \in Surjection(g, ports)
      BY DEF Surjection
    <3>2. IsFiniteSet(ports) /\ PortsTried(fs, p) \in SUBSET ports
      <4> HIDE DEF port, g
      <4>1. IsFiniteSet(ports)
        BY <2>3, <3>1, FS_Surjection
      <4>2. PortsTried(fs, p) \in SUBSET ports
        BY DEF PortsTried, g
      <4>3. QED
        BY <4>1, <4>2
    <3>3. QED
      BY <3>2, FS_Subset, FS_CardinalityType
  <2>5. conf \in Believed
    <3>1. Cfg.min_ports_per_dst \in Int
      BY CfgAssumption
    <3>2. QED
      BY <2>4, <3>1, RatioIsBelieved
  <2>6. First(g).at \in Nat
    BY <2>2, ScorablePart, FirstIsOne
  <2> HIDE DEF p, conf
  <2>7. a = Alert("recon_scanning", "vertical_port_scan", "medium", conf,
                  <<"pair", First(g).proto, p[1], p[2]>>, p[1], p[2], 0, g)
    BY <2>1 DEF VerticalAlert, p, conf
  <2> HIDE DEF g
  <2>8. /\ Raised(a) /\ a.subtype = "vertical_port_scan" /\ a.class = "recon_scanning"
        /\ a.src = p[1] /\ a.dst = p[2] /\ a.dport = 0
        /\ a.id = <<"pair", First(g).proto, p[1], p[2]>>
    BY <2>5, <2>6, <2>7 DEF Alert, AlertFields, Raised
  <2>9. a.id[3] = p[1] /\ a.id[4] = p[2]
    BY <2>8
  <2>10. QED
    BY <2>8, <2>9 DEF Keyed
<1>3. CASE a \in HorizontalSweeps(fs)
  <2>1. PICK h \in Probes(fs) : a = HorizontalAlert(fs, <<h.src, h.dport>>)
    BY <1>3, HorizontalCases
  <2> DEFINE p == <<h.src, h.dport>>
             g == OfPort(fs, p)
             conf == RatioConfidence(Cardinality(Targets(g)), Cfg.min_dsts_per_port, 50)
  <2>2. h \in g /\ g \in SUBSET fs
    BY <1>1 DEF OfPort
  <2>3. IsFiniteSet(g)
    BY <2>2, FS_Subset DEF Scorable
  <2>4. Cardinality(Targets(g)) \in Int
    <3> DEFINE dst == [f \in g |-> f.dst]
    <3>1. dst \in Surjection(g, Targets(g))
      BY DEF Surjection, Targets
    <3> HIDE DEF dst, g
    <3>2. QED
      BY <2>3, <3>1, CountIsInt
  <2>5. conf \in Believed
    <3>1. Cfg.min_dsts_per_port \in Int
      BY CfgAssumption
    <3>2. QED
      BY <2>4, <3>1, RatioIsBelieved
  <2>6. First(g).at \in Nat
    BY <2>2, ScorablePart, FirstIsOne
  <2> HIDE DEF p, conf
  <2>7. a = Alert("recon_scanning", "horizontal_sweep", "medium", conf,
                  <<"port", First(g).proto, p[1], p[2]>>, p[1], "", p[2], g)
    BY <2>1 DEF HorizontalAlert, p, conf
  <2> HIDE DEF g
  <2>8. /\ Raised(a) /\ a.subtype = "horizontal_sweep" /\ a.class = "recon_scanning"
        /\ a.src = p[1] /\ a.dst = "" /\ a.dport = p[2]
        /\ a.id = <<"port", First(g).proto, p[1], p[2]>>
    BY <2>5, <2>6, <2>7 DEF Alert, AlertFields, Raised
  <2>9. a.id[3] = p[1] /\ a.id[4] = p[2]
    <3>1. a.id = <<"port", First(g).proto, p[1], p[2]>>
      BY <2>8
    <3> DEFINE proto == First(g).proto
               x == p[1]
               y == p[2]
    <3>2. a.id = <<"port", proto, x, y>>
      BY <3>1
    <3> HIDE DEF proto, x, y
    <3>3. a.id[3] = x /\ a.id[4] = y
      BY <3>2
    <3>4. QED
      BY <3>3 DEF x, y
  <2>10. QED
    BY <2>8, <2>9 DEF Keyed
<1>4. QED
  BY <1>2, <1>3

LEMMA ExfiltrationKeyed ==
    ASSUME NEW fs, Scorable(fs), NEW a \in Exfiltration(fs)
    PROVE  Keyed(a)
<1> DEFINE Ratios(f) == {RatioConfidence(f.total, Cfg.min_outbound_bytes, 30)} \cup
                          {RatioConfidence(f.total, Cfg.min_ratio * Max({1, r.total}), 30) :
                             r \in ReverseOf(f, fs)}
<1>1. PICK f \in fs : a = AlertOfFlow(f, "data_exfiltration", "asymmetric_outbound_volume",
                                      "high", Max(Ratios(f)))
  BY DEF Exfiltration
<1>2. f.total \in Int /\ Cfg.min_outbound_bytes \in Int /\ Cfg.min_ratio \in Int
  BY CfgAssumption DEF Scorable
<1>3. \A r \in ReverseOf(f, fs) :
        RatioConfidence(f.total, Cfg.min_ratio * Max({1, r.total}), 30) \in Believed
  <2> TAKE r \in ReverseOf(f, fs)
  <2>1. r.total \in Int
    BY DEF ReverseOf, Scorable
  <2> DEFINE one == 1
             back == r.total
  <2>2. one \in Int /\ back \in Int
    BY <2>1
  <2> HIDE DEF one, back
  <2>3. Max({one, back}) \in Int
    BY <2>2, MaxOfTwo
  <2>4. Max({1, r.total}) \in Int
    BY <2>3 DEF one, back
  <2>5. Cfg.min_ratio * Max({1, r.total}) \in Int
    BY <1>2, <2>4
  <2>6. QED
    BY <1>2, <2>5, RatioIsBelieved
<1>4. RatioConfidence(f.total, Cfg.min_outbound_bytes, 30) \in Believed
  BY <1>2, RatioIsBelieved
<1>5. Ratios(f) \in SUBSET Believed /\ Ratios(f) # {}
  BY <1>3, <1>4
<1> HIDE DEF Ratios
<1>6. Max(Ratios(f)) \in Believed
  <2>1. Ratios(f) \in SUBSET (0 .. 100)
    BY <1>5 DEF Believed
  <2>2. QED
    BY <1>5, <2>1, MaxOfPercents
<1>7. QED
  BY <1>1, <1>6, KeyedForFlow DEF FlowSubtypes

LEMMA RawKeyed == ASSUME NEW fs, Scorable(fs), NEW a \in Raw(fs) PROVE Keyed(a)
<1>1. a \in DropFloodNoise(Spoofing(fs), Volumetric(fs)) => a \in Spoofing(fs)
  BY DEF DropFloodNoise
<1>2. QED
  BY <1>1, VolumetricKeyed, SpoofingKeyed, DnsKeyed, EncryptedKeyed, ScansKeyed,
     ExfiltrationKeyed DEF Raw

-----------------------------------------------------------------------------
Line(a) ==
    CASE a.subtype = "martian_source" -> <<a.subtype, "", a.dst, 0>>
      [] a.class = "recon_scanning"   -> <<a.subtype, a.src, a.dst, a.dport>>
      [] OTHER                        -> Key(a)

LEMMA SameKeySameLine ==
    ASSUME NEW a, NEW b, Keyed(a), Keyed(b), Key(a) = Key(b)
    PROVE  Line(a) = Line(b)
<1>1. a.class = b.class /\ a.subtype = b.subtype /\ a.id = b.id
  BY DEF Key
<1>2. a.subtype = "martian_source" => a.dst = b.dst
  <2>1. \A c : Keyed(c) /\ c.subtype = "martian_source" => c.dst = c.id[3]
    BY DEF Keyed, FloodSubtypes
  <2>2. QED
    BY <1>1, <2>1
<1>3. a.class = "recon_scanning" => a.src = b.src /\ a.dst = b.dst /\ a.dport = b.dport
  <2>1. \A c : Keyed(c) /\ c.class = "recon_scanning" =>
           \/ /\ c.subtype = "vertical_port_scan"
              /\ c.src = c.id[3] /\ c.dst = c.id[4] /\ c.dport = 0
           \/ /\ c.subtype = "horizontal_sweep"
              /\ c.src = c.id[3] /\ c.dst = "" /\ c.dport = c.id[4]
    BY DEF Keyed
  <2>2. QED
    BY <1>1, <2>1
<1>4. QED
  BY <1>1, <1>2, <1>3 DEF Line

LEMMA TwinsHaveOneLine ==
    ASSUME NEW a, NEW b, Keyed(a), Twin(a, b)
    PROVE  Line(a) = Line(b)
<1>1. CASE a.subtype = "martian_source"
  <2>1. a.class # "recon_scanning"
    BY <1>1 DEF Keyed
  <2>2. b.subtype = "martian_source" /\ b.class # "recon_scanning" /\ a.dst = b.dst
    BY <1>1, <2>1 DEF Twin
  <2>3. QED
    BY <1>1, <2>1, <2>2 DEF Line
<1>2. CASE a.subtype # "martian_source" /\ a.class = "recon_scanning"
  BY <1>2 DEF Twin, Line
<1>3. CASE a.subtype # "martian_source" /\ a.class # "recon_scanning"
  <2>1. Key(a) = Key(b)
    BY <1>3 DEF Twin, Key
  <2>2. QED
    BY <1>3, <2>1 DEF Twin, Line
<1>4. QED
  BY <1>1, <1>2, <1>3

(* One alert of each key survives the deduplication.                       *)
LEMMA OneIsKept ==
    ASSUME NEW fs, Scorable(fs), NEW a \in Raw(fs)
    PROVE  \E b \in Dedupe(Raw(fs)) : Key(b) = Key(a)
<1> DEFINE Same == {b \in Raw(fs) : Key(b) = Key(a)}
           T == {b.at : b \in Same}
<1>1. \A b \in Same : b.at \in Nat
  BY RawKeyed DEF Keyed, Raised
<1>2. a \in Same
  OBVIOUS
<1>3. PICK t \in T : \A u \in T : t <= u
  BY <1>1, <1>2, LeastNat
<1>4. PICK b \in Same : b.at = t
  OBVIOUS
<1>5. b \in Dedupe(Raw(fs))
  BY <1>3, <1>4 DEF Dedupe
<1>6. QED
  BY <1>4, <1>5

LEMMA ScoreIsRaw ==
    ASSUME NEW fs, Scorable(fs), NEW b \in Score(fs)
    PROVE  \E a \in Raw(fs) : /\ Key(b) = Key(a) /\ Line(b) = Line(a) /\ b.class = a.class
                              /\ b.subtype = a.subtype /\ b.src = a.src /\ b.dst = a.dst
<1>1. PICK a \in Dedupe(Raw(fs)) : b = ApplyModel(a, fs)
  BY DEF Score
<1>2. a \in Raw(fs)
  BY DEF Dedupe
<1>3. /\ Key(b) = Key(a) /\ b.class = a.class /\ b.subtype = a.subtype /\ b.id = a.id
      /\ b.src = a.src /\ b.dst = a.dst /\ b.dport = a.dport
  <2>1. Raised(a)
    BY <1>2, RawKeyed DEF Keyed
  <2>2. QED
    BY <1>1, <2>1, Confirmed
<1>4. Line(b) = Line(a)
  BY <1>3 DEF Line
<1>5. QED
  BY <1>2, <1>3, <1>4

LEMMA RawIsScored ==
    ASSUME NEW fs, Scorable(fs), Cfg.min_confidence <= 50, NEW a \in Raw(fs)
    PROVE  \E b \in Score(fs) : Key(b) = Key(a) /\ Line(b) = Line(a)
<1>1. PICK c \in Dedupe(Raw(fs)) : Key(c) = Key(a)
  BY OneIsKept
<1>2. c \in Raw(fs)
  BY DEF Dedupe
<1>3. Keyed(c) /\ Keyed(a)
  BY <1>2, RawKeyed
<1> DEFINE b == ApplyModel(c, fs)
<1>4. /\ Key(b) = Key(c) /\ b.class = c.class /\ b.subtype = c.subtype /\ b.id = c.id
      /\ b.src = c.src /\ b.dst = c.dst /\ b.dport = c.dport
      /\ b.conf \in Int /\ b.conf >= 50
  BY <1>3, Confirmed DEF Keyed
<1>5. b \in Score(fs)
  <2>1. b.conf >= Cfg.min_confidence
    BY <1>4, CfgAssumption
  <2>2. b \in {ApplyModel(r, fs) : r \in Dedupe(Raw(fs))}
    OBVIOUS
  <2> HIDE DEF b
  <2>3. QED
    BY <2>1, <2>2 DEF Score
<1> HIDE DEF b
<1>6. Line(b) = Line(a)
  <2>1. Line(b) = Line(c)
    BY <1>4 DEF Line
  <2>2. QED
    BY <1>1, <1>3, <2>1, SameKeySameLine
<1>7. QED
  BY <1>1, <1>4, <1>5, <1>6

LEMMA OutlinesAgree ==
    ASSUME NEW fs, NEW gs, Alike(fs, gs), Cfg.min_confidence <= 50
    PROVE  Outline(Score(fs)) = Outline(Score(gs))
<1>1. \A A : Outline(A) = {Line(a) : a \in A}
  BY DEF Outline, Line
<1>2. ASSUME NEW fl, NEW gl, Alike(fl, gl), NEW b \in Score(fl)
      PROVE  \E c \in Score(gl) : Line(c) = Line(b)
  <2>1. Scorable(fl) /\ Scorable(gl)
    BY <1>2 DEF Alike
  <2>2. PICK a \in Raw(fl) : Line(b) = Line(a)
    BY <1>2, <2>1, ScoreIsRaw
  <2>3. PICK d \in Raw(gl) : Line(a) = Line(d)
    BY <1>2, <2>1, RawKeyed, RawTwins, TwinsHaveOneLine
  <2>4. PICK c \in Score(gl) : Line(c) = Line(d)
    BY <2>1, RawIsScored
  <2>5. QED
    BY <2>2, <2>3, <2>4
<1>3. \A b \in Score(fs) : \E c \in Score(gs) : Line(c) = Line(b)
  BY <1>2
<1>4. \A b \in Score(gs) : \E c \in Score(fs) : Line(c) = Line(b)
  BY <1>2, AlikeSwaps
<1>5. {Line(b) : b \in Score(fs)} = {Line(b) : b \in Score(gs)}
  BY <1>3, <1>4
<1>6. QED
  BY <1>1, <1>5

-----------------------------------------------------------------------------
(* Batches of the same flows are alike, in whatever order.                 *)
Apart(c) == \A i, j \in DOMAIN c : FlowId(c[i]) = FlowId(c[j]) => i = j

LEMMA PlacedFlow ==
    ASSUME NEW g \in Handed, NEW i, NEW j
    PROVE  /\ Like([g EXCEPT !.at = i], [g EXCEPT !.at = j])
           /\ FlowId([g EXCEPT !.at = i]) = FlowId(g)
           /\ SinglePacket(g) => SinglePacket([g EXCEPT !.at = i])
<1>1. PICK f \in UNION Scenarios, n \in BOOLEAN : g = [f EXCEPT !.new = n]
  BY DEF Handed
<1>2. Fields \subseteq DOMAIN g
  BY <1>1, FlowAssumption
<1>3. {"proto", "src", "sport", "dst", "dport", "packets", "pps", "ms", "syn", "ack",
       "ttl", "total", "query", "hello", "traits", "ml"} \subseteq DOMAIN g
  BY <1>2 DEF Fields
<1> HIDE <1>1
<1> DEFINE a == [g EXCEPT !.at = i]
           b == [g EXCEPT !.at = j]
<1>4. /\ a.proto = g.proto /\ a.src = g.src /\ a.sport = g.sport
      /\ a.dst = g.dst /\ a.dport = g.dport
      /\ a.packets = g.packets /\ a.pps = g.pps /\ a.ms = g.ms /\ a.syn = g.syn /\ a.ack = g.ack
      /\ a.ttl = g.ttl /\ a.total = g.total /\ a.query = g.query /\ a.hello = g.hello
      /\ a.traits = g.traits /\ a.ml = g.ml
  BY <1>3
<1>5. /\ b.proto = g.proto /\ b.src = g.src /\ b.sport = g.sport
      /\ b.dst = g.dst /\ b.dport = g.dport
      /\ b.packets = g.packets /\ b.pps = g.pps /\ b.ms = g.ms /\ b.syn = g.syn /\ b.ack = g.ack
      /\ b.ttl = g.ttl /\ b.total = g.total /\ b.query = g.query /\ b.hello = g.hello
      /\ b.traits = g.traits /\ b.ml = g.ml
  BY <1>3
<1> HIDE DEF a, b
<1>6. Like(a, b) /\ FlowId(a) = FlowId(g)
  BY <1>4, <1>5 DEF Like, FlowId
<1>7. SinglePacket(g) => SinglePacket(a)
  BY <1>4 DEF SinglePacket, SynOnly
<1>8. QED
  BY <1>6, <1>7 DEF a, b

LEMMA FeaturesDistinct ==
    ASSUME NEW c \in Seq(Handed), Apart(c)
    PROVE  Distinct(Features(c))
<1> SUFFICES ASSUME NEW f \in Features(c), NEW h \in Features(c), FlowId(f) = FlowId(h)
             PROVE  f = h
  BY DEF Distinct
<1>1. PICK i \in DOMAIN c : f = [c[i] EXCEPT !.at = i]
  BY DEF Features
<1>2. PICK j \in DOMAIN c : h = [c[j] EXCEPT !.at = j]
  BY DEF Features
<1>3. c[i] \in Handed /\ c[j] \in Handed
  OBVIOUS
<1>4. FlowId(f) = FlowId(c[i]) /\ FlowId(h) = FlowId(c[j])
  BY <1>1, <1>2, <1>3, PlacedFlow
<1>5. i = j
  BY <1>4 DEF Apart
<1>6. QED
  BY <1>1, <1>2, <1>5

LEMMA SameFlowsAlike ==
    ASSUME NEW c \in Seq(Handed), NEW e \in Seq(Handed), Apart(c), Apart(e), ToSet(c) = ToSet(e)
    PROVE  Alike(Features(c), Features(e))
<1>1. ASSUME NEW x \in Seq(Handed), NEW y \in Seq(Handed), ToSet(x) = ToSet(y),
             NEW f \in Features(x)
      PROVE  \E h \in Features(y) : Like(f, h)
  <2>1. PICK i \in DOMAIN x : f = [x[i] EXCEPT !.at = i]
    BY DEF Features
  <2>2. x[i] \in Handed /\ x[i] \in ToSet(y)
    <3>1. x[i] \in Handed
      BY <1>1, <2>1
    <3>2. x[i] \in ToSet(x)
      BY <2>1 DEF ToSet
    <3>3. QED
      BY <1>1, <3>1, <3>2
  <2>3. PICK j \in DOMAIN y : y[j] = x[i]
    BY <2>2 DEF ToSet
  <2>4. [y[j] EXCEPT !.at = j] \in Features(y)
    BY DEF Features
  <2>5. Like(f, [y[j] EXCEPT !.at = j])
    BY <2>1, <2>2, <2>3, PlacedFlow
  <2>6. QED
    BY <2>4, <2>5
<1>2. \A f \in Features(c) : \E h \in Features(e) : Like(f, h)
  BY <1>1
<1>3. \A h \in Features(e) : \E f \in Features(c) : Like(f, h)
  BY <1>1, LikeSwaps
<1>4. Scorable(Features(c)) /\ Scorable(Features(e))
  BY FeaturesScorable
<1>5. Distinct(Features(c)) /\ Distinct(Features(e))
  BY FeaturesDistinct
<1>6. QED
  BY <1>2, <1>3, <1>4, <1>5 DEF Alike

LEMMA SwappedBatch ==
    ASSUME NEW b \in Seq(Handed), Apart(b), NEW i \in DOMAIN b
    PROVE  LET c == [b EXCEPT ![1] = b[i], ![i] = b[1]]
           IN  c \in Seq(Handed) /\ Apart(c) /\ Len(c) = Len(b) /\ ToSet(c) = ToSet(b)
<1> DEFINE c == [b EXCEPT ![1] = b[i], ![i] = b[1]]
           swap(k) == IF k = i THEN 1 ELSE IF k = 1 THEN i ELSE k
<1>1. DOMAIN b = 1 .. Len(b) /\ Len(b) \in Nat /\ 1 \in DOMAIN b
  OBVIOUS
<1>2. \A k \in DOMAIN b : swap(k) \in DOMAIN b /\ swap(swap(k)) = k
  BY <1>1
<1>3. DOMAIN c = DOMAIN b /\ \A k \in DOMAIN b : c[k] = b[swap(k)]
  BY <1>1
<1> HIDE DEF c, swap
<1>4. \A k \in DOMAIN b : c[k] \in Handed
  BY <1>2, <1>3
<1>5. c \in Seq(Handed) /\ Len(c) = Len(b)
  <2>1. c \in [1 .. Len(b) -> Handed]
    <3>1. c = [k \in DOMAIN b |-> b[swap(k)]]
      BY <1>1 DEF c, swap
    <3>2. QED
      BY <1>1, <1>3, <1>4, <3>1
  <2>2. QED
    BY <1>1, <2>1
<1>6. Apart(c)
  BY <1>2, <1>3 DEF Apart
<1>7. ToSet(c) = ToSet(b)
  BY <1>2, <1>3 DEF ToSet
<1>8. QED
  BY <1>5, <1>6, <1>7 DEF c

(* For any traffic and thresholds, as long as what is believed by half is  *)
(* reported (as shipped): the outline of what is reported for a batch is   *)
(* the same in every order the kernel map may be read in.                  *)
THEOREM OrderDoesNotMatter ==
    ASSUME Cfg.min_confidence <= 50
    PROVE  Spec => []OrderIrrelevant
<1>1. ASSUME TallyInv PROVE OrderIrrelevant
  <2> SUFFICES ASSUME Len(batch) <= MaxScorePerTick, NEW i \in DOMAIN batch
               PROVE  Outline(Scored(batch))
                        = Outline(Scored([batch EXCEPT ![1] = batch[i], ![i] = batch[1]]))
    BY DEF OrderIrrelevant
  <2> DEFINE c == [batch EXCEPT ![1] = batch[i], ![i] = batch[1]]
  <2>1. batch \in Seq(Handed) /\ Apart(batch)
    BY <1>1 DEF TallyInv, TallyType, Apart
  <2>2. c \in Seq(Handed) /\ Apart(c) /\ Len(c) = Len(batch) /\ ToSet(c) = ToSet(batch)
    BY <2>1, SwappedBatch
  <2> HIDE DEF c
  <2>3. Capped(batch) = batch /\ Capped(c) = c
    BY <2>2 DEF Capped
  <2>4. Alike(Features(batch), Features(c))
    BY <2>1, <2>2, SameFlowsAlike
  <2>5. Outline(Scored(batch)) = Outline(Scored(c))
    BY <2>3, <2>4, OutlinesAgree DEF Scored
  <2>6. QED
    BY <2>5 DEF c
<1>2. QED
  BY <1>1, TallyInit, TallyStep, PTL DEF Spec

-----------------------------------------------------------------------------
(* A group, and the same with one more flow of a single packet, if that    *)
(* flow belongs to it.                                                     *)
Grown(g, k, x) ==
    /\ Scorable(k) /\ g \in SUBSET k /\ k \subseteq g \cup {x} /\ SinglePacket(x)

LEMMA GrownPart ==
    ASSUME NEW g, NEW k, NEW x, Grown(g, k, x), NEW q \in SUBSET k, NEW p, p = q \cap g
    PROVE  Grown(p, q, x)
<1>1. Scorable(q)
  BY ScorablePart DEF Grown
<1>2. QED
  BY <1>1 DEF Grown

LEMMA SumGrows ==
    ASSUME NEW k, IsFiniteSet(k), NEW x \in k, NEW g, g = k \ {x},
           NEW w \in [g -> Nat], NEW v \in [k -> Nat], \A f \in g : v[f] = w[f],
           NEW F, Sums(F, g, w), NEW G, Sums(G, k, v)
    PROVE  G[k] = v[x] + F[g]
<1>1. k \in SUBSET k /\ g \in SUBSET k /\ g \in SUBSET g /\ IsFiniteSet(g)
  BY FS_Subset
<1>2. G[k] = v[x] + G[g]
  BY <1>1, SumLess
<1> DEFINE phi == [f \in g |-> f]
<1>3. phi \in Bijection(g, g)
  BY DEF Bijection, Injection, IsInjective, Surjection
<1>4. \A f \in g : v[phi[f]] = w[f]
  OBVIOUS
<1> HIDE DEF phi
<1>5. F[g] = G[g]
  BY <1>1, <1>3, <1>4, SumsAgree
<1>6. QED
  BY <1>2, <1>5

(* What each sum gains.                                                    *)
LEMMA GrownSums ==
    ASSUME NEW k, Scorable(k), NEW x \in k, NEW g, g = k \ {x}
    PROVE  /\ Packets(k) = x.packets + Packets(g) /\ Rate(k) = x.pps + Rate(g)
           /\ Acks(k) = x.ack + Acks(g) /\ Syns(k) = x.syn + Syns(g)
<1>1. /\ IsFiniteSet(g) /\ IsFiniteSet(k)
      /\ \A f \in k : f.packets \in Nat /\ f.pps \in Nat /\ f.ack \in Nat /\ f.syn \in Nat
  BY FS_Subset DEF Scorable
<1>2. Packets(k) = x.packets + Packets(g)
  <2> DEFINE w == [f \in g |-> f.packets]
             v == [f \in k |-> f.packets]
  <2>1. w \in [g -> Nat] /\ \E F : Sums(F, g, w) /\ Packets(g) = F[g]
    BY <1>1, PacketsSum
  <2>2. v \in [k -> Nat] /\ \E G : Sums(G, k, v) /\ Packets(k) = G[k]
    BY <1>1, PacketsSum
  <2>3. (\A f \in g : v[f] = w[f]) /\ v[x] = x.packets
    OBVIOUS
  <2> HIDE DEF w, v
  <2>4. PICK F : Sums(F, g, w) /\ Packets(g) = F[g]
    BY <2>1
  <2>5. PICK G : Sums(G, k, v) /\ Packets(k) = G[k]
    BY <2>2
  <2>6. G[k] = v[x] + F[g]
    BY <1>1, <2>1, <2>2, <2>3, <2>4, <2>5, SumGrows
  <2>7. QED
    BY <2>3, <2>4, <2>5, <2>6
<1>3. Rate(k) = x.pps + Rate(g)
  <2> DEFINE w == [f \in g |-> f.pps]
             v == [f \in k |-> f.pps]
  <2>1. w \in [g -> Nat] /\ \E F : Sums(F, g, w) /\ Rate(g) = F[g]
    BY <1>1, RatesSum
  <2>2. v \in [k -> Nat] /\ \E G : Sums(G, k, v) /\ Rate(k) = G[k]
    BY <1>1, RatesSum
  <2>3. (\A f \in g : v[f] = w[f]) /\ v[x] = x.pps
    OBVIOUS
  <2> HIDE DEF w, v
  <2>4. PICK F : Sums(F, g, w) /\ Rate(g) = F[g]
    BY <2>1
  <2>5. PICK G : Sums(G, k, v) /\ Rate(k) = G[k]
    BY <2>2
  <2>6. G[k] = v[x] + F[g]
    BY <1>1, <2>1, <2>2, <2>3, <2>4, <2>5, SumGrows
  <2>7. QED
    BY <2>3, <2>4, <2>5, <2>6
<1>4. Acks(k) = x.ack + Acks(g)
  <2> DEFINE w == [f \in g |-> f.ack]
             v == [f \in k |-> f.ack]
  <2>1. w \in [g -> Nat] /\ \E F : Sums(F, g, w) /\ Acks(g) = F[g]
    BY <1>1, AcksSum
  <2>2. v \in [k -> Nat] /\ \E G : Sums(G, k, v) /\ Acks(k) = G[k]
    BY <1>1, AcksSum
  <2>3. (\A f \in g : v[f] = w[f]) /\ v[x] = x.ack
    OBVIOUS
  <2> HIDE DEF w, v
  <2>4. PICK F : Sums(F, g, w) /\ Acks(g) = F[g]
    BY <2>1
  <2>5. PICK G : Sums(G, k, v) /\ Acks(k) = G[k]
    BY <2>2
  <2>6. G[k] = v[x] + F[g]
    BY <1>1, <2>1, <2>2, <2>3, <2>4, <2>5, SumGrows
  <2>7. QED
    BY <2>3, <2>4, <2>5, <2>6
<1>5. Syns(k) = x.syn + Syns(g)
  <2> DEFINE w == [f \in g |-> f.syn]
             v == [f \in k |-> f.syn]
  <2>1. w \in [g -> Nat] /\ \E F : Sums(F, g, w) /\ Syns(g) = F[g]
    BY <1>1, SynsSum
  <2>2. v \in [k -> Nat] /\ \E G : Sums(G, k, v) /\ Syns(k) = G[k]
    BY <1>1, SynsSum
  <2>3. (\A f \in g : v[f] = w[f]) /\ v[x] = x.syn
    OBVIOUS
  <2> HIDE DEF w, v
  <2>4. PICK F : Sums(F, g, w) /\ Syns(g) = F[g]
    BY <2>1
  <2>5. PICK G : Sums(G, k, v) /\ Syns(k) = G[k]
    BY <2>2
  <2>6. G[k] = v[x] + F[g]
    BY <1>1, <2>1, <2>2, <2>3, <2>4, <2>5, SumGrows
  <2>7. QED
    BY <2>3, <2>4, <2>5, <2>6
<1>6. QED
  BY <1>2, <1>3, <1>4, <1>5

LEMMA GrownFacts ==
    ASSUME NEW g, NEW k, NEW x, Grown(g, k, x)
    PROVE  /\ Scorable(g) /\ Scorable(k)
           /\ Cardinality(g) \in Nat /\ Cardinality(k) \in Nat
           /\ Packets(g) \in Nat /\ Packets(k) \in Nat /\ Rate(g) \in Nat /\ Rate(k) \in Nat
           /\ Acks(g) \in Nat /\ Acks(k) \in Nat /\ Syns(g) \in Nat /\ Syns(k) \in Nat
           /\ \/ k = g
              \/ /\ x \in k /\ x \notin g /\ Cardinality(k) = Cardinality(g) + 1
                 /\ Packets(k) = Packets(g) + 1 /\ Rate(k) >= Rate(g)
                 /\ Acks(k) = x.ack + Acks(g) /\ Syns(k) = x.syn + Syns(g)
                 /\ x.ack \in Nat /\ x.syn \in Nat
<1>1. Scorable(g) /\ Scorable(k)
  BY ScorablePart DEF Grown
<1>2. /\ Packets(g) \in Nat /\ Packets(k) \in Nat /\ Rate(g) \in Nat /\ Rate(k) \in Nat
      /\ Acks(g) \in Nat /\ Acks(k) \in Nat /\ Syns(g) \in Nat /\ Syns(k) \in Nat
  BY <1>1, PacketsIsNat, RateIsNat, AcksIsNat, SynsIsNat DEF Scorable
<1>3. Cardinality(g) \in Nat /\ Cardinality(k) \in Nat
  BY <1>1, FS_CardinalityType DEF Scorable
<1>4. CASE x \in k /\ x \notin g
  <2>1. g = k \ {x}
    BY <1>4 DEF Grown
  <2>2. /\ Packets(k) = x.packets + Packets(g) /\ Rate(k) = x.pps + Rate(g)
        /\ Acks(k) = x.ack + Acks(g) /\ Syns(k) = x.syn + Syns(g)
    BY <1>1, <1>4, <2>1, GrownSums
  <2>3. Cardinality(g) = Cardinality(k) - 1
    BY <1>1, <1>4, <2>1, FS_RemoveElement DEF Scorable
  <2>4. x.packets = 1 /\ x.pps \in Nat /\ x.ack \in Nat /\ x.syn \in Nat
    BY <1>1, <1>4 DEF Grown, SinglePacket, Scorable
  <2>5. Cardinality(k) = Cardinality(g) + 1 /\ Packets(k) = Packets(g) + 1 /\ Rate(k) >= Rate(g)
    BY <1>2, <1>3, <2>2, <2>3, <2>4
  <2>6. QED
    BY <1>1, <1>2, <1>3, <1>4, <2>2, <2>4, <2>5
<1>5. CASE ~(x \in k /\ x \notin g)
  <2>1. k = g
    BY <1>5 DEF Grown
  <2>2. QED
    BY <1>1, <1>2, <1>3, <2>1
<1>6. QED
  BY <1>4, <1>5

(* More flows, as many sources, targets and ports or more.                 *)
LEMMA ImagesGrow ==
    ASSUME NEW k, IsFiniteSet(k), NEW F, NEW g \in SUBSET k, DOMAIN F = k
    PROVE  LET I(s) == {F[f] : f \in s}
           IN  /\ IsFiniteSet(I(k)) /\ Cardinality(I(g)) \in Nat /\ Cardinality(I(k)) \in Nat
               /\ Cardinality(I(g)) <= Cardinality(I(k))
<1> DEFINE I(s) == {F[f] : f \in s}
           h == [f \in k |-> F[f]]
<1>1. h \in Surjection(k, I(k))
  BY DEF Surjection
<1>2. I(g) \in SUBSET I(k)
  OBVIOUS
<1> HIDE DEF h, I
<1>3. IsFiniteSet(I(k))
  BY <1>1, FS_Surjection
<1>4. IsFiniteSet(I(g)) /\ Cardinality(I(g)) <= Cardinality(I(k))
  BY <1>2, <1>3, FS_Subset
<1>5. QED
  BY <1>3, <1>4, FS_CardinalityType DEF I

LEMMA SourcesGrow ==
    ASSUME NEW k, IsFiniteSet(k), NEW g \in SUBSET k
    PROVE  /\ Cardinality(Sources(g)) \in Nat /\ Cardinality(Sources(k)) \in Nat
           /\ Cardinality(Sources(g)) <= Cardinality(Sources(k))
           /\ Cardinality(Targets(g)) \in Nat /\ Cardinality(Targets(k)) \in Nat
           /\ Cardinality(Targets(g)) <= Cardinality(Targets(k))
<1> DEFINE S == [f \in k |-> f.src]
           T == [f \in k |-> f.dst]
           I(F, s) == {F[f] : f \in s}
<1>1. \A s \in SUBSET k : Sources(s) = I(S, s) /\ Targets(s) = I(T, s)
  BY DEF Sources, Targets
<1>2. DOMAIN S = k /\ DOMAIN T = k /\ k \in SUBSET k
  OBVIOUS
<1> HIDE DEF S, T
<1>3. /\ Cardinality(I(S, g)) \in Nat /\ Cardinality(I(S, k)) \in Nat
      /\ Cardinality(I(S, g)) <= Cardinality(I(S, k))
  BY <1>2, ImagesGrow
<1>4. /\ Cardinality(I(T, g)) \in Nat /\ Cardinality(I(T, k)) \in Nat
      /\ Cardinality(I(T, g)) <= Cardinality(I(T, k))
  BY <1>2, ImagesGrow
<1> HIDE DEF I
<1>5. QED
  BY <1>1, <1>2, <1>3, <1>4

(* A fraction of at most the whole is not lost to one more SYN.            *)
LEMMA SynOnlyGrows ==
    ASSUME NEW g, NEW k, NEW x, Grown(g, k, x), x \in k => SynOnly(x),
           NEW percent \in Int, percent <= 100, MostlySynOnly(g, percent)
    PROVE  MostlySynOnly(k, percent)
<1> DEFINE p == {f \in g : SynOnly(f)}
           q == {f \in k : SynOnly(f)}
           cp == Cardinality(p)
           cq == Cardinality(q)
           cg == Cardinality(g)
           ck == Cardinality(k)
<1>1. q \in SUBSET k /\ p = q \cap g
  BY DEF Grown
<1>2. Grown(p, q, x)
  BY <1>1, GrownPart
<1>3. 100 * cp >= percent * cg
  BY DEF MostlySynOnly
<1>4. /\ cp \in Nat /\ cq \in Nat /\ cg \in Nat /\ ck \in Nat
      /\ k = g \/ (x \in k /\ x \notin g /\ ck = cg + 1)
  BY GrownFacts, <1>2
<1>5. CASE k = g
  BY <1>5
<1>6. CASE x \in k /\ x \notin g /\ ck = cg + 1
  <2>1. x \in q /\ x \notin p
    BY <1>6
  <2> HIDE DEF p, q
  <2>2. cq = cp + 1
    BY <1>2, <2>1, GrownFacts
  <2> HIDE DEF cp, cq, cg, ck
  <2>3. percent * (cg + 1) = percent * cg + percent
    BY <1>4
  <2>4. 100 * cq >= percent * ck
    BY <1>3, <1>4, <1>6, <2>2, <2>3
  <2>5. QED
    BY <2>4 DEF MostlySynOnly, cq, ck, q
<1>7. QED
  BY <1>4, <1>5, <1>6

-----------------------------------------------------------------------------
(* Thresholds under which one packet more of an attack is no less of it.   *)
Lenient ==
    /\ Cfg.min_confidence <= 50
    /\ Cfg.syn_only_fraction <= 100 /\ Cfg.min_syn_only_fraction <= 100
    /\ Cfg.udp_flood_max_avg_packets >= 1 /\ Cfg.max_avg_packets >= 1

LEMMA OverGrows ==
    ASSUME NEW g, NEW k, NEW x, Grown(g, k, x), NEW proto
    PROVE  Grown(Over(g, proto), Over(k, proto), x)
<1>1. Over(k, proto) \in SUBSET k /\ Over(g, proto) = Over(k, proto) \cap g
  BY DEF Over, Grown
<1>2. QED
  BY <1>1, GrownPart

LEMMA FloodUdpGrows ==
    ASSUME NEW g, NEW k, NEW x, Grown(g, k, x)
    PROVE  Grown(FloodUdp(g), FloodUdp(k), x)
<1>1. FloodUdp(k) \in SUBSET k /\ FloodUdp(g) = FloodUdp(k) \cap g
  BY DEF FloodUdp, Over, Grown
<1>2. QED
  BY <1>1, GrownPart

LEMMA TcpIsSyn ==
    ASSUME NEW g, NEW k, NEW x, Grown(g, k, x), x \in Over(k, "tcp")
    PROVE  SynOnly(x) /\ (x.syn \in Int => x.syn > 0) /\ x.ack = 0
  BY DEF Grown, SinglePacket, Over, SynOnly

LEMMA SynFloodGrows ==
    ASSUME NEW g, NEW k, NEW x, Grown(g, k, x), Lenient, IsSynFlood(g)
    PROVE  IsSynFlood(k)
<1> DEFINE tcp == Over(g, "tcp")
           more == Over(k, "tcp")
<1>1. Grown(tcp, more, x)
  BY OverGrows
<1>2. /\ Cardinality(tcp) >= Cfg.syn_flood_min_flows
      /\ Syns(tcp) >= Cfg.syn_flood_min_syn_ratio * Max({1, Acks(tcp)})
      /\ MostlySynOnly(tcp, Cfg.syn_only_fraction)
  BY DEF IsSynFlood
<1>3. x \in more => SynOnly(x) /\ x.ack = 0
  BY TcpIsSyn
<1> HIDE DEF tcp, more
<1>4. MostlySynOnly(more, Cfg.syn_only_fraction)
  BY <1>1, <1>2, <1>3, SynOnlyGrows, CfgAssumption DEF Lenient
<1>5. /\ Cardinality(tcp) \in Nat /\ Cardinality(more) \in Nat
      /\ Syns(tcp) \in Nat /\ Syns(more) \in Nat /\ Acks(tcp) \in Nat /\ Acks(more) \in Nat
      /\ \/ more = tcp
         \/ /\ x \in more /\ Cardinality(more) = Cardinality(tcp) + 1
            /\ Acks(more) = x.ack + Acks(tcp) /\ Syns(more) = x.syn + Syns(tcp)
            /\ x.syn \in Nat
  BY <1>1, GrownFacts
<1>6. Acks(more) = Acks(tcp) /\ Syns(more) >= Syns(tcp) /\ Cardinality(more) >= Cardinality(tcp)
  BY <1>3, <1>5
<1> DEFINE enough == Cfg.syn_flood_min_syn_ratio * Max({1, Acks(tcp)})
<1>7. enough \in Int
  <2> DEFINE one == 1
  <2>1. one \in Int /\ Acks(tcp) \in Int
    BY <1>5
  <2> HIDE DEF one
  <2>2. Max({one, Acks(tcp)}) \in {one, Acks(tcp)}
    BY <2>1, MaxOfTwo
  <2>3. Max({1, Acks(tcp)}) \in Int
    BY <2>1, <2>2 DEF one
  <2>4. QED
    BY <2>3, CfgAssumption
<1>8. enough = Cfg.syn_flood_min_syn_ratio * Max({1, Acks(more)})
  BY <1>6
<1>9. Syns(tcp) >= enough
  BY <1>2
<1> HIDE DEF enough
<1>10. Syns(more) >= Cfg.syn_flood_min_syn_ratio * Max({1, Acks(more)})
  <2>1. Syns(more) >= enough
    BY <1>5, <1>6, <1>7, <1>9
  <2>2. QED
    BY <1>8, <2>1
<1>11. Cardinality(more) >= Cfg.syn_flood_min_flows
  BY <1>2, <1>5, <1>6, CfgAssumption
<1>12. QED
  BY <1>4, <1>10, <1>11 DEF IsSynFlood, more

LEMMA AverageGrows ==
    ASSUME NEW g, NEW k, NEW x, Grown(g, k, x), NEW most \in Int, most >= 1,
           Packets(g) <= most * Cardinality(g)
    PROVE  Packets(k) <= most * Cardinality(k)
<1> DEFINE n == Cardinality(g)
           p == Packets(g)
<1>1. /\ n \in Nat /\ p \in Nat
      /\ k = g \/ (Cardinality(k) = n + 1 /\ Packets(k) = p + 1)
  BY GrownFacts
<1>2. p <= most * n
  OBVIOUS
<1> HIDE DEF n, p
<1>3. most * (n + 1) = most * n + most
  BY <1>1
<1>4. p + 1 <= most * (n + 1)
  <2> DEFINE z == most * n
  <2>1. z \in Int
    BY <1>1
  <2>2. p <= z /\ most * (n + 1) = z + most
    BY <1>2, <1>3
  <2> HIDE DEF z
  <2>3. QED
    BY <1>1, <2>1, <2>2
<1>5. QED
  BY <1>1, <1>4 DEF n, p

LEMMA NotMuted ==
    ASSUME NEW g, NEW k, NEW x, Grown(g, k, x), ~MuteGeneric(g)
    PROVE  ~MuteGeneric(k)
  BY DEF MuteGeneric, Grown

LEMMA UdpFloodGrows ==
    ASSUME NEW g, NEW k, NEW x, Grown(g, k, x), Lenient, IsUdpFlood(g)
    PROVE  IsUdpFlood(k)
<1> DEFINE udp == FloodUdp(g)
           more == FloodUdp(k)
<1>1. Grown(udp, more, x)
  BY FloodUdpGrows
<1>2. /\ Cardinality(udp) >= Cfg.udp_flood_min_flows
      /\ Cardinality(Sources(udp)) >= Cfg.min_unique_sources
      /\ \/ Packets(udp) <= Cfg.udp_flood_max_avg_packets * Cardinality(udp)
         \/ ~MuteGeneric(g) /\ Rate(udp) >= Cfg.udp_flood_packet_rate
  BY DEF IsUdpFlood
<1> HIDE DEF udp, more
<1>3. /\ Cardinality(udp) \in Nat /\ Cardinality(more) \in Nat
      /\ Cardinality(more) >= Cardinality(udp)
      /\ Rate(udp) \in Nat /\ Rate(more) \in Nat /\ Rate(more) >= Rate(udp)
  BY <1>1, GrownFacts
<1>4. /\ Cardinality(Sources(udp)) \in Nat /\ Cardinality(Sources(more)) \in Nat
      /\ Cardinality(Sources(udp)) <= Cardinality(Sources(more))
  BY <1>1, SourcesGrow DEF Grown, Scorable
<1>5. /\ Cfg.udp_flood_min_flows \in Int /\ Cfg.min_unique_sources \in Int
      /\ Cfg.udp_flood_packet_rate \in Int /\ Cfg.udp_flood_max_avg_packets \in Int
      /\ Cfg.udp_flood_max_avg_packets >= 1
  BY CfgAssumption DEF Lenient
<1>6. /\ Cardinality(more) >= Cfg.udp_flood_min_flows
      /\ Cardinality(Sources(more)) >= Cfg.min_unique_sources
  BY <1>2, <1>3, <1>4, <1>5
<1>7. CASE Packets(udp) <= Cfg.udp_flood_max_avg_packets * Cardinality(udp)
  <2>1. Packets(more) <= Cfg.udp_flood_max_avg_packets * Cardinality(more)
    BY <1>1, <1>5, <1>7, AverageGrows
  <2>2. QED
    BY <1>6, <2>1 DEF IsUdpFlood, more
<1>8. CASE ~MuteGeneric(g) /\ Rate(udp) >= Cfg.udp_flood_packet_rate
  <2>1. ~MuteGeneric(k)
    BY <1>8, NotMuted
  <2>2. Rate(more) >= Cfg.udp_flood_packet_rate
    BY <1>3, <1>5, <1>8
  <2>3. QED
    BY <1>6, <2>1, <2>2 DEF IsUdpFlood, more
<1>9. QED
  BY <1>2, <1>7, <1>8

LEMMA IcmpFloodGrows ==
    ASSUME NEW g, NEW k, NEW x, Grown(g, k, x), IsIcmpFlood(g)
    PROVE  IsIcmpFlood(k)
<1> DEFINE icmp == Over(g, "icmp")
           more == Over(k, "icmp")
<1>1. Grown(icmp, more, x)
  BY OverGrows
<1>2. Cardinality(icmp) >= Cfg.icmp_flood_min_flows /\ Rate(icmp) >= Cfg.icmp_flood_packet_rate
  BY DEF IsIcmpFlood
<1> HIDE DEF icmp, more
<1>3. /\ Cardinality(icmp) \in Nat /\ Cardinality(more) \in Nat
      /\ Cardinality(more) >= Cardinality(icmp)
      /\ Rate(icmp) \in Nat /\ Rate(more) \in Nat /\ Rate(more) >= Rate(icmp)
  BY <1>1, GrownFacts
<1>4. Cardinality(more) >= Cfg.icmp_flood_min_flows /\ Rate(more) >= Cfg.icmp_flood_packet_rate
  BY <1>2, <1>3, CfgAssumption
<1>5. QED
  BY <1>4 DEF IsIcmpFlood, more

LEMMA FanInGrows ==
    ASSUME NEW g, NEW k, NEW x, Grown(g, k, x), IsFanIn(g)
    PROVE  IsFanIn(k)
<1>1. ~MuteGeneric(k)
  BY NotMuted DEF IsFanIn
<1>2. Cardinality(Sources(g)) >= Cfg.min_unique_sources /\ Rate(g) >= Cfg.dst_packet_rate
  BY DEF IsFanIn
<1>3. /\ Cardinality(Sources(g)) \in Nat /\ Cardinality(Sources(k)) \in Nat
      /\ Cardinality(Sources(g)) <= Cardinality(Sources(k))
  BY SourcesGrow DEF Grown, Scorable
<1>4. Rate(g) \in Nat /\ Rate(k) \in Nat /\ Rate(k) >= Rate(g)
  BY GrownFacts
<1>5. Cardinality(Sources(k)) >= Cfg.min_unique_sources /\ Rate(k) >= Cfg.dst_packet_rate
  BY <1>2, <1>3, <1>4, CfgAssumption
<1>6. QED
  BY <1>1, <1>5 DEF IsFanIn

LEMMA FloodsGrow ==
    ASSUME NEW g, NEW k, NEW x, Grown(g, k, x), Lenient, Floods(g) # {}
    PROVE  Floods(k) # {}
<1>1. \A h : Floods(h) # {} <=> IsSynFlood(h) \/ IsUdpFlood(h) \/ IsIcmpFlood(h) \/ IsFanIn(h)
  <2> TAKE h
  <2>1. Specific(h) # {} <=> IsSynFlood(h) \/ IsUdpFlood(h) \/ IsIcmpFlood(h)
    BY DEF Specific, FloodSubtypes
  <2>2. QED
    BY <2>1 DEF Floods
<1>2. QED
  BY <1>1, SynFloodGrows, UdpFloodGrows, IcmpFloodGrows, FanInGrows

-----------------------------------------------------------------------------
LEMMA ProbingGrows ==
    ASSUME NEW g, NEW k, NEW x, Grown(g, k, x), Lenient, LooksLikeProbing(g)
    PROVE  LooksLikeProbing(k)
<1> DEFINE tcp == Over(g, "tcp")
           more == Over(k, "tcp")
           percent == Cfg.min_syn_only_fraction
<1>1. percent \in Int /\ percent <= 100 /\ Cfg.max_avg_packets \in Int /\ Cfg.max_avg_packets >= 1
  BY CfgAssumption DEF Lenient
<1>2. Packets(k) <= Cfg.max_avg_packets * Cardinality(k)
  BY <1>1, AverageGrows DEF LooksLikeProbing
<1>3. Grown(tcp, more, x) /\ (x \in more => SynOnly(x))
  BY OverGrows, TcpIsSyn
<1>4. tcp # {} => MostlySynOnly(tcp, percent)
  BY DEF LooksLikeProbing
<1> HIDE DEF tcp, more, percent
<1>5. tcp = {} => MostlySynOnly(tcp, percent)
  <2>1. ASSUME tcp = {} PROVE {f \in tcp : SynOnly(f)} = {} /\ Cardinality({}) = 0
    BY <2>1, FS_EmptySet
  <2>2. QED
    BY <1>1, <2>1 DEF MostlySynOnly
<1>6. MostlySynOnly(more, percent)
  BY <1>1, <1>3, <1>4, <1>5, SynOnlyGrows
<1>7. QED
  BY <1>2, <1>6 DEF LooksLikeProbing, more, percent

LEMMA ProbesGrow ==
    ASSUME NEW fs, NEW gs, NEW x, Grown(fs, gs, x)
    PROVE  /\ Probes(fs) \in SUBSET Probes(gs) /\ IsFiniteSet(Probes(gs))
           /\ \A p : /\ Grown(OfHosts(fs, p), OfHosts(gs, p), x)
                     /\ Grown(OfPort(fs, p), OfPort(gs, p), x)
<1>1. Probes(gs) \in SUBSET gs /\ Probes(fs) = Probes(gs) \cap fs
  BY DEF Probes, Over, Grown
<1>2. Grown(Probes(fs), Probes(gs), x)
  BY <1>1, GrownPart
<1>3. ASSUME NEW p
      PROVE  /\ Grown(OfHosts(fs, p), OfHosts(gs, p), x)
             /\ Grown(OfPort(fs, p), OfPort(gs, p), x)
  <2>1. /\ OfHosts(gs, p) \in SUBSET Probes(gs)
        /\ OfHosts(fs, p) = OfHosts(gs, p) \cap Probes(fs)
    BY <1>1 DEF OfHosts
  <2>2. /\ OfPort(gs, p) \in SUBSET Probes(gs)
        /\ OfPort(fs, p) = OfPort(gs, p) \cap Probes(fs)
    BY <1>1 DEF OfPort
  <2>3. QED
    BY <1>2, <2>1, <2>2, GrownPart
<1>4. QED
  BY <1>1, <1>2, <1>3 DEF Grown, Scorable

LEMMA VerticalGrows ==
    ASSUME NEW fs, NEW gs, NEW x, Grown(fs, gs, x), Lenient, NEW p, IsVertical(fs, p)
    PROVE  IsVertical(gs, p)
<1> DEFINE g == OfHosts(fs, p)
           k == OfHosts(gs, p)
           port == [f \in k |-> f.dport]
           I(s) == {port[f] : f \in s}
<1>1. Grown(g, k, x)
  BY ProbesGrow
<1>2. LooksLikeProbing(k)
  BY <1>1, ProbingGrows DEF IsVertical
<1> HIDE DEF g, k
<1>3. g \in SUBSET k /\ IsFiniteSet(k)
  BY <1>1 DEF Grown, Scorable
<1>4. I(k) = {f.dport : f \in k} /\ I(g) = {f.dport : f \in g}
  BY <1>3
<1>5. IsFiniteSet(I(k))
  <2>1. DOMAIN port = k
    OBVIOUS
  <2> HIDE DEF port
  <2>2. QED
    BY <1>3, <2>1, ImagesGrow
<1>6. PortsTried(fs, p) \in SUBSET PortsTried(gs, p) /\ PortsTried(gs, p) \in SUBSET I(k)
  BY <1>3, <1>4 DEF PortsTried, g, k
<1> HIDE DEF I
<1>7. /\ Cardinality(PortsTried(fs, p)) \in Nat /\ Cardinality(PortsTried(gs, p)) \in Nat
      /\ Cardinality(PortsTried(fs, p)) <= Cardinality(PortsTried(gs, p))
  BY <1>5, <1>6, FS_Subset, FS_CardinalityType
<1>8. Cardinality(PortsTried(gs, p)) >= Cfg.min_ports_per_dst
  BY <1>7, CfgAssumption DEF IsVertical
<1>9. QED
  BY <1>2, <1>8 DEF IsVertical, k

LEMMA HorizontalGrows ==
    ASSUME NEW fs, NEW gs, NEW x, Grown(fs, gs, x), Lenient, NEW p, IsHorizontal(fs, p)
    PROVE  IsHorizontal(gs, p)
<1> DEFINE g == OfPort(fs, p)
           k == OfPort(gs, p)
<1>1. Grown(g, k, x)
  BY ProbesGrow
<1>2. LooksLikeProbing(k) /\ p[2] <= Cfg.max_scan_dst_port
  BY <1>1, ProbingGrows DEF IsHorizontal
<1>3. Cardinality(Targets(g)) >= Cfg.min_dsts_per_port
  BY DEF IsHorizontal
<1> HIDE DEF g, k
<1>4. /\ Cardinality(Targets(g)) \in Nat /\ Cardinality(Targets(k)) \in Nat
      /\ Cardinality(Targets(g)) <= Cardinality(Targets(k))
  BY <1>1, SourcesGrow DEF Grown, Scorable
<1>5. Cardinality(Targets(k)) >= Cfg.min_dsts_per_port
  BY <1>3, <1>4, CfgAssumption
<1>6. QED
  BY <1>2, <1>5 DEF IsHorizontal, k

-----------------------------------------------------------------------------
(* Who is named by alerts is named by others that accuse the same.         *)
Accuses(B, a) ==
    /\ a.subtype \in FloodSubtypes => \E b \in B : b.subtype \in FloodSubtypes /\ b.dst = a.dst
    /\ a.class = "recon_scanning" => \E b \in B : b.class = "recon_scanning" /\ b.src = a.src

LEMMA NamesCover ==
    ASSUME NEW A, NEW B, \A a \in A : Accuses(B, a)
    PROVE  Named(A) \subseteq Named(B)
<1> SUFFICES ASSUME NEW n \in Named(A) PROVE n \in Named(B)
  OBVIOUS
<1>1. \/ \E a \in A : a.subtype \in FloodSubtypes /\ n = <<"victim", a.dst>>
      \/ \E a \in A : a.class = "recon_scanning" /\ n = <<"scanner", a.src>>
  BY DEF Named
<1>2. \/ \E b \in B : b.subtype \in FloodSubtypes /\ n = <<"victim", b.dst>>
      \/ \E b \in B : b.class = "recon_scanning" /\ n = <<"scanner", b.src>>
  BY <1>1 DEF Accuses
<1>3. QED
  BY <1>2 DEF Named

(* The filters of Detector.score accuse no one else, and spare no one.     *)
LEMMA ScoreNamesRaw ==
    ASSUME NEW fs, Scorable(fs), Cfg.min_confidence <= 50
    PROVE  /\ \A b \in Score(fs) : Accuses(Raw(fs), b)
           /\ \A a \in Raw(fs) : Accuses(Score(fs), a)
<1>1. ASSUME NEW b \in Score(fs) PROVE Accuses(Raw(fs), b)
  <2>1. PICK a \in Raw(fs) : /\ b.class = a.class /\ b.subtype = a.subtype
                             /\ b.src = a.src /\ b.dst = a.dst
    BY ScoreIsRaw
  <2>2. QED
    BY <2>1 DEF Accuses
<1>2. ASSUME NEW a \in Raw(fs) PROVE Accuses(Score(fs), a)
  <2>1. PICK b \in Score(fs) : Key(b) = Key(a)
    BY RawIsScored
  <2>2. PICK c \in Raw(fs) : /\ Key(b) = Key(c) /\ b.class = c.class /\ b.subtype = c.subtype
                             /\ b.src = c.src /\ b.dst = c.dst
    BY ScoreIsRaw
  <2>3. Keyed(a) /\ Keyed(c)
    BY RawKeyed
  <2>4. a.class = c.class /\ a.subtype = c.subtype /\ a.id = c.id
    BY <2>1, <2>2 DEF Key
  <2>5. \A e : Keyed(e) /\ e.subtype \in FloodSubtypes => e.dst = e.id[3]
    BY DEF Keyed, FloodSubtypes
  <2>6. \A e : Keyed(e) /\ e.class = "recon_scanning" => e.src = e.id[3]
    BY DEF Keyed
  <2>7. a.subtype \in FloodSubtypes => b.subtype \in FloodSubtypes /\ b.dst = a.dst
    BY <2>2, <2>3, <2>4, <2>5
  <2>8. a.class = "recon_scanning" => b.class = "recon_scanning" /\ b.src = a.src
    BY <2>2, <2>3, <2>4, <2>6
  <2>9. QED
    BY <2>7, <2>8 DEF Accuses
<1>3. QED
  BY <1>1, <1>2

LEMMA RawNamesScore ==
    ASSUME NEW fs, NEW gs, Scorable(fs), Scorable(gs), Cfg.min_confidence <= 50,
           \A a \in Raw(fs) : Accuses(Raw(gs), a)
    PROVE  Named(Score(fs)) \subseteq Named(Score(gs))
<1>1. Named(Score(fs)) \subseteq Named(Raw(fs))
  BY ScoreNamesRaw, NamesCover
<1>2. Named(Raw(fs)) \subseteq Named(Raw(gs))
  BY NamesCover
<1>3. Named(Raw(gs)) \subseteq Named(Score(gs))
  BY ScoreNamesRaw, NamesCover
<1>4. QED
  BY <1>1, <1>2, <1>3

LEMMA AlikeNames ==
    ASSUME NEW fs, NEW gs, Alike(fs, gs), Cfg.min_confidence <= 50
    PROVE  Named(Score(fs)) \subseteq Named(Score(gs))
<1>1. ASSUME NEW a \in Raw(fs) PROVE Accuses(Raw(gs), a)
  <2>1. PICK b \in Raw(gs) : Twin(a, b)
    BY RawTwins
  <2>2. Keyed(a)
    BY RawKeyed DEF Alike
  <2>3. a.class = "recon_scanning" => a.subtype # "martian_source"
    BY <2>2 DEF Keyed
  <2>4. QED
    BY <2>1, <2>3 DEF Twin, Accuses
<1>2. QED
  BY <1>1, RawNamesScore DEF Alike

-----------------------------------------------------------------------------
(* A flood, and a scan, accuse.                                            *)
LEMMA FloodIsRaw ==
    ASSUME NEW fs, NEW d \in Targets(fs), NEW s \in Floods(Toward(fs, d))
    PROVE  FloodAlert(s, d, Toward(fs, d)) \in Raw(fs)
<1> DEFINE At(e) == {FloodAlert(t, e, Toward(fs, e)) : t \in Floods(Toward(fs, e))}
           Groups == {At(e) : e \in Targets(fs)}
           a == FloodAlert(s, d, Toward(fs, d))
<1>1. UNION Groups \subseteq Volumetric(fs)
  BY DEF Volumetric
<1>2. a \in At(d) /\ At(d) \in Groups
  OBVIOUS
<1> HIDE DEF At, Groups, a
<1>3. a \in Volumetric(fs)
  BY <1>1, <1>2
<1>4. QED
  BY <1>3 DEF Raw, a

LEMMA GrownNames ==
    ASSUME NEW fs, NEW gs, NEW x, Grown(fs, gs, x), Lenient
    PROVE  Named(Score(fs)) \subseteq Named(Score(gs))
<1>1. Scorable(fs) /\ Scorable(gs)
  BY GrownFacts
<1>2. ASSUME NEW a \in Raw(fs), a.subtype \in FloodSubtypes
      PROVE  \E b \in Raw(gs) : b.subtype \in FloodSubtypes /\ b.dst = a.dst
  <2>1. a.class = "volumetric_ddos"
    <3>1. Keyed(a)
      BY <1>1, RawKeyed
    <3>2. QED
      BY <1>2, <3>1 DEF Keyed, FloodSubtypes
  <2>2. a \in Volumetric(fs)
    BY <1>1, <2>1, RawClasses
  <2>3. PICK d \in Targets(fs) : \E s \in Floods(Toward(fs, d)) :
           a = FloodAlert(s, d, Toward(fs, d))
    BY <1>2, <2>2, VolumetricIsEither
  <2>4. Floods(Toward(fs, d)) # {} /\ a.dst = d
    BY <1>1, <2>3, FloodRaised
  <2>5. d \in Targets(gs)
    BY DEF Targets, Grown
  <2>6. Grown(Toward(fs, d), Toward(gs, d), x)
    <3>1. Toward(gs, d) \in SUBSET gs /\ Toward(fs, d) = Toward(gs, d) \cap fs
      BY DEF Toward, Grown
    <3>2. QED
      BY <3>1, GrownPart
  <2>7. PICK t \in Floods(Toward(gs, d)) : TRUE
    BY <2>4, <2>6, FloodsGrow
  <2> DEFINE b == FloodAlert(t, d, Toward(gs, d))
  <2>8. b \in Raw(gs)
    BY <2>5, FloodIsRaw
  <2>9. b.subtype \in FloodSubtypes /\ b.dst = d
    BY <1>1, <2>5, FloodRaised
  <2> HIDE DEF b
  <2>10. QED
    BY <2>4, <2>8, <2>9
<1>3. ASSUME NEW a \in Raw(fs), a.class = "recon_scanning"
      PROVE  \E b \in Raw(gs) : b.class = "recon_scanning" /\ b.src = a.src
  <2>1. a \in VerticalScans(fs) \/ a \in HorizontalSweeps(fs)
    BY <1>1, <1>3, RawClasses
  <2>2. CASE a \in VerticalScans(fs)
    <3>1. PICK h \in Probes(fs) : /\ IsVertical(fs, <<h.src, h.dst>>)
                                  /\ a = VerticalAlert(fs, <<h.src, h.dst>>)
      BY <2>2, VerticalCases
    <3> DEFINE p == <<h.src, h.dst>>
               b == VerticalAlert(gs, p)
    <3>2. h \in Probes(gs) /\ IsVertical(gs, p)
      BY <3>1, ProbesGrow, VerticalGrows
    <3>3. b \in VerticalScans(gs)
      BY <3>2, VerticalCases
    <3>4. a.src = p[1] /\ b.src = p[1] /\ b.class = "recon_scanning"
      BY <3>1 DEF VerticalAlert, Alert
    <3> HIDE DEF b, p
    <3>5. QED
      BY <3>3, <3>4 DEF Raw
  <2>3. CASE a \in HorizontalSweeps(fs)
    <3>1. PICK h \in Probes(fs) : /\ IsHorizontal(fs, <<h.src, h.dport>>)
                                  /\ a = HorizontalAlert(fs, <<h.src, h.dport>>)
      BY <2>3, HorizontalCases
    <3> DEFINE p == <<h.src, h.dport>>
               b == HorizontalAlert(gs, p)
    <3>2. h \in Probes(gs) /\ IsHorizontal(gs, p)
      BY <3>1, ProbesGrow, HorizontalGrows
    <3>3. b \in HorizontalSweeps(gs)
      BY <3>2, HorizontalCases
    <3>4. a.src = p[1] /\ b.src = p[1] /\ b.class = "recon_scanning"
      BY <3>1 DEF HorizontalAlert, Alert
    <3> HIDE DEF b, p
    <3>5. QED
      BY <3>3, <3>4 DEF Raw
  <2>4. QED
    BY <2>1, <2>2, <2>3
<1>4. \A a \in Raw(fs) : Accuses(Raw(gs), a)
  BY <1>2, <1>3 DEF Accuses
<1>5. QED
  BY <1>1, <1>4, RawNamesScore DEF Lenient

-----------------------------------------------------------------------------
(* What the cap keeps are the flows of the first places.                   *)
LEMMA CappedSet ==
    ASSUME NEW S, NEW b \in Seq(S), Weighed(b)
    PROVE  ToSet(Capped(b)) = {b[i] : i \in {j \in DOMAIN b : Place(b, j) <= MaxScorePerTick}}
<1> DEFINE Kept == {b[i] : i \in {j \in DOMAIN b : Place(b, j) <= MaxScorePerTick}}
<1>1. /\ \A i \in DOMAIN b : Place(b, i) \in 1 .. Len(b)
      /\ \A i, j \in DOMAIN b : Place(b, i) = Place(b, j) => i = j
      /\ \A n \in 1 .. Len(b) : \E i \in DOMAIN b : Place(b, i) = n
  BY PlacesOfFlows
<1>2. MaxScorePerTick \in Nat /\ Len(b) \in Nat
  BY EngineAssumption
<1>3. CASE Len(b) <= MaxScorePerTick
  <2>1. Capped(b) = b
    BY <1>3 DEF Capped
  <2>2. \A i \in DOMAIN b : Place(b, i) <= MaxScorePerTick
    BY <1>1, <1>2, <1>3
  <2>3. QED
    BY <2>1, <2>2 DEF ToSet
<1>4. CASE ~(Len(b) <= MaxScorePerTick)
  <2> DEFINE at(n) == CHOOSE i \in DOMAIN b : Place(b, i) = n
             c == [n \in 1 .. MaxScorePerTick |-> b[at(n)]]
  <2>1. Capped(b) = c
    BY <1>4 DEF Capped
  <2>2. \A n \in 1 .. MaxScorePerTick : at(n) \in DOMAIN b /\ Place(b, at(n)) = n
    <3> TAKE n \in 1 .. MaxScorePerTick
    <3>1. n \in 1 .. Len(b)
      BY <1>2, <1>4
    <3>2. \E i \in DOMAIN b : Place(b, i) = n
      BY <1>1, <3>1
    <3>3. QED
      BY <3>2
  <2> HIDE DEF at
  <2>3. ToSet(c) = {b[at(n)] : n \in 1 .. MaxScorePerTick}
    BY DEF ToSet
  <2>4. ASSUME NEW n \in 1 .. MaxScorePerTick PROVE b[at(n)] \in Kept
    BY <1>2, <2>2
  <2>5. ASSUME NEW i \in DOMAIN b, Place(b, i) <= MaxScorePerTick
        PROVE  \E n \in 1 .. MaxScorePerTick : b[i] = b[at(n)]
    <3>1. Place(b, i) \in 1 .. MaxScorePerTick
      BY <1>1, <1>2, <2>5
    <3>2. at(Place(b, i)) = i
      BY <1>1, <2>2, <3>1
    <3>3. QED
      BY <3>1, <3>2
  <2>6. QED
    BY <2>1, <2>3, <2>4, <2>5
<1>5. QED
  BY <1>3, <1>4

LEMMA CappedApart ==
    ASSUME NEW S, NEW b \in Seq(S), Weighed(b), Apart(b)
    PROVE  Apart(Capped(b))
<1>1. CASE Len(b) <= MaxScorePerTick
  BY <1>1 DEF Capped
<1>2. CASE ~(Len(b) <= MaxScorePerTick)
  <2> DEFINE at(n) == CHOOSE i \in DOMAIN b : Place(b, i) = n
             c == [n \in 1 .. MaxScorePerTick |-> b[at(n)]]
  <2>1. Capped(b) = c
    BY <1>2 DEF Capped
  <2>2. \A n \in 1 .. MaxScorePerTick : at(n) \in DOMAIN b /\ Place(b, at(n)) = n
    <3> TAKE n \in 1 .. MaxScorePerTick
    <3>1. n \in 1 .. Len(b)
      BY <1>2, EngineAssumption
    <3>2. \E i \in DOMAIN b : Place(b, i) = n
      BY <3>1, PlacesOfFlows
    <3>3. QED
      BY <3>2
  <2> HIDE DEF at
  <2>3. \A m, n \in 1 .. MaxScorePerTick : FlowId(c[m]) = FlowId(c[n]) => m = n
    BY <2>2 DEF Apart
  <2>4. QED
    BY <2>1, <2>3 DEF Apart
<1>3. QED
  BY <1>1, <1>2

(* A flow of a single packet takes the last place.                         *)
LEMMA LastPlace ==
    ASSUME NEW b \in Seq(Handed), NEW g \in Handed, g.packets = 1
    PROVE  LET c == Append(b, g)
           IN  /\ \A i \in DOMAIN b : Place(c, i) = Place(b, i)
               /\ Place(c, Len(b) + 1) = Len(b) + 1
<1> DEFINE c == Append(b, g)
           K == 1 .. Len(b)
           N == Len(b) + 1
<1>1. /\ Len(b) \in Nat /\ DOMAIN b = K /\ DOMAIN c = 1 .. N
      /\ \A i \in K : c[i] = b[i] /\ i \in DOMAIN c
      /\ c[N] = g
  OBVIOUS
<1>2. \A i \in K : b[i].packets \in Nat \ {0}
  BY HandedFacts
<1> HIDE DEF c
<1>3. ASSUME NEW i \in K PROVE Place(c, i) = Place(b, i)
  <2>1. \A j \in 1 .. N :
           (c[j].packets > c[i].packets \/ (c[j].packets = c[i].packets /\ j <= i))
             <=> j \in K /\ (b[j].packets > b[i].packets \/ (b[j].packets = b[i].packets /\ j <= i))
    <3> TAKE j \in 1 .. N
    <3>1. CASE j \in K
      BY <1>1, <3>1
    <3>2. CASE j = N
      <4>1. c[j].packets = 1 /\ c[i].packets = b[i].packets
        BY <1>1, <3>2
      <4>2. b[i].packets \in Nat /\ b[i].packets # 0 /\ i \in Int /\ i < N
        BY <1>1, <1>2
      <4>3. QED
        BY <1>1, <3>2, <4>1, <4>2
    <3>3. QED
      BY <1>1, <3>1, <3>2
  <2>2. {j \in DOMAIN c : c[j].packets > c[i].packets \/ (c[j].packets = c[i].packets /\ j <= i)}
          = {j \in DOMAIN b : b[j].packets > b[i].packets
                                \/ (b[j].packets = b[i].packets /\ j <= i)}
    BY <1>1, <2>1
  <2>3. QED
    BY <2>2 DEF Place
<1>4. Place(c, N) = N
  <2>1. \A j \in 1 .. N : c[j].packets > c[N].packets \/ (c[j].packets = c[N].packets /\ j <= N)
    <3> TAKE j \in 1 .. N
    <3>1. c[N].packets = 1 /\ c[j].packets \in Nat \ {0}
      BY <1>1, <1>2
    <3>2. QED
      BY <1>1, <3>1
  <2>2. Place(c, N) = Cardinality(1 .. N)
    BY <1>1, <2>1 DEF Place
  <2>3. QED
    BY <1>1, <2>2, FS_Interval
<1>5. QED
  BY <1>1, <1>3, <1>4 DEF c

LEMMA OneMoreFlow ==
    ASSUME NEW b \in Seq(Handed), NEW g \in Handed, NEW c, c = Append(b, g),
           Apart(c), SinglePacket(g), Lenient
    PROVE  Named(Scored(b)) \subseteq Named(Scored(c))
<1> DEFINE N == Len(b) + 1
<1>1. /\ c \in Seq(Handed) /\ Len(b) \in Nat /\ Len(c) = N
      /\ DOMAIN b = 1 .. Len(b) /\ DOMAIN c = 1 .. N
      /\ \A i \in 1 .. Len(b) : c[i] = b[i] /\ i \in DOMAIN c
      /\ c[N] = g
  OBVIOUS
<1>2. Weighed(b) /\ Weighed(c)
  <2>1. \A s \in Seq(Handed) : \A i \in DOMAIN s : s[i].packets \in Nat
    BY HandedFacts
  <2>2. QED
    BY <1>1, <2>1 DEF Weighed
<1>3. Apart(b)
  BY <1>1 DEF Apart
<1>4. MaxScorePerTick \in Nat
  BY EngineAssumption
<1>5. CASE Len(b) < MaxScorePerTick
  <2>1. Capped(b) = b /\ Capped(c) = c
    BY <1>1, <1>4, <1>5 DEF Capped
  <2> DEFINE x == [g EXCEPT !.at = N]
  <2>2. SinglePacket(x)
    BY PlacedFlow
  <2>3. Features(b) \in SUBSET Features(c) /\ Features(c) \subseteq Features(b) \cup {x}
    <3>1. \A i \in DOMAIN b : [b[i] EXCEPT !.at = i] = [c[i] EXCEPT !.at = i] /\ i \in DOMAIN c
      BY <1>1
    <3>2. \A i \in DOMAIN c : i \in DOMAIN b \/ [c[i] EXCEPT !.at = i] = x
      BY <1>1
    <3> HIDE DEF x, N
    <3>3. QED
      BY <3>1, <3>2 DEF Features
  <2>4. Scorable(Features(c))
    BY <1>1, FeaturesScorable
  <2> HIDE DEF x
  <2>5. Grown(Features(b), Features(c), x)
    BY <2>2, <2>3, <2>4 DEF Grown
  <2>6. QED
    BY <2>1, <2>5, GrownNames DEF Scored
<1>6. CASE ~(Len(b) < MaxScorePerTick)
  <2>1. /\ \A i \in DOMAIN b : Place(c, i) = Place(b, i)
        /\ Place(c, N) = N
    BY LastPlace DEF SinglePacket
  <2>2. ~(N <= MaxScorePerTick)
    BY <1>1, <1>4, <1>6
  <2>3. ToSet(Capped(b)) = {b[i] : i \in {j \in DOMAIN b : Place(b, j) <= MaxScorePerTick}}
    BY <1>2, CappedSet
  <2>4. ToSet(Capped(c)) = {c[i] : i \in {j \in DOMAIN c : Place(c, j) <= MaxScorePerTick}}
    <3>1. \A s \in Seq(Handed) : Weighed(s) =>
             ToSet(Capped(s)) = {s[i] : i \in {j \in DOMAIN s : Place(s, j) <= MaxScorePerTick}}
      BY CappedSet
    <3>2. c \in Seq(Handed) /\ Weighed(c)
      BY <1>1, <1>2
    <3>3. QED
      BY <3>1, <3>2
  <2>5. \A i \in DOMAIN c : Place(c, i) <= MaxScorePerTick => i \in DOMAIN b
    BY <1>1, <2>1, <2>2
  <2>6. ToSet(Capped(b)) = ToSet(Capped(c))
    BY <1>1, <2>1, <2>3, <2>4, <2>5
  <2>7. Apart(Capped(b)) /\ Apart(Capped(c))
    BY <1>1, <1>2, <1>3, CappedApart
  <2>8. Capped(b) \in Seq(Handed) /\ Capped(c) \in Seq(Handed)
    BY <1>1, <1>2, CappedFacts
  <2>9. Alike(Features(Capped(b)), Features(Capped(c)))
    BY <2>6, <2>7, <2>8, SameFlowsAlike
  <2>10. QED
    BY <2>9, AlikeNames DEF Scored, Lenient
<1>7. QED
  BY <1>5, <1>6

(* For any traffic, cap and lenient thresholds (as shipped): one packet    *)
(* more of an attack, however it moves the ratios, the averages and the    *)
(* cap, hides no victim and no scanner.                                    *)
THEOREM AttackIsNotHidden ==
    ASSUME Lenient
    PROVE  Spec => AttackNotHidden
<1>1. ASSUME TallyInv, TallyInv', HandOver, SinglePacket(Last(batch'))
      PROVE  Named(Scored(batch)) \subseteq Named(Scored(batch'))
  <2>1. PICK f \in network :
           batch' = Append(batch, [f EXCEPT !.new = FlowId(f) \notin known])
    BY <1>1 DEF HandOver
  <2> DEFINE g == [f EXCEPT !.new = FlowId(f) \notin known]
  <2>2. g \in Handed
    BY <1>1, MarkedFlow DEF TallyInv, TallyType
  <2>3. batch \in Seq(Handed) /\ Apart(batch')
    BY <1>1 DEF TallyInv, TallyType, Apart
  <2>4. batch' = Append(batch, g)
    BY <2>1
  <2> HIDE DEF g
  <2>5. Last(batch') = g
    BY <2>2, <2>3, <2>4 DEF Last
  <2>6. QED
    BY <1>1, <2>2, <2>3, <2>4, <2>5, OneMoreFlow
<1>2. TallyInv /\ TallyInv' /\ [Next]_vars =>
        [FirstBatch /\ HandOver /\ SinglePacket(Last(batch'))
           => Named(Scored(batch)) \subseteq Named(Scored(batch'))]_vars
  BY <1>1
<1>3. QED
  BY <1>2, TallyInit, TallyStep, PTL DEF Spec, AttackNotHidden

=============================================================================
