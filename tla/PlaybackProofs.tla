---------------------------- MODULE PlaybackProofs ----------------------------
(***************************************************************************)
(* For any files, alerts and number of clicks: what a playback reveals,    *)
(* and what the views make of it.                                          *)
(***************************************************************************)
EXTENDS AlertViews, FiniteSetTheorems, WellFoundedInduction, TLAPS

(* Rows of a file are revealed up to the clock, or else only the first.    *)
Behind == count <= 1 \/ count <= UpperBound(rows, clock)

(* While a position is sought, it is what the rows are revealed up to, and *)
(* they are there to stay; the effect takes it as it starts.               *)
PlayInv ==
    /\ rows # {} /\ rows \subseteq Nat /\ IsFiniteSet(rows)
    /\ coming \subseteq Nat /\ IsFiniteSet(coming)
    /\ count \in Nat
    /\ clock \in Nat /\ seek \in Nat \cup {NoSeek}
    /\ Careful =>
         IF playing THEN Behind /\ seek = NoSeek
         ELSE seek # NoSeek => count = UpperBound(rows, seek)
    /\ Careful /\ coming # {} => seek = NoSeek

-----------------------------------------------------------------------------
(* Least and greatest elements.                                            *)
LEMMA LeastNat ==
    ASSUME NEW S \in SUBSET Nat, S # {}
    PROVE  \E m \in S : \A n \in S : m <= n
<1> DEFINE R == OpToRel(<, Nat)
<1>1. PICK m \in S : \A n \in S : ~(<<n, m>> \in R)
  BY NatLessThanWellFounded, WFMin
<1>2. \A n \in S : ~(n < m)
  BY <1>1 DEF OpToRel
<1>3. QED
  BY <1>2

LEMMA MinFacts ==
    ASSUME NEW S \in SUBSET Nat, S # {}
    PROVE  Min(S) \in S /\ \A n \in S : Min(S) <= n
  BY LeastNat DEF Min

(* Fewer are greater than a greater one.                                   *)
LEMMA Greatest ==
    ASSUME NEW S \in SUBSET Nat, S # {}, IsFiniteSet(S)
    PROVE  \E m \in S : \A n \in S : n <= m
<1> DEFINE Above(t) == {s \in S : s > t}
           U == {Cardinality(Above(t)) : t \in S}
<1>1. \A t \in S : IsFiniteSet(Above(t)) /\ Cardinality(Above(t)) \in Nat
  BY FS_Subset, FS_CardinalityType
<1>2. U \in SUBSET Nat /\ U # {}
  BY <1>1
<1>3. PICK u \in U : \A v \in U : u <= v
  BY <1>2, LeastNat
<1>4. PICK m \in S : u = Cardinality(Above(m))
  BY <1>3
<1>5. ASSUME NEW n \in S, ~(n <= m) PROVE FALSE
  <2>0. \A s \in S : s \in Nat
    OBVIOUS
  <2>1. Above(n) \subseteq Above(m) /\ n \in Above(m) /\ n \notin Above(n)
    <3>1. n > m /\ ~(n > n) /\ \A s \in S : s > n => s > m
      BY <1>5, <2>0
    <3>2. QED
      BY <3>1
  <2>2. Cardinality(Above(n)) <= Cardinality(Above(m))
        /\ Cardinality(Above(n)) # Cardinality(Above(m))
    BY <1>1, <2>1, FS_Subset
  <2>3. Cardinality(Above(m)) <= Cardinality(Above(n))
    BY <1>3, <1>4
  <2>4. QED
    BY <1>1, <2>2, <2>3
<1>6. QED
  BY <1>5

-----------------------------------------------------------------------------
(* Places among the rows.                                                  *)
LEMMA PlaceFacts ==
    ASSUME NEW rs \in SUBSET Nat, IsFiniteSet(rs)
    PROVE  /\ \A t : UpperBound(rs, t) \in Nat /\ UpperBound(rs, t) <= Cardinality(rs)
           /\ \A r : Place(rs, r) = UpperBound(rs, r)
           /\ \A t, u \in Nat : t <= u => UpperBound(rs, t) <= UpperBound(rs, u)
           /\ \A r \in rs, t \in Nat : t < r => UpperBound(rs, t) < Place(rs, r)
           /\ Cardinality(rs) \in Nat
<1>0. \A r \in rs : r \in Nat
  OBVIOUS
<1>1. \A t : IsFiniteSet({r \in rs : r <= t}) /\ {r \in rs : r <= t} \in SUBSET rs
  BY FS_Subset
<1>2. \A t : UpperBound(rs, t) \in Nat /\ UpperBound(rs, t) <= Cardinality(rs)
  BY <1>1, FS_Subset, FS_CardinalityType DEF UpperBound
<1>3. \A r : Place(rs, r) = UpperBound(rs, r)
  BY DEF Place, UpperBound
<1>4. ASSUME NEW t \in Nat, NEW u \in Nat, t <= u
      PROVE  UpperBound(rs, t) <= UpperBound(rs, u)
  <2>1. {r \in rs : r <= t} \subseteq {r \in rs : r <= u}
    <3>1. \A r \in rs : r <= t => r <= u
      BY <1>0, <1>4
    <3>2. QED
      BY <3>1
  <2>2. QED
    BY <1>1, <2>1, FS_Subset DEF UpperBound
<1>5. ASSUME NEW r \in rs, NEW t \in Nat, t < r
      PROVE  UpperBound(rs, t) < Place(rs, r)
  <2>1. /\ {s \in rs : s <= t} \subseteq {s \in rs : s <= r}
        /\ r \in {s \in rs : s <= r} /\ r \notin {s \in rs : s <= t}
    <3>1. r <= r /\ ~(r <= t) /\ \A s \in rs : s <= t => s <= r
      BY <1>0, <1>5
    <3>2. QED
      BY <3>1
  <2>2. UpperBound(rs, t) <= Place(rs, r) /\ UpperBound(rs, t) # Place(rs, r)
    BY <1>1, <2>1, FS_Subset DEF UpperBound, Place
  <2>3. QED
    BY <1>2, <1>3, <2>2
<1>6. QED
  BY <1>2, <1>3, <1>4, <1>5, FS_CardinalityType

(* Every place is taken: the n-th row exists.                              *)
LEMMA EveryPlace ==
    ASSUME NEW rs \in SUBSET Nat, IsFiniteSet(rs), NEW n \in Nat \ {0}, n <= Cardinality(rs)
    PROVE  \E r \in rs : Place(rs, r) = n
<1> DEFINE T == {r \in rs : Place(rs, r) >= n}
<1>0. \A r \in rs : r \in Nat
  OBVIOUS
<1>1. rs # {}
  BY FS_EmptySet
<1>2. PICK g \in rs : \A r \in rs : r <= g
  BY <1>1, Greatest
<1>3. {r \in rs : r <= g} = rs
  BY <1>2
<1>4. g \in T
  BY <1>3, PlaceFacts DEF Place
<1>5. PICK m \in T : \A r \in T : m <= r
  BY <1>4, LeastNat
<1>6. ASSUME Place(rs, m) # n PROVE FALSE
  <2> DEFINE below == {r \in rs : r < m}
  <2>1. Place(rs, m) \in Nat /\ Place(rs, m) > n
    BY <1>5, <1>6, PlaceFacts
  <2>2. below = {r \in rs : r <= m} \ {m} /\ m \in {r \in rs : r <= m}
    <3>1. \A r \in rs : r < m <=> r <= m /\ r # m
      BY <1>0, <1>5
    <3>2. m \in rs /\ m <= m
      BY <1>0, <1>5
    <3>3. QED
      BY <3>1, <3>2
  <2>3. IsFiniteSet({r \in rs : r <= m})
    BY FS_Subset
  <2>4. IsFiniteSet(below) /\ Cardinality(below) = Place(rs, m) - 1
    <3> DEFINE upto == {r \in rs : r <= m}
    <3>1. below = upto \ {m} /\ m \in upto /\ IsFiniteSet(upto)
      BY <2>2, <2>3
    <3>2. Place(rs, m) = Cardinality(upto)
      BY DEF Place
    <3> HIDE DEF upto, below
    <3>3. QED
      BY <3>1, <3>2, FS_RemoveElement
  <2>5. below # {}
    BY <2>1, <2>4, FS_EmptySet
  <2>6. PICK h \in below : \A r \in below : r <= h
    BY <2>4, <2>5, Greatest
  <2>7. {r \in rs : r <= h} = below
    <3>1. \A r \in rs : r <= h <=> r < m
      BY <1>0, <2>6
    <3>2. QED
      BY <3>1
  <2>8. Place(rs, h) = Cardinality(below)
    BY <2>7 DEF Place
  <2>9. h \in T /\ h < m
    BY <2>1, <2>4, <2>6, <2>8
  <2>10. QED
    BY <1>5, <2>9
<1>7. QED
  BY <1>5, <1>6

LEMMA CountThFacts ==
    ASSUME NEW rs \in SUBSET Nat, IsFiniteSet(rs), NEW n \in Nat \ {0}, n < Cardinality(rs)
    PROVE  CountTh(rs, n) \in rs /\ Place(rs, CountTh(rs, n)) = n
<1>1. \E r \in rs : Place(rs, r) = n
  BY EveryPlace, FS_CardinalityType
<1>2. QED
  BY <1>1 DEF CountTh

-----------------------------------------------------------------------------
(* The effect takes the position sought; given one the rows are revealed   *)
(* up to, or none, it starts behind.                                       *)
LEMMA Starts ==
    ASSUME NEW rs \in SUBSET Nat, rs # {}, IsFiniteSet(rs), NEW n \in Nat,
           NEW from \in Nat \cup {NoSeek}, EffectStarts(rs, n, from), rows' = rs
    PROVE  /\ count' \in Nat /\ clock' \in Nat /\ seek' = NoSeek
           /\ (from # NoSeek => n <= 1 \/ n = UpperBound(rs, from)) => Behind'
<1> DEFINE t == IF from # NoSeek THEN from
                ELSE IF n > 0 THEN CountTh(rs, n) ELSE Min(rs)
           again == n >= Cardinality(rs) \/ t >= Max(rs)
<1>1. /\ clock' = IF again THEN Min(rs) ELSE t
      /\ count' = IF again THEN 1 ELSE n
      /\ seek' = NoSeek
  BY DEF EffectStarts
<1>2. Min(rs) \in Nat /\ Cardinality(rs) \in Nat
  BY MinFacts, FS_CardinalityType
<1>3. CASE again
  BY <1>1, <1>2, <1>3 DEF Behind
<1>4. CASE ~again
  <2>1. clock' = t /\ count' = n /\ n < Cardinality(rs)
    BY <1>1, <1>2, <1>4
  <2>2. t \in Nat /\ ((from # NoSeek => n <= 1 \/ n = UpperBound(rs, from))
                       => n <= 1 \/ n <= UpperBound(rs, t))
    <3>1. CASE from # NoSeek
      BY <3>1, PlaceFacts
    <3>2. CASE from = NoSeek /\ n > 0
      <4>1. CountTh(rs, n) \in rs /\ Place(rs, CountTh(rs, n)) = n
        BY <2>1, <3>2, CountThFacts
      <4>2. n = UpperBound(rs, CountTh(rs, n))
        BY <4>1, PlaceFacts
      <4>3. t = CountTh(rs, n)
        BY <3>2
      <4>4. CountTh(rs, n) \in Nat
        BY <4>1
      <4>5. QED
        BY <4>2, <4>3, <4>4
    <3>3. CASE from = NoSeek /\ ~(n > 0)
      BY <1>2, <3>3
    <3>4. QED
      BY <3>1, <3>2, <3>3
  <2>3. QED
    BY <1>1, <2>1, <2>2 DEF Behind
<1>5. QED
  BY <1>3, <1>4

LEMMA PlayInit == Init => PlayInv
<1> SUFFICES ASSUME Init PROVE PlayInv
  OBVIOUS
<1>1. rows # {} /\ rows \in SUBSET Nat /\ IsFiniteSet(rows)
  BY PlaybackAssumption DEF Init
<1>2. clock \in Nat
  BY <1>1, MinFacts DEF Init, tMin
<1>3. coming \subseteq Nat /\ IsFiniteSet(coming)
  BY PlaybackAssumption, FS_EmptySet DEF Init
<1>4. QED
  BY <1>1, <1>2, <1>3 DEF Init, PlayInv, Behind

LEMMA PlayStep == ASSUME PlayInv, [Next]_vars PROVE PlayInv'
<1>1. /\ rows \in SUBSET Nat /\ rows # {} /\ IsFiniteSet(rows)
      /\ count \in Nat /\ clock \in Nat /\ seek \in Nat \cup {NoSeek}
      /\ coming \in SUBSET Nat /\ IsFiniteSet(coming)
      /\ tMin \in Nat /\ \A t : UpperBound(rows, t) \in Nat
  BY MinFacts, PlaceFacts DEF PlayInv, tMin
<1>2. CASE Step /\ UNCHANGED analyst
  <2>1. UNCHANGED <<rows, coming, seek, analyst>> /\ playing /\ clock' = clock + 1
    BY <1>2 DEF Step
  <2>2. CASE playing' = FALSE /\ count' = Cardinality(rows)
    BY <1>1, <2>1, <2>2, FS_CardinalityType DEF PlayInv, Careful
  <2>3. CASE UNCHANGED playing /\ count' \in {count, UpperBound(rows, clock')}
    <3>1. UpperBound(rows, clock) <= UpperBound(rows, clock')
      BY <1>1, <2>1, PlaceFacts
    <3>2. count' \in Nat /\ (Behind => Behind')
      BY <1>1, <2>1, <2>3, <3>1 DEF Behind
    <3>3. QED
      BY <1>1, <2>1, <2>3, <3>2 DEF PlayInv, Careful
  <2>4. QED
    BY <1>2, <2>2, <2>3 DEF Step
<1>3. CASE OnPlayPause /\ UNCHANGED analyst
  <2>1. UNCHANGED <<rows, coming, analyst>>
    BY <1>3 DEF OnPlayPause
  <2>2. CASE playing /\ playing' = FALSE /\ UNCHANGED <<count, seek, clock>>
    BY <1>1, <2>1, <2>2 DEF PlayInv, Careful
  <2>3. CASE ~playing /\ playing' = TRUE /\ EffectStarts(rows, 1, tMin)
    BY <1>1, <2>1, <2>3, Starts DEF PlayInv
  <2>4. CASE ~playing /\ playing' = TRUE /\ EffectStarts(rows, count, seek)
    BY <1>1, <2>1, <2>4, Starts DEF PlayInv, Careful
  <2>5. QED
    BY <1>3, <2>2, <2>3, <2>4 DEF OnPlayPause
<1>4. CASE OnSeek /\ UNCHANGED analyst
  <2>1. PICK t \in tMin .. tMax : seek' = t /\ count' = UpperBound(rows, t)
    BY <1>4 DEF OnSeek
  <2>2. t \in Nat
    BY <1>1
  <2>3. QED
    BY <1>1, <1>4, <2>1, <2>2 DEF OnSeek, PlayInv, Careful
<1>5. CASE OnSkipEnd /\ UNCHANGED analyst
  BY <1>1, <1>5, FS_CardinalityType DEF OnSkipEnd, PlayInv, Careful
<1>6. CASE OnRestart /\ UNCHANGED analyst
  <2>1. CASE ~playing /\ EffectStarts(rows, 1, tMin)
    BY <1>1, <1>6, <2>1, Starts DEF OnRestart, PlayInv
  <2>2. CASE /\ playing /\ "restarts" \in analyst
             /\ count' = 1 /\ seek' = tMin /\ UNCHANGED clock
    BY <1>1, <1>6, <2>2 DEF OnRestart, PlayInv, Careful
  <2>3. QED
    BY <1>6, <2>1, <2>2 DEF OnRestart
<1>7. CASE OnSpeed /\ UNCHANGED analyst
  <2>1. CASE playing /\ EffectStarts(rows, count, seek)
    BY <1>1, <1>7, <2>1, Starts DEF OnSpeed, PlayInv, Careful
  <2>2. CASE ~playing /\ UNCHANGED <<count, seek, clock>>
    BY <1>1, <1>7, <2>2 DEF OnSpeed, PlayInv, Careful
  <2>3. QED
    BY <1>7, <2>1, <2>2 DEF OnSpeed
<1>8. CASE OnDelete /\ UNCHANGED analyst
  <2>1. rows' \in SUBSET Nat /\ rows' # {} /\ IsFiniteSet(rows')
    <3>1. PICK r \in Revealed : rows' = rows \ {r} /\ rows' # {}
      BY <1>8 DEF OnDelete
    <3>2. IsFiniteSet(rows \ {r})
      BY <1>1, FS_RemoveElement
    <3>3. QED
      BY <1>1, <3>1, <3>2
  <2>2. count' \in Nat /\ clock' \in Nat /\ seek' \in Nat \cup {NoSeek}
    <3>1. CASE EffectStarts(rows', count, seek)
      BY <1>1, <2>1, <3>1, Starts
    <3>2. CASE UNCHANGED <<count, seek, clock>>
      BY <1>1, <3>2
    <3>3. QED
      BY <1>8, <3>1, <3>2 DEF OnDelete
  <2>3. ~Careful' /\ UNCHANGED coming
    BY <1>8 DEF OnDelete, Careful
  <2>4. QED
    BY <1>1, <2>1, <2>2, <2>3 DEF PlayInv
<1>9. CASE OnLoadFile /\ UNCHANGED analyst
  <2>1. UNCHANGED <<rows, analyst>> /\ playing' = TRUE /\ coming' \in SUBSET Nat /\ IsFiniteSet(coming')
    BY <1>9, PlaybackAssumption DEF OnLoadFile
  <2>2. CASE EffectStarts(rows, 1, seek)
    BY <1>1, <2>1, <2>2, Starts DEF PlayInv
  <2>3. CASE playing /\ count' = 1 /\ UNCHANGED <<seek, clock>>
    BY <1>1, <2>1, <2>3 DEF PlayInv, Behind, Careful
  <2>4. QED
    BY <1>9, <2>2, <2>3 DEF OnLoadFile
<1>10. CASE Commit /\ UNCHANGED analyst
  <2>1. /\ coming # {} /\ rows' = coming /\ coming' = {} /\ UNCHANGED <<playing, analyst>>
        /\ IsFiniteSet(coming')
    BY <1>10, FS_EmptySet DEF Commit
  <2>2. CASE playing /\ EffectStarts(rows', count, seek)
    <3>1. count' \in Nat /\ clock' \in Nat /\ seek' = NoSeek /\ (seek = NoSeek => Behind')
      BY <1>1, <2>1, <2>2, Starts
    <3>2. QED
      BY <1>1, <2>1, <2>2, <3>1 DEF PlayInv, Careful
  <2>3. CASE ~playing /\ UNCHANGED <<count, seek, clock>>
    BY <1>1, <2>1, <2>3 DEF PlayInv, Careful
  <2>4. QED
    BY <1>10, <2>2, <2>3 DEF Commit
<1>11. CASE UNCHANGED vars
  BY <1>11 DEF vars, PlayInv, Behind, Careful
<1>12. QED
  BY <1>2, <1>3, <1>4, <1>5, <1>6, <1>7, <1>8, <1>9, <1>10, <1>11 DEF Next, PlayOrControl

(* No row but the first is revealed before its time while it plays.        *)
LEMMA NothingIsAhead == PlayInv => NothingAhead
<1> SUFFICES ASSUME PlayInv, Careful, playing, NEW r \in Revealed
             PROVE  r <= clock \/ r = tMin
  BY DEF NothingAhead
<1>1. /\ rows \in SUBSET Nat /\ rows # {} /\ IsFiniteSet(rows)
      /\ count \in Nat /\ clock \in Nat /\ Behind
  BY DEF PlayInv
<1>2. r \in rows /\ r \in Nat /\ Place(rows, r) <= count
  BY <1>1 DEF Revealed
<1>3. CASE count <= UpperBound(rows, clock)
  BY <1>1, <1>2, <1>3, PlaceFacts
<1>4. CASE count <= 1
  <2>1. tMin \in rows /\ tMin \in Nat /\ tMin <= r
    BY <1>1, <1>2, MinFacts DEF tMin
  <2>2. Place(rows, tMin) >= 1
    <3>1. tMin \in {s \in rows : s <= tMin} /\ IsFiniteSet({s \in rows : s <= tMin})
      BY <1>1, <2>1, FS_Subset
    <3>2. Cardinality({s \in rows : s <= tMin}) # 0
      BY <3>1, FS_EmptySet
    <3>3. QED
      BY <3>1, <3>2, FS_CardinalityType DEF Place
  <2>3. tMin < r => UpperBound(rows, tMin) < Place(rows, r)
    BY <1>1, <1>2, <2>1, PlaceFacts
  <2>4. QED
    BY <1>1, <1>2, <1>4, <2>1, <2>2, <2>3, PlaceFacts
<1>5. QED
  BY <1>1, <1>3, <1>4 DEF Behind

(* For an analyst who neither deletes rows, nor restarts a running         *)
(* playback, nor seeks before a loaded file has come: whatever else is     *)
(* clicked, and however late a frame or a file comes, no row is on the     *)
(* screen before its time.                                                 *)
THEOREM NothingBeforeItsTime == Spec => []NothingAhead
  BY NothingIsAhead, PlayInit, PlayStep, PTL DEF Spec

-----------------------------------------------------------------------------
(* A position sought, and not left since, is what the next effect is to    *)
(* start from, and what the rows are revealed up to.                       *)
SoughtInv ==
    sought # NoSeek => /\ ~playing /\ seek = sought /\ sought \in Nat
                       /\ count = UpperBound(rows, sought)

LEMMA SoughtStep == ASSUME PlayInv, SoughtInv, [Next]_vars PROVE SoughtInv'
<1>1. CASE Step
  BY <1>1 DEF Step, SoughtInv
<1>2. CASE OnPlayPause
  BY <1>2 DEF OnPlayPause, SoughtInv
<1>3. CASE OnSeek
  <2>1. PICK t \in tMin .. tMax : seek' = t /\ sought' = t /\ count' = UpperBound(rows, t)
    BY <1>3 DEF OnSeek
  <2>2. t \in Nat
    <3>1. tMin \in Nat
      BY MinFacts DEF PlayInv, tMin
    <3>2. QED
      BY <3>1
  <2>3. QED
    BY <1>3, <2>1, <2>2 DEF OnSeek, SoughtInv
<1>4. CASE OnSkipEnd
  BY <1>4 DEF OnSkipEnd, SoughtInv
<1>5. CASE OnRestart
  BY <1>5 DEF OnRestart, SoughtInv
<1>6. CASE OnSpeed
  BY <1>6 DEF OnSpeed, SoughtInv
<1>7. CASE OnDelete
  BY <1>7 DEF OnDelete, SoughtInv
<1>8. CASE OnLoadFile
  BY <1>8 DEF OnLoadFile, SoughtInv
<1>9. CASE Commit
  BY <1>9 DEF Commit, SoughtInv
<1>10. CASE UNCHANGED vars
  BY <1>10 DEF vars, SoughtInv
<1>11. QED
  BY <1>1, <1>2, <1>3, <1>4, <1>5, <1>6, <1>7, <1>8, <1>9, <1>10 DEF Next, PlayOrControl

(* A row is left to play after a position before the last row.             *)
LEMMA MoreToPlay ==
    ASSUME NEW rs \in SUBSET Nat, rs # {}, IsFiniteSet(rs), NEW t \in Nat, t < Max(rs)
    PROVE  Max(rs) \in rs /\ UpperBound(rs, t) < Cardinality(rs)
<1>1. Max(rs) \in rs
  BY Greatest DEF Max
<1>2. UpperBound(rs, t) < Place(rs, Max(rs))
  BY <1>1, PlaceFacts
<1>3. Place(rs, Max(rs)) \in Nat /\ Place(rs, Max(rs)) <= Cardinality(rs)
      /\ UpperBound(rs, t) \in Nat /\ Cardinality(rs) \in Nat
  BY PlaceFacts
<1>4. QED
  BY <1>1, <1>2, <1>3

(* Play resumes at the position that was sought.                           *)
LEMMA PlayResumes ==
    ASSUME PlayInv, SoughtInv, OnPlayPause, ~playing, sought # NoSeek, sought < tMax
    PROVE  clock' = sought
<1>1. /\ rows \in SUBSET Nat /\ rows # {} /\ IsFiniteSet(rows) /\ Cardinality(rows) \in Nat
      /\ seek = sought /\ sought \in Nat /\ count = UpperBound(rows, sought) /\ count \in Nat
  BY FS_CardinalityType DEF PlayInv, SoughtInv
<1>2. count < Cardinality(rows)
  BY <1>1, MoreToPlay DEF tMax
<1>3. EffectStarts(rows, count, seek)
  BY <1>1, <1>2 DEF OnPlayPause
<1>4. ~(count >= Cardinality(rows) \/ seek >= Max(rows))
  <2>1. Max(rows) \in Nat
    BY <1>1, MoreToPlay DEF tMax
  <2>2. QED
    BY <1>1, <1>2, <2>1 DEF tMax
<1>5. QED
  BY <1>1, <1>3, <1>4 DEF EffectStarts

(* For any rows: play goes on from the very time that was sought, between  *)
(* two rows too, unless the analyst used another control since or sought   *)
(* the end.                                                                *)
THEOREM PlayGoesOnFromThere == Spec => SeekIsHonoured
<1>1. Init => SoughtInv
  BY DEF Init, SoughtInv
<1>2. QED
  BY <1>1, PlayResumes, PlayInit, PlayStep, SoughtStep, PTL DEF Spec, SeekIsHonoured

-----------------------------------------------------------------------------
(* What the analyst does with the views leaves the playback alone.         *)
LEMMA ViewsStep ==
    ASSUME PlayInv, SoughtInv, [ViewsNext]_<<vars, views>>
    PROVE  PlayInv' /\ SoughtInv'
<1>1. CASE [Next]_vars
  BY <1>1, PlayStep, SoughtStep
<1>2. CASE UNCHANGED <<analyst, rows, coming, count, playing, seek, clock, sought>>
  BY <1>2 DEF PlayInv, SoughtInv, Behind, Careful
<1>3. [Next]_vars \/ UNCHANGED <<analyst, rows, coming, count, playing, seek, clock, sought>>
  BY DEF ViewsNext, Next, vars
<1>4. QED
  BY <1>1, <1>2, <1>3

(* An analyst who filters, suppresses and opens incidents meanwhile keeps  *)
(* what one has who only plays.                                            *)
LEMMA ViewsKeepPlaying == ViewsSpec => [](PlayInv /\ SoughtInv)
<1>1. ViewsInit => PlayInv /\ SoughtInv
  BY PlayInit DEF ViewsInit, Init, SoughtInv
<1>2. QED
  BY <1>1, ViewsStep, PTL DEF ViewsSpec

(* And so while someone looks: no row is before its time, and a position   *)
(* sought is where play goes on.                                           *)
THEOREM LookingChangesNothing == ViewsSpec => []NothingAhead /\ SeekIsHonoured
  BY ViewsKeepPlaying, NothingIsAhead, PlayResumes, PTL DEF ViewsSpec, SeekIsHonoured

-----------------------------------------------------------------------------
(* The loop of buildIncidents, a row at a time: f is where the rows of rs  *)
(* are put.                                                                *)
Before(rs, r) == {s \in rs : s < r}

Known(rs, r) ==
    {s \in Before(rs, r) : Alert[s].incident_id # Blank
                             /\ Alert[s].incident_id = Alert[r].incident_id}

Opened(f, rs, r) ==
    {s \in Before(rs, r) : f[s] = s /\ VictimOf(Alert[s]) = VictimOf(Alert[r])}

Last(f, rs, r) == Max({s \in Before(rs, r) : f[s] = Max(Opened(f, rs, r))})

Goes(f, rs, r) ==
    IF Known(rs, r) # {} THEN f[Min(Known(rs, r))]
    ELSE IF Opened(f, rs, r) # {} /\ r - Last(f, rs, r) <= WINDOW_S THEN Max(Opened(f, rs, r))
    ELSE r

Folded(f, rs) == f = [r \in rs |-> Goes(f, rs, r)]

(* P is what comes first of rs.                                            *)
Starting(P, rs) == P \subseteq rs /\ \A r \in P, s \in rs : s <= r => s \in P

(* f and g put the rows before r alike.                                    *)
Agree(f, g, P, r) == \A s \in P : s < r => f[s] = g[s]

(* Where a row goes depends only on the rows before it.                    *)
LEMMA OnlyEarlier ==
    ASSUME NEW rs \in SUBSET Nat, NEW P, Starting(P, rs), NEW r \in P, NEW f, NEW g,
           Agree(f, g, P, r)
    PROVE  Goes(f, P, r) = Goes(g, rs, r)
<1>1. \A s \in rs : s \in Nat
  OBVIOUS
<1>2. Before(P, r) = Before(rs, r)
  <2>1. \A s \in rs : s < r => s <= r
    BY <1>1 DEF Starting
  <2>2. QED
    BY <2>1 DEF Before, Starting
<1>3. \A s \in Before(rs, r) : f[s] = g[s]
  BY <1>2 DEF Before, Agree
<1>4. Known(P, r) = Known(rs, r)
  BY <1>2 DEF Known
<1>5. Opened(f, P, r) = Opened(g, rs, r)
  BY <1>2, <1>3 DEF Opened
<1>6. {s \in Before(P, r) : f[s] = Max(Opened(f, P, r))}
        = {s \in Before(rs, r) : g[s] = Max(Opened(g, rs, r))}
  BY <1>2, <1>3, <1>5
<1>7. Last(f, P, r) = Last(g, rs, r)
  BY <1>6 DEF Last
<1>8. Known(rs, r) # {} => f[Min(Known(rs, r))] = g[Min(Known(rs, r))]
  <2>1. Known(rs, r) \in SUBSET Nat /\ Known(rs, r) \subseteq Before(rs, r)
    BY <1>1 DEF Known, Before
  <2>2. QED
    BY <1>3, <2>1, MinFacts
<1>9. QED
  BY <1>4, <1>5, <1>7, <1>8 DEF Goes

LEMMA FoldedExists ==
    ASSUME NEW rs \in SUBSET Nat, IsFiniteSet(rs)
    PROVE  \E f : Folded(f, rs)
<1> DEFINE Upto(f, n) == \A r \in rs : r < n => f[r] = Goes(f, rs, r)
           Missing == {n \in Nat : ~\E f : Upto(f, n)}
<1>0. \A r \in rs : r \in Nat
  OBVIOUS
<1>1. Starting(rs, rs)
  BY DEF Starting
<1>2. ASSUME Missing # {} PROVE FALSE
  <2>1. PICK m \in Missing : \A n \in Missing : m <= n
    BY <1>2, LeastNat
  <2>2. Upto(<<>>, 0)
    BY <1>0
  <2>3. m \in Nat /\ m # 0 /\ m - 1 \in Nat /\ ~(m <= m - 1)
    BY <2>1, <2>2
  <2>4. PICK f : Upto(f, m - 1)
    <3> HIDE DEF Upto
    <3>1. m - 1 \notin Missing
      BY <2>1, <2>3
    <3>2. QED
      BY <2>3, <3>1
  <2> DEFINE g == [r \in rs |-> Goes(f, rs, r)]
  <2>5. ASSUME NEW r \in rs, r < m PROVE g[r] = Goes(g, rs, r)
    <3>1. Agree(f, g, rs, r)
      <4> SUFFICES ASSUME NEW s \in rs, s < r PROVE f[s] = g[s]
        BY DEF Agree
      <4>1. s < m - 1
        BY <1>0, <2>3, <2>5
      <4>2. QED
        BY <2>4, <4>1
    <3>2. g[r] = Goes(f, rs, r)
      OBVIOUS
    <3> HIDE DEF g
    <3>3. Goes(f, rs, r) = Goes(g, rs, r)
      BY <1>1, <3>1, OnlyEarlier
    <3>4. QED
      BY <3>2, <3>3
  <2>6. Upto(g, m)
    BY <2>5
  <2> HIDE DEF g, Upto
  <2>7. QED
    BY <2>1, <2>6
<1>3. PICK n \in Nat : \A r \in rs : r < n
  <2>1. CASE rs = {}
    BY <2>1
  <2>2. CASE rs # {}
    <3>1. PICK m \in rs : \A r \in rs : r <= m
      BY <2>2, Greatest
    <3>2. m + 1 \in Nat /\ \A r \in rs : r < m + 1
      BY <1>0, <3>1
    <3>3. QED
      BY <3>2
  <2>3. QED
    BY <2>1, <2>2
<1>4. PICK f : Upto(f, n)
  <2> HIDE DEF Upto
  <2>1. QED
    BY <1>2
<1> DEFINE g == [r \in rs |-> Goes(f, rs, r)]
<1>5. \A r \in rs : f[r] = g[r]
  BY <1>3, <1>4
<1>6. ASSUME NEW r \in rs PROVE g[r] = Goes(g, rs, r)
  <2>1. g[r] = Goes(f, rs, r)
    OBVIOUS
  <2> HIDE DEF g
  <2>2. Agree(f, g, rs, r)
    BY <1>5 DEF Agree
  <2>3. Goes(f, rs, r) = Goes(g, rs, r)
    BY <1>1, <2>2, OnlyEarlier
  <2>4. QED
    BY <2>1, <2>3
<1> DEFINE h == [r \in rs |-> Goes(g, rs, r)]
<1>7. g = h
  <2>1. DOMAIN g = rs /\ DOMAIN h = rs /\ \A r \in rs : h[r] = Goes(g, rs, r)
    OBVIOUS
  <2>2. \A r \in rs : g[r] = h[r]
    BY <1>6, <2>1
  <2>3. QED
    BY <2>2
<1>8. Folded(g, rs)
  BY <1>7 DEF Folded
<1>9. QED
  BY <1>8

LEMMA OpenerIsFolded ==
    ASSUME NEW rs \in SUBSET Nat, IsFiniteSet(rs)
    PROVE  Folded(Opener(rs), rs)
<1>1. Opener(rs) = CHOOSE f : Folded(f, rs)
  BY DEF Opener, Folded, Goes, Known, Opened, Last, Before
<1>2. QED
  BY <1>1, FoldedExists

(* As more rows come into view, those that were there stay where they are. *)
LEMMA RowsStay ==
    ASSUME NEW rs \in SUBSET Nat, NEW P, Starting(P, rs), NEW f, Folded(f, P),
           NEW g, Folded(g, rs)
    PROVE  \A r \in P : f[r] = g[r]
<1> DEFINE Moved == {r \in P : f[r] # g[r]}
<1>1. SUFFICES ASSUME Moved # {} PROVE FALSE
  OBVIOUS
<1>2. P \subseteq rs /\ Moved \in SUBSET Nat
  BY DEF Starting
<1>3. PICK r \in Moved : \A s \in Moved : r <= s
  BY <1>1, <1>2, LeastNat
<1>4. Agree(f, g, P, r)
  <2> SUFFICES ASSUME NEW s \in P, s < r PROVE f[s] = g[s]
    BY DEF Agree
  <2>1. s \in Nat /\ r \in Nat
    BY <1>2
  <2>2. ~(r <= s)
    BY <2>1
  <2>3. QED
    BY <1>3, <2>2
<1>5. Goes(f, P, r) = Goes(g, rs, r)
  BY <1>4, OnlyEarlier
<1>6. f[r] = Goes(f, P, r) /\ g[r] = Goes(g, rs, r)
  BY <1>2 DEF Folded
<1>7. QED
  BY <1>5, <1>6

(* A row is put where another was that opened an incident.                 *)
LEMMA OpenersOpen ==
    ASSUME NEW rs \in SUBSET Nat, IsFiniteSet(rs), NEW f, Folded(f, rs)
    PROVE  \A r \in rs : f[r] \in rs /\ f[r] <= r /\ f[f[r]] = f[r]
<1> DEFINE Right(r) == f[r] \in rs /\ f[r] <= r /\ f[f[r]] = f[r]
           Wrong == {r \in rs : ~Right(r)}
<1>0. \A r \in rs : r \in Nat
  OBVIOUS
<1>1. SUFFICES ASSUME Wrong # {} PROVE FALSE
  OBVIOUS
<1>2. PICK r \in Wrong : \A s \in Wrong : r <= s
  BY <1>1, LeastNat
<1>3. \A s \in Before(rs, r) : s \in rs /\ s < r /\ Right(s)
  <2> TAKE s \in Before(rs, r)
  <2>1. s \in rs /\ s < r
    BY DEF Before
  <2>2. ~(r <= s)
    BY <1>0, <2>1
  <2> HIDE DEF Right
  <2>3. QED
    BY <1>2, <2>1, <2>2
<1>4. f[r] = Goes(f, rs, r)
  BY DEF Folded
<1>5. CASE Known(rs, r) # {}
  <2> DEFINE m == Min(Known(rs, r))
  <2>1. Known(rs, r) \in SUBSET Nat /\ Known(rs, r) \subseteq Before(rs, r)
    BY <1>0 DEF Known, Before
  <2>2. m \in Before(rs, r)
    BY <1>5, <2>1, MinFacts
  <2>3. f[r] = f[m]
    BY <1>4, <1>5 DEF Goes
  <2> HIDE DEF m
  <2>4. m \in rs /\ m < r /\ f[m] \in rs /\ f[m] <= m /\ f[f[m]] = f[m]
    BY <1>3, <2>2
  <2>5. f[m] <= r
    <3>1. m \in Nat /\ r \in Nat /\ f[m] \in Nat
      BY <1>0, <2>4
    <3>2. QED
      BY <2>4, <3>1
  <2>6. QED
    BY <1>2, <2>3, <2>4, <2>5
<1>6. CASE Known(rs, r) = {} /\ f[r] = Max(Opened(f, rs, r)) /\ Opened(f, rs, r) # {}
  <2> DEFINE O == Opened(f, rs, r)
  <2>1. O \in SUBSET Nat /\ O \subseteq rs /\ \A s \in O : s < r /\ f[s] = s
    BY <1>0 DEF Opened, Before
  <2> HIDE DEF O
  <2>2. IsFiniteSet(O)
    BY <2>1, FS_Subset
  <2>3. PICK m \in O : \A s \in O : s <= m
    BY <1>6, <2>1, <2>2, Greatest DEF O
  <2>4. \A s \in O : m >= s
    BY <2>1, <2>3
  <2>5. Max(O) \in O
    BY <2>4 DEF Max
  <2>6. QED
    BY <1>0, <1>2, <1>6, <2>1, <2>5 DEF O
<1>7. CASE f[r] = r
  BY <1>0, <1>2, <1>7
<1>8. QED
  BY <1>4, <1>5, <1>6, <1>7 DEF Goes

(* The rows of one incident of the engine are put into one.                *)
LEMMA OnePlacePerId ==
    ASSUME NEW rs \in SUBSET Nat, NEW f, Folded(f, rs), NEW r \in rs, NEW s \in rs,
           Alert[r].incident_id = Alert[s].incident_id, Alert[r].incident_id # Blank
    PROVE  f[r] = f[s]
<1>0. \A q \in rs : q \in Nat /\ f[q] = Goes(f, rs, q)
  BY DEF Folded
<1>1. ASSUME NEW p \in rs, NEW q \in rs, p < q,
             Alert[p].incident_id = Alert[q].incident_id, Alert[p].incident_id # Blank
      PROVE  f[p] = f[q]
  <2> DEFINE m == Min(Known(rs, q))
  <2>1. p \in Known(rs, q) /\ Known(rs, q) \in SUBSET Nat
    BY <1>0, <1>1 DEF Known, Before
  <2>2. m \in Known(rs, q) /\ m <= p /\ \A k \in Known(rs, q) : m <= k
    BY <2>1, MinFacts
  <2>3. f[q] = f[m]
    BY <1>0, <2>1 DEF Goes
  <2> HIDE DEF m
  <2>4. CASE m = p
    BY <2>3, <2>4
  <2>5. CASE m # p
    <3>1. m \in rs /\ m \in Nat /\ p \in Nat /\ q \in Nat
      BY <1>0, <2>2 DEF Known, Before
    <3>2. m < p
      BY <2>2, <2>5, <3>1
    <3>3. m \in Known(rs, p) /\ Known(rs, p) \in SUBSET Nat
      BY <1>0, <1>1, <2>2, <3>1, <3>2 DEF Known, Before
    <3>4. Known(rs, p) \subseteq Known(rs, q)
      <4>1. \A k \in rs : k < p => k < q
        BY <1>0, <1>1
      <4>2. QED
        BY <1>1, <4>1 DEF Known, Before
    <3>5. /\ Min(Known(rs, p)) \in Known(rs, p) /\ Min(Known(rs, p)) <= m
          /\ m <= Min(Known(rs, p)) /\ Min(Known(rs, p)) \in Nat
      BY <2>2, <3>3, <3>4, MinFacts
    <3>6. Min(Known(rs, p)) = m
      BY <3>1, <3>5
    <3>7. f[p] = f[m]
      BY <1>0, <3>3, <3>6 DEF Goes
    <3>8. QED
      BY <2>3, <3>7
  <2>6. QED
    BY <2>4, <2>5
<1>2. r < s \/ s < r \/ r = s
  BY <1>0
<1>3. QED
  BY <1>1, <1>2

-----------------------------------------------------------------------------
(* The incident that o opens.                                              *)
IdOf(o) ==
    IF Alert[o].incident_id # Blank THEN <<Alert[o].incident_id, <<>>, 0>>
    ELSE <<"inc", VictimOf(Alert[o]), o>>

OpenedBy(f, rs, o) == [id |-> IdOf(o), alerts |-> {r \in rs : f[r] = o}]

(* The rows of a file that are left.                                       *)
Rows == UNION {SUBSET f : f \in Files}

LEMMA RowsFacts ==
    ASSUME NEW rs \in Rows
    PROVE  rs \in SUBSET Nat /\ IsFiniteSet(rs)
<1> DEFINE All == {SUBSET f : f \in Files}
<1>1. \A S \in All : \E f \in Files : S = SUBSET f
  OBVIOUS
<1>2. rs \in UNION All
  BY DEF Rows
<1> HIDE DEF All
<1>3. PICK S \in All : rs \in S
  BY <1>2
<1>4. PICK f \in Files : rs \subseteq f
  BY <1>1, <1>3
<1>5. QED
  BY <1>4, FS_Subset, PlaybackAssumption

LEMMA PartOfFile == ASSUME NEW f \in Files, NEW rs, rs \subseteq f PROVE rs \in Rows
<1> DEFINE All == {SUBSET h : h \in Files}
<1>1. SUBSET f \in All
  OBVIOUS
<1> HIDE DEF All
<1>2. rs \in UNION All
  BY <1>1
<1>3. QED
  BY <1>2 DEF Rows, All

LEMMA IncidentsOf ==
    ASSUME NEW rs \in Rows
    PROVE  BuildIncidents[rs] = {OpenedBy(Opener(rs), rs, o) : o \in {Opener(rs)[r] : r \in rs}}
  BY DEF BuildIncidents, Rows, OpenedBy, IdOf

(* Incidents differ in their ids, and in the ids of the engine.            *)
LEMMA IncidentsDiffer == ASSUME NEW rs \in Rows PROVE Distinct[rs]
<1> DEFINE f == Opener(rs)
<1>1. rs \in SUBSET Nat /\ IsFiniteSet(rs)
  BY RowsFacts
<1>2. Folded(f, rs)
  BY <1>1, OpenerIsFolded
<1>3. BuildIncidents[rs] = {OpenedBy(f, rs, o) : o \in {f[r] : r \in rs}}
  BY IncidentsOf
<1> HIDE DEF f
<1>4. SUFFICES ASSUME NEW i \in BuildIncidents[rs], NEW j \in BuildIncidents[rs],
                      NEW r \in i.alerts, NEW s \in j.alerts, i # j
               PROVE  /\ i.id # j.id
                      /\ Alert[r].incident_id = Alert[s].incident_id
                           => Alert[r].incident_id = Blank
  BY DEF Distinct, Rows
<1>5. PICK o \in {f[q] : q \in rs} : i = OpenedBy(f, rs, o)
  BY <1>3
<1>6. PICK p \in {f[q] : q \in rs} : j = OpenedBy(f, rs, p)
  BY <1>3
<1>7. o \in rs /\ p \in rs /\ f[o] = o /\ f[p] = p /\ o # p
  <2>1. \A q \in rs : f[q] \in rs /\ f[q] <= q /\ f[f[q]] = f[q]
    BY <1>1, <1>2, OpenersOpen
  <2>2. QED
    BY <1>4, <1>5, <1>6, <2>1
<1>8. r \in rs /\ s \in rs /\ f[r] = o /\ f[s] = p /\ i.id = IdOf(o) /\ j.id = IdOf(p)
  BY <1>5, <1>6 DEF OpenedBy
<1>9. Alert[r].incident_id = Alert[s].incident_id => Alert[r].incident_id = Blank
  BY <1>1, <1>2, <1>7, <1>8, OnePlacePerId
<1>10. Alert[o].incident_id = Alert[p].incident_id => Alert[o].incident_id = Blank
  BY <1>1, <1>2, <1>7, OnePlacePerId
<1>11. IdOf(o) # IdOf(p)
  <2>1. \A q : Alert[q].incident_id # Blank =>
                 IdOf(q)[1] = Alert[q].incident_id /\ IdOf(q)[2] = <<>>
    BY DEF IdOf
  <2>2. \A q : Alert[q].incident_id = Blank =>
                 IdOf(q)[2] = VictimOf(Alert[q]) /\ IdOf(q)[3] = q
    BY DEF IdOf
  <2>3. \A q : VictimOf(Alert[q]) # <<>>
    BY DEF VictimOf
  <2>4. QED
    BY <1>7, <1>10, <2>1, <2>2, <2>3
<1>12. QED
  BY <1>8, <1>9, <1>11

(* More rows after those there are leave every incident its id and alerts. *)
LEMMA IncidentsGrow ==
    ASSUME NEW rs \in Rows, NEW P \in Rows, Starting(P, rs), NEW i \in BuildIncidents[P]
    PROVE  \E j \in BuildIncidents[rs] : i.id = j.id /\ i.alerts \subseteq j.alerts
<1> DEFINE f == Opener(P)
           g == Opener(rs)
<1>1. /\ rs \in SUBSET Nat /\ IsFiniteSet(rs) /\ P \in SUBSET Nat /\ IsFiniteSet(P)
      /\ P \subseteq rs
  BY RowsFacts DEF Starting
<1>2. Folded(f, P) /\ Folded(g, rs)
  BY <1>1, OpenerIsFolded
<1>3. /\ BuildIncidents[P] = {OpenedBy(f, P, o) : o \in {f[r] : r \in P}}
      /\ BuildIncidents[rs] = {OpenedBy(g, rs, o) : o \in {g[r] : r \in rs}}
  BY IncidentsOf
<1> HIDE DEF f, g
<1>4. \A r \in P : f[r] = g[r]
  BY <1>1, <1>2, RowsStay
<1>5. PICK r \in P : i = OpenedBy(f, P, f[r])
  BY <1>3
<1> DEFINE o == f[r]
           j == OpenedBy(g, rs, o)
<1>6. o = g[r] /\ r \in rs
  BY <1>1, <1>4
<1>7. j \in BuildIncidents[rs]
  BY <1>3, <1>6
<1>8. i.id = IdOf(o) /\ j.id = IdOf(o)
  BY <1>5 DEF OpenedBy
<1>9. i.alerts \subseteq j.alerts
  <2>1. i.alerts = {q \in P : f[q] = o} /\ j.alerts = {q \in rs : g[q] = o}
    BY <1>5 DEF OpenedBy
  <2>2. QED
    BY <1>1, <1>4, <2>1
<1>10. QED
  BY <1>7, <1>8, <1>9

-----------------------------------------------------------------------------
(* What is in view comes first of what is in view later.                   *)
LEMMA ViewOpens ==
    ASSUME PlayInv, PlayInv', OnlyMoreRevealed
    PROVE  Starting(Filtered, Filtered') /\ Filtered \subseteq rows /\ Filtered' \subseteq rows
<1> DEFINE Passes(r) ==
             /\ \A rule \in suppressions : ~AlertMatchesSuppress(Alert[r], rule)
             /\ \A f \in FilterKind : filters[f] \in {Blank, Asked(Alert[r], f)}
<1>1. rows' = rows /\ suppressions' = suppressions /\ filters' = filters
      /\ count \in Nat /\ count' \in Nat /\ count' > count
  BY DEF OnlyMoreRevealed, PlayInv
<1>2. Filtered = {r \in rows : Place(rows, r) <= count /\ Passes(r)}
  BY DEF Filtered, FilterSuppressed, Revealed
<1>3. Filtered' = {r \in rows : Place(rows, r) <= count' /\ Passes(r)}
  BY <1>1 DEF Filtered, FilterSuppressed, Revealed
<1>4. /\ rows \in SUBSET Nat /\ IsFiniteSet(rows)
      /\ \A r \in rows : r \in Nat /\ Place(rows, r) \in Nat
      /\ \A r, s \in rows : s <= r => Place(rows, s) <= Place(rows, r)
  <2>1. rows \in SUBSET Nat /\ IsFiniteSet(rows)
    BY DEF PlayInv
  <2>2. /\ \A t : UpperBound(rows, t) \in Nat
        /\ \A r : Place(rows, r) = UpperBound(rows, r)
        /\ \A t, u \in Nat : t <= u => UpperBound(rows, t) <= UpperBound(rows, u)
    BY <2>1, PlaceFacts
  <2>3. QED
    BY <2>1, <2>2
<1> HIDE DEF Passes
<1>5. Filtered \subseteq Filtered'
  <2>1. \A r \in rows : Place(rows, r) <= count => Place(rows, r) <= count'
    BY <1>1, <1>4
  <2>2. QED
    BY <1>2, <1>3, <2>1
<1>6. ASSUME NEW r \in Filtered, NEW s \in Filtered', s <= r PROVE s \in Filtered
  <2>1. r \in rows /\ s \in rows /\ Place(rows, r) <= count /\ Passes(s)
    BY <1>2, <1>3
  <2>2. /\ Place(rows, s) <= Place(rows, r) /\ Place(rows, s) \in Nat
        /\ Place(rows, r) \in Nat
    BY <1>4, <1>6, <2>1
  <2>3. Place(rows, s) <= count
    BY <1>1, <2>1, <2>2
  <2>4. QED
    BY <1>2, <2>1, <2>3
<1>7. QED
  BY <1>2, <1>3, <1>5, <1>6 DEF Starting

(* The rows are those of one file, less those that were deleted.           *)
OfOneFile == coming \in {{}} \cup Files /\ \E f \in Files : rows \subseteq f

LEMMA FileStep == ASSUME OfOneFile, [ViewsNext]_<<vars, views>> PROVE OfOneFile'
<1>1. CASE Commit
  BY <1>1 DEF Commit, OfOneFile
<1>2. CASE OnLoadFile
  BY <1>2 DEF OnLoadFile, OfOneFile
<1>3. ASSUME ~Commit, ~OnLoadFile PROVE rows' \subseteq rows /\ coming' = coming
  BY <1>3 DEF ViewsNext, PlayOrControl, Step, OnPlayPause, OnSeek, OnSkipEnd, OnRestart, OnSpeed,
              OnDelete, vars
<1>4. QED
  BY <1>1, <1>2, <1>3 DEF OfOneFile

(* For any alerts and window: as more rows come into view, incidents keep  *)
(* their ids and their alerts, no two have one id, and what the engine put *)
(* into one incident is in one.                                            *)
THEOREM IncidentsStay == ViewsSpec => IncidentsOnlyGrow
<1> DEFINE A == OnlyMoreRevealed =>
                  /\ Distinct[Filtered']
                  /\ \A i \in Incidents : \E j \in Incidents' :
                       i.id = j.id /\ i.alerts \subseteq j.alerts
<1>1. ASSUME PlayInv, PlayInv', OfOneFile PROVE A
  <2> SUFFICES ASSUME OnlyMoreRevealed
               PROVE  /\ Distinct[Filtered']
                      /\ \A i \in Incidents : \E j \in Incidents' :
                           i.id = j.id /\ i.alerts \subseteq j.alerts
    OBVIOUS
  <2>1. Starting(Filtered, Filtered') /\ Filtered \subseteq rows /\ Filtered' \subseteq rows
    BY <1>1, ViewOpens
  <2>2. PICK f \in Files : rows \subseteq f
    BY <1>1 DEF OfOneFile
  <2>3. Filtered \in Rows /\ Filtered' \in Rows
    <3>1. Filtered \subseteq f /\ Filtered' \subseteq f
      BY <2>1, <2>2
    <3>2. QED
      BY <3>1, PartOfFile
  <2>4. Distinct[Filtered']
    BY <2>3, IncidentsDiffer
  <2>5. Incidents = BuildIncidents[Filtered] /\ Incidents' = BuildIncidents[Filtered']
    BY DEF Incidents
  <2>6. QED
    BY <2>1, <2>3, <2>4, <2>5, IncidentsGrow
<1>2. ViewsInit => OfOneFile
  BY DEF ViewsInit, Init, OfOneFile
<1> HIDE DEF A
<1>3. ViewsSpec => [][A]_<<vars, views>>
  BY <1>1, <1>2, ViewsKeepPlaying, FileStep, PTL DEF ViewsSpec
<1>4. QED
  BY <1>3 DEF IncidentsOnlyGrow, A

=============================================================================
