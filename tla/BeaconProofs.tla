---------------------------- MODULE BeaconProofs ----------------------------
(***************************************************************************)
(* The beacon tracker and the aggregator behind it, for any conversations, *)
(* networks and thresholds: sums of gaps; the median of a majority; what   *)
(* is remembered of a peer (TrackInv); that a metronome is raised, a       *)
(* cooldown kept and a swarm dropped, for the tracker alone and in front   *)
(* of the aggregator; then the aggregator's files and queue, what was last *)
(* emitted about a peer (AnnounceInv) and its last line (DotInv).          *)
(***************************************************************************)
EXTENDS BeaconIncidents, FiniteSetTheorems, SequenceTheorems, WellFoundedInduction, TLAPS

-----------------------------------------------------------------------------
(* Sums of a sequence, which is a function defined by recursion on its     *)
(* length.                                                                 *)
LEMMA LeastNat ==
    ASSUME NEW S \in SUBSET Nat, S # {}
    PROVE  \E m \in S : \A x \in S : m <= x
<1> DEFINE R == OpToRel(<, Nat)
<1>1. PICK m \in S : \A x \in S : ~(<<x, m>> \in R)
  BY NatLessThanWellFounded, WFMin
<1>2. \A x \in S : ~(x < m)
  BY <1>1 DEF OpToRel
<1>3. QED
  BY <1>2

SumsOf(s, f) ==
    f = [i \in 0..Len(s) |-> IF i = 0 THEN 0 ELSE f[i - 1] + s[i]]

(* There are partial sums of any sequence of numbers.                      *)
LEMMA SumsExist ==
    ASSUME NEW s \in Seq(Nat)
    PROVE  \E f : SumsOf(s, f)
<1> DEFINE Upto(n, f) == f = [i \in 0..n |-> IF i = 0 THEN 0 ELSE f[i - 1] + s[i]]
           Bad == {n \in 0..Len(s) : \A f : ~Upto(n, f)}
<1>1. SUFFICES Bad = {}
  <2>1. Len(s) \in 0..Len(s)
    OBVIOUS
  <2>2. QED
    BY <2>1, <1>1 DEF SumsOf
<1>2. SUFFICES ASSUME Bad # {} PROVE FALSE
  OBVIOUS
<1>3. PICK n \in Bad : \A x \in Bad : n <= x
  <2>1. Bad \in SUBSET Nat
    OBVIOUS
  <2>2. QED
    BY <1>2, <2>1, LeastNat
<1>4. n # 0
  <2>1. Upto(0, [i \in 0..0 |-> 0])
    OBVIOUS
  <2>2. QED
    BY <2>1
<1>5. PICK f : Upto(n - 1, f)
  <2>1. n - 1 \in 0..Len(s) /\ n - 1 \notin Bad
    <3> HIDE DEF Upto
    <3>1. QED
      BY <1>3, <1>4
  <2>2. QED
    BY <2>1
<1>6. Upto(n, [i \in 0..n |-> IF i = n THEN f[n - 1] + s[n] ELSE f[i]])
  BY <1>4, <1>5
<1>7. QED
  BY <1>6

(* What holds of the first and passes on holds of all.                     *)
LEMMA SumsNat ==
    ASSUME NEW s \in Seq(Nat), NEW f, SumsOf(s, f)
    PROVE  \A i \in 0..Len(s) : f[i] \in Nat
<1> DEFINE Bad == {i \in 0..Len(s) : f[i] \notin Nat}
<1>1. SUFFICES ASSUME Bad # {} PROVE FALSE
  OBVIOUS
<1>2. PICK n \in Bad : \A x \in Bad : n <= x
  <2>1. Bad \in SUBSET Nat
    OBVIOUS
  <2>2. QED
    BY <1>1, <2>1, LeastNat
<1>3. n # 0
  BY DEF SumsOf
<1>4. f[n] = f[n - 1] + s[n]
  BY <1>3 DEF SumsOf
<1>5. f[n - 1] \in Nat
  BY <1>2, <1>3
<1>6. QED
  BY <1>4, <1>5, <1>3

LEMMA TotalNat ==
    ASSUME NEW s \in Seq(Nat)
    PROVE  Total(s) \in Nat
<1>1. PICK f : SumsOf(s, f) /\ Total(s) = f[Len(s)]
  BY SumsExist DEF Total, SumsOf
<1>2. QED
  BY <1>1, SumsNat

(* The total of a sequence that is the same number everywhere.             *)
LEMMA TotalConstant ==
    ASSUME NEW n \in Nat, NEW d \in Nat
    PROVE  Total([i \in 1..n |-> d]) = n * d
<1> DEFINE s == [i \in 1..n |-> d]
<1>1. s \in Seq(Nat) /\ Len(s) = n /\ \A i \in 1..n : s[i] = d
  OBVIOUS
<1> HIDE DEF s
<1>2. PICK f : SumsOf(s, f) /\ Total(s) = f[n]
  BY <1>1, SumsExist DEF Total, SumsOf
<1> DEFINE Bad == {i \in 0..n : f[i] # i * d}
<1>3. SUFFICES Bad = {}
  BY <1>2, <1>3 DEF s
<1>4. SUFFICES ASSUME Bad # {} PROVE FALSE
  OBVIOUS
<1>5. PICK m \in Bad : \A x \in Bad : m <= x
  <2>1. Bad \in SUBSET Nat
    OBVIOUS
  <2>2. QED
    BY <1>4, <2>1, LeastNat
<1>6. m # 0
  BY <1>1, <1>2 DEF SumsOf
<1>7. f[m] = f[m - 1] + d
  BY <1>1, <1>2, <1>6 DEF SumsOf
<1>8. f[m - 1] = (m - 1) * d
  BY <1>5, <1>6
<1>9. m * d = (m - 1) * d + d
  OBVIOUS
<1>10. QED
  BY <1>7, <1>8, <1>9

-----------------------------------------------------------------------------
(* Histories of a peer, and the ones whose gaps are all alike.             *)
Windows == [at : Nat, heavy : BOOLEAN]

Even(w, d) ==
    /\ w \in Seq(Windows) /\ Len(w) = History
    /\ \A i \in 1..(History - 1) : w[i + 1].at - w[i].at = d
    /\ d \in Nat /\ d > 0 /\ d \in MinGap..MaxGap
    /\ \A i \in 1..History : ~w[i].heavy

LEMMA GapsAreNumbers ==
    ASSUME NEW w \in Seq(Windows)
    PROVE  Gaps(w) \in Seq(Nat) /\ Forward(Gaps(w)) \in Nat /\ Total(Gaps(w)) \in Nat
<1>1. \A i \in 1..(Len(w) - 1) : w[i] \in Windows /\ w[i + 1] \in Windows
  OBVIOUS
<1>2. \A i \in 1..(Len(w) - 1) : Gaps(w)[i] \in Nat
  BY <1>1 DEF Gaps, Windows
<1>3. Gaps(w) \in Seq(Nat)
  <2>1. CASE w = <<>>
    BY <2>1 DEF Gaps
  <2>2. CASE w # <<>>
    <3>1. Len(w) - 1 \in Nat
      BY <2>2
    <3>2. Gaps(w) = [i \in 1..(Len(w) - 1) |-> Gaps(w)[i]]
      BY DEF Gaps
    <3>3. QED
      BY <1>2, <3>1, <3>2
  <2>3. QED
    BY <2>1, <2>2
<1>4. DOMAIN Gaps(w) = 1..(Len(w) - 1)
  BY DEF Gaps
<1>5. IsFiniteSet({i \in DOMAIN Gaps(w) : Gaps(w)[i] > 0})
  <2>1. IsFiniteSet(DOMAIN Gaps(w))
    BY <1>4, FS_Interval
  <2>2. QED
    BY <2>1, FS_Subset
<1>6. QED
  BY <1>3, <1>5, TotalNat, FS_CardinalityType DEF Forward

LEMMA EvenGaps ==
    ASSUME NEW w, NEW d, Even(w, d)
    PROVE  /\ Gaps(w) = [i \in 1..(History - 1) |-> d]
           /\ Mean(w) = [sum |-> (History - 1) * d, n |-> History - 1]
<1>1. History - 1 \in Nat /\ History >= 3 /\ History \in Nat
  BY ParameterAssumption
<1>2. \A i \in 1..(History - 1) : w[i].at \in Nat /\ w[i + 1].at \in Nat
  <2>1. w \in Seq(Windows) /\ Len(w) = History
    BY DEF Even
  <2> HIDE DEF Windows
  <2>3. \A i \in 1..History : w[i] \in Windows
    BY <2>1
  <2>2. QED
    <3>1. TAKE i \in 1..(History - 1)
    <3>2. i \in 1..History /\ i + 1 \in 1..History
      BY <1>1
    <3>3. QED
      BY <2>3, <3>2 DEF Windows
<1>3. Gaps(w) = [i \in 1..(History - 1) |-> d]
  BY <1>1, <1>2 DEF Gaps, Even
<1>4. {i \in DOMAIN Gaps(w) : Gaps(w)[i] > 0} = 1..(History - 1)
  BY <1>3 DEF Even
<1>5. Forward(Gaps(w)) = History - 1
  <2>1. Cardinality(1..(History - 1)) = History - 1
    BY <1>1, FS_Interval
  <2>2. QED
    BY <1>4, <2>1 DEF Forward
<1>6. Total(Gaps(w)) = (History - 1) * d
  BY <1>1, <1>3, TotalConstant DEF Even
<1>7. QED
  BY <1>3, <1>5, <1>6 DEF Mean

(* A history without any variation passes every test of _evaluate.         *)
LEMMA EvenIsCandidate ==
    ASSUME NEW w, NEW d, Even(w, d), NEW p
    PROVE  Candidate(p, w)
<1> DEFINE n == History - 1
           gaps == [i \in 1..n |-> d]
<1>1. n \in Nat /\ d \in Nat /\ Need(p) \in Nat /\ n >= Need(p) /\ Limit(p) \in Nat /\ n >= 1
  BY ParameterAssumption DEF Even, Need, Limit
<1>2. Gaps(w) = gaps /\ Forward(gaps) = n /\ Total(gaps) = n * d
  BY EvenGaps DEF Mean
<1>3. Total([i \in DOMAIN gaps |-> gaps[i] * gaps[i]]) = n * (d * d)
  <2>1. [i \in DOMAIN gaps |-> gaps[i] * gaps[i]] = [i \in 1..n |-> d * d]
    OBVIOUS
  <2>2. d * d \in Nat
    BY <1>1
  <2>3. QED
    BY <1>1, <2>1, <2>2, TotalConstant
<1> HIDE DEF n, gaps
<1>4. n * d \in (n * MinGap)..(n * MaxGap)
  BY <1>1, ParameterAssumption DEF Even
<1>5. Steady(gaps, Limit(p))
  <2>1. n * (n * (d * d)) - (n * d) * (n * d) = 0
    BY <1>1
  <2>2. (n * (n * (d * d)) - (n * d) * (n * d)) * n * 10000 = 0
    BY <2>1, <1>1
  <2>3. Limit(p) * Limit(p) * (n * d) * (n * d) * (n - 1) >= 0
    <3>1. ASSUME NEW a \in Nat, NEW b \in Nat PROVE a * b \in Nat
      OBVIOUS
    <3>2. n * d \in Nat /\ n - 1 \in Nat
      BY <1>1, <3>1
    <3>3. Limit(p) * Limit(p) \in Nat
      BY <1>1, <3>1
    <3>4. Limit(p) * Limit(p) * (n * d) \in Nat
      BY <3>1, <3>2, <3>3
    <3>5. Limit(p) * Limit(p) * (n * d) * (n * d) \in Nat
      BY <3>1, <3>2, <3>4
    <3>6. Limit(p) * Limit(p) * (n * d) * (n * d) * (n - 1) \in Nat
      BY <3>1, <3>2, <3>5
    <3>7. QED
      BY <3>6
  <2>4. QED
    BY <1>2, <1>3, <2>2, <2>3 DEF Steady
<1>6. NeverHeavy(w)
  BY DEF NeverHeavy, Even
<1>7. QED
  BY <1>1, <1>2, <1>4, <1>5, <1>6 DEF Candidate, Regular

-----------------------------------------------------------------------------
(* The swarm filter.  Mean gaps are fractions compared by cross            *)
(* multiplication.                                                         *)
Fractions == [sum : Nat, n : Nat]

LEMMA MeansAreFractions ==
    ASSUME NEW w \in Seq(Windows)
    PROVE  Mean(w) \in Fractions
BY GapsAreNumbers DEF Mean, Fractions

(* What more than half of the candidates have for a mean is the median.    *)
LEMMA MajorityIsMedian ==
    ASSUME NEW S, IsFiniteSet(S), NEW mean, \A k \in S : mean[k] \in Fractions,
           NEW T \in SUBSET S, NEW a \in Fractions, \A k \in T : mean[k] = a,
           2 * Cardinality(T) > Cardinality(S)
    PROVE  LET m == Median(S, mean)
           IN  m \in Fractions /\ a.sum * m.n = m.sum * a.n
<1> DEFINE middle == Cardinality(S) \div 2
           Low(m) == {k \in S : Below(mean[k], m)}
           NotAbove(m) == {k \in S : ~Below(m, mean[k])}
           InMiddle(m) == Cardinality(Low(m)) <= middle /\ Cardinality(NotAbove(m)) > middle
<1>1. /\ Cardinality(S) \in Nat /\ Cardinality(T) \in Nat /\ IsFiniteSet(T)
      /\ middle \in Nat /\ Cardinality(T) > middle /\ Cardinality(S) - Cardinality(T) <= middle
  BY FS_CardinalityType, FS_Subset
<1>2. ASSUME NEW U \in SUBSET S, T \subseteq U
      PROVE  Cardinality(U) \in Nat /\ Cardinality(U) > middle
  <2>1. IsFiniteSet(U) /\ Cardinality(U) \in Nat
    BY FS_Subset, FS_CardinalityType
  <2>2. Cardinality(T) <= Cardinality(U)
    BY <1>2, <2>1, FS_Subset
  <2>3. QED
    BY <1>1, <2>1, <2>2
<1>3. ASSUME NEW U \in SUBSET S, U \cap T = {}
      PROVE  Cardinality(U) \in Nat /\ Cardinality(U) <= middle
  <2>1. IsFiniteSet(U) /\ Cardinality(U) \in Nat
    BY FS_Subset, FS_CardinalityType
  <2>2. Cardinality(U \cup T) = Cardinality(U) + Cardinality(T) - Cardinality({})
    BY <1>1, <1>3, <2>1, FS_Union
  <2>3. Cardinality(U \cup T) <= Cardinality(S) /\ Cardinality({}) = 0
    BY FS_Subset, FS_EmptySet
  <2>4. QED
    BY <1>1, <2>1, <2>2, <2>3
<1>4. ~Below(a, a)
  BY DEF Below, Fractions
<1>5. InMiddle(a)
  <2>1. Low(a) \cap T = {} /\ T \subseteq NotAbove(a)
    BY <1>4
  <2>2. QED
    BY <1>2, <1>3, <2>1
<1>6. \E k \in T : TRUE
  BY <1>1, FS_EmptySet
<1> DEFINE m == Median(S, mean)
<1>7. m \in {mean[k] : k \in S} /\ InMiddle(m)
  <2>1. a \in {mean[k] : k \in S}
    BY <1>6
  <2> DEFINE M == {mean[k] : k \in S}
             Med == CHOOSE x \in M : InMiddle(x)
  <2>2. Median(S, mean) = Med
    BY DEF Median
  <2> HIDE DEF InMiddle, M
  <2>3. Med \in M /\ InMiddle(Med)
    BY <1>5, <2>1 DEF M
  <2>4. QED
    BY <2>2, <2>3 DEF M
<1>8. m \in Fractions
  BY <1>7
<1> HIDE DEF m
<1>9. ~Below(a, m)
  <2>1. SUFFICES ASSUME Below(a, m) PROVE FALSE
    OBVIOUS
  <2>2. T \subseteq Low(m)
    BY <2>1
  <2>3. QED
    BY <1>1, <1>2, <1>7, <2>2
<1>10. ~Below(m, a)
  <2>1. SUFFICES ASSUME Below(m, a) PROVE FALSE
    OBVIOUS
  <2>2. NotAbove(m) \cap T = {}
    BY <2>1
  <2>3. QED
    BY <1>1, <1>3, <1>7, <2>2
<1>11. a.sum * m.n = m.sum * a.n
  <2> DEFINE x == a.sum * m.n
             y == m.sum * a.n
  <2>1. x \in Int /\ y \in Int
    BY <1>8 DEF Fractions
  <2>2. ~(x < y) /\ ~(y < x)
    BY <1>9, <1>10 DEF Below
  <2> HIDE DEF x, y
  <2>3. x = y
    BY <2>1, <2>2
  <2>4. QED
    BY <2>3 DEF x, y
<1>12. QED
  BY <1>8, <1>11 DEF m

(* Those with the median for a mean are near it, and go together.          *)
LEMMA MajorityIsDropped ==
    ASSUME NEW S, IsFiniteSet(S), NEW mean, \A k \in S : mean[k] \in Fractions,
           NEW T \in SUBSET S, NEW a \in Fractions, \A k \in T : mean[k] = a,
           2 * Cardinality(T) > Cardinality(S), Cardinality(T) >= SwarmMin
    PROVE  KeptOfHost(S, mean) \cap T = {}
<1> DEFINE m == Median(S, mean)
           clustered == {k \in S : Near(mean[k], m)}
<1>1. m \in Fractions /\ a.sum * m.n = m.sum * a.n
  BY MajorityIsMedian
<1> HIDE DEF m
<1>2. Near(a, m)
  <2> DEFINE x == a.sum * m.n
  <2>1. x \in Nat /\ Slack \in Nat
    BY <1>1, ParameterAssumption DEF Fractions
  <2>2. Slack * x >= 0
    <3> HIDE DEF x
    <3>1. QED
      BY <2>1
  <2>3. QED
    <3>1. m.sum * a.n = x
      BY <1>1
    <3> HIDE DEF x
    <3>2. Near(a, m) <=> 100 * (IF x > x THEN x - x ELSE x - x) <= Slack * x
      BY <3>1 DEF Near, x
    <3>3. QED
      BY <2>1, <2>2, <3>2
<1>3. T \subseteq clustered
  BY <1>2
<1>4. /\ Cardinality(T) \in Nat /\ IsFiniteSet(clustered)
      /\ Cardinality(clustered) \in Nat /\ Cardinality(S) \in Nat
      /\ Cardinality(T) <= Cardinality(clustered) /\ Cardinality(T) <= Cardinality(S)
  <2>1. IsFiniteSet(clustered) /\ IsFiniteSet(T)
    BY FS_Subset
  <2>2. QED
    BY <1>3, <2>1, FS_Subset, FS_CardinalityType
<1>5. Cardinality(S) >= SwarmMin /\ Cardinality(clustered) >= SwarmMin
  BY <1>4, ParameterAssumption
<1>6. KeptOfHost(S, mean) = S \ clustered
  BY <1>5 DEF KeptOfHost, m
<1>7. QED
  BY <1>3, <1>6

-----------------------------------------------------------------------------
(* What is remembered of a peer, w, is the end of what it called, c.  What *)
(* came before was forgotten for being old, so the gap before the first    *)
(* window remembered is wide; and if nothing is remembered, the last call  *)
(* is long ago.                                                            *)
Remembers(c, w, t) ==
    LET k == Len(c) - Len(w)
    IN  /\ k >= 0
        /\ \A i \in 1..Len(w) : w[i] = c[i + k]
        /\ 1 <= k /\ k < Len(c) =>
              \E lag \in site.lags : c[k + 1].at - c[k].at + lag > IdleEvict
        /\ 1 <= k /\ k = Len(c) => c[k].at < t - IdleEvict

(* The tracker, for each peer.  alerted and heard are on the wall clock.   *)
TrackTypeOK ==
    /\ site \in Sites /\ now \in Nat /\ now >= Start
    /\ windows \in [Peer -> Seq(Windows)] /\ called \in [Peer -> Seq(Windows)]
    /\ lastAlert \in [Peer -> Nat] /\ heard \in [Peer -> Nat] /\ alerted \in [Peer -> Nat]
    /\ raised \subseteq Peer

PeerOK(p) ==
    /\ Len(called[p]) <= History
    /\ Remembers(called[p], windows[p], now)
    /\ alerted[p] <= heard[p] /\ heard[p] <= now
    /\ lastAlert[p] \in {0, alerted[p]}
    /\ called[p] # <<>> => \E lag \in site.lags : Last(called[p]).at = heard[p] - lag
    /\ p \in raised => alerted[p] = now

TrackInv == TrackTypeOK /\ \A p \in Peer : PeerOK(p)

(* Traffic time is never so far behind the wall clock that a peer can be   *)
(* forgotten within the cooldown of its last call.                         *)
LagsAreShort == \A s \in Sites : \A lag \in s.lags : lag + Cooldown <= IdleEvict

(* An alert the tracker has forgotten is a cooldown old.                   *)
Forgotten == \A p \in Peer : lastAlert[p] # alerted[p] => now - alerted[p] >= Cooldown

-----------------------------------------------------------------------------
(* Appending to a history that is capped.                                  *)
LEMMA RememberFacts ==
    ASSUME NEW w \in Seq(Windows), NEW x \in Windows, Len(w) <= History
    PROVE  LET off == IF Len(w) = History THEN 1 ELSE 0
           IN  /\ Remember(w, x) \in Seq(Windows)
               /\ Len(Remember(w, x)) = Len(w) + 1 - off
               /\ Len(Remember(w, x)) >= 1 /\ Len(Remember(w, x)) <= History
               /\ \A i \in 1..(Len(w) - off) : Remember(w, x)[i] = w[i + off]
               /\ Remember(w, x)[Len(w) + 1 - off] = x
<1> DEFINE off == IF Len(w) = History THEN 1 ELSE 0
           u == Append(w, x)
<1>1. History \in Nat /\ History >= 3
  BY ParameterAssumption
<1>2. /\ u \in Seq(Windows) /\ Len(u) = Len(w) + 1 /\ Len(w) \in Nat
      /\ \A i \in 1..Len(w) : u[i] = w[i] /\ u[Len(w) + 1] = x
  OBVIOUS
<1>3. u[Len(w) + 1] = x
  OBVIOUS
<1> HIDE DEF u
<1>4. 1 + (IF Len(u) > History THEN Len(u) - History ELSE 0) = 1 + off
  BY <1>1, <1>2
<1>5. Remember(w, x) = SubSeq(u, 1 + off, Len(u))
  BY <1>4 DEF Remember, u
<1>o. off \in {0, 1} /\ (off = 1 <=> Len(w) = History)
  OBVIOUS
<1> DEFINE r == Remember(w, x)
<1> SUFFICES /\ r \in Seq(Windows) /\ Len(r) = Len(w) + 1 - off
             /\ Len(r) >= 1 /\ Len(r) <= History
             /\ \A i \in 1..(Len(w) - off) : r[i] = w[i + off]
             /\ r[Len(w) + 1 - off] = x
  OBVIOUS
<1> HIDE DEF off, r
<1>6. /\ r \in Seq(Windows)
      /\ Len(r) = IF 1 + off <= Len(u) THEN Len(u) - (1 + off) + 1 ELSE 0
      /\ \A i \in 1..(Len(u) - (1 + off) + 1) : r[i] = u[(1 + off) + i - 1]
  <2>1. 1 + off \in Int /\ Len(u) \in Int
    BY <1>2, <1>o
  <2>2. \A i \in (1 + off)..Len(u) : u[i] \in Windows
    BY <1>2, <1>o
  <2>3. QED
    BY <1>5, <2>1, <2>2, SubSeqProperties DEF r
<1>7. Len(r) = Len(w) + 1 - off /\ \A i \in 1..(Len(w) + 1 - off) : r[i] = u[i + off]
  <2>1. Len(r) = Len(w) + 1 - off
    BY <1>2, <1>6, <1>o
  <2>2. ASSUME NEW i \in 1..(Len(w) + 1 - off) PROVE r[i] = u[i + off]
    <3>1. i \in 1..(Len(u) - (1 + off) + 1) /\ (1 + off) + i - 1 = i + off
      BY <1>2, <1>o
    <3>2. QED
      BY <1>6, <3>1
  <2>3. QED
    BY <2>1, <2>2
<1>8. Len(r) >= 1 /\ Len(r) <= History
  BY <1>1, <1>2, <1>7, <1>o
<1>9. \A i \in 1..(Len(w) - off) : r[i] = w[i + off]
  BY <1>2, <1>7, <1>o
<1>10. r[Len(w) + 1 - off] = x
  BY <1>1, <1>2, <1>3, <1>7, <1>o
<1>11. QED
  BY <1>6, <1>7, <1>8, <1>9, <1>10

LEMMA AtIsNumber ==
    ASSUME NEW c \in Seq(Windows)
    PROVE  \A i \in 1..Len(c) : c[i].at \in Nat
<1>1. \A i \in 1..Len(c) : c[i] \in Windows
  OBVIOUS
<1>2. QED
  BY <1>1 DEF Windows

(* A call is appended to both.                                             *)
LEMMA RemembersMore ==
    ASSUME NEW c \in Seq(Windows), NEW w \in Seq(Windows), Len(c) <= History,
           NEW t \in Int, NEW u \in Int, t <= u, Remembers(c, w, t), site \in Sites,
           NEW x \in Windows, NEW lag \in site.lags, x.at = u - lag
    PROVE  Remembers(Remember(c, x), Remember(w, x), u)
<1> DEFINE off == IF Len(c) = History THEN 1 ELSE 0
           offw == IF Len(w) = History THEN 1 ELSE 0
           k == Len(c) - Len(w)
           cc == Remember(c, x)
           ww == Remember(w, x)
<1>1. /\ History \in Nat /\ Len(c) \in Nat /\ Len(w) \in Nat /\ lag \in Nat /\ IdleEvict \in Nat
      /\ Len(w) <= Len(c) /\ off \in {0, 1} /\ offw \in {0, 1} /\ k \in Nat
      /\ k = 0 => off = offw
      /\ k > 0 => offw = 0
  BY ParameterAssumption DEF Remembers
<1>2. /\ Len(cc) = Len(c) + 1 - off /\ \A i \in 1..(Len(c) - off) : cc[i] = c[i + off]
      /\ cc[Len(c) + 1 - off] = x
  BY RememberFacts
<1>3. /\ Len(ww) = Len(w) + 1 - offw /\ \A i \in 1..(Len(w) - offw) : ww[i] = w[i + offw]
      /\ ww[Len(w) + 1 - offw] = x
  <2>1. Len(w) <= History
    BY <1>1
  <2>2. QED
    BY <2>1, RememberFacts
<1>4. \A i \in 1..Len(w) : w[i] = c[i + k]
  BY DEF Remembers
<1>5. /\ 1 <= k /\ k < Len(c) => \E l \in site.lags : c[k + 1].at - c[k].at + l > IdleEvict
      /\ 1 <= k /\ k = Len(c) => c[k].at < t - IdleEvict
  BY DEF Remembers
<1>6. \A i \in 1..Len(c) : c[i].at \in Nat
  BY AtIsNumber
<1> HIDE DEF off, offw, k, cc, ww
<1>c. Len(c) = Len(w) + k
  BY <1>1 DEF k
<1>7. CASE k = 0
  <2>1. Len(ww) = Len(cc) /\ \A i \in 1..Len(ww) : ww[i] = cc[i]
    <3>1. Len(ww) = Len(cc) /\ Len(c) = Len(w) /\ off = offw
      BY <1>1, <1>2, <1>3, <1>7, <1>c
    <3>2. ASSUME NEW i \in 1..Len(ww) PROVE ww[i] = cc[i]
      <4>1. CASE i = Len(w) + 1 - offw
        BY <1>2, <1>3, <3>1, <4>1
      <4>2. CASE i # Len(w) + 1 - offw
        <5>1. i \in 1..(Len(w) - offw) /\ i + offw \in 1..Len(w)
          BY <1>1, <1>3, <4>2
        <5>2. ww[i] = w[i + offw] /\ cc[i] = c[i + offw]
          BY <1>2, <1>3, <3>1, <5>1
        <5>3. w[i + offw] = c[i + offw]
          BY <1>1, <1>4, <1>7, <5>1
        <5>4. QED
          BY <5>2, <5>3
      <4>3. QED
        BY <4>1, <4>2
    <3>3. QED
      BY <3>1, <3>2
  <2>2. QED
    <3>1. Len(cc) - Len(ww) = 0
      <4>1. Len(cc) \in Int
        BY <1>1, <1>2
      <4>2. QED
        BY <2>1, <4>1
    <3>2. \A i \in 1..Len(ww) : i + (Len(cc) - Len(ww)) = i
      BY <3>1
    <3>3. QED
      BY <2>1, <3>1, <3>2 DEF Remembers, cc, ww
<1>8. CASE k > 0
  <2> DEFINE kk == Len(cc) - Len(ww)
  <2>1. kk = k - off /\ kk \in Nat /\ kk < Len(cc) /\ Len(ww) = Len(w) + 1 /\ offw = 0
    BY <1>1, <1>2, <1>3, <1>8, <1>c
  <2> HIDE DEF kk
  <2>2. ASSUME NEW i \in 1..Len(ww) PROVE ww[i] = cc[i + kk]
    <3>1. CASE i = Len(w) + 1
      <4>1. i + kk = Len(c) + 1 - off
        BY <1>1, <1>c, <2>1, <3>1
      <4>2. QED
        BY <1>2, <1>3, <1>1, <2>1, <3>1, <4>1
    <3>2. CASE i # Len(w) + 1
      <4>1. i \in 1..Len(w) /\ i + kk \in 1..(Len(c) - off) /\ (i + kk) + off = i + k
        BY <1>1, <1>c, <2>1, <3>2
      <4>2. ww[i] = w[i] /\ cc[i + kk] = c[i + k]
        <5>1. i \in 1..(Len(w) - offw) /\ i + offw = i
          BY <2>1, <4>1
        <5>2. ww[i] = w[i]
          BY <1>3, <5>1
        <5>3. cc[i + kk] = c[(i + kk) + off]
          BY <1>2, <4>1
        <5>4. QED
          BY <4>1, <5>2, <5>3
      <4>3. QED
        BY <1>4, <4>1, <4>2
    <3>3. QED
      BY <3>1, <3>2
  <2>3. ASSUME 1 <= kk
        PROVE  \E l \in site.lags : cc[kk + 1].at - cc[kk].at + l > IdleEvict
    <3>1. cc[kk] = c[k]
      <4>1. kk \in 1..(Len(c) - off) /\ kk + off = k
        BY <1>1, <1>c, <2>1, <2>3
      <4>2. QED
        BY <1>2, <4>1
    <3>2. CASE k < Len(c)
      <4>1. kk + 1 \in 1..(Len(c) - off) /\ (kk + 1) + off = k + 1
        BY <1>1, <1>c, <2>1, <2>3, <3>2
      <4>2. cc[kk + 1] = c[k + 1]
        BY <1>2, <4>1
      <4>3. QED
        BY <1>5, <1>8, <1>1, <3>1, <3>2, <4>2
    <3>3. CASE k = Len(c)
      <4>1. kk + 1 = Len(c) + 1 - off
        BY <1>1, <2>1, <3>3
      <4>2. cc[kk + 1] = x
        BY <1>2, <4>1
      <4>3. c[k].at < t - IdleEvict /\ c[k].at \in Nat
        BY <1>1, <1>5, <1>6, <1>8, <3>3
      <4>4. (u - lag) - c[k].at + lag > IdleEvict
        BY <1>1, <4>3
      <4>5. QED
        BY <3>1, <4>2, <4>4
    <3>4. QED
      BY <1>1, <1>c, <3>2, <3>3
  <2>4. QED
    BY <2>1, <2>2, <2>3 DEF Remembers, kk, cc, ww
<1>9. QED
  BY <1>1, <1>7, <1>8

(* A peer is forgotten.                                                    *)
LEMMA RemembersNothing ==
    ASSUME NEW c \in Seq(Windows), NEW w \in Seq(Windows), NEW t \in Int,
           Remembers(c, w, t), WentQuiet(w, t)
    PROVE  Remembers(c, <<>>, t)
<1> DEFINE k == Len(c) - Len(w)
<1>1. Len(w) \in Nat /\ Len(w) >= 1 /\ Len(c) \in Nat /\ k >= 0 /\ Len(w) + k = Len(c)
  BY DEF WentQuiet, Remembers
<1>2. w[Len(w)] = c[Len(c)]
  <2>1. Len(w) \in 1..Len(w)
    BY <1>1
  <2>2. w[Len(w)] = c[Len(w) + k]
    BY <2>1 DEF Remembers
  <2>3. QED
    BY <1>1, <2>2
<1>3. c[Len(c)].at < t - IdleEvict
  BY <1>2 DEF WentQuiet, Last
<1> DEFINE none == <<>>
<1>4. Len(none) = 0 /\ Len(c) - Len(none) = Len(c) /\ 1..Len(none) = {}
  BY <1>1
<1> HIDE DEF none
<1>5. Remembers(c, none, t)
  <2> DEFINE m == Len(c) - Len(none)
  <2>1. m >= 0 /\ ~(m < Len(c)) /\ c[m].at < t - IdleEvict
    BY <1>1, <1>3, <1>4
  <2>2. QED
    BY <1>4, <2>1 DEF Remembers
<1>6. QED
  BY <1>5 DEF none

(* Time goes by.                                                           *)
LEMMA RemembersLater ==
    ASSUME NEW c \in Seq(Windows), NEW w \in Seq(Windows),
           NEW t \in Int, NEW u \in Int, t <= u, Remembers(c, w, t)
    PROVE  Remembers(c, w, u)
<1>1. \A i \in 1..Len(c) : c[i].at \in Nat
  BY AtIsNumber
<1>2. IdleEvict \in Nat
  BY ParameterAssumption
<1>3. ASSUME 1 <= Len(c) - Len(w), Len(c) - Len(w) = Len(c)
      PROVE  c[Len(c) - Len(w)].at < u - IdleEvict
  <2>1. c[Len(c) - Len(w)].at < t - IdleEvict /\ Len(c) - Len(w) \in 1..Len(c)
    BY <1>3 DEF Remembers
  <2>2. QED
    BY <1>1, <1>2, <2>1
<1>4. QED
  BY <1>3 DEF Remembers

(* A metronome has never been forgotten.                                   *)
LEMMA MetronomeRemembered ==
    ASSUME NEW c, NEW w \in Seq(Windows), NEW d, Even(c, d), NEW t, site \in Sites,
           w # <<>>, Remembers(c, w, t), \A lag \in site.lags : d + lag <= IdleEvict
    PROVE  w = c
<1> DEFINE k == Len(c) - Len(w)
<1>1. History \in Nat /\ Len(c) = History /\ Len(w) \in Nat /\ Len(w) >= 1 /\ k \in Nat /\ k < Len(c)
  BY ParameterAssumption DEF Remembers, Even
<1>2. k = 0
  <2>1. SUFFICES ASSUME k >= 1 PROVE FALSE
    BY <1>1
  <2>2. PICK lag \in site.lags : c[k + 1].at - c[k].at + lag > IdleEvict
    BY <1>1, <2>1 DEF Remembers
  <2>3. c[k + 1].at - c[k].at = d
    <3>1. k \in 1..(History - 1)
      BY <1>1, <2>1
    <3> HIDE DEF k
    <3>2. QED
      BY <3>1 DEF Even
  <2>4. d + lag > IdleEvict
    BY <2>2, <2>3
  <2>5. d + lag <= IdleEvict /\ d \in Nat
    BY DEF Even
  <2>6. QED
    <3>1. lag \in Int
      BY ParameterAssumption
    <3>2. QED
      BY <2>4, <2>5, <3>1, ParameterAssumption
<1>3. \A i \in 1..Len(w) : w[i] = c[i]
  <2>1. \A i \in 1..Len(w) : w[i] = c[i + k]
    BY DEF Remembers
  <2>2. QED
    BY <1>2, <2>1
<1>4. Len(w) = Len(c)
  BY <1>1, <1>2
<1>5. QED
  BY <1>3, <1>4, SeqEqual DEF Even

-----------------------------------------------------------------------------
(* One call of BeaconTracker.update, with the names it gives its parts.    *)
Listened(active, heavy, lag, known, new) ==
    /\ active \subseteq Peer /\ lag \in site.lags
    /\ known \in [Peer -> Seq(Windows)]
    /\ \A p \in Peer :
          known[p] = IF p \in active
                     THEN Remember(windows[p], [at |-> now' - lag, heavy |-> p \in heavy])
                     ELSE windows[p]
    /\ called' =
          [p \in Peer |-> IF p \in active
                          THEN Remember(called[p], [at |-> now' - lag, heavy |-> p \in heavy])
                          ELSE called[p]]
    /\ now' = now + 1
    /\ new = {p \in DropSwarms({p \in active : Candidate(p, known[p])},
                               [p \in Peer |-> Mean(known[p])]) : Ready(p, now')}
    /\ raised' = new
    /\ windows' = [p \in Peer |-> IF WentQuiet(known[p], now') THEN <<>> ELSE known[p]]
    /\ lastAlert' = [p \in Peer |-> IF WentQuiet(known[p], now') THEN 0
                                    ELSE IF p \in new THEN now' ELSE lastAlert[p]]
    /\ heard' = [p \in Peer |-> IF p \in active THEN now' ELSE heard[p]]
    /\ alerted' = [p \in Peer |-> IF p \in new THEN now' ELSE alerted[p]]

LEMMA Appended ==
    ASSUME TrackInv, NEW lag \in site.lags, NEW p, NEW heavy, now' = now + 1
    PROVE  [at |-> now' - lag, heavy |-> p \in heavy] \in Windows
<1>1. lag \in 0..(Start - 1) /\ Start \in Nat /\ now \in Nat /\ now >= Start
  BY ParameterAssumption DEF TrackInv, TrackTypeOK
<1>2. now' - lag \in Nat
  BY <1>1
<1>3. (p \in heavy) \in BOOLEAN
  OBVIOUS
<1>4. ASSUME NEW t \in Nat, NEW b \in BOOLEAN
      PROVE  [at |-> t, heavy |-> b] \in Windows
  BY DEF Windows
<1>5. QED
  BY <1>2, <1>3, <1>4

LEMMA RememberedLength ==
    ASSUME TrackInv, NEW p \in Peer
    PROVE  Len(windows[p]) <= History /\ Len(called[p]) <= History
BY ParameterAssumption DEF TrackInv, TrackTypeOK, PeerOK, Remembers

LEMMA Listening ==
    ASSUME TrackInv, Listen
    PROVE  \E active, heavy, lag, known, new : Listened(active, heavy, lag, known, new)
<1>1. PICK W \in SUBSET site.wakes, lag \in site.lags :
          \E heavy \in IF site.bulk THEN SUBSET UNION W ELSE {{}} : Update(UNION W, heavy, lag)
  BY DEF Listen
<1>2. PICK heavy : Update(UNION W, heavy, lag)
  BY <1>1
<1> DEFINE active == UNION W
           window(p) == [at |-> now' - lag, heavy |-> p \in heavy]
           known == [p \in Peer |-> IF p \in active THEN Remember(windows[p], window(p))
                                    ELSE windows[p]]
           new == {p \in DropSwarms({p \in active : Candidate(p, known[p])},
                                    [p \in Peer |-> Mean(known[p])]) : Ready(p, now')}
<1>3. active \subseteq Peer
  BY ParameterAssumption DEF TrackInv, TrackTypeOK
<1>4. now' = now + 1
  BY <1>2 DEF Update
<1>5. known \in [Peer -> Seq(Windows)]
  <2>1. ASSUME NEW p \in Peer PROVE known[p] \in Seq(Windows)
    <3>b. window(p) \in Windows
      BY <1>4, Appended
    <3>c. windows[p] \in Seq(Windows)
      BY DEF TrackInv, TrackTypeOK
    <3>1. window(p) \in Windows /\ windows[p] \in Seq(Windows) /\ Len(windows[p]) <= History
      BY <3>b, <3>c, RememberedLength
    <3> HIDE DEF window
    <3>2. Remember(windows[p], window(p)) \in Seq(Windows)
      BY <3>1, RememberFacts
    <3>3. QED
      BY <3>1, <3>2
  <2> HIDE DEF window, active
  <2>2. QED
    BY <2>1
<1>6. Listened(active, heavy, lag, known, new)
  BY <1>2, <1>3, <1>4, <1>5 DEF Update, Listened
<1>7. QED
  BY <1>6

(* What a call makes of a peer, before anything is forgotten.              *)
LEMMA Heard ==
    ASSUME TrackInv, site' = site, NEW active, NEW heavy, NEW lag, NEW known, NEW new,
           Listened(active, heavy, lag, known, new), NEW p \in Peer
    PROVE  /\ called'[p] \in Seq(Windows) /\ Len(called'[p]) <= History
           /\ known[p] \in Seq(Windows)
           /\ Remembers(called'[p], known[p], now')
           /\ p \in active => known[p] # <<>> /\ called'[p] # <<>>
                                /\ Last(called'[p]).at = now' - lag
           /\ p \notin active => called'[p] = called[p] /\ heard'[p] = heard[p]
<1> DEFINE x == [at |-> now' - lag, heavy |-> p \in heavy]
<1>1. /\ windows[p] \in Seq(Windows) /\ called[p] \in Seq(Windows)
      /\ Len(windows[p]) <= History /\ Len(called[p]) <= History
      /\ site \in Sites /\ now \in Nat /\ Remembers(called[p], windows[p], now)
  BY RememberedLength DEF TrackInv, TrackTypeOK, PeerOK
<1>2. now' = now + 1 /\ lag \in site.lags
  BY DEF Listened
<1>3. x \in Windows /\ x.at = now' - lag
  <2>1. x \in Windows
    BY <1>2, Appended
  <2>2. QED
    BY <2>1
<1> HIDE DEF x
<1>4. CASE p \in active
  <2>1. known[p] = Remember(windows[p], x) /\ called'[p] = Remember(called[p], x)
    BY <1>4 DEF Listened, x
  <2>2. Remembers(called'[p], known[p], now')
    BY <1>1, <1>2, <1>3, <2>1, RemembersMore
  <2>3. /\ called'[p] \in Seq(Windows) /\ Len(called'[p]) <= History /\ Len(called'[p]) >= 1
        /\ called'[p][Len(called'[p])] = x
    <3> DEFINE cc == Remember(called[p], x)
    <3>1. /\ cc \in Seq(Windows) /\ Len(cc) <= History /\ Len(cc) >= 1
          /\ Len(cc) = Len(called[p]) + 1 - (IF Len(called[p]) = History THEN 1 ELSE 0)
          /\ cc[Len(called[p]) + 1 - (IF Len(called[p]) = History THEN 1 ELSE 0)] = x
      BY <1>1, <1>3, RememberFacts
    <3> HIDE DEF cc
    <3>2. cc[Len(cc)] = x
      BY <3>1
    <3>3. QED
      BY <2>1, <3>1, <3>2 DEF cc
  <2>4. known[p] \in Seq(Windows) /\ Len(known[p]) >= 1
    BY <1>1, <1>3, <2>1, RememberFacts
  <2>5. QED
    BY <1>3, <1>4, <2>2, <2>3, <2>4 DEF Last
<1>5. CASE p \notin active
  <2>1. known[p] = windows[p] /\ called'[p] = called[p] /\ heard'[p] = heard[p]
    BY <1>5 DEF Listened
  <2>2. QED
    BY <1>1, <1>2, <1>5, <2>1, RemembersLater
<1>6. QED
  BY <1>4, <1>5

LEMMA KeptAreCandidates ==
    ASSUME NEW S, NEW mean
    PROVE  DropSwarms(S, mean) \subseteq S
BY DEF DropSwarms, KeptOfHost

LEMMA ListenedKeepsTrack ==
    ASSUME TrackInv, site' = site, NEW active, NEW heavy, NEW lag, NEW known, NEW new,
           Listened(active, heavy, lag, known, new)
    PROVE  TrackInv'
<1>1. /\ now \in Nat /\ now >= Start /\ now' = now + 1 /\ active \subseteq Peer
      /\ lag \in site.lags /\ Start \in Nat
  BY ParameterAssumption DEF TrackInv, TrackTypeOK, Listened
<1>2. new \subseteq active
  BY KeptAreCandidates DEF Listened
<1>3. TrackTypeOK'
  <2>1. called' \in [Peer -> Seq(Windows)]
    <3>1. called' = [p \in Peer |-> called'[p]]
      BY DEF Listened
    <3>2. \A p \in Peer : called'[p] \in Seq(Windows)
      BY Heard
    <3>3. QED
      BY <3>1, <3>2
  <2>2. windows' \in [Peer -> Seq(Windows)]
    BY DEF Listened
  <2>3. lastAlert' \in [Peer -> Nat] /\ heard' \in [Peer -> Nat] /\ alerted' \in [Peer -> Nat]
    <3>1. lastAlert \in [Peer -> Nat] /\ heard \in [Peer -> Nat] /\ alerted \in [Peer -> Nat]
      BY DEF TrackInv, TrackTypeOK
    <3>2. now' \in Nat
      BY <1>1
    <3>3. lastAlert' \in [Peer -> Nat]
      BY <3>1, <3>2 DEF Listened
    <3>4. heard' \in [Peer -> Nat]
      BY <3>1, <3>2 DEF Listened
    <3>5. alerted' \in [Peer -> Nat]
      BY <3>1, <3>2 DEF Listened
    <3>6. QED
      BY <3>3, <3>4, <3>5
  <2>4. raised' \subseteq Peer /\ site' \in Sites /\ now' \in Nat /\ now' >= Start
    <3>1. raised' = new /\ new \subseteq Peer
      BY <1>1, <1>2 DEF Listened
    <3>2. site' \in Sites
      BY DEF TrackInv, TrackTypeOK
    <3>3. QED
      BY <1>1, <3>1, <3>2
  <2>5. QED
    BY <2>1, <2>2, <2>3, <2>4 DEF TrackTypeOK
<1>4. ASSUME NEW p \in Peer PROVE PeerOK(p)'
  <2>1. /\ Len(called[p]) <= History /\ alerted[p] <= heard[p] /\ heard[p] <= now
        /\ lastAlert[p] \in {0, alerted[p]} /\ alerted[p] \in Nat /\ heard[p] \in Nat
        /\ called[p] # <<>> => \E l \in site.lags : Last(called[p]).at = heard[p] - l
    BY DEF TrackInv, TrackTypeOK, PeerOK
  <2>2. /\ windows'[p] = IF WentQuiet(known[p], now') THEN <<>> ELSE known[p]
        /\ lastAlert'[p] = IF WentQuiet(known[p], now') THEN 0
                           ELSE IF p \in new THEN now' ELSE lastAlert[p]
        /\ heard'[p] = IF p \in active THEN now' ELSE heard[p]
        /\ alerted'[p] = IF p \in new THEN now' ELSE alerted[p]
        /\ raised' = new
    BY DEF Listened
  <2>3. Remembers(called'[p], windows'[p], now')
    BY <1>1, <2>2, Heard, RemembersNothing
  <2>4. /\ alerted'[p] <= heard'[p] /\ heard'[p] <= now' /\ lastAlert'[p] \in {0, alerted'[p]}
        /\ p \in raised' => alerted'[p] = now'
    BY <1>1, <1>2, <2>1, <2>2
  <2>5. called'[p] # <<>> => \E l \in site.lags : Last(called'[p]).at = heard'[p] - l
    BY <1>1, <2>1, <2>2, Heard
  <2>6. Len(called'[p]) <= History
    BY Heard
  <2>7. Remembers(called[p], windows[p], now)'
    BY <2>3 DEF Remembers
  <2>8. QED
    BY <2>4, <2>5, <2>6, <2>7 DEF PeerOK
<1>5. QED
  BY <1>3, <1>4 DEF TrackInv

-----------------------------------------------------------------------------
(* What the tracker may do in one step, alone or with the aggregator: it   *)
(* listens, lets a tick pass, or dies.                                     *)
TrackDies ==
    /\ windows' = [p \in Peer |-> <<>>] /\ lastAlert' = [p \in Peer |-> 0]
    /\ raised' = {} /\ called' = [p \in Peer |-> <<>>]
    /\ heard' = [p \in Peer |-> 0] /\ alerted' = [p \in Peer |-> 0]
    /\ now' = now

TrackRests ==
    /\ now' = now + 1 /\ raised' = {}
    /\ UNCHANGED <<tracker, called, heard, alerted>>

TrackNext == (Listen \/ TrackRests \/ TrackDies) /\ UNCHANGED site

LEMMA TrackInit == Init => TrackInv
<1> SUFFICES ASSUME Init PROVE TrackInv
  OBVIOUS
<1> DEFINE none == <<>>
<1>1. /\ none \in Seq(Windows) /\ Len(none) = 0 /\ 1..Len(none) = {} /\ Len(none) - Len(none) = 0
      /\ 0 \in Nat
  OBVIOUS
<1>2. /\ site \in Sites /\ now = Start /\ raised = {} /\ Start \in Nat /\ History \in Nat
      /\ windows = [p \in Peer |-> none] /\ called = [p \in Peer |-> none]
      /\ lastAlert = [p \in Peer |-> 0] /\ heard = [p \in Peer |-> 0]
      /\ alerted = [p \in Peer |-> 0]
  BY ParameterAssumption DEF Init
<1> HIDE DEF none
<1>3. Remembers(none, none, now)
  BY <1>1 DEF Remembers
<1>4. TrackTypeOK
  BY <1>1, <1>2 DEF TrackTypeOK
<1>5. \A p \in Peer : PeerOK(p)
  BY <1>1, <1>2, <1>3 DEF PeerOK, none
<1>6. QED
  BY <1>4, <1>5 DEF TrackInv

LEMMA DyingKeepsTrack == ASSUME TrackInv, TrackDies, site' = site PROVE TrackInv'
<1> DEFINE none == <<>>
<1>1. /\ none \in Seq(Windows) /\ Len(none) = 0 /\ 1..Len(none) = {} /\ Len(none) - Len(none) = 0
      /\ 0 \in Nat
  OBVIOUS
<1>2. /\ site' \in Sites /\ now' \in Nat /\ now' >= Start /\ raised' = {} /\ History \in Nat
      /\ windows' = [p \in Peer |-> none] /\ called' = [p \in Peer |-> none]
      /\ lastAlert' = [p \in Peer |-> 0] /\ heard' = [p \in Peer |-> 0]
      /\ alerted' = [p \in Peer |-> 0]
  BY ParameterAssumption DEF TrackDies, TrackInv, TrackTypeOK
<1> HIDE DEF none
<1>3. \A p \in Peer : Remembers(called[p], windows[p], now)'
  BY <1>1, <1>2 DEF Remembers
<1>4. TrackTypeOK'
  BY <1>1, <1>2 DEF TrackTypeOK
<1>5. \A p \in Peer : PeerOK(p)'
  BY <1>1, <1>2, <1>3 DEF PeerOK, none
<1>6. QED
  BY <1>4, <1>5 DEF TrackInv

LEMMA RestingKeepsTrack == ASSUME TrackInv, TrackRests, site' = site PROVE TrackInv'
<1>1. now \in Nat /\ now' = now + 1
  BY DEF TrackRests, TrackInv, TrackTypeOK
<1>2. ASSUME NEW p \in Peer PROVE PeerOK(p)'
  <2>1. /\ windows[p] \in Seq(Windows) /\ called[p] \in Seq(Windows) /\ PeerOK(p)
        /\ heard[p] \in Nat
    BY DEF TrackInv, TrackTypeOK
  <2>2. Remembers(called[p], windows[p], now')
    BY <1>1, <2>1, RemembersLater DEF PeerOK
  <2>3. Remembers(called[p], windows[p], now)'
    BY <2>2 DEF Remembers, TrackRests, tracker
  <2>4. QED
    BY <1>1, <2>1, <2>3 DEF PeerOK, TrackRests, tracker
<1>3. TrackTypeOK'
  BY <1>1, ParameterAssumption DEF TrackInv, TrackTypeOK, TrackRests, tracker
<1>4. QED
  BY <1>2, <1>3 DEF TrackInv

LEMMA TrackStep == TrackInv /\ TrackNext => TrackInv'
<1> SUFFICES ASSUME TrackInv, TrackNext PROVE TrackInv'
  OBVIOUS
<1>1. CASE Listen
  BY <1>1, Listening, ListenedKeepsTrack DEF TrackNext
<1>2. QED
  BY <1>1, DyingKeepsTrack, RestingKeepsTrack DEF TrackNext

LEMMA TrackStutter == TrackInv /\ UNCHANGED vars => TrackInv'
BY DEF TrackInv, TrackTypeOK, PeerOK, Remembers, vars, tracker, ghosts

(* How the two specifications step.                                        *)
LEMMA NextIsTrackNext == ASSUME Next PROVE TrackNext
BY DEF Next, TrackNext, NoFeatures, TrackRests

LEMMA JoinedNextIsTrackNext ==
    ASSUME [JoinedNext]_all, pc = "down" => raised = {}
    PROVE  TrackNext \/ UNCHANGED vars
<1>1. CASE Score
  BY <1>1 DEF Score, TrackNext, NoFeatures, TrackRests
<1>2. CASE Die
  BY <1>2 DEF Die, TrackNext, TrackDies
<1>3. CASE StayDown
  BY <1>3 DEF StayDown, TrackNext, TrackRests, tracker, ghosts
<1>4. CASE Process \/ StartAgain \/ UNCHANGED all
  BY <1>4 DEF Process, StartAgain, all
<1>5. QED
  BY <1>1, <1>2, <1>3, <1>4 DEF JoinedNext

(* While the engine is down nothing is raised.                             *)
DownIsSilent == pc = "down" => raised = {}

LEMMA DownInit == JoinedInit => DownIsSilent
BY DEF JoinedInit, DownIsSilent, Init

LEMMA DownStep == ASSUME DownIsSilent, [JoinedNext]_all PROVE DownIsSilent'
<1>1. CASE Score
  <2>1. CASE Listen
    BY <1>1, <2>1 DEF Score, DownIsSilent, Aggregator!BeginTick, NoFeatures
  <2>2. QED
    BY <1>1, <2>1 DEF Score, DownIsSilent, NoFeatures
<1>2. CASE Process
  <2>1. pc' # "down" /\ raised' = raised
    BY <1>2 DEF Process, Aggregator!OpenNew, Aggregator!Repeat, Aggregator!FlushIncidents,
       Aggregator!WriteLine, vars, ghosts
  <2>2. QED
    BY <2>1 DEF DownIsSilent
<1>3. CASE Die \/ StayDown \/ StartAgain \/ UNCHANGED all
  BY <1>3 DEF DownIsSilent, Die, StayDown, StartAgain, all, vars, ghosts, files, Aggregator!Restart
<1>4. QED
  BY <1>1, <1>2, <1>3 DEF JoinedNext

-----------------------------------------------------------------------------
(* A metronome that calls is a candidate, with its period for a mean.      *)
LEMMA MetronomeIsEven ==
    ASSUME site' = site, NEW p \in Peer, called'[p] \in Seq(Windows), Metronome(p)'
    PROVE  /\ Even(called'[p], Period(p)')
           /\ \A lag \in site.lags : Period(p)' + lag <= IdleEvict
<1>1. Period(p)' \in Nat
  BY ParameterAssumption DEF Metronome
<1>2. QED
  BY <1>1 DEF Metronome, Even

LEMMA CallingMetronome ==
    ASSUME TrackInv, site' = site, NEW active, NEW heavy, NEW lag, NEW known, NEW new,
           Listened(active, heavy, lag, known, new), NEW p \in Peer, heard'[p] = now',
           Metronome(p)'
    PROVE  p \in active /\ known[p] = called'[p] /\ Candidate(p, known[p])
<1>1. p \in active
  <2>1. heard[p] <= now /\ heard[p] \in Nat /\ now \in Nat /\ now' = now + 1
    BY DEF TrackInv, TrackTypeOK, PeerOK, Listened
  <2>2. heard'[p] # heard[p]
    BY <2>1
  <2>3. QED
    BY <2>2, Heard
<1>2. /\ called'[p] \in Seq(Windows) /\ known[p] \in Seq(Windows) /\ known[p] # <<>>
      /\ Remembers(called'[p], known[p], now')
  BY <1>1, Heard
<1>3. Even(called'[p], Period(p)') /\ \A l \in site.lags : Period(p)' + l <= IdleEvict
  BY <1>2, MetronomeIsEven
<1>4. known[p] = called'[p]
  <2>1. site \in Sites
    BY DEF TrackInv, TrackTypeOK
  <2>2. QED
    BY <1>2, <1>3, <2>1, MetronomeRemembered
<1>5. Candidate(p, known[p])
  BY <1>3, <1>4, EvenIsCandidate
<1>6. QED
  BY <1>1, <1>4, <1>5

(* The candidates of a host are among its callers.                         *)
Callers(h) == {q \in Peer : site.hostOf[q] = h /\ heard[q] = now}

LEMMA CallersAreFinite ==
    ASSUME NEW S \in SUBSET Peer
    PROVE  IsFiniteSet(S) /\ Cardinality(S) \in Nat
BY ParameterAssumption, FS_Subset, FS_CardinalityType

LEMMA ActiveAreCallers ==
    ASSUME site' = site, NEW active, NEW heavy, NEW lag, NEW known, NEW new,
           Listened(active, heavy, lag, known, new), NEW h
    PROVE  \A k \in active : site.hostOf[k] = h => k \in Callers(h)'
BY DEF Listened, Callers

LEMMA FewAreKept ==
    ASSUME TrackInv, site' = site, NEW active, NEW heavy, NEW lag, NEW known, NEW new,
           Listened(active, heavy, lag, known, new), NEW p \in active, Candidate(p, known[p]),
           Cardinality(Callers(site.hostOf[p])') < SwarmMin
    PROVE  p \in DropSwarms({q \in active : Candidate(q, known[q])},
                            [q \in Peer |-> Mean(known[q])])
<1> DEFINE h == site.hostOf[p]
           regular == {q \in active : Candidate(q, known[q])}
           mean == [q \in Peer |-> Mean(known[q])]
           S == {k \in regular : site.hostOf[k] = h}
<1>1. S \subseteq Callers(h)' /\ Callers(h)' \subseteq Peer
  BY ActiveAreCallers DEF Callers
<1>2. Cardinality(S) \in Nat /\ Cardinality(Callers(h)') \in Nat /\ Cardinality(S) <= Cardinality(Callers(h)')
  BY <1>1, CallersAreFinite, FS_Subset
<1>3. ~(Cardinality(S) >= SwarmMin)
  BY <1>2, ParameterAssumption
<1>4. KeptOfHost(S, mean) = S
  BY <1>3 DEF KeptOfHost
<1>5. p \in S /\ p \in regular
  OBVIOUS
<1> HIDE DEF S, mean, regular
<1>6. p \in KeptOfHost(S, mean)
  BY <1>4, <1>5
<1> USE DEF S
<1>7. QED
  BY <1>5, <1>6 DEF DropSwarms, regular, mean

LEMMA LongAgo ==
    ASSUME TrackInv, now' = now + 1, NEW p \in Peer,
           alerted[p] = 0 \/ now' - alerted[p] >= Cooldown
    PROVE  Ready(p, now')
<1>1. /\ lastAlert[p] \in {0, alerted[p]} /\ now \in Nat /\ now >= Start
      /\ Start \in Nat /\ Start >= Cooldown /\ Cooldown \in Nat
  BY ParameterAssumption DEF TrackInv, TrackTypeOK, PeerOK
<1>2. QED
  BY <1>1 DEF Ready

LEMMA RaisedStep ==
    ASSUME TrackInv, TrackNext, NEW p \in Peer,
           now' # now, heard'[p] = now', Metronome(p)',
           Cardinality({q \in Peer : site.hostOf[q] = site.hostOf[p] /\ heard'[q] = now'}) < SwarmMin,
           alerted[p] = 0 \/ now' - alerted[p] >= Cooldown
    PROVE  p \in raised'
<1>1. site' = site /\ now \in Nat /\ heard[p] <= now /\ heard[p] \in Nat
  BY DEF TrackNext, TrackInv, TrackTypeOK, PeerOK
<1>2. CASE Listen
  <2>1. PICK active, heavy, lag, known, new : Listened(active, heavy, lag, known, new)
    BY <1>2, Listening
  <2>2. p \in active /\ Candidate(p, known[p])
    BY <1>1, <2>1, CallingMetronome
  <2>3. Cardinality(Callers(site.hostOf[p])') < SwarmMin
    BY <1>1 DEF Callers
  <2>4. p \in DropSwarms({q \in active : Candidate(q, known[q])}, [q \in Peer |-> Mean(known[q])])
    BY <1>1, <2>1, <2>2, <2>3, FewAreKept
  <2>5. Ready(p, now')
    BY <2>1, LongAgo DEF Listened
  <2>6. QED
    BY <2>1, <2>4, <2>5 DEF Listened
<1>3. CASE TrackRests
  <2>1. heard'[p] = heard[p] /\ now' = now + 1
    BY <1>3 DEF TrackRests
  <2>2. heard[p] # now + 1
    BY <1>1
  <2>3. QED
    BY <2>1, <2>2
<1>4. QED
  BY <1>2, <1>3 DEF TrackNext, TrackDies

(* A lone metronome is raised on the call that completes its history, and  *)
(* again once its cooldown is over, whatever the tracker forgot of it or   *)
(* of others before (beaconing.py, update).                                *)
THEOREM LoneBeaconIsRaised == Spec => EveryBeaconRaised
<1>1. TrackInv /\ [Next]_vars =>
        [\A p \in Peer :
           (/\ now' # now /\ heard'[p] = now' /\ Metronome(p)'
            /\ Cardinality({q \in Peer : site.hostOf[q] = site.hostOf[p] /\ heard'[q] = now'}) < SwarmMin
            /\ (alerted[p] = 0 \/ now' - alerted[p] >= Cooldown))
           => p \in raised']_vars
  BY RaisedStep, NextIsTrackNext
<1>2. TrackInv /\ [Next]_vars => TrackInv'
  BY TrackStep, TrackStutter, NextIsTrackNext
<1>3. QED
  BY <1>1, <1>2, TrackInit, PTL DEF Spec, EveryBeaconRaised

(* The same beside the aggregator, with an engine that dies and restarts.  *)
THEOREM LoneBeaconIsRaisedJoined == JoinedSpec => EveryBeaconRaised
<1> DEFINE I == TrackInv /\ DownIsSilent
<1>1. I /\ [JoinedNext]_all =>
        [\A p \in Peer :
           (/\ now' # now /\ heard'[p] = now' /\ Metronome(p)'
            /\ Cardinality({q \in Peer : site.hostOf[q] = site.hostOf[p] /\ heard'[q] = now'}) < SwarmMin
            /\ (alerted[p] = 0 \/ now' - alerted[p] >= Cooldown))
           => p \in raised']_vars
  BY RaisedStep, JoinedNextIsTrackNext DEF DownIsSilent
<1>2. I /\ [JoinedNext]_all => I'
  BY TrackStep, TrackStutter, DownStep, JoinedNextIsTrackNext DEF DownIsSilent
<1>3. JoinedInit => I
  BY TrackInit, DownInit DEF JoinedInit
<1>4. QED
  BY <1>1, <1>2, <1>3, PTL DEF JoinedSpec, EveryBeaconRaised

-----------------------------------------------------------------------------
(* The cooldown outlives what is forgotten, if lags are short.             *)
LEMMA ForgottenStep ==
    ASSUME LagsAreShort, TrackInv, Forgotten, TrackNext
    PROVE  Forgotten'
<1>1. CASE Listen
  <2>1. PICK active, heavy, lag, known, new : Listened(active, heavy, lag, known, new)
    BY <1>1, Listening
  <2>2. site' = site /\ site \in Sites /\ now \in Nat /\ now' = now + 1 /\ TrackInv'
    <3>1. site' = site /\ site \in Sites /\ now \in Nat
      BY DEF TrackNext, TrackInv, TrackTypeOK
    <3>2. now' = now + 1
      BY <2>1 DEF Listened
    <3>3. TrackInv'
      BY TrackStep
    <3>4. QED
      BY <3>1, <3>2, <3>3
  <2>3. ASSUME NEW p \in Peer, lastAlert'[p] # alerted'[p]
        PROVE  now' - alerted'[p] >= Cooldown
    <3>1. /\ alerted'[p] \in Nat /\ heard'[p] \in Nat /\ alerted'[p] <= heard'[p]
          /\ alerted[p] \in Nat /\ now' \in Nat
          /\ Cooldown \in Nat /\ IdleEvict \in Nat
      BY <2>2, ParameterAssumption DEF TrackInv, TrackTypeOK, PeerOK
    <3>2. CASE WentQuiet(known[p], now')
      <4>1. Remembers(called'[p], known[p], now') /\ called'[p] \in Seq(Windows) /\ known[p] \in Seq(Windows)
        BY <2>1, <2>2, Heard
      <4>2. called'[p] # <<>> /\ known[p] # <<>>
            /\ known[p][Len(known[p])] = called'[p][Len(called'[p])]
        <5>1. Len(known[p]) >= 1 /\ Len(known[p]) \in Nat /\ Len(called'[p]) \in Nat
          BY <3>2, <4>1 DEF WentQuiet
        <5>2. Len(called'[p]) - Len(known[p]) >= 0
          BY <4>1 DEF Remembers
        <5>3. known[p][Len(known[p])] = called'[p][Len(known[p]) + (Len(called'[p]) - Len(known[p]))]
          <6>1. Len(known[p]) \in 1..Len(known[p])
            BY <5>1
          <6>2. QED
            BY <4>1, <6>1 DEF Remembers
        <5>4. Len(known[p]) + (Len(called'[p]) - Len(known[p])) = Len(called'[p])
          BY <5>1
        <5>5. QED
          BY <5>1, <5>2, <5>3, <5>4
      <4>3. called'[p][Len(called'[p])].at < now' - IdleEvict
        BY <3>2, <4>2 DEF WentQuiet, Last
      <4>4. PICK l \in site.lags : called'[p][Len(called'[p])].at = heard'[p] - l
        BY <2>2, <4>2 DEF TrackInv, PeerOK, Last
      <4>5. l \in Nat /\ l + Cooldown <= IdleEvict
        BY <2>2, ParameterAssumption DEF LagsAreShort
      <4>6. heard'[p] - l < now' - IdleEvict
        BY <4>3, <4>4
      <4>7. QED
        BY <3>1, <4>5, <4>6
    <3>3. CASE ~WentQuiet(known[p], now')
      <4>1. p \notin new /\ lastAlert'[p] = lastAlert[p] /\ alerted'[p] = alerted[p]
        BY <2>1, <2>3, <3>3 DEF Listened
      <4>2. now - alerted[p] >= Cooldown
        BY <2>3, <4>1 DEF Forgotten
      <4>3. QED
        BY <2>2, <3>1, <4>1, <4>2
    <3>4. QED
      BY <3>2, <3>3
  <2>4. QED
    BY <2>3 DEF Forgotten
<1>2. CASE TrackRests
  BY <1>2, ParameterAssumption DEF TrackRests, tracker, Forgotten, TrackInv, TrackTypeOK
<1>3. CASE TrackDies
  BY <1>3 DEF TrackDies, Forgotten
<1>4. QED
  BY <1>1, <1>2, <1>3 DEF TrackNext

LEMMA RepeatStep ==
    ASSUME TrackInv, Forgotten, TrackNext, now' # now, NEW p \in raised'
    PROVE  alerted[p] = 0 \/ now' - alerted[p] >= Cooldown
<1>1. CASE Listen
  <2>1. PICK active, heavy, lag, known, new : Listened(active, heavy, lag, known, new)
    BY <1>1, Listening
  <2>2. p \in Peer /\ Ready(p, now') /\ now' = now + 1
    BY <2>1, KeptAreCandidates DEF Listened
  <2>3. CASE lastAlert[p] = alerted[p]
    BY <2>2, <2>3 DEF Ready
  <2>4. CASE lastAlert[p] # alerted[p]
    <3>1. now - alerted[p] >= Cooldown /\ now \in Nat /\ alerted[p] \in Nat /\ Cooldown \in Nat
      BY <2>2, <2>4, ParameterAssumption DEF Forgotten, TrackInv, TrackTypeOK
    <3>2. QED
      BY <2>2, <3>1
  <2>5. QED
    BY <2>3, <2>4
<1>2. QED
  BY <1>1 DEF TrackNext, TrackRests, TrackDies

LEMMA ForgottenInit == Init => Forgotten
BY DEF Init, Forgotten

LEMMA ForgottenStutter == Forgotten /\ UNCHANGED vars => Forgotten'
BY DEF Forgotten, vars, tracker, ghosts

(* The same beacon is not raised again within its cooldown, although the   *)
(* alert is forgotten with the peer (beaconing.py, _alert_from_stats and   *)
(* _evict).                                                                *)
THEOREM CooldownIsKept ==
    ASSUME LagsAreShort
    PROVE  Spec => NoRepeatWithinCooldown
<1> DEFINE I == TrackInv /\ Forgotten
<1>1. I /\ [Next]_vars =>
        [\A p \in raised' : now' # now => alerted[p] = 0 \/ now' - alerted[p] >= Cooldown]_vars
  BY RepeatStep, NextIsTrackNext
<1>2. I /\ [Next]_vars => I'
  BY TrackStep, TrackStutter, ForgottenStep, ForgottenStutter, NextIsTrackNext
<1>3. Init => I
  BY TrackInit, ForgottenInit
<1>4. QED
  BY <1>1, <1>2, <1>3, PTL DEF Spec, NoRepeatWithinCooldown

(* The same for a tracker that also forgets with the engine: an engine     *)
(* that dies starts its cooldowns afresh.                                  *)
THEOREM CooldownIsKeptJoined ==
    ASSUME LagsAreShort
    PROVE  JoinedSpec => NoRepeatWithinCooldown
<1> DEFINE I == TrackInv /\ Forgotten /\ DownIsSilent
<1>1. I /\ [JoinedNext]_all =>
        [\A p \in raised' : now' # now => alerted[p] = 0 \/ now' - alerted[p] >= Cooldown]_vars
  BY RepeatStep, JoinedNextIsTrackNext DEF DownIsSilent
<1>2. I /\ [JoinedNext]_all => I'
  BY TrackStep, TrackStutter, ForgottenStep, ForgottenStutter, DownStep, JoinedNextIsTrackNext
     DEF DownIsSilent
<1>3. JoinedInit => I
  BY TrackInit, ForgottenInit, DownInit DEF JoinedInit
<1>4. QED
  BY <1>1, <1>2, <1>3, PTL DEF JoinedSpec, NoRepeatWithinCooldown

-----------------------------------------------------------------------------
(* Metronomes in step: all of them are candidates, with one mean.          *)
LEMMA InStepAreMetronomes ==
    ASSUME NEW p \in Peer, NEW q \in Peer, called'[q] = called'[p], Metronome(p)'
    PROVE  Metronome(q)'
BY DEF Metronome, Period

LEMMA SwarmIsDropped ==
    ASSUME TrackInv, Listen, site' = site, NEW p \in raised', Metronome(p)',
           NEW T, T = {q \in Callers(site.hostOf[p])' : called'[q] = called'[p]},
           Cardinality(T) >= SwarmMin,
           2 * Cardinality(T) > Cardinality(Callers(site.hostOf[p])')
    PROVE  FALSE
<1>1. PICK active, heavy, lag, known, new : Listened(active, heavy, lag, known, new)
  BY Listening
<1> DEFINE h == site.hostOf[p]
           regular == {q \in active : Candidate(q, known[q])}
           mean == [q \in Peer |-> Mean(known[q])]
           S == {k \in regular : site.hostOf[k] = h}
           C == Callers(h)'
           a == Mean(called'[p])
<1>2. /\ active \subseteq Peer /\ raised' = new /\ p \in DropSwarms(regular, mean) /\ p \in active
      /\ p \in Peer /\ heard'[p] = now'
  <2>1. active \subseteq Peer /\ raised' = new /\ p \in DropSwarms(regular, mean)
    BY <1>1 DEF Listened
  <2>2. p \in active
    BY <2>1, KeptAreCandidates
  <2>3. QED
    BY <1>1, <2>1, <2>2 DEF Listened
<1>3. C \subseteq Peer /\ S \subseteq C /\ T \subseteq C
  BY <1>1, ActiveAreCallers DEF Callers
<1>4. ASSUME NEW q \in T PROVE q \in S /\ mean[q] = a
  <2>1. q \in Peer /\ heard'[q] = now' /\ site.hostOf[q] = h /\ called'[q] = called'[p]
    BY DEF Callers
  <2>2. Metronome(q)'
    BY <1>2, <2>1, InStepAreMetronomes
  <2>3. q \in active /\ known[q] = called'[q] /\ Candidate(q, known[q])
    BY <1>1, <2>1, <2>2, CallingMetronome
  <2>4. QED
    BY <2>1, <2>3
<1>5. p \in T
  BY <1>2 DEF Callers
<1>6. \A k \in S : mean[k] \in Fractions
  <2>1. \A k \in Peer : known[k] \in Seq(Windows)
    BY <1>1 DEF Listened
  <2>2. QED
    BY <1>2, <2>1, MeansAreFractions
<1>7. a \in Fractions
  BY <1>4, <1>5, <1>6
<1>8. IsFiniteSet(S) /\ Cardinality(S) \in Nat /\ Cardinality(C) \in Nat /\ Cardinality(S) <= Cardinality(C)
      /\ Cardinality(T) \in Nat
  <2>1. IsFiniteSet(C) /\ Cardinality(C) \in Nat
    BY <1>3, CallersAreFinite
  <2>2. S \in SUBSET Peer /\ T \in SUBSET Peer
    BY <1>3
  <2> HIDE DEF S, C
  <2>3. IsFiniteSet(S) /\ Cardinality(S) \in Nat /\ Cardinality(T) \in Nat
    BY <2>2, CallersAreFinite
  <2>4. Cardinality(S) <= Cardinality(C)
    BY <1>3, <2>1, FS_Subset
  <2>5. QED
    BY <2>1, <2>3, <2>4
<1>9. 2 * Cardinality(T) > Cardinality(S)
  <2> HIDE DEF S
  <2>1. 2 * Cardinality(T) > Cardinality(C)
    OBVIOUS
  <2> HIDE DEF C
  <2>2. QED
    BY <1>8, <2>1
<1>10. KeptOfHost(S, mean) \cap T = {}
  <2>1. T \in SUBSET S /\ \A k \in T : mean[k] = a
    BY <1>4
  <2> HIDE DEF S, mean, a
  <2>2. QED
    BY <1>6, <1>7, <1>8, <1>9, <2>1, MajorityIsDropped
<1>11. p \in KeptOfHost(S, mean)
  <2> HIDE DEF mean
  <2>1. PICK g \in {site.hostOf[k] : k \in regular} :
            p \in KeptOfHost({k \in regular : site.hostOf[k] = g}, mean)
    BY <1>2 DEF DropSwarms
  <2>2. p \in {k \in regular : site.hostOf[k] = g}
    BY <2>1 DEF KeptOfHost
  <2>3. g = h
    BY <2>2
  <2>4. QED
    BY <2>1, <2>3
<1>12. QED
  BY <1>5, <1>10, <1>11

LEMMA SwarmStep ==
    ASSUME TrackInv, SwarmInStepDropped, TrackNext
    PROVE  SwarmInStepDropped'
<1>1. CASE Listen
  <2>1. ASSUME NEW p \in raised', Metronome(p)'
        PROVE  LET callers == {q \in Peer : site.hostOf[q] = site.hostOf[p] /\ heard[q] = now}
                   inStep  == {q \in callers : called[q] = called[p]}
               IN  (Cardinality(inStep) < SwarmMin \/ 2 * Cardinality(inStep) <= Cardinality(callers))'
    <3> DEFINE C == Callers(site.hostOf[p])'
               T == {q \in C : called'[q] = called'[p]}
    <3>1. Cardinality(C) \in Nat /\ Cardinality(T) \in Nat /\ SwarmMin \in Nat
      <4>1. C \in SUBSET Peer /\ T \in SUBSET Peer
        BY DEF Callers
      <4>2. QED
        BY <4>1, CallersAreFinite, ParameterAssumption
    <3>2. ~(Cardinality(T) >= SwarmMin /\ 2 * Cardinality(T) > Cardinality(C))
      BY <1>1, <2>1, SwarmIsDropped DEF TrackNext
    <3>3. C = {q \in Peer : site'.hostOf[q] = site'.hostOf[p] /\ heard'[q] = now'}
      BY DEF Callers, TrackNext
    <3>4. Cardinality(T) < SwarmMin \/ 2 * Cardinality(T) <= Cardinality(C)
      <4> HIDE DEF C, T
      <4>1. QED
        BY <3>1, <3>2
    <3>5. QED
      BY <3>3, <3>4
  <2>2. QED
    BY <2>1 DEF SwarmInStepDropped
<1>2. CASE TrackRests \/ TrackDies
  BY <1>2 DEF TrackRests, TrackDies, SwarmInStepDropped
<1>3. QED
  BY <1>1, <1>2 DEF TrackNext

LEMMA SwarmInit == Init => SwarmInStepDropped
BY DEF Init, SwarmInStepDropped

LEMMA SwarmStutter == SwarmInStepDropped /\ UNCHANGED vars => SwarmInStepDropped'
BY DEF SwarmInStepDropped, Metronome, Period, vars, tracker, ghosts

(* A swarm in step that is most of its host's callers is never raised      *)
(* (beaconing.py, _drop_swarms).                                           *)
THEOREM SwarmIsSilent == Spec => []SwarmInStepDropped
<1> DEFINE I == TrackInv /\ SwarmInStepDropped
<1>1. I /\ [Next]_vars => I'
  BY TrackStep, TrackStutter, SwarmStep, SwarmStutter, NextIsTrackNext
<1>2. Init => I
  BY TrackInit, SwarmInit
<1>3. QED
  BY <1>1, <1>2, PTL DEF Spec

(* The same through deaths and restarts of the engine.                     *)
THEOREM SwarmIsSilentJoined == JoinedSpec => []SwarmInStepDropped
<1> DEFINE I == TrackInv /\ SwarmInStepDropped /\ DownIsSilent
<1>1. I /\ [JoinedNext]_all => I'
  BY TrackStep, TrackStutter, SwarmStep, SwarmStutter, DownStep, JoinedNextIsTrackNext
     DEF DownIsSilent
<1>2. JoinedInit => I
  BY TrackInit, SwarmInit, DownInit DEF JoinedInit
<1>3. QED
  BY <1>1, <1>2, PTL DEF JoinedSpec

-----------------------------------------------------------------------------
(* The aggregator behind the tracker.  Every alert has the key of its peer.*)
Queued(p) == \E i \in DOMAIN queue : queue[i].dst = p
Emitted(p) == {l \in out : l.key = KeyOf(p)}
Indexed(p) == byKey[KeyOf(p)] \in DOMAIN open
Incident(p) == open[byKey[KeyOf(p)]]

IncidentsOK(f, n) ==
    /\ DOMAIN f \subseteq Aggregator!Id
    /\ \A i \in DOMAIN f :
          /\ i.n <= n /\ f[i].key \in Aggregator!Key
          /\ f[i].lastSeen \in Nat /\ f[i].lastEmitted \in Nat /\ f[i].lastEmitted <= now
    /\ \A i, j \in DOMAIN f : f[i].key = f[j].key => i = j

FilesOK ==
    /\ pc \in {"idle", "handle", "write", "down"}
    /\ started \in Nat /\ started <= now
    /\ seq \in Nat /\ disk.seq \in Nat
    /\ IncidentsOK(open, seq) /\ IncidentsOK(disk.open, disk.seq)
    /\ byKey \in [Aggregator!Key -> Aggregator!Id \cup {NoId}]
    /\ \A k \in Aggregator!Key :
          byKey[k] # NoId => byKey[k] \in DOMAIN open /\ open[byKey[k]].key = k
    /\ \A i \in DOMAIN open : byKey[open[i].key] = i
    /\ DOMAIN lines = Aggregator!Key
    /\ \A k \in Aggregator!Key : lines[k].at \in Int /\ lines[k].at <= now
    /\ pc = "handle" => \A i \in DOMAIN open : now - open[i].lastSeen <= IncidentWindow

(* What a tick has still to do: alerts of different peers that were raised *)
(* in it, and lines of its time, one for a key.                            *)
TickOK ==
    /\ queue \in Seq(BeaconAlerts)
    /\ pc # "handle" => queue = <<>>
    /\ pc \in {"idle", "down"} => out = {}
    /\ \A i \in DOMAIN queue : queue[i].dst \in raised
    /\ \A i, j \in DOMAIN queue : queue[i].dst = queue[j].dst => i = j
    /\ \A l \in out : l.key \in Aggregator!Key /\ l.at = now
    /\ \A l, m \in out : l.key = m.key => l = m
    /\ \A l \in out : \A i \in DOMAIN queue : l.key # KeyOf(queue[i].dst)

(* The incident of a peer was last emitted before this engine started or   *)
(* no later than the peer was raised; and while an alert of the peer waits *)
(* to be handled, a cooldown ago.                                          *)
EmissionOK(p) ==
    Indexed(p) =>
        \/ Incident(p).lastEmitted <= started
        \/ /\ Incident(p).lastEmitted <= alerted[p]
           /\ Queued(p) => now - Incident(p).lastEmitted >= Cooldown

(* What becomes of a peer that is raised.                                  *)
Quietened(p) ==
    /\ Indexed(p) /\ Incident(p).lastEmitted <= started
    /\ now - Incident(p).lastEmitted < QuietPeriod

AnnouncedOK(p) ==
    p \in raised => \/ Queued(p) \/ Emitted(p) # {}
                    \/ lines[KeyOf(p)].at = now \/ Quietened(p)

AnnounceInv ==
    /\ FilesOK /\ TickOK
    /\ pc # "down" => \A p \in Peer : EmissionOK(p) /\ AnnouncedOK(p)

(* The last line of a peer in this engine's life, and the incident it is   *)
(* about.  Emission after emission, that is the incident of its last alert,*)
(* open for as long as a repeat would continue it.                         *)
LastLineOK(p) ==
    LET b == lines[KeyOf(p)]
    IN  b.at > started =>
          /\ b.id \in Aggregator!Id /\ b.id.n <= seq
          /\ Emitted(p) = {} =>
               /\ Indexed(p) => /\ byKey[KeyOf(p)] = b.id
                                /\ Incident(p).lastSeen = b.at /\ Incident(p).lastEmitted = b.at
               /\ IF Queued(p) THEN now - b.at >= Cooldown /\ (now - b.at = Cooldown => Indexed(p))
                  ELSE b.at = alerted[p] /\ (now - b.at <= Cooldown => Indexed(p))

LineToComeOK(p) ==
    \A l \in Emitted(p) :
        LET b == lines[KeyOf(p)]
        IN  /\ alerted[p] = now
            /\ Indexed(p) /\ byKey[KeyOf(p)] = l.id
            /\ Incident(p).lastSeen = now /\ Incident(p).lastEmitted = now
            /\ b.at > started => b.at # now /\ (l.id = b.id <=> now - b.at = Cooldown)

DotInv == pc # "down" => \A p \in Peer : LastLineOK(p) /\ LineToComeOK(p)

(* Names.                                                                  *)
LEMMA Keys ==
    /\ \A p, q \in Peer : KeyOf(p) = KeyOf(q) => p = q
    /\ \A p \in Peer : KeyOf(p)[4] = p
    /\ Aggregator!Key = {KeyOf(p) : p \in Peer}
    /\ \A p \in Peer : \A s \in {1, 2} : AlertOf(p, s) \in BeaconAlerts /\ AlertOf(p, s).dst = p
    /\ \A a \in BeaconAlerts :
          /\ a.dst \in Peer /\ Aggregator!AggKey(a) = KeyOf(a.dst)
          /\ Aggregator!EntityOf(a) \in Aggregator!Entity
<1>1. \A p : \A s : AlertOf(p, s).subtype = "periodic_beacon" /\ AlertOf(p, s).class = "c2_beaconing"
                    /\ AlertOf(p, s).flow = p /\ AlertOf(p, s).dst = p
  BY DEF AlertOf
<1>2. "periodic_beacon" \notin Aggregator!Floodish /\ "periodic_beacon" \notin Aggregator!Scans
  BY DEF Aggregator!Floodish, Aggregator!Scans
<1>3. \A a : a.subtype = "periodic_beacon" =>
        Aggregator!AggKey(a) = <<"flow", a.class, a.subtype, a.flow>>
  BY <1>2 DEF Aggregator!AggKey
<1>4. \A p : \A s : Aggregator!AggKey(AlertOf(p, s)) = <<"flow", "c2_beaconing", "periodic_beacon", p>>
  BY <1>1, <1>3
<1>5. \A p : KeyOf(p) = <<"flow", "c2_beaconing", "periodic_beacon", p>>
  BY <1>4 DEF KeyOf
<1>6. \A p : KeyOf(p)[4] = p
  BY <1>5
<1>7. \A p \in Peer : \A s \in {1, 2} : AlertOf(p, s) \in BeaconAlerts
  BY DEF BeaconAlerts
<1>8. \A a \in BeaconAlerts : a.dst \in Peer /\ Aggregator!AggKey(a) = KeyOf(a.dst)
  <2>1. TAKE a \in BeaconAlerts
  <2>2. PICK p \in Peer, s \in {1, 2} : a = AlertOf(p, s)
    BY DEF BeaconAlerts
  <2>3. QED
    BY <1>1, <1>4, <1>5, <2>2
<1>9. Aggregator!Alert = BeaconAlerts
  BY DEF Aggregator!Alert
<1>10. Aggregator!Key = {KeyOf(p) : p \in Peer}
  <2>1. \A p \in Peer : KeyOf(p) = Aggregator!AggKey(AlertOf(p, 1)) /\ AlertOf(p, 1) \in BeaconAlerts
    BY <1>7 DEF KeyOf
  <2>2. QED
    BY <1>8, <1>9, <2>1 DEF Aggregator!Key
<1>11. \A a \in BeaconAlerts : Aggregator!EntityOf(a) \in Aggregator!Entity
  BY <1>9 DEF Aggregator!Entity
<1>12. QED
  BY <1>1, <1>6, <1>7, <1>8, <1>10, <1>11

(* A finite set as a sequence.                                             *)
LEMMA SequenceOfSet ==
    ASSUME NEW S, IsFiniteSet(S)
    PROVE  /\ SetToSeq(S) \in Seq(S)
           /\ \A x \in S : \E i \in DOMAIN SetToSeq(S) : SetToSeq(S)[i] = x
           /\ \A i, j \in DOMAIN SetToSeq(S) : SetToSeq(S)[i] = SetToSeq(S)[j] => i = j
<1> DEFINE n == Cardinality(S)
           f == SetToSeq(S)
<1>1. n \in Nat /\ ExistsBijection(1..n, S)
  BY FS_CardinalityType
<1>2. PICK g : g \in Bijection(1..n, S)
  BY <1>1 DEF ExistsBijection
<1>3. g \in [1..n -> S] /\ IsInjective(g)
  BY <1>2 DEF Bijection, Injection, IsInjective
<1>4. f \in [1..n -> S] /\ IsInjective(f)
  BY <1>3 DEF SetToSeq
<1> HIDE DEF f
<1>5. f \in Injection(1..n, S)
  BY <1>4 DEF Injection, IsInjective
<1>6. f \in Surjection(1..n, S)
  <2>1. IsFiniteSet(1..n) /\ Cardinality(1..n) = n
    BY <1>1, FS_Interval
  <2>2. QED
    BY <1>5, <2>1, FS_Injection
<1>7. f \in Seq(S) /\ DOMAIN f = 1..n
  BY <1>1, <1>4
<1>8. QED
  BY <1>4, <1>6, <1>7 DEF Surjection, IsInjective, f

-----------------------------------------------------------------------------
(* What the two ways of handling the alert at the head of the queue, the   *)
(* one of peer q, come to.                                                 *)
Heading(q) ==
    /\ pc = "handle" /\ pc' = "handle" /\ queue # <<>> /\ queue' = Tail(queue)
    /\ q \in Peer /\ q = Head(queue).dst
    /\ lines' = lines /\ disk' = disk

Opened(q, iid, st, l) ==
    /\ ~Indexed(q) /\ iid \in Aggregator!Id /\ iid.n = seq + 1 /\ seq' = seq + 1
    /\ open' = [i \in DOMAIN open \cup {iid} |-> IF i = iid THEN st ELSE open[i]]
    /\ st.key = KeyOf(q) /\ st.lastSeen = now /\ st.lastEmitted = now
    /\ byKey' = [byKey EXCEPT ![KeyOf(q)] = iid]
    /\ out' = out \cup {l}
    /\ l.id = iid /\ l.key = KeyOf(q) /\ l.at = now

Repeated(q, iid, st) ==
    /\ Indexed(q) /\ iid = byKey[KeyOf(q)] /\ seq' = seq /\ byKey' = byKey
    /\ now - open[iid].lastSeen <= IncidentWindow
    /\ open' = [open EXCEPT ![iid] = st]
    /\ st.key = KeyOf(q) /\ st.lastSeen = now
    /\ \/ /\ st.lastEmitted = now
          /\ \E l : /\ out' = out \cup {l}
                    /\ l.id = iid /\ l.key = KeyOf(q) /\ l.at = now
       \/ /\ now - open[iid].lastEmitted < QuietPeriod
          /\ st.lastEmitted = open[iid].lastEmitted /\ out' = out

LEMMA HeadOfQueue ==
    ASSUME TickOK, queue # <<>>
    PROVE  /\ Head(queue) \in BeaconAlerts /\ Head(queue).dst \in Peer
           /\ Aggregator!AggKey(Head(queue)) = KeyOf(Head(queue).dst)
           /\ Aggregator!EntityOf(Head(queue)) \in Aggregator!Entity
           /\ KeyOf(Head(queue).dst) \in Aggregator!Key
<1>1. Head(queue) \in BeaconAlerts
  BY HeadTailProperties DEF TickOK
<1>2. QED
  BY <1>1, Keys

LEMMA OpeningNew ==
    ASSUME FilesOK, TickOK, now \in Nat, Aggregator!OpenNew
    PROVE  \E q, iid, st, l : Heading(q) /\ Opened(q, iid, st, l)
<1> DEFINE a   == Head(queue)
           q   == a.dst
           st  == Aggregator!NewState(a)
           iid == [n |-> seq + 1, entity |-> st.entity]
           l   == Aggregator!Line(iid, st, a, {"new"}, Aggregator!Related(iid, a, st.classes))
<1>1. pc = "handle" /\ queue # <<>> /\ queue' = Tail(queue) /\ pc' = pc /\ lines' = lines
      /\ disk' = disk
  BY DEF Aggregator!OpenNew, Aggregator!history
<1>2. a \in BeaconAlerts /\ q \in Peer /\ Aggregator!AggKey(a) = KeyOf(q)
      /\ Aggregator!EntityOf(a) \in Aggregator!Entity /\ KeyOf(q) \in Aggregator!Key
  BY <1>1, HeadOfQueue
<1>3. st.key = KeyOf(q) /\ st.lastSeen = now /\ st.lastEmitted = now
      /\ st.entity \in Aggregator!Entity
  BY <1>2 DEF Aggregator!NewState
<1>4. l.id = iid /\ l.key = KeyOf(q) /\ l.at = now
  BY <1>3 DEF Aggregator!Line
<1>5. /\ ~Aggregator!Live(st.key) /\ seq' = seq + 1
      /\ open' = [i \in DOMAIN open \cup {iid} |-> IF i = iid THEN st ELSE open[i]]
      /\ byKey' = [byKey EXCEPT ![st.key] = iid]
      /\ out' = out \cup {l}
  BY DEF Aggregator!OpenNew
<1>6. iid \in Aggregator!Id /\ iid.n = seq + 1
  BY <1>3 DEF FilesOK, Aggregator!Id
<1> HIDE DEF a, st, iid, l
<1>7. ~Indexed(q)
  <2>1. SUFFICES ASSUME Indexed(q) PROVE FALSE
    OBVIOUS
  <2>2. ~(now - open[byKey[KeyOf(q)]].lastSeen <= IncidentWindow)
    BY <1>3, <1>5, <2>1 DEF Aggregator!Live, Indexed
  <2>3. QED
    BY <1>1, <2>1, <2>2 DEF FilesOK, Indexed
<1>8. Heading(q)
  BY <1>1, <1>2 DEF Heading, a
<1>9. Opened(q, iid, st, l)
  BY <1>3, <1>4, <1>5, <1>6, <1>7 DEF Opened
<1>10. QED
  BY <1>8, <1>9

LEMMA Repeating ==
    ASSUME FilesOK, TickOK, now \in Nat, Aggregator!Repeat
    PROVE  \E q, iid, st : Heading(q) /\ Repeated(q, iid, st)
<1> DEFINE a   == Head(queue)
           q   == a.dst
           iid == byKey[Aggregator!AggKey(a)]
           old == open[iid]
           Folded(emitted) == Aggregator!Merged(old, a, emitted)
           reasons == IF Aggregator!EscalationReasons(old, a) = {} THEN {"continuation"}
                      ELSE Aggregator!EscalationReasons(old, a)
           l == Aggregator!Line(iid, Folded(now), a, reasons,
                                Aggregator!Related(iid, a, Folded(now).classes))
<1>1. pc = "handle" /\ queue # <<>> /\ queue' = Tail(queue) /\ pc' = pc /\ lines' = lines
      /\ disk' = disk /\ seq' = seq /\ byKey' = byKey
  BY DEF Aggregator!Repeat, Aggregator!history
<1>2. a \in BeaconAlerts /\ q \in Peer /\ Aggregator!AggKey(a) = KeyOf(q) /\ KeyOf(q) \in Aggregator!Key
  BY <1>1, HeadOfQueue
<1>3. Aggregator!Live(KeyOf(q))
  BY <1>2 DEF Aggregator!Repeat
<1>4. Indexed(q) /\ now - open[iid].lastSeen <= IncidentWindow /\ iid = byKey[KeyOf(q)]
      /\ iid \in DOMAIN open
  BY <1>2, <1>3 DEF Aggregator!Live, Indexed
<1>5. old.key = KeyOf(q)
  <2>1. byKey[KeyOf(q)] # NoId
    BY <1>4, NoIdAssumption DEF FilesOK, IncidentsOK
  <2>2. QED
    BY <1>2, <1>4, <2>1 DEF FilesOK
<1>6. ASSUME NEW e PROVE Folded(e).key = KeyOf(q) /\ Folded(e).lastSeen = now /\ Folded(e).lastEmitted = e
  BY <1>5 DEF Aggregator!Merged, Aggregator!MergedWith
<1>7. l.id = iid /\ l.key = KeyOf(q) /\ l.at = now
  BY <1>6 DEF Aggregator!Line
<1>8. \/ /\ open' = [open EXCEPT ![iid] = Folded(now)]
         /\ out' = out \cup {l}
      \/ /\ open' = [open EXCEPT ![iid] = Folded(old.lastEmitted)]
         /\ ~(now - old.lastEmitted >= QuietPeriod) /\ out' = out
  BY DEF Aggregator!Repeat
<1>9. Heading(q)
  BY <1>1, <1>2 DEF Heading
<1> HIDE DEF a, iid, Folded, l
<1>10. CASE /\ open' = [open EXCEPT ![iid] = Folded(now)]
            /\ out' = out \cup {l}
  <2>1. Repeated(q, iid, Folded(now))
    BY <1>1, <1>4, <1>6, <1>7, <1>10 DEF Repeated
  <2>2. QED
    BY <1>9, <2>1
<1>11. CASE /\ open' = [open EXCEPT ![iid] = Folded(old.lastEmitted)]
            /\ ~(now - old.lastEmitted >= QuietPeriod) /\ out' = out
  <2>1. old.lastEmitted \in Nat /\ QuietPeriod \in Nat
    BY <1>4, PacingAssumption, ParameterAssumption DEF FilesOK, IncidentsOK
  <2>2. now - open[iid].lastEmitted < QuietPeriod
    BY <1>11, <2>1
  <2>3. Repeated(q, iid, Folded(old.lastEmitted))
    BY <1>1, <1>4, <1>6, <1>11, <2>2 DEF Repeated
  <2>4. QED
    BY <1>9, <2>3
<1>12. QED
  BY <1>8, <1>10, <1>11

-----------------------------------------------------------------------------
(* The files and the indexes.                                              *)
LEMMA OpenedFiles ==
    ASSUME FilesOK, TickOK, now \in Nat, UNCHANGED <<now, started>>,
           NEW q, NEW iid, NEW st, NEW l, Heading(q), Opened(q, iid, st, l)
    PROVE  FilesOK'
<1>1. /\ DOMAIN open' = DOMAIN open \cup {iid} /\ open'[iid] = st
      /\ \A i \in DOMAIN open : i # iid => open'[i] = open[i]
      /\ q \in Peer /\ KeyOf(q) \in Aggregator!Key /\ seq \in Nat /\ seq' = seq + 1
  BY Keys DEF Opened, Heading, FilesOK
<1>2. iid \notin DOMAIN open
  <2>1. \A i \in DOMAIN open : i.n <= seq /\ i.n \in Nat
    BY DEF FilesOK, IncidentsOK, Aggregator!Id
  <2>2. iid.n = seq + 1
    BY DEF Opened
  <2>3. QED
    BY <1>1, <2>1, <2>2
<1>3. /\ byKey'[KeyOf(q)] = iid
      /\ \A k \in Aggregator!Key : k # KeyOf(q) => byKey'[k] = byKey[k]
      /\ byKey' \in [Aggregator!Key -> Aggregator!Id \cup {NoId}]
  BY <1>1 DEF Opened, FilesOK
<1>4. \A i \in DOMAIN open : open[i].key # KeyOf(q) /\ open'[i] = open[i]
  BY <1>1, <1>2 DEF Opened, FilesOK, Indexed
<1>5. IncidentsOK(open', seq')
  <2>1. \A i \in DOMAIN open : i.n \in Nat /\ i.n <= seq
    BY DEF FilesOK, IncidentsOK, Aggregator!Id
  <2>2. \A i \in DOMAIN open' : i.n <= seq'
    BY <1>1, <2>1 DEF Opened
  <2>3. DOMAIN open' \subseteq Aggregator!Id
    BY <1>1 DEF Opened, FilesOK, IncidentsOK
  <2>4. \A i \in DOMAIN open' :
            /\ open'[i].key \in Aggregator!Key /\ open'[i].lastSeen \in Nat
            /\ open'[i].lastEmitted \in Nat /\ open'[i].lastEmitted <= now
    BY <1>1, <1>4 DEF Opened, FilesOK, IncidentsOK
  <2>5. \A i, j \in DOMAIN open' : open'[i].key = open'[j].key => i = j
    BY <1>1, <1>4 DEF Opened, FilesOK, IncidentsOK
  <2>6. QED
    BY <2>2, <2>3, <2>4, <2>5 DEF IncidentsOK
<1>6. \A k \in Aggregator!Key : byKey'[k] # NoId => byKey'[k] \in DOMAIN open' /\ open'[byKey'[k]].key = k
  BY <1>1, <1>3, <1>4 DEF FilesOK, Opened
<1>7. \A i \in DOMAIN open' : byKey'[open'[i].key] = i
  <2>1. \A i \in DOMAIN open : open[i].key \in Aggregator!Key /\ byKey[open[i].key] = i
    BY DEF FilesOK, IncidentsOK
  <2>2. QED
    BY <1>1, <1>3, <1>4, <2>1 DEF Opened
<1>8. \A i \in DOMAIN open' : now - open'[i].lastSeen <= IncidentWindow
  <2>1. now - now <= IncidentWindow
    BY PacingAssumption, ParameterAssumption
  <2>2. QED
    BY <1>1, <1>4, <2>1 DEF Opened, Heading, FilesOK
<1>9. IncidentsOK(open, seq)' /\ IncidentsOK(disk.open, disk.seq)'
  BY <1>5 DEF FilesOK, IncidentsOK, Heading
<1>10. QED
  BY <1>1, <1>3, <1>5, <1>6, <1>7, <1>8 DEF FilesOK, IncidentsOK, Heading

LEMMA RepeatedFiles ==
    ASSUME FilesOK, TickOK, now \in Nat, UNCHANGED <<now, started>>,
           NEW q, NEW iid, NEW st, Heading(q), Repeated(q, iid, st)
    PROVE  FilesOK'
<1>1. /\ DOMAIN open' = DOMAIN open /\ iid \in DOMAIN open /\ open'[iid] = st
      /\ \A i \in DOMAIN open : i # iid => open'[i] = open[i]
      /\ open[iid].key = KeyOf(q) /\ seq' = seq /\ byKey' = byKey
  <2>1. iid \in DOMAIN open /\ iid = byKey[KeyOf(q)] /\ KeyOf(q) \in Aggregator!Key
    BY Keys DEF Repeated, Indexed, Heading
  <2>2. iid # NoId
    BY <2>1, NoIdAssumption DEF FilesOK, IncidentsOK
  <2>3. QED
    BY <2>1, <2>2 DEF Repeated, FilesOK
<1>2. st.key = KeyOf(q) /\ st.lastSeen = now /\ st.lastEmitted \in Nat /\ st.lastEmitted <= now
  BY <1>1 DEF Repeated, FilesOK, IncidentsOK
<1>3. \A i \in DOMAIN open : open'[i].key = open[i].key
  BY <1>1, <1>2
<1>4. IncidentsOK(open', seq')
  BY <1>1, <1>2, <1>3 DEF FilesOK, IncidentsOK
<1>5. now - now <= IncidentWindow
  BY PacingAssumption, ParameterAssumption
<1>6. \A i \in DOMAIN open' : now - open'[i].lastSeen <= IncidentWindow
  BY <1>1, <1>2, <1>5 DEF Heading, FilesOK
<1>7. /\ \A k \in Aggregator!Key : byKey'[k] # NoId => byKey'[k] \in DOMAIN open' /\ open'[byKey'[k]].key = k
      /\ \A i \in DOMAIN open' : byKey'[open'[i].key] = i
  BY <1>1, <1>3 DEF FilesOK
<1>8. QED
  BY <1>1, <1>4, <1>6, <1>7 DEF FilesOK, IncidentsOK, Heading

LEMMA DroppedFiles ==
    ASSUME FilesOK, NEW D \in SUBSET DOMAIN open, Aggregator!Drop(D)
    PROVE  /\ DOMAIN open' = DOMAIN open \ D /\ \A i \in DOMAIN open' : open'[i] = open[i]
           /\ byKey' \in [Aggregator!Key -> Aggregator!Id \cup {NoId}]
           /\ \A k \in Aggregator!Key : byKey'[k] = IF byKey[k] \in D THEN NoId ELSE byKey[k]
           /\ \A k \in Aggregator!Key : byKey'[k] # NoId => byKey'[k] \in DOMAIN open' /\ open'[byKey'[k]].key = k
           /\ \A i \in DOMAIN open' : byKey'[open'[i].key] = i
<1>1. DOMAIN open' = DOMAIN open \ D /\ \A i \in DOMAIN open' : open'[i] = open[i]
  BY DEF Aggregator!Drop
<1>2. NoId \notin DOMAIN open
  BY NoIdAssumption DEF FilesOK, IncidentsOK
<1>3. \A k \in Aggregator!Key : byKey[k] \in D => open[byKey[k]].key = k
  BY <1>2 DEF FilesOK
<1>4. byKey' = [k \in Aggregator!Key |-> IF byKey[k] \in D /\ open[byKey[k]].key = k
                                          THEN NoId ELSE byKey[k]]
  BY DEF Aggregator!Drop
<1>5. \A k \in Aggregator!Key : byKey'[k] = IF byKey[k] \in D THEN NoId ELSE byKey[k]
  BY <1>3, <1>4
<1>6. byKey' \in [Aggregator!Key -> Aggregator!Id \cup {NoId}]
  BY <1>4 DEF FilesOK
<1>7. \A i \in DOMAIN open' : byKey'[open'[i].key] = i
  BY <1>1, <1>5 DEF FilesOK, IncidentsOK
<1>8. QED
  BY <1>1, <1>5, <1>6, <1>7 DEF FilesOK

LEMMA BegunFiles ==
    ASSUME FilesOK, now \in Nat, started' = started, NEW batch, Aggregator!BeginTick(batch, 1)
    PROVE  FilesOK'
<1> DEFINE D == Aggregator!Stale(now') \cup Aggregator!Overflow(now')
<1>1. Aggregator!Drop(D) /\ now' = now + 1 /\ pc' = "handle" /\ seq' = seq /\ disk' = disk /\ lines' = lines
  BY DEF Aggregator!BeginTick
<1>2. D \in SUBSET DOMAIN open
  BY DEF Aggregator!Stale, Aggregator!Overflow
<1>3. \A i \in DOMAIN open \ D : ~(now' - open[i].lastSeen > IncidentWindow)
  BY DEF Aggregator!Stale
<1> HIDE DEF D
<1>4. /\ DOMAIN open' = DOMAIN open \ D /\ \A i \in DOMAIN open' : open'[i] = open[i]
      /\ byKey' \in [Aggregator!Key -> Aggregator!Id \cup {NoId}]
      /\ \A k \in Aggregator!Key : byKey'[k] # NoId => byKey'[k] \in DOMAIN open' /\ open'[byKey'[k]].key = k
      /\ \A i \in DOMAIN open' : byKey'[open'[i].key] = i
  BY <1>1, <1>2, DroppedFiles
<1>5. \A i \in DOMAIN open' : now' - open'[i].lastSeen <= IncidentWindow
  <2>1. \A i \in DOMAIN open : open[i].lastSeen \in Nat
    BY DEF FilesOK, IncidentsOK
  <2>2. IncidentWindow \in Nat /\ now' \in Nat
    BY <1>1, PacingAssumption, ParameterAssumption
  <2>3. QED
    BY <1>3, <1>4, <2>1, <2>2
<1>6. IncidentsOK(open, seq)'
  BY <1>1, <1>4 DEF FilesOK, IncidentsOK
<1>7. IncidentsOK(disk.open, disk.seq)'
  BY <1>1 DEF FilesOK, IncidentsOK
<1>8. DOMAIN lines' = Aggregator!Key /\ \A k \in Aggregator!Key : lines'[k].at \in Int /\ lines'[k].at <= now'
  BY <1>1 DEF FilesOK
<1>9. started' \in Nat /\ started' <= now' /\ seq' \in Nat /\ disk'.seq \in Nat
  BY <1>1 DEF FilesOK
<1>10. QED
  BY <1>1, <1>4, <1>5, <1>6, <1>7, <1>8, <1>9 DEF FilesOK

LEMMA TimePassesFiles ==
    ASSUME FilesOK, now \in Nat, now' = now + 1, pc # "handle", UNCHANGED <<files, started>>
    PROVE  FilesOK'
BY DEF FilesOK, IncidentsOK, files

LEMMA WrittenFiles ==
    ASSUME FilesOK, TickOK, now \in Nat, UNCHANGED <<now, started>>,
           Aggregator!FlushIncidents \/ Aggregator!WriteLine
    PROVE  FilesOK'
<1>1. CASE Aggregator!FlushIncidents
  BY <1>1 DEF FilesOK, IncidentsOK, Aggregator!FlushIncidents, Aggregator!memory, Aggregator!history
<1>2. CASE Aggregator!WriteLine
  <2>1. PICK l \in out : lines' = [lines EXCEPT ![l.key] =
                       [at |-> l.at, id |-> l.id,
                        escalated |-> l.reasons \subseteq Aggregator!Escalation]]
    BY <1>2 DEF Aggregator!WriteLine
  <2>2. l.key \in Aggregator!Key /\ l.at = now
    BY DEF TickOK
  <2>3. DOMAIN lines' = Aggregator!Key /\ \A k \in Aggregator!Key : lines'[k].at \in Int /\ lines'[k].at <= now
    <3>1. lines'[l.key].at = now /\ \A k \in Aggregator!Key : k # l.key => lines'[k] = lines[k]
      BY <2>1, <2>2 DEF FilesOK
    <3>2. DOMAIN lines' = Aggregator!Key
      BY <2>1 DEF FilesOK
    <3>3. QED
      BY <3>1, <3>2 DEF FilesOK
  <2>4. UNCHANGED <<seq, open, byKey, disk>> /\ pc' \in {"idle", "write"}
    BY <1>2 DEF Aggregator!WriteLine, Aggregator!memory
  <2>5. QED
    BY <2>3, <2>4 DEF FilesOK, IncidentsOK
<1>3. QED
  BY <1>1, <1>2

LEMMA DiedFiles ==
    ASSUME FilesOK, now \in Nat, UNCHANGED <<now, started>>, Aggregator!Crash
    PROVE  FilesOK'
<1> DEFINE none == <<>>
<1>1. DOMAIN none = {}
  OBVIOUS
<1>2. /\ pc' = "down" /\ seq' = 0 /\ open' = none /\ disk' = disk /\ lines' = lines
      /\ byKey' = [k \in Aggregator!Key |-> NoId]
  BY DEF Aggregator!Crash
<1> HIDE DEF none
<1>3. IncidentsOK(open, seq)' /\ IncidentsOK(disk.open, disk.seq)'
  BY <1>1, <1>2 DEF FilesOK, IncidentsOK
<1>4. QED
  BY <1>1, <1>2, <1>3 DEF FilesOK

LEMMA RestartedFiles ==
    ASSUME FilesOK, now \in Nat, now' = now, started' = now, Aggregator!Restart
    PROVE  FilesOK'
<1> DEFINE ids(k) == {i \in DOMAIN disk.open : disk.open[i].key = k}
           latest(k) == CHOOSE i \in ids(k) : \A j \in ids(k) : j.n <= i.n
<1>1. /\ pc' = "idle" /\ seq' = disk.seq /\ open' = disk.open /\ disk' = disk /\ lines' = lines
      /\ byKey' = [k \in Aggregator!Key |-> IF ids(k) = {} THEN NoId ELSE latest(k)]
  BY DEF Aggregator!Restart, Aggregator!history
<1>2. ASSUME NEW k, ids(k) # {} PROVE latest(k) \in ids(k)
  <2>1. PICK i \in ids(k) : TRUE
    BY <1>2
  <2>2. \A j \in ids(k) : j = i
    BY DEF FilesOK, IncidentsOK
  <2>3. i.n \in Nat
    BY DEF FilesOK, IncidentsOK, Aggregator!Id
  <2>4. \A j \in ids(k) : j.n <= i.n
    BY <2>2, <2>3
  <2> HIDE DEF ids
  <2>5. QED
    BY <2>4
<1> HIDE DEF latest
<1>3. \A k \in Aggregator!Key : byKey'[k] # NoId => byKey'[k] \in ids(k)
  BY <1>1, <1>2
<1>4. \A i \in DOMAIN open' : byKey'[open'[i].key] = i
  <2>1. TAKE i \in DOMAIN open'
  <2>2. i \in ids(open'[i].key) /\ open'[i].key \in Aggregator!Key
    BY <1>1 DEF FilesOK, IncidentsOK
  <2>3. byKey'[open'[i].key] \in ids(open'[i].key)
    BY <1>1, <1>2, <2>2
  <2>4. QED
    BY <1>1, <2>2, <2>3 DEF FilesOK, IncidentsOK
<1>5. byKey' \in [Aggregator!Key -> Aggregator!Id \cup {NoId}]
  BY <1>1, <1>2 DEF FilesOK, IncidentsOK
<1>6. IncidentsOK(open, seq)' /\ IncidentsOK(disk.open, disk.seq)'
  BY <1>1 DEF FilesOK, IncidentsOK
<1>7. \A k \in Aggregator!Key : byKey'[k] # NoId => byKey'[k] \in DOMAIN open' /\ open'[byKey'[k]].key = k
  BY <1>1, <1>3
<1>8. /\ DOMAIN lines' = Aggregator!Key
      /\ \A k \in Aggregator!Key : lines'[k].at \in Int /\ lines'[k].at <= now'
  BY <1>1 DEF FilesOK
<1>9. started' \in Nat /\ started' <= now' /\ seq' \in Nat /\ disk'.seq \in Nat
  BY <1>1 DEF FilesOK
<1>10. QED
  BY <1>1, <1>4, <1>5, <1>6, <1>7, <1>8, <1>9 DEF FilesOK

-----------------------------------------------------------------------------
(* The work of a tick.                                                     *)
LEMMA QueueMoves ==
    ASSUME TickOK, NEW q, Heading(q)
    PROVE  /\ queue' \in Seq(BeaconAlerts)
           /\ \A i \in DOMAIN queue' : i + 1 \in DOMAIN queue /\ queue'[i] = queue[i + 1] /\ i + 1 # 1
           /\ \A i \in DOMAIN queue : i = 1 \/ (i - 1 \in DOMAIN queue' /\ queue'[i - 1] = queue[i])
           /\ 1 \in DOMAIN queue /\ queue[1].dst = q
           /\ Queued(q) /\ ~Queued(q)'
           /\ \A p : p # q => (Queued(p)' <=> Queued(p))
<1>1. queue \in Seq(BeaconAlerts) /\ queue # <<>> /\ queue' = Tail(queue) /\ q = Head(queue).dst
  BY DEF TickOK, Heading
<1>2. /\ queue' \in Seq(BeaconAlerts) /\ Len(queue') = Len(queue) - 1
      /\ \A i \in 1..Len(queue') : queue'[i] = queue[i + 1]
  BY <1>1, HeadTailProperties
<1>3. DOMAIN queue = 1..Len(queue) /\ DOMAIN queue' = 1..Len(queue') /\ Len(queue) \in Nat /\ Len(queue) >= 1
  BY <1>1, <1>2
<1>4. \A i \in DOMAIN queue' : i + 1 \in DOMAIN queue /\ queue'[i] = queue[i + 1] /\ i + 1 # 1
  BY <1>2, <1>3
<1>5. ASSUME NEW i \in DOMAIN queue, i # 1
      PROVE  i - 1 \in DOMAIN queue' /\ queue'[i - 1] = queue[i]
  <2>1. i - 1 \in 1..Len(queue') /\ (i - 1) + 1 = i
    BY <1>2, <1>3, <1>5
  <2>2. queue'[i - 1] = queue[(i - 1) + 1]
    BY <1>2, <2>1
  <2>3. QED
    BY <1>3, <2>1, <2>2
<1>6. 1 \in DOMAIN queue /\ queue[1].dst = q
  BY <1>1, <1>3
<1>7. ~Queued(q)'
  BY <1>4, <1>6 DEF Queued, TickOK
<1>8. \A p : p # q => (Queued(p)' <=> Queued(p))
  BY <1>4, <1>5, <1>6 DEF Queued
<1>9. QED
  BY <1>2, <1>4, <1>5, <1>6, <1>7, <1>8 DEF Queued

LEMMA HandledTick ==
    ASSUME TickOK, UNCHANGED <<now, raised>>, NEW q, Heading(q), KeyOf(q) \in Aggregator!Key,
           \/ out' = out
           \/ \E l : out' = out \cup {l} /\ l.key = KeyOf(q) /\ l.at = now
    PROVE  TickOK'
<1>1. \A i \in DOMAIN queue' : queue'[i].dst # q
  BY QueueMoves DEF Queued
<1>2. \A i \in DOMAIN queue' : queue'[i].dst \in Peer
  BY QueueMoves, Keys
<1>3. \A m \in out : m.key # KeyOf(q)
  BY QueueMoves DEF TickOK
<1>4. /\ \A l \in out' : l.key \in Aggregator!Key /\ l.at = now
      /\ \A l, m \in out' : l.key = m.key => l = m
  BY <1>3 DEF TickOK
<1>5. \A l \in out' : \A i \in DOMAIN queue' : l.key # KeyOf(queue'[i].dst)
  <2>1. \A i \in DOMAIN queue' : KeyOf(q) # KeyOf(queue'[i].dst)
    BY <1>1, <1>2, Keys DEF Heading
  <2>2. \A l \in out : \A i \in DOMAIN queue' : l.key # KeyOf(queue'[i].dst)
    BY QueueMoves DEF TickOK
  <2>3. QED
    BY <2>1, <2>2
<1>6. /\ \A i \in DOMAIN queue' : queue'[i].dst \in raised'
      /\ \A i, j \in DOMAIN queue' : queue'[i].dst = queue'[j].dst => i = j
  <2>1. \A i, j \in DOMAIN queue' : queue'[i].dst = queue'[j].dst => i + 1 = j + 1
    BY QueueMoves DEF TickOK
  <2>2. \A i \in DOMAIN queue' : i \in Int
    BY QueueMoves
  <2>3. QED
    BY QueueMoves, <2>1, <2>2 DEF TickOK
<1>7. queue' \in Seq(BeaconAlerts) /\ pc' = "handle"
  BY QueueMoves DEF Heading
<1>8. QED
  BY <1>4, <1>5, <1>6, <1>7 DEF TickOK

LEMMA BegunTick ==
    ASSUME TickOK, raised' \subseteq Peer,
           Aggregator!BeginTick(SetToSeq({Raise(p) : p \in raised'}), 1)
    PROVE  TickOK' /\ \A p \in raised' : Queued(p)'
<1> DEFINE S == {Raise(p) : p \in raised'}
<1>1. \A p \in raised' : Raise(p) \in BeaconAlerts /\ Raise(p).dst = p
  BY Keys DEF Raise
<1>2. IsFiniteSet(S)
  <2> DEFINE f == [p \in raised' |-> Raise(p)]
  <2>1. f \in Surjection(raised', S)
    BY DEF Surjection
  <2>2. IsFiniteSet(raised')
    BY CallersAreFinite
  <2> HIDE DEF f, S
  <2>3. QED
    BY <2>1, <2>2, FS_Surjection
<1>3. queue' = SetToSeq(S) /\ out' = out /\ pc = "idle" /\ pc' = "handle"
  BY DEF Aggregator!BeginTick
<1>4. S \subseteq BeaconAlerts /\ \A a \in S : a.dst \in raised' /\ a = Raise(a.dst)
  BY <1>1
<1>5. \A p \in raised' : Raise(p) \in S
  OBVIOUS
<1> HIDE DEF S
<1>6. /\ queue' \in Seq(S)
      /\ \A x \in S : \E i \in DOMAIN queue' : queue'[i] = x
      /\ \A i, j \in DOMAIN queue' : queue'[i] = queue'[j] => i = j
  BY <1>2, <1>3, SequenceOfSet
<1>7. \A i \in DOMAIN queue' : queue'[i] \in S
  BY <1>6
<1>8. queue' \in Seq(BeaconAlerts)
  BY <1>4, <1>6
<1>9. \A i, j \in DOMAIN queue' : queue'[i].dst = queue'[j].dst => i = j
  BY <1>4, <1>6, <1>7
<1>10. \A p \in raised' : Queued(p)'
  BY <1>1, <1>5, <1>6 DEF Queued
<1>11. out' = {}
  BY <1>3 DEF TickOK
<1>12. QED
  BY <1>3, <1>4, <1>7, <1>8, <1>9, <1>10, <1>11 DEF TickOK

LEMMA WrittenTick ==
    ASSUME TickOK, UNCHANGED <<now, raised>>, Aggregator!FlushIncidents \/ Aggregator!WriteLine
    PROVE  TickOK'
<1>1. CASE Aggregator!FlushIncidents
  BY <1>1 DEF TickOK, Aggregator!FlushIncidents
<1>2. CASE Aggregator!WriteLine
  BY <1>2 DEF TickOK, Aggregator!WriteLine
<1>3. QED
  BY <1>1, <1>2

LEMMA RestedTick ==
    ASSUME TickOK, pc \in {"idle", "down"}, UNCHANGED <<pc, queue, out>>
    PROVE  TickOK'
<1>1. queue = <<>> /\ out = {}
  BY DEF TickOK
<1>2. QED
  BY <1>1 DEF TickOK

LEMMA StoppedTick ==
    ASSUME TickOK, Aggregator!Crash \/ Aggregator!Restart
    PROVE  TickOK'
<1> DEFINE none == <<>>
<1>1. none \in Seq(BeaconAlerts) /\ DOMAIN none = {}
  OBVIOUS
<1>2. queue' = none /\ out' = {} /\ pc' \in {"idle", "down"}
  BY DEF TickOK, Aggregator!Crash, Aggregator!Restart
<1> HIDE DEF none
<1>3. QED
  BY <1>1, <1>2 DEF TickOK, none

-----------------------------------------------------------------------------
(* Handling the alert of q leaves the other peers alone.                   *)
LEMMA HandledOthers ==
    ASSUME FilesOK, TickOK, NEW q, Heading(q),
           NEW iid, NEW st,
           Repeated(q, iid, st) \/ \E l : Opened(q, iid, st, l),
           NEW p \in Peer, p # q
    PROVE  /\ Queued(p)' <=> Queued(p)
           /\ Emitted(p)' = Emitted(p) /\ byKey'[KeyOf(p)] = byKey[KeyOf(p)]
           /\ Indexed(p)' <=> Indexed(p)
           /\ Indexed(p) => Incident(p)' = Incident(p)
           /\ lines'[KeyOf(p)] = lines[KeyOf(p)]
<1>1. q \in Peer /\ KeyOf(p) # KeyOf(q) /\ KeyOf(p) \in Aggregator!Key /\ KeyOf(q) \in Aggregator!Key
  BY Keys DEF Heading
<1>2. (Queued(p)' <=> Queued(p)) /\ lines'[KeyOf(p)] = lines[KeyOf(p)]
  BY QueueMoves DEF Heading
<1>3. NoId \notin DOMAIN open /\ (Indexed(p) => open[byKey[KeyOf(p)]].key = KeyOf(p))
  BY <1>1, NoIdAssumption DEF FilesOK, IncidentsOK, Indexed
<1>4. CASE Repeated(q, iid, st)
  <2>1. DOMAIN open' = DOMAIN open /\ byKey' = byKey
    BY <1>4 DEF Repeated
  <2>2. Indexed(p) => byKey[KeyOf(p)] # iid
    <3>1. iid \in DOMAIN open /\ open[iid].key = KeyOf(q)
      BY <1>1, <1>3, <1>4 DEF Repeated, Indexed, FilesOK
    <3>2. QED
      BY <1>1, <1>3, <3>1
  <2>3. Indexed(p) => open'[byKey[KeyOf(p)]] = open[byKey[KeyOf(p)]]
    BY <1>4, <2>2 DEF Repeated, Indexed
  <2>4. Emitted(p)' = Emitted(p)
    BY <1>1, <1>4 DEF Repeated, Emitted
  <2>5. QED
    BY <1>2, <2>1, <2>3, <2>4 DEF Indexed, Incident
<1>5. ASSUME NEW l, Opened(q, iid, st, l)
      PROVE  /\ Emitted(p)' = Emitted(p) /\ byKey'[KeyOf(p)] = byKey[KeyOf(p)]
             /\ Indexed(p)' <=> Indexed(p)
             /\ Indexed(p) => Incident(p)' = Incident(p)
  <2>1. DOMAIN open' = DOMAIN open \cup {iid} /\ \A i \in DOMAIN open : i # iid => open'[i] = open[i]
    BY <1>5 DEF Opened
  <2>2. byKey'[KeyOf(p)] = byKey[KeyOf(p)]
    BY <1>1, <1>5 DEF Opened, FilesOK
  <2>3. iid \notin DOMAIN open
    <3>1. \A i \in DOMAIN open : i.n <= seq /\ i.n \in Nat
      BY DEF FilesOK, IncidentsOK, Aggregator!Id
    <3>2. iid.n = seq + 1 /\ seq \in Nat
      BY <1>5 DEF Opened, FilesOK
    <3>3. QED
      BY <3>1, <3>2
  <2>4. byKey[KeyOf(p)] # iid
    BY <1>1, <1>5, <2>3, NoIdAssumption DEF FilesOK, Opened
  <2>5. Emitted(p)' = Emitted(p)
    BY <1>1, <1>5 DEF Opened, Emitted
  <2>6. QED
    BY <2>1, <2>2, <2>3, <2>4, <2>5 DEF Indexed, Incident
<1>6. QED
  BY <1>2, <1>4, <1>5

(* What it makes of q itself.                                              *)
LEMMA HandledPeer ==
    ASSUME FilesOK, TickOK, NEW q, Heading(q)
    PROVE  /\ Queued(q) /\ ~Queued(q)' /\ Emitted(q) = {} /\ q \in Peer
           /\ lines'[KeyOf(q)] = lines[KeyOf(q)]
           /\ \A iid, st, l : Opened(q, iid, st, l) =>
                /\ Indexed(q)' /\ ~Indexed(q) /\ byKey'[KeyOf(q)] = iid
                /\ Incident(q)'.lastSeen = now /\ Incident(q)'.lastEmitted = now
                /\ Emitted(q)' = {l}
           /\ \A iid, st : Repeated(q, iid, st) =>
                /\ Indexed(q)' /\ Indexed(q) /\ byKey'[KeyOf(q)] = iid /\ iid = byKey[KeyOf(q)]
                /\ Incident(q)' = st
                /\ \/ /\ st.lastEmitted = now
                      /\ \E l : Emitted(q)' = {l} /\ l.id = iid
                   \/ /\ now - Incident(q).lastEmitted < QuietPeriod
                      /\ st.lastEmitted = Incident(q).lastEmitted /\ Emitted(q)' = {}
<1>1. q \in Peer /\ KeyOf(q) \in Aggregator!Key /\ lines'[KeyOf(q)] = lines[KeyOf(q)]
  BY Keys DEF Heading
<1>2. Queued(q) /\ ~Queued(q)'
  BY QueueMoves
<1>3. Emitted(q) = {}
  BY QueueMoves DEF TickOK, Emitted
<1>4. ASSUME NEW iid, NEW st, NEW l, Opened(q, iid, st, l)
      PROVE  /\ Indexed(q)' /\ ~Indexed(q) /\ byKey'[KeyOf(q)] = iid
             /\ Incident(q)'.lastSeen = now /\ Incident(q)'.lastEmitted = now
             /\ Emitted(q)' = {l}
  <2>1. byKey'[KeyOf(q)] = iid /\ iid \in DOMAIN open' /\ open'[iid] = st
    BY <1>1, <1>4 DEF Opened, FilesOK
  <2>2. Emitted(q)' = {l}
    BY <1>3, <1>4 DEF Opened, Emitted
  <2>3. QED
    BY <1>4, <2>1, <2>2 DEF Opened, Indexed, Incident
<1>5. ASSUME NEW iid, NEW st, Repeated(q, iid, st)
      PROVE  /\ Indexed(q)' /\ Indexed(q) /\ byKey'[KeyOf(q)] = iid /\ iid = byKey[KeyOf(q)]
             /\ Incident(q)' = st
             /\ \/ /\ st.lastEmitted = now
                   /\ \E l : Emitted(q)' = {l} /\ l.id = iid
                \/ /\ now - Incident(q).lastEmitted < QuietPeriod
                   /\ st.lastEmitted = Incident(q).lastEmitted /\ Emitted(q)' = {}
  <2>1. /\ byKey' = byKey /\ iid = byKey[KeyOf(q)] /\ iid \in DOMAIN open
        /\ DOMAIN open' = DOMAIN open /\ open'[iid] = st
    BY <1>5 DEF Repeated, Indexed
  <2>2. Indexed(q)' /\ Indexed(q) /\ Incident(q)' = st /\ Incident(q) = open[iid]
    BY <2>1 DEF Indexed, Incident
  <2>3. CASE st.lastEmitted = now /\ \E l : out' = out \cup {l} /\ l.id = iid /\ l.key = KeyOf(q)
    <3>1. PICK l : out' = out \cup {l} /\ l.id = iid /\ l.key = KeyOf(q)
      BY <2>3
    <3>2. Emitted(q)' = {l}
      BY <1>3, <3>1 DEF Emitted
    <3>3. QED
      BY <2>1, <2>2, <2>3, <3>1, <3>2
  <2>4. CASE now - open[iid].lastEmitted < QuietPeriod /\ st.lastEmitted = open[iid].lastEmitted /\ out' = out
    <3>1. Emitted(q)' = {}
      BY <1>3, <2>4 DEF Emitted
    <3>2. QED
      BY <2>1, <2>2, <2>4, <3>1
  <2>5. QED
    BY <1>5, <2>3, <2>4 DEF Repeated
<1>6. QED
  BY <1>1, <1>2, <1>3, <1>4, <1>5

(* What is raised in a tick stays so while the tick lasts.                 *)
PeersStay == UNCHANGED <<now, started, raised, alerted>>

LEMMA QueuedAreRaised ==
    ASSUME TrackInv, TickOK, NEW q, Queued(q)
    PROVE  q \in raised /\ alerted[q] = now /\ q \in Peer
BY DEF TickOK, Queued, TrackInv, TrackTypeOK, PeerOK

LEMMA HandledAnnounced ==
    ASSUME TrackInv, FilesOK, TickOK, PeersStay, NEW q, Heading(q), NEW iid, NEW st,
           Repeated(q, iid, st) \/ \E l : Opened(q, iid, st, l),
           NEW p \in Peer, EmissionOK(p), AnnouncedOK(p)
    PROVE  EmissionOK(p)' /\ AnnouncedOK(p)'
<1>1. CASE p # q
  BY <1>1, HandledOthers DEF EmissionOK, AnnouncedOK, Quietened, PeersStay
<1>2. CASE p = q
  <2>1. q \in raised /\ alerted[q] = now /\ now \in Nat /\ Queued(q) /\ ~Queued(q)'
    BY HandledPeer, QueuedAreRaised DEF TrackInv, TrackTypeOK
  <2>2. ASSUME NEW l, Opened(q, iid, st, l) PROVE EmissionOK(q)' /\ AnnouncedOK(q)'
    <3>1. Incident(q)'.lastEmitted = now /\ Emitted(q)' = {l}
      BY <2>2, HandledPeer
    <3>2. QED
      BY <2>1, <3>1 DEF EmissionOK, AnnouncedOK, PeersStay
  <2>3. CASE Repeated(q, iid, st)
    <3>1. Indexed(q)' /\ Indexed(q) /\ Incident(q)' = st
      BY <2>3, HandledPeer
    <3>2. CASE st.lastEmitted = now /\ Emitted(q)' # {}
      <4>1. Incident(q)'.lastEmitted <= alerted'[q]
        BY <2>1, <3>1, <3>2 DEF PeersStay
      <4>2. EmissionOK(q)'
        BY <2>1, <4>1 DEF EmissionOK
      <4>3. AnnouncedOK(q)'
        BY <3>2 DEF AnnouncedOK
      <4>4. QED
        BY <1>2, <4>2, <4>3
    <3>3. CASE /\ now - Incident(q).lastEmitted < QuietPeriod
               /\ st.lastEmitted = Incident(q).lastEmitted
      <4>1. Incident(q).lastEmitted <= started
        <5>1. Incident(q).lastEmitted \in Nat
          BY <3>1 DEF Indexed, Incident, FilesOK, IncidentsOK
        <5>2. QuietPeriod <= Cooldown /\ QuietPeriod \in Nat /\ Cooldown \in Nat
          BY PacingAssumption, ParameterAssumption
        <5>3. ~(now - Incident(q).lastEmitted >= Cooldown)
          BY <2>1, <3>3, <5>1, <5>2
        <5>4. QED
          BY <1>2, <2>1, <3>1, <5>3 DEF EmissionOK
      <4>2. QED
        <5>1. Incident(q)'.lastEmitted <= started' /\ now' - Incident(q)'.lastEmitted < QuietPeriod
          BY <3>1, <3>3, <4>1 DEF PeersStay
        <5>2. Quietened(q)'
          BY <3>1, <5>1 DEF Quietened
        <5>3. EmissionOK(q)'
          BY <5>1 DEF EmissionOK
        <5>4. AnnouncedOK(q)'
          BY <5>2 DEF AnnouncedOK
        <5>5. QED
          BY <1>2, <5>3, <5>4
    <3>4. QED
      BY <2>3, <3>2, <3>3, HandledPeer
  <2>4. QED
    BY <1>2, <2>2, <2>3
<1>3. QED
  BY <1>1, <1>2

(* A tick begins: whoever is raised in it is queued, and was last emitted  *)
(* a cooldown ago or by an earlier engine.                                 *)
LEMMA DroppedPeers ==
    ASSUME FilesOK, NEW batch, Aggregator!BeginTick(batch, 1), NEW p \in Peer
    PROVE  /\ Indexed(p)' => /\ Indexed(p) /\ Incident(p)' = Incident(p)
                             /\ byKey'[KeyOf(p)] = byKey[KeyOf(p)]
           /\ Indexed(p) => \/ Indexed(p)'
                            \/ byKey[KeyOf(p)] \in Aggregator!Stale(now') \cup Aggregator!Overflow(now')
           /\ lines' = lines /\ seq' = seq /\ now' = now + 1 /\ pc = "idle" /\ pc' = "handle"
<1> DEFINE D == Aggregator!Stale(now') \cup Aggregator!Overflow(now')
<1>1. Aggregator!Drop(D) /\ now' = now + 1 /\ pc' = "handle" /\ seq' = seq /\ lines' = lines
      /\ pc = "idle"
  BY DEF Aggregator!BeginTick
<1>2. D \in SUBSET DOMAIN open
  BY DEF Aggregator!Stale, Aggregator!Overflow
<1>3. KeyOf(p) \in Aggregator!Key /\ NoId \notin DOMAIN open
  BY Keys, NoIdAssumption DEF FilesOK, IncidentsOK
<1> HIDE DEF D
<1>4. /\ DOMAIN open' = DOMAIN open \ D /\ \A i \in DOMAIN open' : open'[i] = open[i]
      /\ byKey'[KeyOf(p)] = IF byKey[KeyOf(p)] \in D THEN NoId ELSE byKey[KeyOf(p)]
  BY <1>1, <1>2, <1>3, DroppedFiles
<1>5. Indexed(p)' => Indexed(p) /\ Incident(p)' = Incident(p) /\ byKey'[KeyOf(p)] = byKey[KeyOf(p)]
  BY <1>3, <1>4 DEF Indexed, Incident
<1>6. Indexed(p) => Indexed(p)' \/ byKey[KeyOf(p)] \in D
  BY <1>4 DEF Indexed
<1>7. QED
  BY <1>1, <1>5, <1>6 DEF D

LEMMA BegunAnnounced ==
    ASSUME TrackInv, TrackInv', FilesOK, TickOK, started' = started, NEW p \in Peer,
           Aggregator!BeginTick(SetToSeq({Raise(q) : q \in raised'}), 1),
           p \notin raised' => alerted'[p] = alerted[p],
           p \in raised' => alerted[p] = 0 \/ now' - alerted[p] >= Cooldown,
           EmissionOK(p)
    PROVE  EmissionOK(p)' /\ AnnouncedOK(p)'
<1>1. /\ now \in Nat /\ now' = now + 1 /\ alerted[p] \in Nat /\ Cooldown \in Nat /\ started \in Nat
      /\ p \in raised' => alerted'[p] = now'
      /\ raised' \subseteq Peer /\ alerted[p] <= now
  <2>1. now \in Nat /\ alerted[p] \in Nat /\ raised' \subseteq Peer
    BY DEF TrackInv, TrackTypeOK
  <2>2. now' = now + 1 /\ Cooldown \in Nat /\ started \in Nat
    BY ParameterAssumption, DroppedPeers DEF FilesOK
  <2>3. p \in raised' => alerted'[p] = now'
    BY DEF TrackInv, PeerOK
  <2>4. alerted[p] <= now
    <3>1. alerted[p] <= heard[p] /\ heard[p] <= now /\ heard[p] \in Nat
      BY DEF TrackInv, TrackTypeOK, PeerOK
    <3>2. QED
      BY <2>1, <3>1
  <2>5. QED
    BY <2>1, <2>2, <2>3, <2>4
<1>2. TickOK' /\ \A q \in raised' : Queued(q)'
  BY <1>1, BegunTick
<1>3. AnnouncedOK(p)'
  BY <1>2 DEF AnnouncedOK
<1>4. EmissionOK(p)'
  <2>1. SUFFICES ASSUME Indexed(p)'
                 PROVE  \/ Incident(p)'.lastEmitted <= started'
                        \/ /\ Incident(p)'.lastEmitted <= alerted'[p]
                           /\ Queued(p)' => now' - Incident(p)'.lastEmitted >= Cooldown
    BY DEF EmissionOK
  <2>2. Indexed(p) /\ Incident(p)' = Incident(p)
    BY <2>1, DroppedPeers
  <2>3. Incident(p).lastEmitted \in Nat
    BY <2>2 DEF Indexed, Incident, FilesOK, IncidentsOK
  <2>4. Incident(p).lastEmitted <= started \/ Incident(p).lastEmitted <= alerted[p]
    BY <2>2 DEF EmissionOK
  <2>5. Queued(p)' => p \in raised'
    BY <1>2 DEF TickOK, Queued
  <2>6. CASE Incident(p).lastEmitted <= started
    BY <2>2, <2>6
  <2>7. CASE Incident(p).lastEmitted <= alerted[p] /\ p \in raised'
    <3>1. CASE alerted[p] = 0
      BY <1>1, <2>2, <2>3, <2>7, <3>1
    <3>2. CASE now' - alerted[p] >= Cooldown
      <4>1. Incident(p)'.lastEmitted <= alerted'[p] /\ now' - Incident(p)'.lastEmitted >= Cooldown
        BY <1>1, <2>2, <2>3, <2>7, <3>2
      <4>2. QED
        BY <4>1
    <3>3. QED
      BY <2>7, <3>1, <3>2
  <2>8. CASE Incident(p).lastEmitted <= alerted[p] /\ p \notin raised'
    BY <2>2, <2>5, <2>8
  <2>9. QED
    BY <2>4, <2>6, <2>7, <2>8
<1>5. QED
  BY <1>3, <1>4

(* The lines of a tick are written, after the file.                        *)
LEMMA WrittenPeers ==
    ASSUME FilesOK, TickOK, UNCHANGED now, NEW l \in out, Aggregator!WriteLine,
           out' = out \ {l},
           lines' = [lines EXCEPT ![l.key] =
                       [at |-> l.at, id |-> l.id,
                        escalated |-> l.reasons \subseteq Aggregator!Escalation]],
           NEW p \in Peer
    PROVE  /\ Queued(p)' <=> Queued(p)
           /\ byKey'[KeyOf(p)] = byKey[KeyOf(p)] /\ (Indexed(p)' <=> Indexed(p))
           /\ Incident(p)' = Incident(p)
           /\ l.key = KeyOf(p) => /\ lines'[KeyOf(p)].at = now /\ lines'[KeyOf(p)].id = l.id
                                  /\ Emitted(p) = {l} /\ Emitted(p)' = {}
           /\ l.key # KeyOf(p) => lines'[KeyOf(p)] = lines[KeyOf(p)] /\ Emitted(p)' = Emitted(p)
<1>1. UNCHANGED <<queue, open, byKey, seq, disk>>
  BY DEF Aggregator!WriteLine, Aggregator!memory
<1>2. KeyOf(p) \in Aggregator!Key /\ DOMAIN lines = Aggregator!Key /\ l.at = now /\ l.key \in Aggregator!Key
  BY Keys DEF FilesOK, TickOK
<1>3. l.key = KeyOf(p) => lines'[KeyOf(p)].at = now /\ lines'[KeyOf(p)].id = l.id
  BY <1>2
<1>4. l.key # KeyOf(p) => lines'[KeyOf(p)] = lines[KeyOf(p)] /\ Emitted(p)' = Emitted(p)
  BY <1>2 DEF Emitted
<1>5. l.key = KeyOf(p) => Emitted(p) = {l} /\ Emitted(p)' = {}
  BY DEF TickOK, Emitted
<1>6. QED
  BY <1>1, <1>3, <1>4, <1>5 DEF Queued, Indexed, Incident

LEMMA WrittenAnnounced ==
    ASSUME TrackInv, FilesOK, TickOK, PeersStay,
           Aggregator!FlushIncidents \/ Aggregator!WriteLine,
           NEW p \in Peer, EmissionOK(p), AnnouncedOK(p)
    PROVE  EmissionOK(p)' /\ AnnouncedOK(p)'
<1>1. CASE Aggregator!FlushIncidents
  <2>1. UNCHANGED <<queue, open, byKey, out, lines>>
    BY <1>1 DEF Aggregator!FlushIncidents, Aggregator!memory, Aggregator!history
  <2>2. QED
    BY <2>1 DEF EmissionOK, AnnouncedOK, Quietened, Queued, Indexed, Incident, Emitted, PeersStay
<1>2. CASE Aggregator!WriteLine
  <2>1. PICK l \in out :
          /\ out' = out \ {l}
          /\ lines' = [lines EXCEPT ![l.key] =
                       [at |-> l.at, id |-> l.id,
                        escalated |-> l.reasons \subseteq Aggregator!Escalation]]
    BY <1>2 DEF Aggregator!WriteLine
  <2>2. /\ Queued(p)' <=> Queued(p)
        /\ byKey'[KeyOf(p)] = byKey[KeyOf(p)] /\ (Indexed(p)' <=> Indexed(p))
        /\ Incident(p)' = Incident(p)
        /\ l.key = KeyOf(p) => lines'[KeyOf(p)].at = now
        /\ l.key # KeyOf(p) => lines'[KeyOf(p)] = lines[KeyOf(p)] /\ Emitted(p)' = Emitted(p)
    BY <1>2, <2>1, WrittenPeers DEF PeersStay
  <2>x. now' = now /\ started' = started /\ alerted' = alerted /\ raised' = raised
    BY DEF PeersStay
  <2>3. EmissionOK(p)'
    BY <2>2, <2>x DEF EmissionOK
  <2>4. AnnouncedOK(p)'
    BY <2>2, <2>x DEF AnnouncedOK, Quietened
  <2>5. QED
    BY <2>3, <2>4
<1>3. QED
  BY <1>1, <1>2

-----------------------------------------------------------------------------
(* The tracker and the aggregator together.                                *)
BothInv == TrackInv /\ DownIsSilent /\ Forgotten

LEMMA BothInit == JoinedInit => BothInv
BY TrackInit, DownInit, ForgottenInit DEF JoinedInit, BothInv

LEMMA BothStep ==
    ASSUME LagsAreShort, BothInv, [JoinedNext]_all
    PROVE  BothInv'
BY TrackStep, TrackStutter, ForgottenStep, ForgottenStutter, DownStep, JoinedNextIsTrackNext
   DEF BothInv, DownIsSilent

LEMMA FilesInit == JoinedInit => FilesOK /\ TickOK
<1> SUFFICES ASSUME JoinedInit PROVE FilesOK /\ TickOK
  OBVIOUS
<1> DEFINE none == <<>>
<1>1. none \in Seq(BeaconAlerts) /\ DOMAIN none = {}
  OBVIOUS
<1>2. /\ pc = "idle" /\ queue = none /\ seq = 0 /\ open = none /\ out = {}
      /\ byKey = [k \in Aggregator!Key |-> NoId] /\ disk = [seq |-> 0, open |-> none]
      /\ lines = [k \in Aggregator!Key |-> Aggregator!NoLine] /\ started = Start /\ now = Start
      /\ Start \in Nat
  BY ParameterAssumption DEF JoinedInit, Init
<1> HIDE DEF none
<1>3. IncidentsOK(open, seq) /\ IncidentsOK(disk.open, disk.seq)
  BY <1>1, <1>2 DEF IncidentsOK
<1>4. \A k \in Aggregator!Key : lines[k].at = -1 /\ lines[k].at <= now /\ lines[k].at \in Int
  <2>1. \A k \in Aggregator!Key : lines[k].at = -1
    BY <1>2 DEF Aggregator!NoLine, Aggregator!Never
  <2>2. QED
    BY <1>2, <2>1
<1>5. FilesOK
  BY <1>1, <1>2, <1>3, <1>4 DEF FilesOK
<1>6. TickOK
  BY <1>1, <1>2 DEF TickOK, none
<1>7. QED
  BY <1>5, <1>6

LEMMA AnnounceInit == JoinedInit => AnnounceInv
<1> SUFFICES ASSUME JoinedInit PROVE AnnounceInv
  OBVIOUS
<1>1. open = <<>> /\ raised = {}
  BY DEF JoinedInit, Init
<1>2. \A p \in Peer : EmissionOK(p) /\ AnnouncedOK(p)
  BY <1>1 DEF EmissionOK, AnnouncedOK, Indexed
<1>3. QED
  BY <1>2, FilesInit DEF AnnounceInv

(* The steps of an engine that is up, one by one.                          *)
LEMMA ScoreStep ==
    ASSUME BothInv, BothInv', AnnounceInv, Score, Listen,
           Aggregator!BeginTick(SetToSeq({Raise(q) : q \in raised'}), 1)
    PROVE  AnnounceInv'
<1>1. /\ TrackInv /\ TrackInv' /\ Forgotten /\ FilesOK /\ TickOK /\ now \in Nat
      /\ started' = started /\ pc = "idle" /\ site' = site
  BY DEF BothInv, AnnounceInv, TrackInv, TrackTypeOK, Score
<1>2. raised' \subseteq Peer
  BY <1>1 DEF TrackInv, TrackTypeOK
<1>3. FilesOK' /\ TickOK'
  BY <1>1, <1>2, BegunFiles, BegunTick
<1>4. ASSUME NEW p \in Peer PROVE EmissionOK(p)' /\ AnnouncedOK(p)'
  <2>1. p \notin raised' => alerted'[p] = alerted[p]
    <3>1. PICK active, heavy, lag, known, new : Listened(active, heavy, lag, known, new)
      BY <1>1, Listening
    <3>2. QED
      BY <3>1 DEF Listened
  <2>2. p \in raised' => alerted[p] = 0 \/ now' - alerted[p] >= Cooldown
    <3>1. now' # now /\ TrackNext
      BY <1>1, DroppedPeers DEF TrackNext
    <3>2. QED
      BY <1>1, <3>1, RepeatStep
  <2>3. EmissionOK(p)
    BY <1>1 DEF AnnounceInv
  <2>4. QED
    BY <1>1, <2>1, <2>2, <2>3, BegunAnnounced
<1>5. QED
  BY <1>3, <1>4 DEF AnnounceInv

LEMMA ProcessStep ==
    ASSUME BothInv, AnnounceInv, Process
    PROVE  AnnounceInv'
<1>1. /\ TrackInv /\ FilesOK /\ TickOK /\ now \in Nat /\ PeersStay /\ UNCHANGED <<now, started, raised>>
  BY DEF BothInv, AnnounceInv, TrackInv, TrackTypeOK, Process, PeersStay, vars, ghosts
<1>2. CASE Aggregator!OpenNew \/ Aggregator!Repeat
  <2>1. PICK q, iid, st : Heading(q) /\ (Repeated(q, iid, st) \/ \E l : Opened(q, iid, st, l))
    BY <1>1, <1>2, OpeningNew, Repeating
  <2>2. KeyOf(q) \in Aggregator!Key
    BY <2>1, Keys DEF Heading
  <2>3. FilesOK'
    BY <1>1, <2>1, OpenedFiles, RepeatedFiles
  <2>4. TickOK'
    BY <1>1, <2>1, <2>2, HandledTick DEF Opened, Repeated
  <2>5. pc # "down"
    BY <2>1 DEF Heading
  <2>6. \A p \in Peer : EmissionOK(p)' /\ AnnouncedOK(p)'
    BY <1>1, <2>1, <2>5, HandledAnnounced DEF AnnounceInv
  <2>7. QED
    BY <2>3, <2>4, <2>6 DEF AnnounceInv
<1>3. CASE Aggregator!FlushIncidents \/ Aggregator!WriteLine
  <2>1. pc # "down"
    BY <1>3 DEF Aggregator!FlushIncidents, Aggregator!WriteLine
  <2>2. \A p \in Peer : EmissionOK(p)' /\ AnnouncedOK(p)'
    BY <1>1, <1>3, <2>1, WrittenAnnounced DEF AnnounceInv
  <2>3. FilesOK' /\ TickOK'
    BY <1>1, <1>3, WrittenFiles, WrittenTick
  <2>4. QED
    BY <2>2, <2>3 DEF AnnounceInv
<1>4. QED
  BY <1>2, <1>3 DEF Process

LEMMA RestStep ==
    ASSUME BothInv, BothInv', AnnounceInv,
           \/ pc = "idle" /\ NoFeatures /\ UNCHANGED files /\ UNCHANGED started
           \/ StayDown
    PROVE  AnnounceInv'
<1>1. /\ FilesOK /\ TickOK /\ now \in Nat /\ now' = now + 1 /\ pc \in {"idle", "down"}
      /\ UNCHANGED <<files, started, alerted>>
      /\ pc = "idle" => raised' = {}
  BY DEF BothInv, AnnounceInv, TrackInv, TrackTypeOK, NoFeatures, StayDown, ghosts
<1>2. UNCHANGED <<pc, queue, out, open, byKey, lines>>
  BY <1>1 DEF files
<1>3. FilesOK' /\ TickOK'
  BY <1>1, <1>2, TimePassesFiles, RestedTick
<1>4. ASSUME NEW p \in Peer, pc' # "down" PROVE EmissionOK(p)' /\ AnnouncedOK(p)'
  <2>1. EmissionOK(p) /\ raised' = {}
    BY <1>1, <1>2, <1>4 DEF AnnounceInv
  <2>2. ~Queued(p)'
    BY <1>1, <1>2 DEF TickOK, Queued
  <2>3. EmissionOK(p)'
    BY <1>1, <1>2, <2>1, <2>2 DEF EmissionOK, Indexed, Incident
  <2>4. AnnouncedOK(p)'
    BY <2>1 DEF AnnouncedOK
  <2>5. QED
    BY <2>3, <2>4
<1>5. QED
  BY <1>3, <1>4 DEF AnnounceInv

LEMMA StopStep ==
    ASSUME BothInv, AnnounceInv, Die \/ StartAgain
    PROVE  AnnounceInv'
<1>1. FilesOK /\ TickOK /\ now \in Nat /\ now' = now
  BY DEF BothInv, AnnounceInv, TrackInv, TrackTypeOK, Die, StartAgain, vars
<1>2. CASE Die
  <2>1. Aggregator!Crash /\ started' = started /\ pc' = "down"
    BY <1>2 DEF Die, Aggregator!Crash
  <2>2. FilesOK' /\ TickOK'
    BY <1>1, <2>1, DiedFiles, StoppedTick
  <2>3. QED
    BY <2>1, <2>2 DEF AnnounceInv
<1>3. CASE StartAgain
  <2>1. Aggregator!Restart /\ started' = now /\ pc = "down" /\ pc' = "idle" /\ raised' = raised
    BY <1>3 DEF StartAgain, Aggregator!Restart, vars, ghosts
  <2>2. FilesOK' /\ TickOK'
    BY <1>1, <2>1, RestartedFiles, StoppedTick
  <2>3. raised' = {}
    BY <2>1 DEF BothInv, DownIsSilent
  <2>4. ASSUME NEW p \in Peer PROVE EmissionOK(p)' /\ AnnouncedOK(p)'
    <3>1. AnnouncedOK(p)'
      BY <2>3 DEF AnnouncedOK
    <3>2. Indexed(p)' => Incident(p)'.lastEmitted <= now'
      BY <2>2 DEF FilesOK, IncidentsOK, Indexed, Incident
    <3>3. EmissionOK(p)'
      BY <1>1, <2>1, <3>2 DEF EmissionOK
    <3>4. QED
      BY <3>1, <3>3
  <2>5. QED
    BY <2>2, <2>4 DEF AnnounceInv
<1>4. QED
  BY <1>2, <1>3

LEMMA AnnounceStutter == AnnounceInv /\ UNCHANGED all => AnnounceInv'
<1> SUFFICES ASSUME AnnounceInv, UNCHANGED all PROVE AnnounceInv'
  OBVIOUS
<1>1. UNCHANGED <<now, raised, alerted, pc, queue, seq, open, byKey, out, disk, lines, started>>
  BY DEF all, vars, files, ghosts
<1>2. FilesOK' /\ TickOK'
  BY <1>1 DEF AnnounceInv, FilesOK, IncidentsOK, TickOK
<1>3. ASSUME NEW p \in Peer, pc' # "down" PROVE EmissionOK(p)' /\ AnnouncedOK(p)'
  <2>1. EmissionOK(p) /\ AnnouncedOK(p)
    BY <1>1, <1>3 DEF AnnounceInv
  <2>2. QED
    BY <1>1, <2>1 DEF EmissionOK, AnnouncedOK, Quietened, Queued, Indexed, Incident, Emitted
<1>4. QED
  BY <1>2, <1>3 DEF AnnounceInv

LEMMA AnnounceStep ==
    ASSUME BothInv, BothInv', AnnounceInv, [JoinedNext]_all
    PROVE  AnnounceInv'
<1>1. CASE Score
  BY <1>1, ScoreStep, RestStep DEF Score
<1>2. QED
  BY <1>1, ProcessStep, RestStep, StopStep, AnnounceStutter DEF JoinedNext

LEMMA AnnouncedAtIdle == BothInv /\ AnnounceInv => RaiseIsAnnounced
<1> SUFFICES ASSUME BothInv, AnnounceInv, pc = "idle", NEW p \in raised
             PROVE  \/ lines[KeyOf(p)].at = now
                    \/ /\ byKey[KeyOf(p)] \in DOMAIN open
                       /\ open[byKey[KeyOf(p)]].lastEmitted <= started
                       /\ now - open[byKey[KeyOf(p)]].lastEmitted < QuietPeriod
  BY DEF RaiseIsAnnounced
<1>1. p \in Peer
  BY DEF BothInv, TrackInv, TrackTypeOK
<1>2. AnnouncedOK(p)
  BY <1>1 DEF AnnounceInv
<1>3. ~Queued(p) /\ Emitted(p) = {}
  BY DEF AnnounceInv, TickOK, Queued, Emitted
<1>4. QED
  BY <1>2, <1>3 DEF AnnouncedOK, Quietened, Indexed, Incident

(* Whatever the tracker raises is in alerts.jsonl by the end of the tick,  *)
(* unless an engine before this one said it less than the quiet period ago *)
(* (beaconing.py, _alert_from_stats, and aggregation.py, _handle).         *)
THEOREM EveryRaiseIsAnnounced ==
    ASSUME LagsAreShort
    PROVE  JoinedSpec => []RaiseIsAnnounced
<1> DEFINE I == BothInv /\ AnnounceInv
<1>1. JoinedInit => I
  BY BothInit, AnnounceInit
<1>2. I /\ [JoinedNext]_all => I'
  BY BothStep, AnnounceStep
<1>3. I => RaiseIsAnnounced
  BY AnnouncedAtIdle
<1>4. QED
  BY <1>1, <1>2, <1>3, PTL DEF JoinedSpec

-----------------------------------------------------------------------------
(* The aggregator counts as the tracker does.                              *)
LEMMA SameCardinality == \A S : Aggregator!Cardinality(S) = Cardinality(S)
BY DEF Aggregator!Cardinality, Cardinality

(* One incident a peer, so the cap of the aggregator is never reached.     *)
LEMMA NoOverflow == ASSUME FilesOK, NEW t PROVE Aggregator!Overflow(t) = {}
<1> DEFINE kept == DOMAIN open \ Aggregator!Stale(t)
           f == [i \in kept |-> open[i].key[4]]
<1>1. \A i \in kept : open[i].key[4] \in Peer /\ open[i].key = KeyOf(open[i].key[4])
  <2>1. TAKE i \in kept
  <2>2. open[i].key \in Aggregator!Key
    BY DEF FilesOK, IncidentsOK
  <2>3. PICK p \in Peer : open[i].key = KeyOf(p)
    BY <2>2, Keys
  <2>4. QED
    BY <2>3, Keys
<1>2. f \in Injection(kept, Peer)
  <2>1. f \in [kept -> Peer]
    BY <1>1
  <2>2. \A i, j \in kept : f[i] = f[j] => i = j
    BY <1>1 DEF FilesOK, IncidentsOK
  <2> HIDE DEF f, kept
  <2>3. QED
    BY <2>1, <2>2 DEF Injection, IsInjective
<1>3. IsFiniteSet(kept) /\ Cardinality(kept) <= Cardinality(Peer)
  BY <1>2, FS_Injection, ParameterAssumption
<1>4. ASSUME NEW i \in kept
      PROVE  ~(Cardinality({j \in kept : Aggregator!Older(j, i)}) < Cardinality(kept) - Cardinality(Peer))
  <2> DEFINE below == {j \in kept : Aggregator!Older(j, i)}
  <2>1. below \subseteq kept
    OBVIOUS
  <2> HIDE DEF below
  <2>2. IsFiniteSet(below)
    BY <1>3, <2>1, FS_Subset
  <2>3. Cardinality(below) \in Nat /\ Cardinality(kept) \in Nat /\ Cardinality(Peer) \in Nat
    BY <1>3, <2>2, FS_CardinalityType, ParameterAssumption
  <2>4. ~(Cardinality(below) < Cardinality(kept) - Cardinality(Peer))
    BY <1>3, <2>3
  <2>5. QED
    BY <2>4 DEF below
<1>5. Aggregator!Overflow(t) =
        {i \in kept : Cardinality({j \in kept : Aggregator!Older(j, i)})
                         < Cardinality(kept) - Cardinality(Peer)}
  BY SameCardinality DEF Aggregator!Overflow
<1> HIDE DEF kept, f
<1>6. QED
  BY <1>4, <1>5

(* A tick begins: an incident a repeat would still continue is kept.       *)
LEMMA KeptOpen ==
    ASSUME FilesOK, now \in Nat, NEW batch, Aggregator!BeginTick(batch, 1), NEW p \in Peer,
           Indexed(p), now' - Incident(p).lastSeen <= Cooldown
    PROVE  Indexed(p)'
<1>1. Incident(p).lastSeen \in Nat /\ now' \in Nat /\ Cooldown \in Nat /\ IncidentWindow = Cooldown
  BY DroppedPeers, PacingAssumption, ParameterAssumption DEF FilesOK, IncidentsOK, Indexed, Incident
<1>2. ~(now' - open[byKey[KeyOf(p)]].lastSeen > IncidentWindow)
  BY <1>1 DEF Incident
<1>3. byKey[KeyOf(p)] \notin Aggregator!Stale(now')
  BY <1>2 DEF Aggregator!Stale
<1>4. QED
  BY <1>3, NoOverflow, DroppedPeers

(* Between ticks nothing is queued and no line is to come.                 *)
LEMMA IdleTick ==
    ASSUME TickOK, pc \in {"idle", "down"}, NEW p
    PROVE  ~Queued(p) /\ Emitted(p) = {}
BY DEF TickOK, Queued, Emitted

LEMMA DotInit == JoinedInit => DotInv
<1> SUFFICES ASSUME JoinedInit, NEW p \in Peer PROVE LastLineOK(p) /\ LineToComeOK(p)
  BY DEF DotInv
<1>1. lines = [k \in Aggregator!Key |-> Aggregator!NoLine] /\ started \in Nat /\ out = {}
  BY ParameterAssumption DEF JoinedInit
<1>2. lines[KeyOf(p)].at = -1
  BY <1>1, Keys DEF Aggregator!NoLine, Aggregator!Never
<1>3. ~(lines[KeyOf(p)].at > started)
  BY <1>1, <1>2
<1>4. QED
  BY <1>1, <1>3 DEF LastLineOK, LineToComeOK, Emitted

LEMMA BegunDot ==
    ASSUME TrackInv, TrackInv', FilesOK, TickOK, started' = started, NEW p \in Peer,
           Aggregator!BeginTick(SetToSeq({Raise(q) : q \in raised'}), 1),
           p \notin raised' => alerted'[p] = alerted[p],
           p \in raised' => alerted[p] = 0 \/ now' - alerted[p] >= Cooldown,
           LastLineOK(p)
    PROVE  LastLineOK(p)' /\ LineToComeOK(p)'
<1>1. /\ now \in Nat /\ now' = now + 1 /\ alerted[p] \in Nat /\ Cooldown \in Nat /\ started \in Nat
      /\ raised' \subseteq Peer /\ lines[KeyOf(p)].at \in Int
  <2>1. now \in Nat /\ alerted[p] \in Nat /\ raised' \subseteq Peer
    BY DEF TrackInv, TrackTypeOK
  <2>2. now' = now + 1 /\ Cooldown \in Nat /\ started \in Nat
    BY ParameterAssumption, DroppedPeers DEF FilesOK
  <2>3. lines[KeyOf(p)].at \in Int
    BY Keys DEF FilesOK
  <2>4. QED
    BY <2>1, <2>2, <2>3
<1>2. pc = "idle" /\ lines' = lines /\ seq' = seq
  BY DroppedPeers
<1>3. ~Queued(p) /\ Emitted(p) = {} /\ out' = out
  BY <1>2, IdleTick DEF Aggregator!BeginTick
<1>4. Emitted(p)' = {}
  BY <1>3 DEF Emitted
<1>5. Queued(p)' <=> p \in raised'
  <2>1. TickOK' /\ \A q \in raised' : Queued(q)'
    BY <1>1, BegunTick
  <2>2. QED
    BY <2>1 DEF TickOK, Queued
<1> DEFINE b == lines[KeyOf(p)]
<1>6. SUFFICES ASSUME b.at > started
      PROVE  /\ Indexed(p)' => /\ byKey'[KeyOf(p)] = b.id
                               /\ Incident(p)'.lastSeen = b.at /\ Incident(p)'.lastEmitted = b.at
             /\ IF Queued(p)' THEN now' - b.at >= Cooldown /\ (now' - b.at = Cooldown => Indexed(p)')
                ELSE b.at = alerted'[p] /\ (now' - b.at <= Cooldown => Indexed(p)')
             /\ b.id \in Aggregator!Id /\ b.id.n <= seq
  BY <1>2, <1>4 DEF LastLineOK, LineToComeOK
<1>7. /\ b.id \in Aggregator!Id /\ b.id.n <= seq
      /\ Indexed(p) => /\ byKey[KeyOf(p)] = b.id
                       /\ Incident(p).lastSeen = b.at /\ Incident(p).lastEmitted = b.at
      /\ b.at = alerted[p]
      /\ now - b.at <= Cooldown => Indexed(p)
  BY <1>3, <1>6 DEF LastLineOK
<1>8. Indexed(p)' => /\ byKey'[KeyOf(p)] = b.id
                     /\ Incident(p)'.lastSeen = b.at /\ Incident(p)'.lastEmitted = b.at
  BY <1>7, DroppedPeers
<1>9. now' - b.at <= Cooldown => Indexed(p)'
  <2>1. SUFFICES ASSUME now' - b.at <= Cooldown PROVE Indexed(p)'
    OBVIOUS
  <2>2. Indexed(p)
    BY <1>1, <1>7, <2>1
  <2>3. QED
    BY <1>1, <1>7, <2>1, <2>2, KeptOpen
<1>10. CASE p \in raised'
  <2>1. alerted[p] # 0
    BY <1>1, <1>6, <1>7
  <2>2. now' - b.at >= Cooldown
    BY <1>7, <1>10, <2>1
  <2>3. now' - b.at = Cooldown => Indexed(p)'
    BY <1>1, <1>9
  <2>4. QED
    BY <1>5, <1>7, <1>8, <1>10, <2>2, <2>3
<1>11. CASE p \notin raised'
  BY <1>5, <1>7, <1>8, <1>9, <1>11
<1>12. QED
  BY <1>10, <1>11

(* The alert of q is handled: a new incident gets a new id, and a repeat   *)
(* continues the incident of the last line only on the dot.                *)
LEMMA HandledDot ==
    ASSUME TrackInv, FilesOK, TickOK, PeersStay, NEW q, Heading(q), NEW iid, NEW st,
           Repeated(q, iid, st) \/ \E l : Opened(q, iid, st, l),
           NEW p \in Peer, LastLineOK(p), LineToComeOK(p)
    PROVE  LastLineOK(p)' /\ LineToComeOK(p)'
<1>1. /\ seq \in Nat /\ seq' \in {seq, seq + 1} /\ UNCHANGED <<now, started, alerted>>
      /\ now \in Nat /\ Cooldown \in Nat /\ Cooldown > 0
      /\ IncidentWindow = Cooldown /\ QuietPeriod \in Nat /\ QuietPeriod <= Cooldown
  <2>1. seq \in Nat /\ now \in Nat /\ seq' \in {seq, seq + 1}
    BY DEF FilesOK, TrackInv, TrackTypeOK, Repeated, Opened
  <2>2. UNCHANGED <<now, started, alerted>>
    BY DEF PeersStay
  <2>3. Cooldown \in Nat /\ Cooldown > 0 /\ IncidentWindow = Cooldown
        /\ QuietPeriod \in Nat /\ QuietPeriod <= Cooldown
    BY ParameterAssumption, PacingAssumption
  <2>4. QED
    BY <2>1, <2>2, <2>3
<1>2. /\ lines'[KeyOf(p)] = lines[KeyOf(p)] /\ lines[KeyOf(p)].at \in Int
  <2>1. KeyOf(p) \in Aggregator!Key /\ lines' = lines
    BY Keys DEF Heading
  <2>2. QED
    BY <2>1 DEF FilesOK
<1> DEFINE b == lines[KeyOf(p)]
<1>3. b.at > started => b.id \in Aggregator!Id /\ b.id.n <= seq /\ b.id.n <= seq'
  <2>1. SUFFICES ASSUME b.at > started
                 PROVE  b.id \in Aggregator!Id /\ b.id.n <= seq /\ b.id.n <= seq'
    OBVIOUS
  <2>2. b.id \in Aggregator!Id /\ b.id.n <= seq
    BY <2>1 DEF LastLineOK
  <2>3. b.id.n \in Nat
    BY <2>2 DEF Aggregator!Id
  <2>4. QED
    BY <1>1, <2>2, <2>3
<1>4. CASE p # q
  <2>1. /\ Queued(p)' <=> Queued(p)
        /\ Emitted(p)' = Emitted(p) /\ byKey'[KeyOf(p)] = byKey[KeyOf(p)]
        /\ Indexed(p)' <=> Indexed(p)
        /\ Indexed(p) => Incident(p)' = Incident(p)
    BY <1>4, HandledOthers
  <2>2. LastLineOK(p)'
    BY <1>1, <1>2, <1>3, <2>1 DEF LastLineOK
  <2>3. LineToComeOK(p)'
    BY <1>1, <1>2, <2>1 DEF LineToComeOK
  <2>4. QED
    BY <2>2, <2>3
<1>5. CASE p = q
  <2>1. alerted[p] = now /\ Queued(p) /\ ~Queued(p)' /\ Emitted(p) = {}
    BY <1>5, HandledPeer, QueuedAreRaised
  <2>2. b.at > started =>
          /\ now - b.at >= Cooldown /\ (now - b.at = Cooldown => Indexed(p)) /\ b.at # now
          /\ Indexed(p) => /\ byKey[KeyOf(p)] = b.id
                           /\ Incident(p).lastSeen = b.at /\ Incident(p).lastEmitted = b.at
    BY <1>1, <1>2, <2>1 DEF LastLineOK
  <2>3. ASSUME NEW l, Opened(p, iid, st, l) PROVE LastLineOK(p)' /\ LineToComeOK(p)'
    <3>1. /\ Indexed(p)' /\ ~Indexed(p) /\ byKey'[KeyOf(p)] = iid
          /\ Incident(p)'.lastSeen = now /\ Incident(p)'.lastEmitted = now
          /\ Emitted(p)' = {l}
      BY <1>5, <2>3, HandledPeer
    <3>2. l.id = iid /\ iid.n = seq + 1
      BY <2>3 DEF Opened
    <3>3. b.at > started => l.id # b.id /\ now - b.at # Cooldown
      <4>1. b.at > started => b.id.n \in Nat /\ b.id.n <= seq
        BY <1>3 DEF Aggregator!Id
      <4>2. b.at > started => iid # b.id
        BY <1>1, <3>2, <4>1
      <4>3. QED
        BY <2>2, <3>1, <3>2, <4>2
    <3>4. LastLineOK(p)'
      BY <1>2, <1>3, <1>1, <3>1 DEF LastLineOK
    <3>5. LineToComeOK(p)'
      BY <1>1, <1>2, <2>1, <2>2, <3>1, <3>2, <3>3 DEF LineToComeOK
    <3>6. QED
      BY <3>4, <3>5
  <2>4. CASE Repeated(p, iid, st)
    <3>1. /\ Indexed(p)' /\ Indexed(p) /\ byKey'[KeyOf(p)] = iid /\ iid = byKey[KeyOf(p)]
          /\ Incident(p)' = st /\ st.lastSeen = now
          /\ now - Incident(p).lastSeen <= Cooldown
      <4>1. st.lastSeen = now /\ iid = byKey[KeyOf(p)] /\ now - open[iid].lastSeen <= Cooldown
        BY <1>1, <2>4 DEF Repeated
      <4>2. QED
        BY <1>5, <2>4, <4>1, HandledPeer DEF Incident
    <3>2. b.at > started => now - b.at = Cooldown /\ iid = b.id
      BY <1>1, <1>2, <2>2, <3>1
    <3>3. CASE st.lastEmitted = now /\ \E l : Emitted(p)' = {l} /\ l.id = iid
      <4>1. PICK l : Emitted(p)' = {l} /\ l.id = iid
        BY <3>3
      <4>2. LastLineOK(p)'
        BY <1>1, <1>2, <1>3, <4>1 DEF LastLineOK
      <4>3. LineToComeOK(p)'
        BY <1>1, <1>2, <2>1, <2>2, <3>1, <3>2, <3>3, <4>1 DEF LineToComeOK
      <4>4. QED
        BY <4>2, <4>3
    <3>4. CASE now - Incident(p).lastEmitted < QuietPeriod /\ Emitted(p)' = {}
      <4>1. ~(b.at > started)
        BY <1>1, <1>2, <2>2, <3>1, <3>2, <3>4
      <4>2. QED
        BY <1>1, <1>2, <3>4, <4>1 DEF LastLineOK, LineToComeOK
    <3>5. QED
      BY <1>5, <2>4, <3>3, <3>4, HandledPeer
  <2>5. QED
    BY <1>5, <2>3, <2>4
<1>6. QED
  BY <1>4, <1>5

LEMMA WrittenDot ==
    ASSUME TrackInv, FilesOK, TickOK, PeersStay,
           Aggregator!FlushIncidents \/ Aggregator!WriteLine,
           NEW p \in Peer, LastLineOK(p), LineToComeOK(p)
    PROVE  LastLineOK(p)' /\ LineToComeOK(p)'
<1>x. UNCHANGED <<now, started, alerted>> /\ now \in Nat /\ Cooldown \in Nat
  BY ParameterAssumption DEF PeersStay, TrackInv, TrackTypeOK
<1>1. CASE Aggregator!FlushIncidents
  <2>1. UNCHANGED <<seq, queue, open, byKey, out, lines>>
    BY <1>1 DEF Aggregator!FlushIncidents, Aggregator!memory, Aggregator!history
  <2>2. QED
    BY <1>x, <2>1 DEF LastLineOK, LineToComeOK, Queued, Indexed, Incident, Emitted
<1>2. CASE Aggregator!WriteLine
  <2>1. PICK l \in out :
          /\ out' = out \ {l}
          /\ lines' = [lines EXCEPT ![l.key] =
                       [at |-> l.at, id |-> l.id,
                        escalated |-> l.reasons \subseteq Aggregator!Escalation]]
    BY <1>2 DEF Aggregator!WriteLine
  <2>2. seq' = seq
    BY <1>2 DEF Aggregator!WriteLine, Aggregator!memory
  <2>3. /\ Queued(p)' <=> Queued(p)
        /\ byKey'[KeyOf(p)] = byKey[KeyOf(p)] /\ (Indexed(p)' <=> Indexed(p))
        /\ Incident(p)' = Incident(p)
        /\ l.key = KeyOf(p) => /\ lines'[KeyOf(p)].at = now /\ lines'[KeyOf(p)].id = l.id
                               /\ Emitted(p) = {l} /\ Emitted(p)' = {}
        /\ l.key # KeyOf(p) => lines'[KeyOf(p)] = lines[KeyOf(p)] /\ Emitted(p)' = Emitted(p)
    BY <1>2, <2>1, <1>x, WrittenPeers
  <2>4. CASE l.key # KeyOf(p)
    BY <1>x, <2>2, <2>3, <2>4 DEF LastLineOK, LineToComeOK
  <2>5. CASE l.key = KeyOf(p)
    <3>1. /\ alerted[p] = now /\ Indexed(p) /\ byKey[KeyOf(p)] = l.id
          /\ Incident(p).lastSeen = now /\ Incident(p).lastEmitted = now
      BY <2>3, <2>5 DEF LineToComeOK
    <3>2. ~Queued(p)
      BY <2>5 DEF TickOK, Queued
    <3>3. l.id \in Aggregator!Id /\ l.id.n <= seq
      BY <3>1 DEF FilesOK, IncidentsOK, Indexed
    <3>4. LastLineOK(p)'
      BY <1>x, <2>2, <2>3, <2>5, <3>1, <3>2, <3>3 DEF LastLineOK
    <3>5. LineToComeOK(p)'
      BY <2>3, <2>5 DEF LineToComeOK
    <3>6. QED
      BY <3>4, <3>5
  <2>6. QED
    BY <2>4, <2>5
<1>3. QED
  BY <1>1, <1>2

LEMMA RestedDot ==
    ASSUME FilesOK, TickOK, now \in Nat, now' = now + 1, pc \in {"idle", "down"},
           UNCHANGED <<seq, queue, open, byKey, out, lines, started, alerted>>,
           NEW p \in Peer, LastLineOK(p)
    PROVE  LastLineOK(p)' /\ LineToComeOK(p)'
<1>1. ~Queued(p) /\ Emitted(p) = {}
  BY IdleTick
<1>2. ~Queued(p)' /\ Emitted(p)' = {} /\ (Indexed(p)' <=> Indexed(p)) /\ Incident(p)' = Incident(p)
  BY <1>1 DEF Queued, Emitted, Indexed, Incident
<1>3. lines[KeyOf(p)].at \in Int /\ Cooldown \in Nat
  BY Keys, ParameterAssumption DEF FilesOK
<1>4. now' - lines[KeyOf(p)].at <= Cooldown => now - lines[KeyOf(p)].at <= Cooldown
  BY <1>3
<1>5. QED
  BY <1>1, <1>2, <1>4 DEF LastLineOK, LineToComeOK

LEMMA DotStep ==
    ASSUME BothInv, BothInv', AnnounceInv, DotInv, [JoinedNext]_all
    PROVE  DotInv'
<1>1. TrackInv /\ TrackInv' /\ FilesOK /\ TickOK /\ now \in Nat
  BY DEF BothInv, AnnounceInv, TrackInv, TrackTypeOK
<1>2. SUFFICES ASSUME NEW p \in Peer, pc' # "down" PROVE LastLineOK(p)' /\ LineToComeOK(p)'
  BY DEF DotInv
<1>3. pc # "down" => LastLineOK(p) /\ LineToComeOK(p)
  BY DEF DotInv
<1>4. ASSUME Score, Listen, Aggregator!BeginTick(SetToSeq({Raise(q) : q \in raised'}), 1)
      PROVE  LastLineOK(p)' /\ LineToComeOK(p)'
  <2>1. p \notin raised' => alerted'[p] = alerted[p]
    <3>1. PICK active, heavy, lag, known, new : Listened(active, heavy, lag, known, new)
      <4>1. site' = site
        BY <1>4 DEF Score
      <4>2. QED
        BY <1>1, <1>4, <4>1, Listening
    <3>2. QED
      BY <3>1 DEF Listened
  <2>2. p \in raised' => alerted[p] = 0 \/ now' - alerted[p] >= Cooldown
    <3>1. now' # now /\ TrackNext
      BY <1>1, <1>4, DroppedPeers DEF TrackNext, Score
    <3>2. QED
      BY <1>1, <3>1, RepeatStep DEF BothInv
  <2>3. LastLineOK(p) /\ started' = started
    BY <1>3, <1>4 DEF Score
  <2>4. QED
    BY <1>1, <1>4, <2>1, <2>2, <2>3, BegunDot
<1>5. CASE pc = "idle" /\ NoFeatures /\ UNCHANGED files /\ UNCHANGED started
  <2>1. UNCHANGED <<seq, queue, open, byKey, out, lines, started, alerted>> /\ now' = now + 1
    BY <1>5 DEF files, NoFeatures
  <2>2. QED
    BY <1>1, <1>3, <1>5, <2>1, RestedDot
<1>6. CASE Process
  <2>1. PeersStay
    BY <1>6 DEF Process, PeersStay, vars, ghosts
  <2>2. CASE Aggregator!OpenNew \/ Aggregator!Repeat
    <3>1. PICK q, iid, st : Heading(q) /\ (Repeated(q, iid, st) \/ \E l : Opened(q, iid, st, l))
      BY <1>1, <2>2, OpeningNew, Repeating
    <3>2. LastLineOK(p) /\ LineToComeOK(p)
      BY <1>3, <3>1 DEF Heading
    <3>3. QED
      BY <1>1, <2>1, <3>1, <3>2, HandledDot
  <2>3. CASE Aggregator!FlushIncidents \/ Aggregator!WriteLine
    <3>1. LastLineOK(p) /\ LineToComeOK(p)
      BY <1>3, <2>3 DEF Aggregator!FlushIncidents, Aggregator!WriteLine
    <3>2. QED
      BY <1>1, <2>1, <2>3, <3>1, WrittenDot
  <2>4. QED
    BY <1>6, <2>2, <2>3 DEF Process
<1>7. CASE Die \/ StayDown
  BY <1>2, <1>7 DEF Die, StayDown, Aggregator!Crash, files
<1>8. CASE StartAgain
  <2>1. lines' = lines /\ out' = {} /\ started' = now
    <3>1. Aggregator!Restart /\ started' = now /\ pc = "down"
      BY <1>8 DEF StartAgain, Aggregator!Restart
    <3>2. lines' = lines /\ out' = out
      BY <3>1 DEF Aggregator!Restart, Aggregator!history
    <3>3. QED
      BY <1>1, <3>1, <3>2 DEF TickOK
  <2>2. lines[KeyOf(p)].at \in Int /\ lines[KeyOf(p)].at <= now
    BY <1>1, Keys DEF FilesOK
  <2>3. ~(lines'[KeyOf(p)].at > started')
    BY <1>1, <2>1, <2>2
  <2>4. QED
    BY <2>1, <2>3 DEF LastLineOK, LineToComeOK, Emitted
<1>9. CASE UNCHANGED all
  <2>1. UNCHANGED <<now, alerted, pc, queue, seq, open, byKey, out, lines, started>>
    BY <1>9 DEF all, vars, files, ghosts
  <2>2. QED
    BY <1>2, <1>3, <2>1 DEF LastLineOK, LineToComeOK, Queued, Indexed, Incident, Emitted
<1>10. QED
  <2>1. CASE Score
    BY <1>4, <1>5, <2>1 DEF Score
  <2>2. QED
    BY <1>6, <1>7, <1>8, <1>9, <2>1 DEF JoinedNext

(* A line about a beacon already heard of in this life of the engine.      *)
LEMMA LineStep ==
    ASSUME BothInv, AnnounceInv, DotInv, [JoinedNext]_all, NEW p \in Peer,
           lines'[KeyOf(p)] # lines[KeyOf(p)], lines[KeyOf(p)].at > started,
           lines[KeyOf(p)].at # now
    PROVE  lines'[KeyOf(p)].id = lines[KeyOf(p)].id
              <=> lines'[KeyOf(p)].at - lines[KeyOf(p)].at = Cooldown
<1>1. TrackInv /\ FilesOK /\ TickOK
  BY DEF BothInv, AnnounceInv
<1>2. Aggregator!WriteLine /\ now' = now
  <2>1. CASE Score
    BY <2>1 DEF Score, Aggregator!BeginTick, files
  <2>2. CASE Process
    BY <2>2 DEF Process, Aggregator!OpenNew, Aggregator!Repeat, Aggregator!FlushIncidents,
       Aggregator!history, vars
  <2>3. CASE Die \/ StayDown \/ StartAgain \/ UNCHANGED all
    BY <2>3 DEF Die, StayDown, StartAgain, all, files, Aggregator!Crash, Aggregator!Restart,
       Aggregator!history
  <2>4. QED
    BY <2>1, <2>2, <2>3 DEF JoinedNext
<1>3. PICK l \in out :
        /\ out' = out \ {l}
        /\ lines' = [lines EXCEPT ![l.key] =
                     [at |-> l.at, id |-> l.id,
                      escalated |-> l.reasons \subseteq Aggregator!Escalation]]
  BY <1>2 DEF Aggregator!WriteLine
<1>4. l.key = KeyOf(p) /\ lines'[KeyOf(p)].at = now /\ lines'[KeyOf(p)].id = l.id
  BY <1>1, <1>2, <1>3, WrittenPeers
<1>5. LineToComeOK(p)
  BY <1>2 DEF DotInv, Aggregator!WriteLine
<1>6. l.id = lines[KeyOf(p)].id <=> now - lines[KeyOf(p)].at = Cooldown
  BY <1>4, <1>5 DEF LineToComeOK, Emitted
<1>7. QED
  BY <1>4, <1>6

(* A beacon that goes on in one life of the engine is a continuation only  *)
(* when it is raised on the second its cooldown ends, and a new incident   *)
(* any later (beaconing.py, alert_cooldown_s; aggregation.py, window_s).   *)
THEOREM BeaconContinuesOnTheDot ==
    ASSUME LagsAreShort
    PROVE  JoinedSpec => ContinuesOnlyOnTheDot
<1> DEFINE I == BothInv /\ AnnounceInv /\ DotInv
<1>1. JoinedInit => I
  BY BothInit, AnnounceInit, DotInit
<1>2. I /\ [JoinedNext]_all => I'
  BY BothStep, AnnounceStep, DotStep
<1>3. I /\ [JoinedNext]_all =>
        [\A p \in Peer :
          LET before == lines[KeyOf(p)]
              after  == lines'[KeyOf(p)]
          IN  after # before /\ before.at > started /\ before.at # now =>
                (after.id = before.id <=> after.at - before.at = Cooldown)]_all
  BY LineStep
<1>4. QED
  BY <1>1, <1>2, <1>3, PTL DEF JoinedSpec, ContinuesOnlyOnTheDot

=============================================================================
