--------------------------- MODULE FeatureProofs ---------------------------
(***************************************************************************)
(* What the engine makes of a batch.  For any number of flows, any map no  *)
(* larger than the window's limit, and any history: the invariants of      *)
(* FlowWindow, and that it implements PacketAccount.  For messages of any  *)
(* length and content, cut anywhere: what PayloadWalk reads in a part.     *)
(***************************************************************************)
EXTENDS FlowWindow, PayloadWalk, FiniteSetTheorems, WellFoundedInduction, TLAPS

-----------------------------------------------------------------------------
(* FlowWindow.                                                             *)
IInv == TypeOK /\ TrackedWhileMapped /\ EveryPacketOnce

(* The cap of _evict never costs a flow of the batch its entry: everything *)
(* not in the batch was last seen earlier, and the batch fits.             *)
LEMMA BatchSurvivesEviction ==
    ASSUME TypeOK, TrackedWhileMapped, NEW received \in Nat, received > lastTick,
           NEW D \in SUBSET DOMAIN Observed(received), Overflow(D, received)
    PROVE  DOMAIN map \subseteq DOMAIN Observed(received) \ (Idle(received) \cup D)
<1> DEFINE held == Observed(received)
           kept == DOMAIN held \ Idle(received)
<1>1. /\ DOMAIN held = DOMAIN seen \cup DOMAIN map
      /\ \A k \in DOMAIN map : held[k].lastSeen = received
      /\ \A k \in DOMAIN seen \ DOMAIN map : held[k].lastSeen < received
  BY DEF Observed, TypeOK, TrackedWhileMapped, Never
<1>2. DOMAIN map \subseteq kept
  BY <1>1, SizeAssumption DEF Idle, TypeOK
<1>3. /\ IsFiniteSet(kept) /\ IsFiniteSet(D) /\ IsFiniteSet(DOMAIN map)
      /\ IsFiniteSet(kept \ D)
  <2>1. kept \subseteq Flow /\ D \subseteq Flow /\ DOMAIN map \subseteq Flow
        /\ kept \ D \subseteq Flow
    BY <1>1 DEF TypeOK
  <2>2. QED
    BY <2>1, SizeAssumption, FS_Subset
<1>4. Cardinality(D) = Larger(Cardinality(kept) - MaxTracked, 0) /\ D \subseteq kept
  BY DEF Overflow
<1>5. Cardinality(kept \ D) = Cardinality(kept) - Cardinality(D)
  <2>1. kept \cap D = D
    BY <1>4
  <2>2. QED
    BY <2>1, <1>3, FS_Difference
<1>6. ASSUME NEW b \in DOMAIN map, b \in D
      PROVE  FALSE
  <2>1. D # {} /\ Cardinality(D) \in Nat /\ Cardinality(kept) \in Nat
    BY <1>6, <1>3, FS_CardinalityType
  <2>2. Cardinality(D) > 0
    BY <2>1, <1>3, FS_EmptySet
  <2>3. Cardinality(kept \ D) = MaxTracked
    BY <2>1, <2>2, <1>4, <1>5, SizeAssumption DEF Larger
  <2>4. \A j \in kept \ D : j \in DOMAIN map
    <3>1. \A j \in kept \ D : held[b].lastSeen <= held[j].lastSeen
      BY <1>6 DEF Overflow
    <3>2. \A j \in kept \ D : j \in DOMAIN seen \ DOMAIN map =>
              held[j].lastSeen \in Nat
      BY <1>1 DEF Observed, TypeOK
    <3>3. QED
      BY <3>1, <3>2, <1>1, <1>6 DEF TypeOK
  <2>5. (kept \ D) \cup {b} \subseteq DOMAIN map
    BY <2>4, <1>6
  <2>6. Cardinality((kept \ D) \cup {b}) = MaxTracked + 1
    BY <2>3, <1>3, <1>6, FS_AddElement, SizeAssumption
  <2>7. Cardinality((kept \ D) \cup {b}) <= Cardinality(DOMAIN map)
    BY <2>5, <1>3, FS_Subset
  <2>8. Cardinality(DOMAIN map) \in Nat /\ Cardinality(DOMAIN map) <= MapSize
    BY <1>3, FS_CardinalityType DEF TypeOK
  <2>9. QED
    BY <2>6, <2>7, <2>8, SizeAssumption
<1>7. QED
  BY <1>2, <1>6

LEMMA InitInv == Init => IInv
<1> SUFFICES ASSUME Init PROVE IInv
  OBVIOUS
<1>1. TypeOK
  <2>1. DOMAIN map = {} /\ DOMAIN seen = {} /\ DOMAIN report = {}
    BY DEF Init
  <2>2. Cardinality(DOMAIN map) = 0
    BY <2>1, FS_EmptySet
  <2>3. QED
    BY <2>1, <2>2, SizeAssumption DEF Init, TypeOK, Never
<1>2. TrackedWhileMapped
  BY DEF Init, TrackedWhileMapped, Never
<1>3. EveryPacketOnce
  BY DEF Init, EveryPacketOnce, Pending, Total
<1>4. QED
  BY <1>1, <1>2, <1>3 DEF IInv

LEMMA TickInv == IInv /\ Tick => IInv'
BY DEF IInv, Tick, engine, TypeOK, TrackedWhileMapped, EveryPacketOnce,
       Pending, Total, Never

LEMMA PacketInv == ASSUME IInv, NEW k \in Flow, Packet(k) PROVE IInv'
<1> USE DEF IInv
<1>1. /\ DOMAIN map' = DOMAIN map \cup {k}
      /\ \A f \in DOMAIN map \ {k} : map'[f] = map[f]
      /\ map'[k] \in [packets : Nat \ {0}, first : Nat, last : Nat]
      /\ map'[k].packets = Total(map, k) + 1
  BY DEF Packet, TypeOK, Total
<1>2. TypeOK'
  <2>1. IsFiniteSet(DOMAIN map)
    BY SizeAssumption, FS_Subset DEF TypeOK
  <2>2. Cardinality(DOMAIN map') <= MapSize
    <3>1. Cardinality(DOMAIN map) \in Nat
      BY <2>1, FS_CardinalityType
    <3>2. Cardinality(DOMAIN map \cup {k}) =
            IF k \in DOMAIN map THEN Cardinality(DOMAIN map)
            ELSE Cardinality(DOMAIN map) + 1
      BY <2>1, FS_AddElement
    <3>3. k \in DOMAIN map \/ Cardinality(DOMAIN map) < MapSize
      BY DEF Packet
    <3>4. Cardinality(DOMAIN map) <= MapSize
      BY DEF TypeOK
    <3>5. Cardinality(DOMAIN map') = Cardinality(DOMAIN map \cup {k})
      BY <1>1
    <3>6. QED
      BY <3>1, <3>2, <3>3, <3>4, <3>5, SizeAssumption
  <2>3. DOMAIN map' \subseteq Flow /\ \A f \in DOMAIN map' :
            map'[f] \in [packets : Nat \ {0}, first : Nat, last : Nat]
    BY <1>1 DEF TypeOK
  <2>4. sent' \in [Flow -> Nat] /\ oldest' \in [Flow -> Nat \cup {Never}]
    BY DEF TypeOK, Packet
  <2>5. UNCHANGED <<now, seen, lastTick, report, scored, missed, taken, current>>
    BY DEF Packet, engine
  <2>6. QED
    BY <2>2, <2>3, <2>4, <2>5 DEF TypeOK
<1>3. TrackedWhileMapped'
  BY <1>1 DEF TypeOK, TrackedWhileMapped, Packet, engine, Total
<1>4. EveryPacketOnce'
  <2> SUFFICES ASSUME NEW f \in Flow
               PROVE  sent'[f] = scored'[f] + missed'[f] + Pending(f)'
    BY DEF EveryPacketOnce
  <2>1. sent[f] = scored[f] + missed[f] + Pending(f)
    BY DEF EveryPacketOnce
  <2>2. scored' = scored /\ missed' = missed /\ seen' = seen /\ current' = current
    BY DEF Packet, engine
  <2>3. CASE f = k
    <3>1. Total(map', f) = Total(map, f) + 1
      BY <1>1, <2>3 DEF Total
    <3>2. sent'[f] = sent[f] + 1
      BY <2>3 DEF Packet, TypeOK
    <3>3. QED
      BY <2>1, <2>2, <3>1, <3>2 DEF Pending, Total, TypeOK
  <2>4. CASE f # k
    <3>1. Total(map', f) = Total(map, f) /\ sent'[f] = sent[f]
      BY <1>1, <2>4 DEF Total, Packet, TypeOK
    <3>2. QED
      BY <2>1, <2>2, <3>1 DEF Pending, Total
  <2>5. QED
    BY <2>3, <2>4
<1>5. QED
  BY <1>2, <1>3, <1>4

LEMMA PendingType == IInv => \A k \in Flow : Pending(k) \in Nat
BY DEF IInv, TypeOK, TrackedWhileMapped, Pending, Total

LEMMA ReclaimInv == ASSUME IInv, NEW k \in Flow, Reclaim(k) PROVE IInv'
<1> USE DEF IInv
<1>1. /\ DOMAIN map' = DOMAIN map \ {k}
      /\ \A f \in DOMAIN map' : map'[f] = map[f]
  BY DEF Reclaim
<1>2. TypeOK'
  <2>1. Cardinality(DOMAIN map') <= MapSize
    <3>1. IsFiniteSet(DOMAIN map) /\ DOMAIN map' \in SUBSET DOMAIN map
      BY <1>1, SizeAssumption, FS_Subset DEF TypeOK
    <3>2. Cardinality(DOMAIN map') <= Cardinality(DOMAIN map)
          /\ Cardinality(DOMAIN map) \in Nat /\ Cardinality(DOMAIN map') \in Nat
      BY <3>1, FS_Subset, FS_CardinalityType
    <3>3. QED
      BY <3>2, SizeAssumption DEF TypeOK
  <2>2. missed' \in [Flow -> Nat]
    BY PendingType DEF Reclaim, TypeOK
  <2>3. QED
    BY <1>1, <2>1, <2>2 DEF TypeOK, Reclaim, engine
<1>3. TrackedWhileMapped'
  BY <1>1 DEF TrackedWhileMapped, Reclaim, engine, TypeOK
<1>4. EveryPacketOnce'
  <2> SUFFICES ASSUME NEW f \in Flow
               PROVE  sent'[f] = scored'[f] + missed'[f] + Pending(f)'
    BY DEF EveryPacketOnce
  <2>1. sent[f] = scored[f] + missed[f] + Pending(f)
    BY DEF EveryPacketOnce
  <2>2. scored' = scored /\ sent' = sent /\ seen' = seen
    BY DEF Reclaim, engine
  <2>3. CASE f = k
    <3>1. Pending(f)' = 0
      BY <1>1, <2>3 DEF Pending, Total, Reclaim
    <3>2. missed'[f] = missed[f] + Pending(f)
      BY <2>3 DEF Reclaim, TypeOK
    <3>3. QED
      BY <2>1, <2>2, <3>1, <3>2, PendingType DEF TypeOK
  <2>4. CASE f # k
    <3>1. Pending(f)' = Pending(f) /\ missed'[f] = missed[f]
      BY <1>1, <2>2, <2>4 DEF Pending, Total, Reclaim, TypeOK
    <3>2. QED
      BY <2>1, <2>2, <3>1
  <2>5. QED
    BY <2>3, <2>4
<1>5. QED
  BY <1>2, <1>3, <1>4

(* What one call hands over, of the packets that were pending.             *)
LEMMA DeltaBounds ==
    ASSUME IInv, NEW k \in DOMAIN map
    PROVE  Delta(k) \in Nat /\ Delta(k) <= Pending(k)
<1> USE DEF IInv
<1>1. Total(map, k) = map[k].packets /\ map[k].packets \in Nat
  BY DEF Total, TypeOK
<1>2. CASE k \in current
  <2>1. k \in DOMAIN seen /\ seen[k].packets <= map[k].packets /\ seen[k].packets \in Nat
    BY <1>2 DEF TrackedWhileMapped, TypeOK
  <2>2. QED
    BY <1>1, <1>2, <2>1 DEF Delta, Fresh, Recycled, Pending, Total
<1>3. CASE k \notin current
  BY <1>1, <1>3 DEF Delta, Fresh, Recycled, Pending, TypeOK
<1>4. QED
  BY <1>2, <1>3

LEMMA DeltasInv == ASSUME IInv, NEW received \in Nat, now <= received, Deltas(received) PROVE IInv'
<1> USE DEF IInv
<1>1. PICK D \in SUBSET DOMAIN Observed(received) :
        /\ Overflow(D, received)
        /\ seen' = [k \in DOMAIN Observed(received) \ (Idle(received) \cup D) |->
                        Observed(received)[k]]
  BY DEF Deltas
<1>2. DOMAIN map \subseteq DOMAIN seen'
  BY <1>1, BatchSurvivesEviction DEF Deltas
<1>3. /\ DOMAIN seen' \subseteq DOMAIN seen \cup DOMAIN map
      /\ \A k \in DOMAIN map : seen'[k].packets = map[k].packets /\ seen'[k].lastSeen = received
      /\ \A k \in DOMAIN seen' \ DOMAIN map : seen'[k] = seen[k]
      /\ \A k \in DOMAIN seen' : seen'[k] \in [packets : Nat \ {0}, lastSeen : Nat]
  BY <1>1, <1>2 DEF Observed, TypeOK
<1>4. /\ map' = map /\ sent' = sent /\ now' = now /\ lastTick' = received
      /\ taken' = now /\ current' = DOMAIN map
  BY DEF Deltas
<1>5. TypeOK'
  <2>1. scored' \in [Flow -> Nat]
    BY DeltaBounds DEF Deltas, TypeOK
  <2>2. missed' \in [Flow -> Nat]
    BY DeltaBounds, PendingType DEF Deltas, TypeOK
  <2>3. /\ DOMAIN report' \subseteq Flow
        /\ \A k \in DOMAIN report' :
             report'[k] \in [packets : Nat \ {0}, isNew : BOOLEAN,
                             duration : Int, span : Int, caughtUp : Nat]
    <3>1. \A k \in DOMAIN map : Duration(k, received) \in Int /\ Fresh(k) \in BOOLEAN
                                /\ map[k].last - oldest[k] \in Int
                                /\ CaughtUp(received) \in Nat
      BY DEF Duration, Elapsed, CaughtUp, Larger, Fresh, Recycled, TypeOK, Never
    <3>2. DOMAIN report' = {f \in DOMAIN map : Delta(f) > 0}
      BY DEF Deltas
    <3>3. QED
      BY <3>1, <3>2, DeltaBounds DEF Deltas, TypeOK
  <2>4. oldest' \in [Flow -> Nat \cup {Never}]
    BY DEF Deltas
  <2>5. QED
    BY <1>3, <1>4, <2>1, <2>2, <2>3, <2>4 DEF TypeOK
<1>6. TrackedWhileMapped'
  <2>1. /\ current' \subseteq DOMAIN map' \cap DOMAIN seen'
        /\ \A k \in current' : seen'[k].packets <= map'[k].packets
    BY <1>2, <1>3, <1>4 DEF TypeOK
  <2>2. received > lastTick /\ now \in Nat /\ lastTick \in Int
    BY DEF Deltas, TypeOK, Never
  <2>3. \A k \in DOMAIN seen : seen[k].lastSeen \in Nat /\ seen[k].lastSeen <= received
    BY <2>2 DEF TrackedWhileMapped, TypeOK
  <2>4. \A k \in DOMAIN seen' : seen'[k].lastSeen <= lastTick'
    BY <1>3, <1>4, <2>3
  <2>5. taken' <= now' /\ taken' <= lastTick' /\ (taken' = Never <=> lastTick' = Never)
    BY <1>4, <2>2 DEF Never
  <2>6. QED
    BY <2>1, <2>4, <2>5 DEF TrackedWhileMapped
<1>7. EveryPacketOnce'
  <2> SUFFICES ASSUME NEW f \in Flow
               PROVE  sent'[f] = scored'[f] + missed'[f] + Pending(f)'
    BY DEF EveryPacketOnce
  <2>1. sent[f] = scored[f] + missed[f] + Pending(f)
    BY DEF EveryPacketOnce
  <2>2. CASE f \in DOMAIN map
    <3>1. Pending(f)' = 0
      BY <1>2, <1>3, <1>4, <2>2 DEF Pending, Total, TypeOK
    <3>2. /\ scored'[f] = scored[f] + Delta(f)
          /\ missed'[f] = missed[f] + Pending(f) - Delta(f)
      BY <2>2 DEF Deltas
    <3>3. QED
      BY <1>4, <2>1, <2>2, <3>1, <3>2, DeltaBounds, PendingType DEF TypeOK
  <2>3. CASE f \notin DOMAIN map
    <3>1. f \notin current /\ Pending(f)' = Pending(f)
      BY <1>4, <2>3 DEF Pending, Total, TrackedWhileMapped
    <3>2. scored'[f] = scored[f] /\ missed'[f] = missed[f]
      BY <2>3 DEF Deltas
    <3>3. QED
      BY <1>4, <2>1, <3>1, <3>2
  <2>4. QED
    BY <2>2, <2>3
<1>8. QED
  BY <1>5, <1>6, <1>7

LEMMA RestartInv == IInv /\ Restart => IInv'
<1> SUFFICES ASSUME IInv, Restart PROVE IInv'
  OBVIOUS
<1> USE DEF IInv
<1>1. DOMAIN seen' = {} /\ DOMAIN report' = {} /\ current' = {}
      /\ map' = map /\ now' = now /\ lastTick' = Never /\ taken' = Never
  BY DEF Restart
<1>2. TypeOK'
  BY <1>1 DEF Restart, TypeOK, Total
<1>3. TrackedWhileMapped'
  BY <1>1 DEF TrackedWhileMapped, TypeOK, Never
<1>4. EveryPacketOnce'
  BY <1>1 DEF EveryPacketOnce, Pending, Total, Restart, TypeOK
<1>5. QED
  BY <1>2, <1>3, <1>4

LEMMA StepInv == IInv /\ [Next]_vars => IInv'
<1> SUFFICES ASSUME IInv, [Next]_vars PROVE IInv'
  OBVIOUS
<1>1. CASE Tick
  BY <1>1, TickInv
<1>2. ASSUME NEW k \in Flow, Packet(k) PROVE IInv'
  BY <1>2, PacketInv
<1>3. ASSUME NEW k \in Flow, Reclaim(k) PROVE IInv'
  BY <1>3, ReclaimInv
<1>4. ASSUME NEW received \in now .. MaxNow, Deltas(received) PROVE IInv'
  BY <1>4, DeltasInv, SizeAssumption DEF IInv, TypeOK
<1>5. CASE Restart
  BY <1>5, RestartInv
<1>6. CASE UNCHANGED vars
  BY <1>6 DEF vars, engine, IInv, TypeOK, TrackedWhileMapped, EveryPacketOnce,
              Pending, Total
<1>7. QED
  BY <1>1, <1>2, <1>3, <1>4, <1>5, <1>6 DEF Next

(* The window's state is well typed in every reachable state, and it never *)
(* forgets a flow that the kernel map still holds: _evict takes only flows *)
(* that no later batch repeats.                                            *)
THEOREM WindowStaysCoherent == Spec => []WindowCoherent
<1>1. Init => IInv
  BY InitInv
<1>2. IInv /\ [Next]_vars => IInv'
  BY StepInv
<1>3. IInv => WindowCoherent
  BY DEF IInv, WindowCoherent
<1>4. QED
  BY <1>1, <1>2, <1>3, PTL DEF Spec

(* The deltas handed to the detectors account for every packet exactly:    *)
(* deltas() together with _evict() never scores a packet twice, and loses  *)
(* one only when the kernel map recycled the 5-tuple.                      *)
THEOREM EveryPacketScoredOnce == Spec => []EveryPacketOnce
<1>1. Init => IInv
  BY InitInv
<1>2. IInv /\ [Next]_vars => IInv'
  BY StepInv
<1>3. IInv => EveryPacketOnce
  BY DEF IInv
<1>4. QED
  BY <1>1, <1>2, <1>3, PTL DEF Spec

(* Hence no flow's deltas exceed its packets.                              *)
NoDoubleCount == \A k \in Flow : scored[k] <= sent[k]

THEOREM NothingCountedTwice == Spec => []NoDoubleCount
<1>1. IInv => NoDoubleCount
  BY PendingType DEF IInv, NoDoubleCount, EveryPacketOnce, TypeOK
<1>2. Init => IInv
  BY InitInv
<1>3. IInv /\ [Next]_vars => IInv'
  BY StepInv
<1>4. QED
  BY <1>1, <1>2, <1>3, PTL DEF Spec

-----------------------------------------------------------------------------
(* What RateWithinBacklog rests on: a packet not handed over yet has a     *)
(* time, no earlier than the snapshot of the last batch, nor than its      *)
(* flow's first packet; and a window without a last batch tracks nothing.  *)
PendingSinceLastBatch ==
    /\ \A k \in Flow : /\ Pending(k) > 0 => oldest[k] # Never
                       /\ oldest[k] # Never =>
                            /\ taken <= oldest[k]
                            /\ k \in DOMAIN map /\ map[k].first <= oldest[k]
    /\ \A k \in DOMAIN map : map[k].first <= now /\ map[k].last <= now
    /\ lastTick = Never => DOMAIN seen = {}

RateInv == IInv /\ PendingSinceLastBatch /\ RateWithinBacklog

LEMMA DeltasRate ==
    ASSUME RateInv, NEW received \in Nat, now <= received, Deltas(received)
    PROVE  (PendingSinceLastBatch /\ RateWithinBacklog)'
<1> USE DEF RateInv, IInv
<1>1. /\ map' = map /\ now' = now /\ lastTick' = received /\ taken' = now
      /\ oldest' = [k \in Flow |-> Never] /\ lastTick' # Never
  BY DEF Deltas, TypeOK, Never
<1>2. \A k \in Flow : Pending(k)' = 0
  <2>1. PICK D \in SUBSET DOMAIN Observed(received) :
          /\ Overflow(D, received)
          /\ seen' = [k \in DOMAIN Observed(received) \ (Idle(received) \cup D) |->
                          Observed(received)[k]]
    BY DEF Deltas
  <2>2. DOMAIN map \subseteq DOMAIN seen'
    BY <2>1, BatchSurvivesEviction DEF Deltas
  <2>3. \A k \in DOMAIN map : seen'[k].packets = map[k].packets
    BY <2>1, <2>2 DEF Observed
  <2>4. current' = DOMAIN map
    BY DEF Deltas
  <2>5. QED
    BY <1>1, <2>2, <2>3, <2>4 DEF Pending, Total, TypeOK
<1>3. PendingSinceLastBatch'
  BY <1>1, <1>2 DEF PendingSinceLastBatch, TypeOK
<1>4. ASSUME NEW k \in DOMAIN report'
      PROVE  report'[k].span <= report'[k].duration + report'[k].caughtUp
  <2>1. /\ k \in DOMAIN map /\ k \in Flow /\ Delta(k) > 0
        /\ report'[k].span = map[k].last - oldest[k]
        /\ report'[k].duration = Duration(k, received)
        /\ report'[k].caughtUp = CaughtUp(received)
    BY DEF Deltas, TypeOK
  <2>2. oldest[k] # Never /\ oldest[k] \in Nat
    <3>1. Pending(k) > 0
      BY <2>1, DeltaBounds, PendingType
    <3>2. QED
      BY <2>1, <3>1 DEF PendingSinceLastBatch, TypeOK
  <2>3. /\ taken <= oldest[k] /\ map[k].first <= oldest[k] /\ map[k].last <= now
        /\ map[k].first \in Nat /\ map[k].last \in Nat /\ now \in Nat
        /\ lastTick \in Nat \cup {Never} /\ taken \in Nat \cup {Never}
    BY <2>1, <2>2 DEF PendingSinceLastBatch, TypeOK
  <2>4. CASE lastTick = Never
    <3>1. Duration(k, received) = Larger(map[k].last - map[k].first, 0) /\ CaughtUp(received) = 0
      BY <2>4 DEF PendingSinceLastBatch, Duration, Elapsed, CaughtUp
    <3>2. QED
      BY <2>1, <2>2, <2>3, <3>1 DEF Larger
  <2>5. CASE lastTick # Never
    <3>1. Duration(k, received) >= received - lastTick /\ Duration(k, received) \in Int
      BY <2>3, <2>5 DEF Duration, Elapsed, Larger
    <3>2. /\ CaughtUp(received) >= (lastTick - taken) - (received - now)
          /\ CaughtUp(received) \in Int /\ taken \in Nat
      BY <2>3, <2>5 DEF CaughtUp, Larger, TrackedWhileMapped
    <3>3. map[k].last - oldest[k] <= Duration(k, received) + CaughtUp(received)
      BY <2>2, <2>3, <2>5, <3>1, <3>2
    <3>4. QED
      BY <2>1, <3>3
  <2>6. QED
    BY <2>4, <2>5
<1>5. RateWithinBacklog'
  BY <1>4 DEF RateWithinBacklog
<1>6. QED
  BY <1>3, <1>5

LEMMA RateInductive == /\ Init => RateInv
                       /\ RateInv /\ [Next]_vars => RateInv'
<1>1. Init => RateInv
  BY InitInv DEF Init, RateInv, PendingSinceLastBatch, RateWithinBacklog, Pending, Total
<1>2. ASSUME RateInv, [Next]_vars PROVE PendingSinceLastBatch' /\ RateWithinBacklog'
  <2> USE <1>2 DEF RateInv, IInv
  <2>1. ASSUME NEW k \in Flow, Packet(k)
        PROVE  PendingSinceLastBatch' /\ RateWithinBacklog'
    <3>1. /\ DOMAIN map' = DOMAIN map \cup {k}
          /\ \A f \in DOMAIN map \ {k} : map'[f] = map[f]
          /\ map'[k].last = now
          /\ map'[k].first = IF k \in DOMAIN map THEN map[k].first ELSE now
      BY <2>1 DEF Packet, TypeOK
    <3>2. UNCHANGED <<now, seen, lastTick, taken, current, report>>
      BY <2>1 DEF Packet, engine
    <3>3. \A f \in Flow :
            oldest'[f] = IF f = k /\ oldest[f] = Never THEN now ELSE oldest[f]
      BY <2>1 DEF Packet, TypeOK
    <3>4. \A f \in Flow \ {k} : Pending(f)' = Pending(f)
      BY <3>1, <3>2 DEF Pending, Total
    <3>5. oldest'[k] # Never
      BY <3>3 DEF TypeOK, Never
    <3>6. PendingSinceLastBatch'
      <4>1. ASSUME NEW f \in Flow
            PROVE  /\ Pending(f)' > 0 => oldest'[f] # Never
                   /\ oldest'[f] # Never => /\ taken' <= oldest'[f]
                                            /\ f \in DOMAIN map' /\ map'[f].first <= oldest'[f]
        <5>1. CASE f = k
          <6>1. CASE oldest[k] = Never
            <7>1. oldest'[f] = now /\ taken' <= now
              BY <3>2, <3>3, <5>1, <6>1 DEF TrackedWhileMapped
            <7>2. f \in DOMAIN map' /\ map'[f].first <= now
              BY <3>1, <5>1 DEF PendingSinceLastBatch, TypeOK
            <7>3. QED
              BY <3>5, <5>1, <7>1, <7>2
          <6>2. CASE oldest[k] # Never
            <7>1. oldest'[f] = oldest[k] /\ taken' <= oldest[k]
              BY <3>2, <3>3, <5>1, <6>2 DEF PendingSinceLastBatch
            <7>2. k \in DOMAIN map /\ map[k].first <= oldest[k]
              BY <6>2 DEF PendingSinceLastBatch
            <7>3. f \in DOMAIN map' /\ map'[f].first = map[k].first
              BY <3>1, <5>1, <7>2
            <7>4. QED
              BY <3>5, <5>1, <7>1, <7>2, <7>3
          <6>3. QED
            BY <6>1, <6>2
        <5>2. CASE f # k
          <6>1. Pending(f)' = Pending(f) /\ oldest'[f] = oldest[f]
            BY <3>3, <3>4, <5>2
          <6>2. oldest[f] # Never => f \in DOMAIN map' /\ map'[f] = map[f]
            BY <3>1, <5>2 DEF PendingSinceLastBatch
          <6>3. QED
            BY <3>2, <6>1, <6>2 DEF PendingSinceLastBatch
        <5>3. QED
          BY <5>1, <5>2
      <4>2. \A f \in DOMAIN map' : map'[f].first <= now' /\ map'[f].last <= now'
        BY <3>1, <3>2 DEF PendingSinceLastBatch, TypeOK
      <4>3. lastTick' = Never => DOMAIN seen' = {}
        BY <3>2 DEF PendingSinceLastBatch
      <4>4. QED
        BY <4>1, <4>2, <4>3 DEF PendingSinceLastBatch
    <3>7. RateWithinBacklog'
      BY <3>2 DEF RateWithinBacklog
    <3>8. QED
      BY <3>6, <3>7
  <2>2. ASSUME NEW k \in Flow, Reclaim(k)
        PROVE  PendingSinceLastBatch' /\ RateWithinBacklog'
    <3>1. /\ DOMAIN map' = DOMAIN map \ {k}
          /\ \A f \in DOMAIN map' : map'[f] = map[f]
          /\ UNCHANGED <<now, seen, lastTick, taken, report>> /\ current' = current \ {k}
          /\ \A f \in Flow : oldest'[f] = IF f = k THEN Never ELSE oldest[f]
      BY <2>2 DEF Reclaim, engine, TypeOK
    <3>2. \A f \in Flow : Pending(f)' = IF f = k THEN 0 ELSE Pending(f)
      BY <3>1 DEF Pending, Total
    <3>3. QED
      BY <3>1, <3>2 DEF PendingSinceLastBatch, RateWithinBacklog
  <2>3. ASSUME NEW received \in now .. MaxNow, Deltas(received)
        PROVE  PendingSinceLastBatch' /\ RateWithinBacklog'
    BY <2>3, DeltasRate, SizeAssumption DEF TypeOK
  <2>4. CASE Restart
    <3>1. /\ DOMAIN seen' = {} /\ DOMAIN report' = {} /\ current' = {}
          /\ map' = map /\ now' = now /\ lastTick' = Never /\ taken' = Never
      BY <2>4 DEF Restart
    <3>2. \A f \in Flow :
            /\ Pending(f)' = Total(map, f)
            /\ oldest'[f] = IF f \in DOMAIN map THEN map[f].first ELSE Never
      BY <2>4, <3>1 DEF Restart, Pending, Total, TypeOK
    <3>3. \A f \in Flow : Total(map, f) > 0 => f \in DOMAIN map
      BY DEF Total
    <3>4. \A f \in DOMAIN map : map[f].first \in Nat
      BY DEF TypeOK
    <3>5. QED
      BY <3>1, <3>2, <3>3, <3>4 DEF PendingSinceLastBatch, RateWithinBacklog, Never
  <2>5. CASE Tick \/ UNCHANGED vars
    BY <2>5 DEF Tick, vars, engine, PendingSinceLastBatch, RateWithinBacklog,
                Pending, Total, TypeOK
  <2>6. QED
    BY <2>1, <2>2, <2>3, <2>4, <2>5 DEF Next
<1>3. QED
  BY <1>1, <1>2, StepInv DEF RateInv

(* deltas() inflates a rate by no more than the engine has caught up:      *)
(* however many batches were missed, and whatever was recycled or          *)
(* restarted, what a flow is handed over with arrived within the duration  *)
(* its rates are divided by, plus the time by which its batch waited less  *)
(* than the one before.                                                    *)
THEOREM RatesInflatedByBacklogOnly == Spec => []RateWithinBacklog
BY RateInductive, PTL DEF Spec, RateInv

-----------------------------------------------------------------------------
(* FlowWindow implements PacketAccount.  No flow's total in the map        *)
(* exceeds what it sent: a restarted engine finds no more than that        *)
(* pending.                                                                *)
TotalsWereSent == \A k \in Flow : Total(map, k) <= sent[k]

RInv == IInv /\ TotalsWereSent

LEMMA RInvInductive == /\ Init => RInv
                       /\ RInv /\ [Next]_vars => RInv'
<1>1. Init => RInv
  BY InitInv DEF Init, RInv, TotalsWereSent, Total
<1>2. ASSUME RInv, [Next]_vars PROVE TotalsWereSent'
  <2> USE <1>2 DEF RInv, IInv, TotalsWereSent
  <2>1. ASSUME NEW k \in Flow, Packet(k) PROVE TotalsWereSent'
    BY <2>1 DEF Packet, Total, TypeOK
  <2>2. ASSUME NEW k \in Flow, Reclaim(k) PROVE TotalsWereSent'
    BY <2>2 DEF Reclaim, Total, TypeOK
  <2>3. CASE Tick \/ (\E received \in now .. MaxNow : Deltas(received)) \/ UNCHANGED vars
    BY <2>3 DEF Tick, Deltas, vars, Total
  <2>4. CASE Restart
    BY <2>4 DEF Restart, Total, TypeOK
  <2>5. QED
    BY <1>2, <2>1, <2>2, <2>3, <2>4 DEF Next
<1>3. QED
  BY <1>1, <1>2, StepInv DEF RInv

LEMMA InitRefines == Init => Account!AccountInit
BY DEF Init, Account!AccountInit, Pending, Total

LEMMA PacketRefines ==
    ASSUME RInv, NEW k \in Flow, Packet(k) PROVE Account!Arrive(k)
<1> USE DEF RInv, IInv
<1>1. /\ DOMAIN map' = DOMAIN map \cup {k}
      /\ \A f \in DOMAIN map \ {k} : map'[f] = map[f]
      /\ map'[k].packets = Total(map, k) + 1
  BY DEF Packet, TypeOK, Total
<1>2. UNCHANGED <<seen, current, scored, missed, report>>
  BY DEF Packet, engine
<1>3. ASSUME NEW f \in Flow
      PROVE  Pending(f)' = IF f = k THEN Pending(f) + 1 ELSE Pending(f)
  <2>1. Total(map', f) = IF f = k THEN Total(map, f) + 1 ELSE Total(map, f)
    BY <1>1 DEF Total
  <2>2. Total(map, f) \in Nat /\ (f \in current => Total(seen, f) \in Nat)
    BY DEF Total, TypeOK, TrackedWhileMapped
  <2>3. QED
    BY <1>2, <2>1, <2>2 DEF Pending
<1>4. QED
  BY <1>2, <1>3 DEF Account!Arrive

LEMMA ReclaimRefines ==
    ASSUME RInv, NEW k \in Flow, Reclaim(k) PROVE Account!Lose(k)
<1> USE DEF RInv, IInv
<1>1. UNCHANGED <<seen, scored, report>> /\ current' = current \ {k}
  BY DEF Reclaim, engine
<1>2. ASSUME NEW f \in Flow
      PROVE  Pending(f)' = IF f = k THEN 0 ELSE Pending(f)
  BY <1>1 DEF Pending, Total, Reclaim, TypeOK
<1>3. k \in current \/ Pending(k) > 0
  BY DEF Reclaim, Pending, Total, TypeOK
<1>4. (DOMAIN seen \ current)' = (DOMAIN seen \ current) \cup ({k} \cap current)
  BY <1>1 DEF TrackedWhileMapped
<1>5. missed' = [missed EXCEPT ![k] = @ + Pending(k)]
  BY DEF Reclaim
<1>6. QED
  BY <1>1, <1>2, <1>3, <1>4, <1>5 DEF Account!Lose, Account!Present

(* What a batch hands over of one flow of the map.                         *)
LEMMA Handed ==
    ASSUME IInv, NEW k \in DOMAIN map
    PROVE  /\ k \notin DOMAIN seen \ current => Delta(k) = Pending(k)
           /\ Delta(k) > 0 => (Fresh(k) <=> k \notin current /\ Delta(k) = Pending(k))
           /\ k \notin current => Pending(k) > 0
<1> USE DEF IInv
<1>1. Total(map, k) = map[k].packets /\ map[k].packets \in Nat \ {0}
  BY DEF Total, TypeOK
<1>2. CASE k \in current
  <2>1. k \in DOMAIN seen /\ seen[k].packets <= map[k].packets
        /\ seen[k].packets \in Nat \ {0}
    BY <1>2 DEF TrackedWhileMapped, TypeOK
  <2>2. QED
    BY <1>1, <1>2, <2>1 DEF Delta, Fresh, Recycled, Pending, Total
<1>3. CASE k \in DOMAIN seen \ current
  <2>1. seen[k].packets \in Nat \ {0}
    BY <1>3 DEF TypeOK
  <2>2. QED
    BY <1>1, <1>3, <2>1 DEF Delta, Fresh, Recycled, Pending
<1>4. CASE k \notin DOMAIN seen
  <2>1. k \notin current
    BY <1>4 DEF TrackedWhileMapped
  <2>2. QED
    BY <1>1, <1>4, <2>1 DEF Delta, Fresh, Pending
<1>5. QED
  BY <1>2, <1>3, <1>4

LEMMA DeltasRefines ==
    ASSUME RInv, NEW received \in Nat, now <= received, Deltas(received) PROVE Account!Batch
<1> USE DEF RInv
<1>1. PICK D \in SUBSET DOMAIN Observed(received) :
        /\ Overflow(D, received)
        /\ seen' = [k \in DOMAIN Observed(received) \ (Idle(received) \cup D) |->
                        Observed(received)[k]]
  BY DEF Deltas
<1>2. DOMAIN map \subseteq DOMAIN seen'
  BY <1>1, BatchSurvivesEviction DEF Deltas, IInv
<1>3. /\ DOMAIN seen' \subseteq DOMAIN seen \cup DOMAIN map
      /\ \A k \in DOMAIN map : seen'[k].packets = map[k].packets
  BY <1>1, <1>2 DEF Observed
<1>4. map' = map /\ current' = DOMAIN map
  BY DEF Deltas
<1>5. /\ DOMAIN map \subseteq Flow /\ current \subseteq DOMAIN map
      /\ \A k \in Flow \ DOMAIN map : Pending(k) = 0
  BY DEF IInv, TypeOK, TrackedWhileMapped, Pending, Total
<1>6. \A k \in Flow : Pending(k)' = 0
  BY <1>2, <1>3, <1>4 DEF Pending, Total, IInv, TypeOK
<1>7. \A k \in Flow :
        scored'[k] - scored[k] = IF k \in DOMAIN map THEN Delta(k) ELSE 0
  BY DeltaBounds DEF Deltas, IInv, TypeOK
<1>8. scored' \in [Flow -> Nat]
  BY DeltaBounds DEF Deltas, IInv, TypeOK
<1>9. \A k \in Flow :
        /\ scored'[k] - scored[k] \in 0 .. Pending(k)
        /\ k \notin DOMAIN seen \ current => scored'[k] - scored[k] = Pending(k)
  BY <1>5, <1>7, Handed, DeltaBounds, PendingType
<1>10. missed' = [k \in Flow |-> missed[k] + Pending(k) - (scored'[k] - scored[k])]
  <2>1. \A k \in Flow : missed'[k] = missed[k] + Pending(k) - (scored'[k] - scored[k])
    BY <1>5, <1>7, PendingType DEF Deltas, IInv, TypeOK
  <2>2. missed' = [k \in Flow |-> missed'[k]]
    BY DEF Deltas
  <2>3. QED
    BY <2>1, <2>2
<1>11. [k \in DOMAIN report |->
          [packets |-> report[k].packets, isNew |-> report[k].isNew]]'
         = [k \in {f \in Flow : scored'[f] - scored[f] > 0} |->
              [packets |-> scored'[k] - scored[k],
               isNew |-> k \notin current /\ scored'[k] - scored[k] = Pending(k)]]
  <2>1. DOMAIN report' = {f \in Flow : scored'[f] - scored[f] > 0}
    BY <1>5, <1>7 DEF Deltas
  <2>2. \A k \in DOMAIN report' :
          /\ k \in DOMAIN map /\ Delta(k) > 0
          /\ report'[k].packets = Delta(k) /\ report'[k].isNew = Fresh(k)
    BY DEF Deltas
  <2>3. \A k \in DOMAIN report' :
          /\ report'[k].packets = scored'[k] - scored[k]
          /\ report'[k].isNew = (k \notin current /\ scored'[k] - scored[k] = Pending(k))
    <3>1. ASSUME NEW k \in DOMAIN report'
          PROVE  Fresh(k) = (k \notin current /\ Delta(k) = Pending(k))
      BY <2>2, Handed DEF Fresh, Recycled
    <3>2. QED
      BY <3>1, <2>2, <1>5, <1>7
  <2>4. QED
    BY <2>1, <2>3
<1>12. current' = {k \in Flow : k \in current \/ Pending(k) > 0}
  BY <1>4, <1>5, Handed
<1>13. (DOMAIN seen \ current)' \subseteq (DOMAIN seen \ current) \ current'
  BY <1>3, <1>4, <1>5
<1>14. QED
  BY <1>6, <1>8, <1>9, <1>10, <1>11, <1>12, <1>13
  DEF Account!Batch, Account!Present

LEMMA RestartRefines == RInv /\ Restart => Account!StartOver
<1> SUFFICES ASSUME RInv, Restart PROVE Account!StartOver
  OBVIOUS
<1>1. /\ DOMAIN seen' = {} /\ DOMAIN report' = {} /\ current' = {} /\ map' = map
      /\ scored' = [k \in Flow |-> 0] /\ missed' = [k \in Flow |-> 0]
  BY DEF Restart
<1>2. \A k \in Flow : Pending(k)' = Total(map, k) /\ Total(map, k) \in Nat
  BY <1>1 DEF Pending, Total, RInv, IInv, TypeOK
<1>3. ASSUME NEW k \in Flow
      PROVE  IF k \in current \/ Pending(k) > 0
             THEN Total(map, k) \in Pending(k) .. (Pending(k) + scored[k] + missed[k])
             ELSE Total(map, k) = 0
  <2>1. /\ sent[k] = scored[k] + missed[k] + Pending(k) /\ Total(map, k) <= sent[k]
        /\ sent[k] \in Nat /\ scored[k] \in Nat /\ missed[k] \in Nat
    BY DEF RInv, IInv, TypeOK, EveryPacketOnce, TotalsWereSent
  <2>2. Pending(k) \in Nat /\ Pending(k) <= Total(map, k)
    BY PendingType, <1>2 DEF RInv, IInv, Pending, Total, TypeOK, TrackedWhileMapped
  <2>3. k \notin current => Pending(k) = Total(map, k)
    BY <1>2 DEF Pending
  <2>4. QED
    BY <1>2, <2>1, <2>2, <2>3
<1>4. QED
  BY <1>1, <1>2, <1>3 DEF Account!StartOver, Account!Present

LEMMA StepRefines ==
    RInv /\ [Next]_vars => [Account!AccountNext]_(Account!account)
<1> SUFFICES ASSUME RInv, [Next]_vars
             PROVE  Account!AccountNext \/ UNCHANGED Account!account
  OBVIOUS
<1>1. ASSUME NEW k \in Flow, Packet(k) PROVE Account!AccountNext
  BY <1>1, PacketRefines DEF Account!AccountNext
<1>2. ASSUME NEW k \in Flow, Reclaim(k) PROVE Account!AccountNext
  BY <1>2, ReclaimRefines DEF Account!AccountNext
<1>3. ASSUME NEW received \in now .. MaxNow, Deltas(received) PROVE Account!AccountNext
  BY <1>3, DeltasRefines, SizeAssumption DEF Account!AccountNext, RInv, IInv, TypeOK
<1>4. CASE Restart
  BY <1>4, RestartRefines DEF Account!AccountNext
<1>5. CASE Tick \/ UNCHANGED vars
  BY <1>5 DEF Tick, vars, engine, Account!account, Pending, Total
<1>6. QED
  BY <1>1, <1>2, <1>3, <1>4, <1>5 DEF Next

(* deltas() with _evict() keeps the account: whatever the kernel map       *)
(* recycles, the cap evicts, the connection drops or a restart forgets,    *)
(* a batch hands over exactly the packets no batch showed before, and      *)
(* falls short only for a 5-tuple that started over.                       *)
THEOREM WindowKeepsAccount == Spec => ImplementsAccount
<1>1. Init => Account!AccountInit
  BY InitRefines
<1>2. RInv /\ [Next]_vars => [Account!AccountNext]_(Account!account)
  BY StepRefines
<1>3. Spec => []RInv
  BY RInvInductive, PTL DEF Spec
<1>4. QED
  BY <1>1, <1>2, <1>3, PTL DEF Spec, ImplementsAccount, Account!AccountSpec

-----------------------------------------------------------------------------
(* PayloadWalk.                                                            *)
LEMMA LeastNat ==
    ASSUME NEW S \in SUBSET Nat, S # {}
    PROVE  \E m \in S : \A n \in S : m <= n
<1> DEFINE R == OpToRel(<, Nat)
<1>1. PICK m \in S : \A n \in S : ~(<<n, m>> \in R)
  BY NatLessThanWellFounded, WFMin
<1>2. \A n \in S : ~(n < m)
  BY <1>1 DEF OpToRel
<1>3. QED
  BY <1>2

LEMMA LastOne ==
    ASSUME NEW n \in Nat, NEW S \in SUBSET (0 .. n), S # {}
    PROVE  \E m \in S : \A k \in S : k <= m
<1> DEFINE T == {n - k : k \in S}
<1>1. T \in SUBSET Nat /\ T # {}
  <2>1. \A k \in S : n - k \in Nat
    OBVIOUS
  <2>2. QED
    BY <2>1
<1>2. PICK t \in T : \A u \in T : t <= u
  <2> HIDE DEF T
  <2>1. QED
    BY <1>1, LeastNat
<1>3. PICK m \in S : t = n - m
  OBVIOUS
<1>4. ASSUME NEW k \in S PROVE k <= m
  <2>1. t <= n - k
    BY <1>2
  <2>2. QED
    BY <1>3, <2>1
<1>5. QED
  BY <1>4

-----------------------------------------------------------------------------
(* A part d of a message b, from its start.                                *)
Byte == 0 .. 255

Cut(d, b) ==
    /\ d \in Seq(Byte) /\ b \in Seq(Byte) /\ Len(d) <= Len(b)
    /\ \A i \in 1 .. Len(d) : d[i] = b[i]

LEMMA ByteAt ==
    ASSUME NEW d \in Seq(Byte), NEW i \in 1 .. Len(d)
    PROVE  d[i] \in Nat
<1>1. d[i] \in Byte
  OBVIOUS
<1>2. Byte \subseteq Nat
  BY DEF Byte
<1>3. QED
  BY <1>1, <1>2

LEMMA CutEqual ==
    ASSUME NEW d, NEW b, Cut(d, b), Len(d) >= Len(b)
    PROVE  d = b
<1>1. Len(d) = Len(b) /\ d \in Seq(Byte) /\ b \in Seq(Byte)
  BY DEF Cut
<1>2. \A i \in 1 .. Len(d) : d[i] = b[i]
  BY DEF Cut
<1>3. QED
  BY <1>1, <1>2

LEMMA HeadIsCut ==
    ASSUME NEW b \in Seq(Byte), NEW n \in 0 .. Len(b)
    PROVE  Cut(SubSeq(b, 1, n), b)
  BY DEF Cut

LEMMA U16Facts ==
    ASSUME NEW d \in Seq(Byte), NEW i \in Nat, i + 2 <= Len(d)
    PROVE  U16(d, i) \in Nat
<1>1. i + 1 \in 1 .. Len(d) /\ i + 2 \in 1 .. Len(d)
  OBVIOUS
<1>2. d[i + 1] \in Byte /\ d[i + 2] \in Byte
  BY <1>1
<1>3. \A x, y \in Byte : 256 * x + y \in Nat
  BY DEF Byte
<1>4. QED
  BY <1>2, <1>3 DEF U16

LEMMA U16Same ==
    ASSUME NEW d, NEW b, Cut(d, b), NEW i \in Nat, i + 2 <= Len(d)
    PROVE  U16(d, i) = U16(b, i) /\ U16(d, i) \in Nat
<1>1. i + 1 \in 1 .. Len(d) /\ i + 2 \in 1 .. Len(d)
  BY DEF Cut
<1>2. d[i + 1] = b[i + 1] /\ d[i + 2] = b[i + 2]
  BY <1>1 DEF Cut
<1>3. QED
  BY <1>2, U16Facts DEF U16, Cut

LEMMA SliceFacts ==
    ASSUME NEW d \in Seq(Byte), NEW i \in Nat, NEW n \in Nat, i + n <= Len(d)
    PROVE  /\ Slice(d, i, n) \in Seq(Byte) /\ Len(Slice(d, i, n)) = n
           /\ \A k \in 1 .. n : i + k \in 1 .. Len(d) /\ Slice(d, i, n)[k] = d[i + k]
  BY DEF Slice

LEMMA SliceSame ==
    ASSUME NEW d, NEW b, Cut(d, b), NEW i \in Nat, NEW n \in Nat, i + n <= Len(d)
    PROVE  Slice(d, i, n) = Slice(b, i, n) /\ Slice(d, i, n) \in Seq(Byte)
<1>1. d \in Seq(Byte) /\ b \in Seq(Byte) /\ i + n <= Len(b) /\ Len(d) \in Nat /\ Len(b) \in Nat
  BY DEF Cut
<1>2. /\ Slice(d, i, n) \in Seq(Byte) /\ Slice(b, i, n) \in Seq(Byte)
      /\ Len(Slice(d, i, n)) = n /\ Len(Slice(b, i, n)) = n
      /\ \A k \in 1 .. n : /\ i + k \in 1 .. Len(d)
                           /\ Slice(d, i, n)[k] = d[i + k] /\ Slice(b, i, n)[k] = b[i + k]
  <2>1. /\ Slice(d, i, n) \in Seq(Byte) /\ Len(Slice(d, i, n)) = n
        /\ \A k \in 1 .. n : i + k \in 1 .. Len(d) /\ Slice(d, i, n)[k] = d[i + k]
    BY <1>1, SliceFacts
  <2>2. /\ Slice(b, i, n) \in Seq(Byte) /\ Len(Slice(b, i, n)) = n
        /\ \A k \in 1 .. n : Slice(b, i, n)[k] = b[i + k]
    BY <1>1, SliceFacts
  <2>3. QED
    BY <2>1, <2>2
<1>3. \A k \in 1 .. n : Slice(d, i, n)[k] = Slice(b, i, n)[k]
  BY <1>2 DEF Cut
<1> DEFINE x == Slice(d, i, n)
           y == Slice(b, i, n)
<1> HIDE DEF x, y
<1>4. x = y
  BY <1>2, <1>3 DEF x, y
<1>5. QED
  BY <1>2, <1>4 DEF x, y

-----------------------------------------------------------------------------
(* A walk through a sample is a recursive function: it exists because each *)
(* step comes closer to where the walk must stop.                          *)
Joined(kind, item, rest) ==
    CASE kind = "ascii" -> IF item < 128 THEN Append(rest, item) ELSE rest
      [] kind = "list"  -> <<item>> \o rest
      [] kind = "name"  -> [rest EXCEPT !.labels = <<item>> \o @]

Walked(F, S, kind, stop, base, item, next) ==
    F = [p \in S |-> IF stop[p] THEN base[p] ELSE Joined(kind, item[p], F[next[p]])]

LEMMA WalkExists ==
    ASSUME NEW S, NEW M \in Nat, NEW m \in [S -> 0 .. M], NEW kind,
           NEW stop, NEW base, NEW item, NEW next,
           \A p \in S : ~stop[p] => next[p] \in S /\ m[next[p]] < m[p]
    PROVE  \E F : Walked(F, S, kind, stop, base, item, next)
<1> DEFINE Right(F, p) == IF stop[p] THEN base[p] ELSE Joined(kind, item[p], F[next[p]])
           Upto(F, n) == \A p \in S : m[p] < n => F[p] = Right(F, p)
           Missing == {n \in Nat : ~\E F : Upto(F, n)}
<1>1. ASSUME NEW n \in Nat, NEW F, Upto(F, n)
      PROVE  LET G == [p \in S |-> Right(F, p)]
             IN  \A p \in S : m[p] < n + 1 => G[p] = Right(G, p)
  <2> DEFINE G == [p \in S |-> Right(F, p)]
  <2> SUFFICES ASSUME NEW p \in S, m[p] < n + 1 PROVE G[p] = Right(G, p)
    OBVIOUS
  <2>1. G[p] = Right(F, p)
    OBVIOUS
  <2>2. CASE stop[p]
    BY <2>1, <2>2
  <2>3. CASE ~stop[p]
    <3>1. next[p] \in S /\ m[next[p]] < n
      <4>1. next[p] \in S /\ m[next[p]] < m[p] /\ m[p] \in Nat
        BY <2>3
      <4>2. m[next[p]] \in Nat
        BY <4>1
      <4>3. QED
        BY <4>1, <4>2
    <3>2. F[next[p]] = Right(F, next[p])
      BY <1>1, <3>1
    <3>3. G[next[p]] = Right(F, next[p])
      BY <3>1
    <3> HIDE DEF G
    <3>4. G[next[p]] = F[next[p]]
      BY <3>2, <3>3
    <3>5. QED
      BY <2>1, <2>3, <3>4
  <2>4. QED
    BY <2>2, <2>3
<1>2. ASSUME Missing # {} PROVE FALSE
  <2>1. PICK n \in Missing : \A k \in Missing : n <= k
    <3> HIDE DEF Upto
    <3>1. Missing \in SUBSET Nat
      OBVIOUS
    <3> HIDE DEF Missing
    <3>2. QED
      BY <1>2, <3>1, LeastNat
  <2>2. n # 0
    <3>1. \A p \in S : ~(m[p] < 0)
      OBVIOUS
    <3>2. Upto({}, 0)
      BY <3>1
    <3> HIDE DEF Upto
    <3>3. QED
      BY <2>1, <3>2
  <2>3. n - 1 \in Nat /\ n - 1 \notin Missing /\ (n - 1) + 1 = n
    <3>1. n \in Nat
      BY <2>1
    <3> HIDE DEF Missing
    <3>2. QED
      BY <2>1, <2>2, <3>1
  <2> HIDE DEF Right
  <2>4. PICK F : Upto(F, n - 1)
    BY <2>3
  <2> DEFINE G == [p \in S |-> Right(F, p)]
  <2>5. \A p \in S : m[p] < n => G[p] = Right(G, p)
    BY <1>1, <2>3, <2>4
  <2> HIDE DEF G
  <2>6. Upto(G, n)
    BY <2>5
  <2> HIDE DEF Upto
  <2>7. QED
    BY <2>1, <2>6
<1>3. M + 1 \in Nat /\ M + 1 \notin Missing
  <2> HIDE DEF Missing
  <2>1. QED
    BY <1>2
<1> HIDE DEF Right
<1>4. PICK F : Upto(F, M + 1)
  BY <1>3
<1> DEFINE G == [p \in S |-> Right(F, p)]
<1>5. ASSUME NEW p \in S PROVE G[p] = Right(G, p)
  <2>1. m[p] < M + 1 /\ m[p] < (M + 1) + 1
    OBVIOUS
  <2>2. M + 1 \in Nat
    OBVIOUS
  <2> HIDE DEF Upto, G
  <2>3. \A q \in S : m[q] < (M + 1) + 1 => G[q] = Right(G, q)
    BY <1>1, <1>4, <2>2 DEF G, Upto
  <2>4. QED
    BY <2>1, <2>3
<1>6. G = [p \in S |-> Right(G, p)]
  <2>1. G = [p \in S |-> G[p]]
    OBVIOUS
  <2> HIDE DEF G
  <2>2. QED
    BY <1>5, <2>1
<1>7. QED
  BY <1>6 DEF Right, Walked

-----------------------------------------------------------------------------
(* The text of a part is how the text of the whole begins.                 *)
LEMMA AsciiWalk ==
    ASSUME NEW s \in Seq(Byte)
    PROVE  \E f : /\ f = [k \in 0 .. Len(s) |->
                            IF k = 0 THEN <<>>
                            ELSE IF s[k] < 128 THEN Append(f[k - 1], s[k]) ELSE f[k - 1]]
                  /\ Ascii(s) = f[Len(s)]
<1> DEFINE S == 0 .. Len(s)
           Walk(f) == f = [k \in S |-> IF k = 0 THEN <<>>
                             ELSE IF s[k] < 128 THEN Append(f[k - 1], s[k]) ELSE f[k - 1]]
<1>1. \E f : Walk(f)
  <2> DEFINE m == [k \in S |-> k]
             stop == [k \in S |-> k = 0]
             next == [k \in S |-> k - 1]
             empty == [k \in S |-> <<>>]
  <2>1. Len(s) \in Nat /\ m \in [S -> 0 .. Len(s)]
    OBVIOUS
  <2>2. \A k \in S : ~stop[k] => next[k] \in S /\ m[next[k]] < m[k]
    <3> SUFFICES ASSUME NEW k \in S, k # 0 PROVE next[k] \in S /\ m[next[k]] < m[k]
      OBVIOUS
    <3>1. k - 1 \in S /\ k - 1 < k
      OBVIOUS
    <3>2. QED
      BY <3>1
  <2>3. PICK f : Walked(f, S, "ascii", stop, empty, s, next)
    <3> HIDE DEF S, m, stop, next, empty
    <3>1. QED
      BY <2>1, <2>2, WalkExists
  <2>4. \A k \in S : (IF stop[k] THEN empty[k] ELSE Joined("ascii", s[k], f[next[k]]))
                       = IF k = 0 THEN <<>>
                         ELSE IF s[k] < 128 THEN Append(f[k - 1], s[k]) ELSE f[k - 1]
    BY DEF Joined
  <2>5. QED
    <3> HIDE DEF stop, next, empty, S
    <3>1. Walk(f)
      BY <2>3, <2>4 DEF Walked
    <3>2. QED
      BY <3>1
<1>2. Ascii(s) = (CHOOSE f : Walk(f))[Len(s)]
  BY DEF Ascii
<1> HIDE DEF Walk
<1>3. Walk(CHOOSE f : Walk(f))
  BY <1>1
<1>4. QED
  BY <1>2, <1>3 DEF Walk

Begins(x, y) == Len(x) <= Len(y) /\ \A i \in 1 .. Len(x) : x[i] = y[i]

LEMMA BeginsOn ==
    ASSUME NEW V, NEW x \in Seq(V), NEW y \in Seq(V), NEW z \in Seq(V), Begins(x, y), Begins(y, z)
    PROVE  Begins(x, z)
<1>1. Len(x) \in Nat /\ Len(y) \in Nat /\ Len(z) \in Nat /\ Len(x) <= Len(y) /\ Len(y) <= Len(z)
  BY DEF Begins
<1>2. \A i \in 1 .. Len(x) : i \in 1 .. Len(y) /\ x[i] = y[i]
  BY <1>1 DEF Begins
<1>3. \A i \in 1 .. Len(x) : x[i] = z[i]
  BY <1>2 DEF Begins
<1>4. QED
  BY <1>1, <1>3 DEF Begins

LEMMA BeginsIsPrefix ==
    ASSUME NEW V, NEW x \in Seq(V), NEW y \in Seq(V), Begins(x, y)
    PROVE  IsPrefix(x, y)
<1>1. Len(x) \in Nat /\ Len(y) \in Nat /\ Len(x) <= Len(y)
  BY DEF Begins
<1> DEFINE z == SubSeq(y, 1, Len(x))
<1>2. z \in Seq(V) /\ Len(z) = Len(x) /\ \A i \in 1 .. Len(x) : z[i] = y[i]
  BY <1>1
<1>3. SubSeq(x, 1, Len(x)) = x
  OBVIOUS
<1> HIDE DEF z
<1>4. z = x
  BY <1>2 DEF Begins
<1>5. QED
  BY <1>1, <1>3, <1>4 DEF IsPrefix, z

LEMMA AsciiFacts ==
    ASSUME NEW x \in Seq(Byte), NEW y \in Seq(Byte), Begins(x, y)
    PROVE  /\ Ascii(x) \in Seq(Byte) /\ Ascii(y) \in Seq(Byte)
           /\ Begins(Ascii(x), Ascii(y))
<1>0. Len(x) \in Nat /\ Len(y) \in Nat /\ Len(x) <= Len(y)
  BY DEF Begins
<1>1. PICK f : /\ f = [k \in 0 .. Len(x) |->
                         IF k = 0 THEN <<>>
                         ELSE IF x[k] < 128 THEN Append(f[k - 1], x[k]) ELSE f[k - 1]]
               /\ Ascii(x) = f[Len(x)]
  BY AsciiWalk
<1>2. PICK g : /\ g = [k \in 0 .. Len(y) |->
                         IF k = 0 THEN <<>>
                         ELSE IF y[k] < 128 THEN Append(g[k - 1], y[k]) ELSE g[k - 1]]
               /\ Ascii(y) = g[Len(y)]
  BY AsciiWalk
<1>3. /\ \A k \in 0 .. Len(x) : f[k] = IF k = 0 THEN <<>>
                                  ELSE IF x[k] < 128 THEN Append(f[k - 1], x[k]) ELSE f[k - 1]
      /\ \A k \in 0 .. Len(y) : g[k] = IF k = 0 THEN <<>>
                                  ELSE IF y[k] < 128 THEN Append(g[k - 1], y[k]) ELSE g[k - 1]
  <2> DEFINE F(k) == IF k = 0 THEN <<>> ELSE IF x[k] < 128 THEN Append(f[k - 1], x[k]) ELSE f[k - 1]
             G(k) == IF k = 0 THEN <<>> ELSE IF y[k] < 128 THEN Append(g[k - 1], y[k]) ELSE g[k - 1]
  <2>1. f = [k \in 0 .. Len(x) |-> F(k)] /\ g = [k \in 0 .. Len(y) |-> G(k)]
    BY <1>1, <1>2
  <2> HIDE DEF F, G
  <2>2. (\A k \in 0 .. Len(x) : f[k] = F(k)) /\ \A k \in 0 .. Len(y) : g[k] = G(k)
    BY <2>1
  <2>3. QED
    BY <2>2 DEF F, G
<1> DEFINE Right(k) == /\ g[k] \in Seq(Byte)
                       /\ k <= Len(x) => f[k] = g[k]
                       /\ k > Len(x) => Begins(g[Len(x)], g[k])
           Wrong == {k \in Nat : k <= Len(y) /\ ~Right(k)}
<1>4. ASSUME Wrong # {} PROVE FALSE
  <2>1. PICK k \in Wrong : \A j \in Wrong : k <= j
    <3>1. Wrong \in SUBSET Nat
      OBVIOUS
    <3> HIDE DEF Wrong
    <3>2. QED
      BY <1>4, <3>1, LeastNat
  <2>2. k \in 0 .. Len(y) /\ ~Right(k)
    BY <1>0, <2>1
  <2>3. CASE k = 0
    <3>1. f[0] = <<>> /\ g[0] = <<>> /\ <<>> \in Seq(Byte)
      BY <1>0, <1>3
    <3>2. QED
      BY <1>0, <2>2, <2>3, <3>1
  <2>4. CASE k # 0
    <3>1. k - 1 \in 0 .. Len(y) /\ ~(k <= k - 1) /\ k \in 1 .. Len(y)
      BY <1>0, <2>2, <2>4
    <3>2. Right(k - 1)
      BY <2>1, <3>1
    <3>3. y[k] \in Byte
      BY <3>1
    <3>4. g[k] = IF y[k] < 128 THEN Append(g[k - 1], y[k]) ELSE g[k - 1]
      BY <1>3, <2>2, <2>4
    <3>5. g[k] \in Seq(Byte) /\ Begins(g[k - 1], g[k])
      BY <3>2, <3>3, <3>4 DEF Begins
    <3>6. CASE k <= Len(x)
      <4>1. k \in 1 .. Len(x) /\ k \in 0 .. Len(x) /\ k - 1 <= Len(x)
        BY <1>0, <2>2, <2>4, <3>6
      <4>2. x[k] = y[k]
        BY <4>1 DEF Begins
      <4>3. f[k] = IF x[k] < 128 THEN Append(f[k - 1], x[k]) ELSE f[k - 1]
        BY <1>3, <2>4, <4>1
      <4>4. f[k] = g[k]
        BY <3>2, <3>4, <4>1, <4>2, <4>3
      <4>5. QED
        BY <1>0, <2>2, <3>5, <3>6, <4>4
    <3>7. CASE k > Len(x)
      <4>1. CASE k - 1 = Len(x)
        BY <1>0, <2>2, <3>5, <3>7, <4>1
      <4>2. CASE k - 1 > Len(x)
        <5>1. Len(x) \in 0 .. Len(y) /\ ~(k <= Len(x)) /\ Len(x) \in Nat
          BY <1>0, <3>7, <2>2
        <5>2. Right(Len(x))
          BY <2>1, <5>1
        <5>3. Begins(g[Len(x)], g[k - 1]) /\ g[Len(x)] \in Seq(Byte) /\ g[k - 1] \in Seq(Byte)
          BY <3>2, <4>2, <5>2
        <5>4. Begins(g[Len(x)], g[k])
          BY <3>5, <5>3, BeginsOn
        <5>5. QED
          BY <1>0, <2>2, <3>5, <3>7, <5>4
      <4>3. QED
        BY <1>0, <2>2, <3>7, <4>1, <4>2
    <3>8. QED
      BY <1>0, <2>2, <3>6, <3>7
  <2>5. QED
    BY <2>3, <2>4
<1>5. Right(Len(x)) /\ Right(Len(y))
  <2>1. \A k \in Nat : k <= Len(y) => Right(k)
    BY <1>4
  <2> HIDE DEF Right
  <2>2. QED
    BY <1>0, <2>1
<1>6. QED
  <2>1. Ascii(x) = g[Len(x)]
    BY <1>0, <1>1, <1>5
  <2>2. CASE Len(x) = Len(y)
    BY <1>0, <1>2, <1>5, <2>1, <2>2 DEF Begins
  <2>3. CASE Len(x) # Len(y)
    BY <1>0, <1>2, <1>5, <2>1, <2>3
  <2>4. QED
    BY <2>2, <2>3

-----------------------------------------------------------------------------
(* A vector is read as in the whole, or the sample ran out.                *)
LEMMA SkipCut ==
    ASSUME NEW d, NEW b, Cut(d, b), NEW pos \in Int
    PROVE  /\ SkipVector(d, pos) \in Int /\ SkipVector(b, pos) \in Int
           /\ SkipVector(d, pos) \in {Nowhere, SkipVector(b, pos)}
           /\ SkipVector(d, pos) # Nowhere => SkipVector(d, pos) \in Nat
<1>1. d \in Seq(Byte) /\ b \in Seq(Byte) /\ Len(d) \in Nat /\ Len(b) \in Nat /\ Len(d) <= Len(b)
  BY DEF Cut
<1>2. ASSUME pos >= 0, pos + 1 <= Len(d) PROVE d[pos + 1] = b[pos + 1]
  BY <1>1, <1>2 DEF Cut
<1>3. ASSUME pos >= 0, pos + 1 <= Len(b) PROVE b[pos + 1] \in Nat
  <2>1. pos + 1 \in 1 .. Len(b)
    BY <1>1, <1>3
  <2>2. b[pos + 1] \in Byte
    BY <1>1, <2>1
  <2>3. QED
    BY <2>2 DEF Byte
<1>4. QED
  BY <1>1, <1>2, <1>3 DEF SkipVector, Nowhere

LEMMA FitsCut ==
    ASSUME NEW d, NEW b, Cut(d, b), NEW pos \in Int, Fits2(d, pos)
    PROVE  Fits2(b, pos) /\ U16(d, pos) = U16(b, pos) /\ U16(d, pos) \in Nat /\ pos \in Nat
<1>1. pos \in Nat /\ pos + 2 <= Len(d) /\ pos + 2 + U16(d, pos) <= Len(d)
      /\ Len(d) <= Len(b) /\ Len(d) \in Nat /\ Len(b) \in Nat
  BY DEF Fits2, Cut
<1>2. U16(d, pos) = U16(b, pos) /\ U16(d, pos) \in Nat
  BY <1>1, U16Same
<1>3. QED
  BY <1>1, <1>2 DEF Fits2

LEMMA VectorCut ==
    ASSUME NEW d, NEW b, Cut(d, b), NEW pos \in Int
    PROVE  /\ Hides(ReadVector(d, pos), ReadVector(b, pos))
           /\ AfterVector(d, pos) \in {Nowhere, AfterVector(b, pos)}
           /\ AfterVector(d, pos) \in Int /\ AfterVector(b, pos) \in Int
<1>0. AfterVector(b, pos) \in Int /\ AfterVector(d, pos) \in Int
  <2>1. ASSUME NEW x \in {d, b} PROVE AfterVector(x, pos) \in Int
    <3>1. x \in Seq(Byte)
      BY <2>1 DEF Cut
    <3>2. ASSUME Fits2(x, pos) PROVE U16(x, pos) \in Int
      <4>1. pos \in Nat /\ pos + 2 <= Len(x)
        BY <3>2 DEF Fits2
      <4>2. QED
        BY <3>1, <4>1, U16Facts
    <3>3. QED
      BY <3>2 DEF AfterVector, Nowhere
  <2>2. QED
    BY <2>1
<1>1. CASE ~Fits2(d, pos)
  BY <1>0, <1>1 DEF ReadVector, AfterVector, Hides
<1>2. CASE Fits2(d, pos)
  <2>1. /\ Fits2(b, pos) /\ U16(d, pos) = U16(b, pos) /\ U16(d, pos) \in Nat /\ pos \in Nat
        /\ pos + 2 + U16(d, pos) <= Len(d) /\ Len(d) \in Nat
    BY <1>2, FitsCut DEF Fits2, Cut
  <2>2. ASSUME NEW k \in 1 .. U16(d, pos) \div 2
        PROVE  U16(d, pos + 2 * k) = U16(b, pos + 2 * k)
    <3>1. k \in Nat /\ 2 * k <= U16(d, pos)
      BY <2>1
    <3>2. pos + 2 * k \in Nat /\ (pos + 2 * k) + 2 <= Len(d)
      BY <2>1, <3>1
    <3>3. QED
      BY <3>2, U16Same
  <2>3. [k \in 1 .. U16(d, pos) \div 2 |-> U16(d, pos + 2 * k)]
          = [k \in 1 .. U16(b, pos) \div 2 |-> U16(b, pos + 2 * k)]
    <3> DEFINE n == U16(d, pos) \div 2
    <3>1. U16(b, pos) \div 2 = n
      BY <2>1
    <3> HIDE DEF n
    <3>2. QED
      BY <2>2, <3>1 DEF n
  <2>4. QED
    BY <1>0, <1>2, <2>1, <2>3 DEF ReadVector, AfterVector, Hides
<1>3. QED
  BY <1>1, <1>2

(* The extensions of a part are the first ones of the whole.               *)
Extension == [type : Nat, body : Seq(Byte)]

ExtensionsEnd(d, pos) == Min({pos + 2 + U16(d, pos), Len(d)})
AfterExtension(d, p) == p + 4 + U16(d, p + 2)
Stops(d, end, p) == p + 4 > end \/ AfterExtension(d, p) > end
ExtensionAt(d, p) == [type |-> U16(d, p), body |-> Slice(d, p + 4, U16(d, p + 2))]

LEMMA MinOfTwo ==
    ASSUME NEW x \in Int, NEW y \in Int
    PROVE  Min({x, y}) = IF x <= y THEN x ELSE y
<1> DEFINE m == IF x <= y THEN x ELSE y
<1>1. m \in {x, y} /\ \A z \in {x, y} : m <= z
  OBVIOUS
<1>2. ASSUME NEW w \in {x, y}, \A z \in {x, y} : w <= z PROVE w = m
  BY <1>2
<1>3. QED
  BY <1>1, <1>2 DEF Min

LEMMA ExtensionsWalk ==
    ASSUME NEW d \in Seq(Byte), NEW pos \in Nat, pos + 2 <= Len(d)
    PROVE  LET end == ExtensionsEnd(d, pos) IN
           \E f : /\ \A p \in 0 .. Len(d) :
                       f[p] = IF Stops(d, end, p) THEN <<>>
                              ELSE <<ExtensionAt(d, p)>> \o f[AfterExtension(d, p)]
                  /\ ReadExtensions(d, pos) = f[pos + 2]
<1> DEFINE end == ExtensionsEnd(d, pos)
           S == 0 .. Len(d)
           Walk(f) == f = [p \in S |->
                             IF p + 4 > end \/ p + 4 + U16(d, p + 2) > end THEN <<>>
                             ELSE <<[type |-> U16(d, p), body |-> Slice(d, p + 4, U16(d, p + 2))]>>
                                    \o f[p + 4 + U16(d, p + 2)]]
<1>1. end \in Int /\ end <= Len(d) /\ Len(d) \in Nat
  <2>1. U16(d, pos) \in Nat
    BY U16Facts
  <2>2. pos + 2 + U16(d, pos) \in Int /\ Len(d) \in Int
    BY <2>1
  <2>3. QED
    BY <2>2, MinOfTwo DEF ExtensionsEnd
<1>2. ReadExtensions(d, pos) = (CHOOSE f : Walk(f))[pos + 2]
  BY <1>1 DEF ReadExtensions, ExtensionsEnd
<1> HIDE DEF end
<1>3. \E f : Walk(f)
  <2> DEFINE m == [p \in S |-> Len(d) - p]
             stop == [p \in S |-> Stops(d, end, p)]
             empty == [p \in S |-> <<>>]
             item == [p \in S |-> ExtensionAt(d, p)]
             next == [p \in S |-> AfterExtension(d, p)]
  <2>1. m \in [S -> 0 .. Len(d)]
    BY <1>1
  <2>2. \A p \in S : ~stop[p] => next[p] \in S /\ m[next[p]] < m[p]
    <3> SUFFICES ASSUME NEW p \in S, ~Stops(d, end, p)
                 PROVE  next[p] \in S /\ m[next[p]] < m[p]
      OBVIOUS
    <3>1. U16(d, p + 2) \in Nat
      <4>1. p + 2 \in Nat /\ (p + 2) + 2 <= Len(d)
        BY <1>1 DEF Stops
      <4>2. QED
        BY <4>1, U16Facts
    <3>2. AfterExtension(d, p) \in S /\ AfterExtension(d, p) > p
      BY <1>1, <3>1 DEF Stops, AfterExtension
    <3>3. QED
      BY <1>1, <3>2
  <2>3. PICK f : Walked(f, S, "list", stop, empty, item, next)
    <3> HIDE DEF S, m, stop, empty, item, next
    <3>1. QED
      BY <1>1, <2>1, <2>2, WalkExists
  <2>4. \A p \in S : (IF stop[p] THEN empty[p] ELSE Joined("list", item[p], f[next[p]]))
                       = IF p + 4 > end \/ p + 4 + U16(d, p + 2) > end THEN <<>>
                         ELSE <<[type |-> U16(d, p), body |-> Slice(d, p + 4, U16(d, p + 2))]>>
                                \o f[p + 4 + U16(d, p + 2)]
    BY DEF Joined, Stops, AfterExtension, ExtensionAt
  <2>5. QED
    <3> HIDE DEF stop, empty, item, next, S
    <3>1. Walk(f)
      BY <2>3, <2>4 DEF Walked
    <3>2. QED
      BY <3>1
<1> DEFINE f == CHOOSE g : Walk(g)
<1>4. Walk(f)
  BY <1>3
<1> HIDE DEF f
<1>5. \A p \in S : f[p] = IF Stops(d, end, p) THEN <<>>
                          ELSE <<ExtensionAt(d, p)>> \o f[AfterExtension(d, p)]
  BY <1>4 DEF Stops, AfterExtension, ExtensionAt
<1>6. QED
  BY <1>2, <1>5 DEF f, end

LEMMA JoinBegins ==
    ASSUME NEW V, NEW x \in Seq(V), NEW y \in Seq(V), Begins(x, y), NEW e \in V
    PROVE  /\ <<e>> \o x \in Seq(V) /\ <<e>> \o y \in Seq(V)
           /\ Begins(<<e>> \o x, <<e>> \o y)
<1> DEFINE u == <<e>> \o x
           v == <<e>> \o y
<1>1. /\ u \in Seq(V) /\ v \in Seq(V) /\ Len(u) = Len(x) + 1 /\ Len(v) = Len(y) + 1
      /\ u[1] = e /\ v[1] = e
      /\ \A i \in 2 .. Len(x) + 1 : u[i] = x[i - 1]
      /\ \A i \in 2 .. Len(y) + 1 : v[i] = y[i - 1]
  OBVIOUS
<1>2. Len(x) \in Nat /\ Len(y) \in Nat /\ Len(x) <= Len(y)
  BY DEF Begins
<1> HIDE DEF u, v
<1>3. ASSUME NEW i \in 1 .. Len(u) PROVE u[i] = v[i]
  <2>1. CASE i = 1
    BY <1>1, <2>1
  <2>2. CASE i # 1
    <3>1. i \in 2 .. Len(x) + 1 /\ i \in 2 .. Len(y) + 1 /\ i - 1 \in 1 .. Len(x)
      BY <1>1, <1>2, <2>2
    <3>2. QED
      BY <1>1, <3>1 DEF Begins
  <2>3. QED
    BY <2>1, <2>2
<1>4. QED
  BY <1>1, <1>2, <1>3 DEF Begins, u, v

LEMMA EndsCut ==
    ASSUME NEW d, NEW b, Cut(d, b), NEW pos \in Nat, pos + 2 <= Len(d)
    PROVE  /\ ExtensionsEnd(d, pos) \in Int /\ ExtensionsEnd(b, pos) \in Int
           /\ ExtensionsEnd(d, pos) <= Len(d) /\ ExtensionsEnd(b, pos) <= Len(b)
           /\ ExtensionsEnd(d, pos) <= ExtensionsEnd(b, pos)
<1>1. Len(d) \in Nat /\ Len(b) \in Nat /\ Len(d) <= Len(b)
  BY DEF Cut
<1>2. U16(d, pos) = U16(b, pos) /\ U16(d, pos) \in Nat
  BY U16Same
<1>3. pos + 2 + U16(d, pos) \in Int
  BY <1>2
<1>4. QED
  BY <1>1, <1>2, <1>3, MinOfTwo DEF ExtensionsEnd

LEMMA ExtensionsCut ==
    ASSUME NEW d, NEW b, Cut(d, b), NEW pos \in Int
    PROVE  /\ ReadExtensions(d, pos) \in Seq(Extension)
           /\ pos >= 0 /\ pos + 2 <= Len(d) => ReadExtensions(b, pos) \in Seq(Extension)
           /\ pos >= 0 /\ pos + 2 <= Len(d) => Begins(ReadExtensions(d, pos), ReadExtensions(b, pos))
           /\ ~(pos >= 0 /\ pos + 2 <= Len(d)) => ReadExtensions(d, pos) = <<>>
<1>1. CASE ~(pos >= 0 /\ pos + 2 <= Len(d))
  <2>1. Len(d) \in Nat
    BY DEF Cut
  <2>2. ReadExtensions(d, pos) = <<>>
    BY <1>1, <2>1 DEF ReadExtensions
  <2>3. QED
    BY <1>1, <2>2
<1>2. CASE pos >= 0 /\ pos + 2 <= Len(d)
  <2>1. /\ d \in Seq(Byte) /\ b \in Seq(Byte) /\ Len(d) \in Nat /\ Len(b) \in Nat
        /\ Len(d) <= Len(b) /\ pos \in Nat /\ pos + 2 <= Len(b)
    BY <1>2 DEF Cut
  <2> DEFINE ed == ExtensionsEnd(d, pos)
             eb == ExtensionsEnd(b, pos)
  <2>2. ed \in Int /\ eb \in Int /\ ed <= Len(d) /\ eb <= Len(b) /\ ed <= eb
    BY <1>2, <2>1, EndsCut
  <2>3. PICK f : /\ \A p \in 0 .. Len(d) :
                      f[p] = IF Stops(d, ed, p) THEN <<>>
                             ELSE <<ExtensionAt(d, p)>> \o f[AfterExtension(d, p)]
                 /\ ReadExtensions(d, pos) = f[pos + 2]
    BY <1>2, <2>1, ExtensionsWalk
  <2>4. PICK g : /\ \A p \in 0 .. Len(b) :
                      g[p] = IF Stops(b, eb, p) THEN <<>>
                             ELSE <<ExtensionAt(b, p)>> \o g[AfterExtension(b, p)]
                 /\ ReadExtensions(b, pos) = g[pos + 2]
    BY <2>1, ExtensionsWalk
  <2> HIDE DEF ed, eb
  <2>5. ASSUME NEW p \in 0 .. Len(b), ~Stops(b, eb, p)
        PROVE  /\ ExtensionAt(b, p) \in Extension
               /\ AfterExtension(b, p) \in 0 .. Len(b) /\ AfterExtension(b, p) > p
    <3>1. p \in Nat /\ p + 4 <= eb /\ p + 4 <= Len(b)
      BY <2>1, <2>2, <2>5 DEF Stops
    <3>2. U16(b, p) \in Nat /\ U16(b, p + 2) \in Nat
      BY <2>1, <3>1, U16Facts
    <3>3. p + 4 + U16(b, p + 2) <= eb
      BY <2>2, <2>5, <3>1, <3>2 DEF Stops, AfterExtension
    <3>4. Slice(b, p + 4, U16(b, p + 2)) \in Seq(Byte)
      <4>1. p + 4 \in Nat /\ (p + 4) + U16(b, p + 2) <= Len(b)
        BY <2>1, <2>2, <3>1, <3>2, <3>3
      <4>2. QED
        BY <2>1, <3>2, <4>1, SliceFacts
    <3>5. QED
      BY <2>1, <2>2, <3>1, <3>2, <3>3, <3>4 DEF ExtensionAt, Extension, AfterExtension
  <2>6. ASSUME NEW p \in 0 .. Len(d), ~Stops(d, ed, p)
        PROVE  /\ ~Stops(b, eb, p) /\ ExtensionAt(d, p) = ExtensionAt(b, p)
               /\ AfterExtension(d, p) = AfterExtension(b, p) /\ AfterExtension(d, p) \in 0 .. Len(d)
    <3>1. p \in Nat /\ p + 4 <= ed /\ p + 4 <= Len(d)
      BY <2>1, <2>2, <2>6 DEF Stops
    <3>2. /\ U16(d, p) = U16(b, p) /\ U16(d, p + 2) = U16(b, p + 2) /\ U16(d, p + 2) \in Nat
      BY <2>1, <3>1, U16Same
    <3>3. p + 4 + U16(d, p + 2) <= ed
      BY <2>2, <2>6, <3>1, <3>2 DEF Stops, AfterExtension
    <3>4. Slice(d, p + 4, U16(d, p + 2)) = Slice(b, p + 4, U16(d, p + 2))
      <4>1. p + 4 \in Nat /\ (p + 4) + U16(d, p + 2) <= Len(d)
        BY <2>1, <2>2, <3>1, <3>2, <3>3
      <4>2. QED
        BY <3>2, <4>1, SliceSame
    <3>5. ExtensionAt(d, p) = ExtensionAt(b, p)
      BY <3>2, <3>4 DEF ExtensionAt
    <3>6. QED
      BY <2>1, <2>2, <3>1, <3>2, <3>3, <3>5 DEF AfterExtension, Stops
  <2>7. \A p \in 0 .. Len(b) : g[p] \in Seq(Extension)
    <3> DEFINE Wrong == {p \in 0 .. Len(b) : g[p] \notin Seq(Extension)}
    <3>1. SUFFICES ASSUME Wrong # {} PROVE FALSE
      OBVIOUS
    <3>2. PICK p \in Wrong : \A q \in Wrong : q <= p
      <4>1. Wrong \in SUBSET (0 .. Len(b))
        OBVIOUS
      <4> HIDE DEF Wrong
      <4>2. QED
        BY <2>1, <3>1, <4>1, LastOne
    <3>3. p \in 0 .. Len(b)
      OBVIOUS
    <3>4. CASE Stops(b, eb, p)
      <4>1. g[p] = <<>>
        BY <2>4, <3>3, <3>4
      <4>2. <<>> \in Seq(Extension)
        OBVIOUS
      <4>3. QED
        BY <3>2, <4>1, <4>2
    <3>5. CASE ~Stops(b, eb, p)
      <4> DEFINE q == AfterExtension(b, p)
      <4>1. ExtensionAt(b, p) \in Extension /\ q \in 0 .. Len(b) /\ ~(q <= p)
        BY <2>5, <3>3, <3>5
      <4> HIDE DEF q
      <4>2. g[q] \in Seq(Extension)
        BY <3>2, <4>1
      <4>3. g[p] = <<ExtensionAt(b, p)>> \o g[q]
        BY <2>4, <3>3, <3>5 DEF q
      <4>4. g[p] \in Seq(Extension)
        BY <4>1, <4>2, <4>3
      <4>5. QED
        BY <3>2, <4>4
    <3>6. QED
      BY <3>4, <3>5
  <2>8. \A p \in 0 .. Len(d) : f[p] \in Seq(Extension) /\ Begins(f[p], g[p])
    <3> DEFINE Wrong == {p \in 0 .. Len(d) : ~(f[p] \in Seq(Extension) /\ Begins(f[p], g[p]))}
    <3>1. SUFFICES ASSUME Wrong # {} PROVE FALSE
      OBVIOUS
    <3>2. PICK p \in Wrong : \A q \in Wrong : q <= p
      <4>1. Wrong \in SUBSET (0 .. Len(d))
        OBVIOUS
      <4> HIDE DEF Wrong
      <4>2. QED
        BY <2>1, <3>1, <4>1, LastOne
    <3>3. p \in 0 .. Len(d) /\ p \in 0 .. Len(b) /\ g[p] \in Seq(Extension)
      BY <2>1, <2>7
    <3>4. CASE Stops(d, ed, p)
      <4>1. f[p] = <<>>
        BY <2>3, <3>3, <3>4
      <4>2. <<>> \in Seq(Extension) /\ Begins(<<>>, g[p])
        BY <3>3 DEF Begins
      <4>3. QED
        BY <3>2, <4>1, <4>2
    <3>5. CASE ~Stops(d, ed, p)
      <4> DEFINE q == AfterExtension(b, p)
                 e == ExtensionAt(b, p)
      <4>1. /\ ~Stops(b, eb, p) /\ ExtensionAt(d, p) = e /\ AfterExtension(d, p) = q
            /\ q \in 0 .. Len(d)
        BY <2>6, <3>3, <3>5
      <4>2. e \in Extension /\ ~(q <= p)
        BY <2>5, <3>3, <4>1
      <4>3. f[p] = <<e>> \o f[q] /\ g[p] = <<e>> \o g[q]
        BY <2>3, <2>4, <3>3, <3>5, <4>1
      <4> HIDE DEF q, e
      <4>4. f[q] \in Seq(Extension) /\ Begins(f[q], g[q]) /\ g[q] \in Seq(Extension)
        <5>1. q \in 0 .. Len(b)
          BY <2>1, <4>1
        <5>2. QED
          BY <2>7, <3>2, <4>1, <4>2, <5>1
      <4>5. f[p] \in Seq(Extension) /\ Begins(f[p], g[p])
        BY <4>2, <4>3, <4>4, JoinBegins
      <4>6. QED
        BY <3>2, <4>5
    <3>6. QED
      BY <3>4, <3>5
  <2>9. pos + 2 \in 0 .. Len(d) /\ pos + 2 \in 0 .. Len(b)
    BY <1>2, <2>1
  <2>10. QED
    BY <1>2, <2>3, <2>4, <2>7, <2>8, <2>9
<1>3. QED
  BY <1>1, <1>2

LEMMA TypesFacts ==
    ASSUME NEW x \in Seq(Extension)
    PROVE  /\ Types(x) \in Seq(Nat) /\ Len(Types(x)) = Len(x)
           /\ \A i \in 1 .. Len(x) : Types(x)[i] = x[i].type
<1>1. DOMAIN x = 1 .. Len(x) /\ Len(x) \in Nat
  OBVIOUS
<1>2. \A i \in 1 .. Len(x) : x[i].type \in Nat
  <2>1. \A i \in 1 .. Len(x) : x[i] \in Extension
    OBVIOUS
  <2>2. QED
    BY <2>1 DEF Extension
<1>3. Types(x) = [i \in 1 .. Len(x) |-> x[i].type]
  BY <1>1 DEF Types
<1> HIDE DEF Extension
<1>4. QED
  BY <1>1, <1>2, <1>3

LEMMA TypesBegin ==
    ASSUME NEW x \in Seq(Extension), NEW y \in Seq(Extension), Begins(x, y)
    PROVE  Types(x) \in Seq(Nat) /\ Types(y) \in Seq(Nat) /\ IsPrefix(Types(x), Types(y))
<1>1. /\ Types(x) \in Seq(Nat) /\ Len(Types(x)) = Len(x)
      /\ Types(y) \in Seq(Nat) /\ Len(Types(y)) = Len(y)
  BY TypesFacts
<1>2. Begins(Types(x), Types(y))
  <2>1. Len(x) \in Nat /\ Len(y) \in Nat
    OBVIOUS
  <2>2. \A i \in 1 .. Len(x) : /\ i \in 1 .. Len(y) /\ Types(x)[i] = x[i].type
                               /\ Types(y)[i] = y[i].type /\ x[i] = y[i]
    BY <2>1, TypesFacts DEF Begins
  <2>3. QED
    BY <1>1, <2>2 DEF Begins
<1>3. QED
  BY <1>1, <1>2, BeginsIsPrefix

(* As none is sent twice, the last of a type is the one of that type.      *)
LEMMA BodyHides ==
    ASSUME NEW x \in Seq(Extension), NEW y \in Seq(Extension), Begins(x, y),
           \A i, j \in DOMAIN Types(y) : Types(y)[i] = Types(y)[j] => i = j, NEW t
    PROVE  Hides(BodyOf(x, t), BodyOf(y, t))
<1> DEFINE P == {k \in DOMAIN x : x[k].type = t}
           Q == {k \in DOMAIN y : y[k].type = t}
<1>1. CASE P = {}
  BY <1>1 DEF BodyOf, Hides
<1>2. CASE P # {}
  <2>1. PICK k \in P : TRUE
    BY <1>2
  <2>2. \A i \in DOMAIN x : i \in DOMAIN y /\ x[i] = y[i]
    BY DEF Begins
  <2>3. \A i, j \in Q : i = j
    BY DEF Types
  <2>4. P = {k} /\ Q = {k} /\ k \in Int /\ x[k] = y[k]
    BY <2>1, <2>2, <2>3
  <2>5. BodyOf(x, t) = x[Max(P)].body /\ BodyOf(y, t) = y[Max(Q)].body
    <3>1. Q # {}
      BY <2>4
    <3>2. QED
      BY <1>2, <3>1 DEF BodyOf
  <2> HIDE DEF P, Q
  <2>6. BodyOf(x, t) = BodyOf(y, t)
    <3>1. Max({k}) \in {k}
      BY <2>4 DEF Max
    <3>2. QED
      BY <2>4, <2>5, <3>1
  <2>7. QED
    BY <2>6 DEF Hides
<1>3. QED
  BY <1>1, <1>2

-----------------------------------------------------------------------------
(* The labels of a part are the first labels of the whole, the last of     *)
(* which may be cut.                                                       *)
Name == [labels : Seq(Seq(Byte)), end : Nat \cup {Nowhere}]

AfterLabel(d, i) == i + 1 + d[i + 1]
LabelAt(d, i) == Ascii(Slice(d, i + 1, d[i + 1]))
NameStops(d, i) == i = Len(d) \/ d[i + 1] = 0 \/ d[i + 1] > 63 \/ AfterLabel(d, i) > Len(d)
NameStopped(d, i) ==
    IF i = Len(d) THEN [labels |-> <<>>, end |-> Nowhere]
    ELSE IF d[i + 1] = 0 THEN [labels |-> <<>>, end |-> i + 1]
    ELSE IF d[i + 1] > 63 THEN [labels |-> <<>>, end |-> Nowhere]
    ELSE [labels |-> <<Ascii(Slice(d, i + 1, Len(d) - i - 1))>>, end |-> Nowhere]

DnsOf(d, name) ==
    IF \A k \in DOMAIN name.labels : name.labels[k] = <<>> THEN NoDns
    ELSE [parsed |-> TRUE, labels |-> name.labels, truncated |-> name.end = Nowhere,
          qtype |-> IF name.end # Nowhere /\ name.end + 2 <= Len(d) THEN U16(d, name.end) ELSE 0]

NamesOf(f, d) ==
    \A i \in 12 .. Len(d) :
      f[i] = IF NameStops(d, i) THEN NameStopped(d, i)
             ELSE [f[AfterLabel(d, i)] EXCEPT !.labels = <<LabelAt(d, i)>> \o @]

LEMMA LabelEnds ==
    ASSUME NEW d \in Seq(Byte), NEW i \in 12 .. Len(d), ~NameStops(d, i)
    PROVE  /\ i + 1 \in 1 .. Len(d) /\ d[i + 1] \in Nat /\ d[i + 1] <= 63
           /\ AfterLabel(d, i) \in 12 .. Len(d) /\ AfterLabel(d, i) > i
           /\ LabelAt(d, i) \in Seq(Byte)
<1>1. Len(d) \in Nat /\ i + 1 \in 1 .. Len(d)
  BY DEF NameStops
<1>2. d[i + 1] \in Nat
  <2>1. d[i + 1] \in Byte
    BY <1>1
  <2>2. Byte \subseteq Nat
    BY DEF Byte
  <2>3. QED
    BY <2>1, <2>2
<1> DEFINE n == d[i + 1]
<1>3. n # 0 /\ ~(n > 63) /\ ~(i + 1 + n > Len(d))
  BY DEF NameStops, AfterLabel
<1>4. AfterLabel(d, i) = i + 1 + n
  BY DEF AfterLabel
<1>5. Slice(d, i + 1, n) \in Seq(Byte)
  <2> HIDE DEF n
  <2>1. (i + 1) + n <= Len(d) /\ i + 1 \in Nat /\ n \in Nat
    BY <1>1, <1>2, <1>3 DEF n
  <2>2. QED
    BY <2>1, SliceFacts
<1>6. LabelAt(d, i) \in Seq(Byte)
  <2> DEFINE x == Slice(d, i + 1, n)
  <2>1. Begins(x, x)
    BY <1>5 DEF Begins
  <2> HIDE DEF x
  <2>2. Ascii(x) \in Seq(Byte)
    BY <1>5, <2>1, AsciiFacts DEF x
  <2>3. QED
    BY <2>2 DEF x, LabelAt
<1> HIDE DEF n
<1>7. QED
  BY <1>1, <1>2, <1>3, <1>4, <1>6 DEF n

LEMMA NameWalk ==
    ASSUME NEW d \in Seq(Byte), Len(d) > 12
    PROVE  \E f : /\ NamesOf(f, d)
                  /\ ParseDns(d) = DnsOf(d, f[12])
<1> DEFINE S == 12 .. Len(d)
           Step(f, i) ==
             IF i = Len(d) THEN [labels |-> <<>>, end |-> Nowhere]
             ELSE IF d[i + 1] = 0 THEN [labels |-> <<>>, end |-> i + 1]
             ELSE IF d[i + 1] > 63 THEN [labels |-> <<>>, end |-> Nowhere]
             ELSE IF i + 1 + d[i + 1] > Len(d)
                  THEN [labels |-> <<Ascii(Slice(d, i + 1, Len(d) - i - 1))>>, end |-> Nowhere]
             ELSE LET rest == f[i + 1 + d[i + 1]]
                  IN  [rest EXCEPT !.labels = <<Ascii(Slice(d, i + 1, d[i + 1]))>> \o @]
           Walk(f) == f = [i \in S |-> Step(f, i)]
<1>1. Len(d) \in Nat /\ ~(Len(d) <= 12)
  OBVIOUS
<1>2. ParseDns(d) = DnsOf(d, (CHOOSE f : Walk(f))[12])
  BY <1>1 DEF ParseDns, DnsOf
<1>3. \E f : Walk(f)
  <2> DEFINE m == [i \in S |-> Len(d) - i]
             stop == [i \in S |-> NameStops(d, i)]
             base == [i \in S |-> NameStopped(d, i)]
             item == [i \in S |-> LabelAt(d, i)]
             next == [i \in S |-> AfterLabel(d, i)]
  <2>1. m \in [S -> 0 .. Len(d)]
    BY <1>1
  <2>2. \A i \in S : ~stop[i] => next[i] \in S /\ m[next[i]] < m[i]
    <3> SUFFICES ASSUME NEW i \in S, ~NameStops(d, i)
                 PROVE  next[i] \in S /\ m[next[i]] < m[i]
      OBVIOUS
    <3>1. i + 1 \in 1 .. Len(d)
      BY <1>1 DEF NameStops
    <3>2. d[i + 1] \in Byte
      BY <3>1
    <3>3. AfterLabel(d, i) \in S /\ AfterLabel(d, i) > i
      BY <1>1, <3>2, LabelEnds
    <3>4. QED
      BY <1>1, <3>3
  <2>3. PICK f : Walked(f, S, "name", stop, base, item, next)
    <3> HIDE DEF S, m, stop, base, item, next
    <3>1. QED
      BY <1>1, <2>1, <2>2, WalkExists
  <2>4. \A i \in S : (IF stop[i] THEN base[i] ELSE Joined("name", item[i], f[next[i]])) = Step(f, i)
    <3> SUFFICES ASSUME NEW i \in S
                 PROVE  (IF NameStops(d, i) THEN NameStopped(d, i)
                         ELSE Joined("name", LabelAt(d, i), f[AfterLabel(d, i)])) = Step(f, i)
      OBVIOUS
    <3>1. CASE NameStops(d, i)
      BY <3>1 DEF NameStops, NameStopped, AfterLabel
    <3>2. CASE ~NameStops(d, i)
      BY <3>2 DEF NameStops, Joined, AfterLabel, LabelAt
    <3>3. QED
      BY <3>1, <3>2
  <2>5. QED
    <3> HIDE DEF stop, base, item, next, S, Step
    <3>1. Walk(f)
      BY <2>3, <2>4 DEF Walked
    <3>2. QED
      BY <3>1
<1> DEFINE f == CHOOSE g : Walk(g)
<1>4. Walk(f)
  BY <1>3
<1> HIDE DEF f
<1>5. ASSUME NEW i \in S
      PROVE  f[i] = IF NameStops(d, i) THEN NameStopped(d, i)
                    ELSE [f[AfterLabel(d, i)] EXCEPT !.labels = <<LabelAt(d, i)>> \o @]
  <2>1. f[i] = Step(f, i)
    <3> HIDE DEF Step
    <3>1. QED
      BY <1>4
  <2>2. CASE NameStops(d, i)
    BY <2>1, <2>2 DEF NameStops, NameStopped, AfterLabel
  <2>3. CASE ~NameStops(d, i)
    BY <2>1, <2>3 DEF NameStops, AfterLabel, LabelAt
  <2>4. QED
    BY <2>2, <2>3
<1>6. NamesOf(f, d)
  BY <1>5 DEF NamesOf
<1>7. QED
  BY <1>2, <1>6 DEF f

(* What was read of a name, x, and the name, y.                            *)
PartOfName(x, y) ==
    /\ Len(x.labels) <= Len(y.labels)
    /\ \A k \in 1 .. Len(x.labels) : Begins(x.labels[k], y.labels[k])
    /\ x.end # Nowhere => x = y

LEMMA StoppedIsName ==
    ASSUME NEW d \in Seq(Byte), NEW i \in 12 .. Len(d), NameStops(d, i)
    PROVE  NameStopped(d, i) \in Name
<1>0. Len(d) \in Nat /\ <<>> \in Seq(Seq(Byte)) /\ i + 1 \in Nat
  OBVIOUS
<1>1. CASE i = Len(d) \/ d[i + 1] = 0 \/ d[i + 1] > 63
  BY <1>0, <1>1 DEF NameStopped, Name
<1>2. CASE ~(i = Len(d) \/ d[i + 1] = 0 \/ d[i + 1] > 63)
  <2> DEFINE x == Slice(d, i + 1, Len(d) - i - 1)
  <2>1. x \in Seq(Byte)
    <3>1. i + 1 \in Nat /\ Len(d) - i - 1 \in Nat /\ (i + 1) + (Len(d) - i - 1) <= Len(d)
      BY <1>0, <1>2
    <3>2. QED
      BY <3>1, SliceFacts
  <2>2. Begins(x, x)
    BY <2>1 DEF Begins
  <2> HIDE DEF x
  <2>3. Ascii(x) \in Seq(Byte)
    BY <2>1, <2>2, AsciiFacts
  <2>4. <<Ascii(x)>> \in Seq(Seq(Byte))
    BY <2>3
  <2>5. NameStopped(d, i) = [labels |-> <<Ascii(x)>>, end |-> Nowhere]
    BY <1>2 DEF NameStopped, x
  <2>6. QED
    BY <1>0, <2>4, <2>5 DEF Name
<1>3. QED
  BY <1>1, <1>2

LEMMA JoinName ==
    ASSUME NEW x \in Name, NEW e \in Seq(Byte)
    PROVE  /\ [x EXCEPT !.labels = <<e>> \o @] \in Name
           /\ [x EXCEPT !.labels = <<e>> \o @] = [labels |-> <<e>> \o x.labels, end |-> x.end]
<1>1. x.labels \in Seq(Seq(Byte)) /\ x.end \in Nat \cup {Nowhere} /\ x = [labels |-> x.labels, end |-> x.end]
  BY DEF Name
<1>2. <<e>> \o x.labels \in Seq(Seq(Byte))
  BY <1>1
<1>3. [x EXCEPT !.labels = <<e>> \o @] = [labels |-> <<e>> \o x.labels, end |-> x.end]
  <2> DEFINE z == <<e>> \o x.labels
  <2>1. [x EXCEPT !.labels = <<e>> \o @] = [x EXCEPT !.labels = z]
    OBVIOUS
  <2> HIDE DEF z
  <2>2. [x EXCEPT !.labels = z] = [labels |-> z, end |-> x.end]
    BY DEF Name
  <2>3. QED
    BY <2>1, <2>2 DEF z
<1>4. QED
  BY <1>1, <1>2, <1>3 DEF Name

LEMMA NamesAreNames ==
    ASSUME NEW d \in Seq(Byte), NEW f,
           NamesOf(f, d)
    PROVE  \A i \in 12 .. Len(d) : f[i] \in Name
<1> DEFINE Wrong == {i \in 12 .. Len(d) : f[i] \notin Name}
<1>1. SUFFICES ASSUME Wrong # {} PROVE FALSE
  OBVIOUS
<1>2. PICK i \in Wrong : \A j \in Wrong : j <= i
  <2>1. Wrong \in SUBSET (0 .. Len(d)) /\ Len(d) \in Nat
    OBVIOUS
  <2> HIDE DEF Wrong
  <2>2. QED
    BY <1>1, <2>1, LastOne
<1>3. i \in 12 .. Len(d)
  OBVIOUS
<1>4. CASE NameStops(d, i)
  <2>1. f[i] = NameStopped(d, i)
    BY <1>3, <1>4 DEF NamesOf
  <2>2. QED
    BY <1>2, <1>3, <1>4, <2>1, StoppedIsName
<1>5. CASE ~NameStops(d, i)
  <2> DEFINE q == AfterLabel(d, i)
             e == LabelAt(d, i)
  <2>1. q \in 12 .. Len(d) /\ ~(q <= i) /\ e \in Seq(Byte)
    BY <1>3, <1>5, LabelEnds
  <2>2. f[i] = [f[q] EXCEPT !.labels = <<e>> \o @]
    BY <1>3, <1>5 DEF NamesOf
  <2> HIDE DEF q, e
  <2>3. f[q] \in Name
    BY <1>2, <2>1
  <2> DEFINE x == f[q]
  <2>x. f[i] = [x EXCEPT !.labels = <<e>> \o @] /\ x \in Name
    BY <2>2, <2>3
  <2> HIDE DEF x
  <2>4. f[i] \in Name
    <3>1. [x EXCEPT !.labels = <<e>> \o @] \in Name
      BY <2>1, <2>x, JoinName
    <3>2. QED
      BY <2>x, <3>1
  <2>5. QED
    BY <1>2, <2>4
<1>6. QED
  BY <1>4, <1>5

(* Where a walk through a part stops, the walk through the whole stops for *)
(* the same reason, or the part was cut.                                   *)
LEMMA StoppedCut ==
    ASSUME NEW d, NEW b, Cut(d, b), NEW i \in 12 .. Len(d), NameStops(d, i),
           NEW y \in Name, NEW z \in Name,
           y = IF NameStops(b, i) THEN NameStopped(b, i)
               ELSE [labels |-> <<LabelAt(b, i)>> \o z.labels, end |-> z.end]
    PROVE  PartOfName(NameStopped(d, i), y)
<1>0. /\ d \in Seq(Byte) /\ b \in Seq(Byte) /\ Len(d) \in Nat /\ Len(b) \in Nat /\ i \in Nat
      /\ Len(d) <= Len(b) /\ i <= Len(d)
  BY DEF Cut
<1>y. y.labels \in Seq(Seq(Byte)) /\ Len(y.labels) \in Nat
  BY DEF Name
<1> DEFINE x == NameStopped(d, i)
<1>1. CASE i = Len(d)
  <2>1. x.labels = <<>> /\ x.end = Nowhere
    BY <1>1 DEF NameStopped
  <2> HIDE DEF x
  <2>2. QED
    BY <1>y, <2>1 DEF PartOfName, x
<1>2. CASE i # Len(d)
  <2>1. i + 1 \in 1 .. Len(d) /\ i + 1 \in 1 .. Len(b) /\ i # Len(b)
    BY <1>0, <1>2
  <2>2. d[i + 1] = b[i + 1]
    BY <2>1 DEF Cut
  <2> DEFINE n == b[i + 1]
  <2>3. n \in Nat
    BY <1>0, <2>1, ByteAt
  <2>4. CASE n = 0
    <3>1. x = y
      BY <1>2, <2>1, <2>2, <2>4 DEF NameStops, NameStopped
    <3>2. QED
      <4>1. \A k \in 1 .. Len(y.labels) : Begins(y.labels[k], y.labels[k])
        <5>1. ASSUME NEW k \in 1 .. Len(y.labels) PROVE Begins(y.labels[k], y.labels[k])
          <6>1. y.labels[k] \in Seq(Byte)
            BY <1>y
          <6>2. QED
            BY <6>1 DEF Begins
        <5>2. QED
          BY <5>1
      <4> HIDE DEF x
      <4>2. QED
        BY <1>y, <3>1, <4>1 DEF PartOfName, x
  <2>5. CASE n # 0 /\ n > 63
    <3>1. x.labels = <<>> /\ x.end = Nowhere
      BY <1>2, <2>2, <2>5 DEF NameStopped
    <3> HIDE DEF x
    <3>2. QED
      BY <1>y, <3>1 DEF PartOfName, x
  <2>6. CASE n # 0 /\ ~(n > 63)
    <3> DEFINE u == Slice(d, i + 1, Len(d) - i - 1)
    <3>1. x.labels = <<Ascii(u)>> /\ x.end = Nowhere
      BY <1>2, <2>2, <2>6 DEF NameStopped
    <3>2. Len(d) < i + 1 + n
      BY <1>0, <1>2, <2>2, <2>3, <2>6 DEF NameStops, AfterLabel
    <3> DEFINE r == Len(d) - i - 1
    <3>3. r \in Nat /\ i + 1 \in Nat /\ (i + 1) + r <= Len(d) /\ r <= n /\ (i + 1) + r <= Len(b)
      <4> HIDE DEF n, x
      <4>1. i + 1 <= Len(d)
        BY <1>0, <2>1
      <4>2. QED
        BY <1>0, <2>3, <3>2, <4>1
    <3>4. /\ u \in Seq(Byte) /\ Len(u) = r
          /\ \A k \in 1 .. r : i + 1 + k \in 1 .. Len(d) /\ u[k] = d[i + 1 + k]
      <4>1. u = Slice(d, i + 1, r)
        OBVIOUS
      <4> HIDE DEF r, u, n, x
      <4> DEFINE j == i + 1
      <4>2. d \in Seq(Byte) /\ j \in Nat /\ r \in Nat /\ j + r <= Len(d)
        BY <1>0, <3>3
      <4>3. u = Slice(d, j, r)
        BY <4>1
      <4> HIDE DEF j
      <4>4. u \in Seq(Byte) /\ Len(u) = r /\ \A k \in 1 .. r : j + k \in 1 .. Len(d) /\ u[k] = d[j + k]
        BY <4>2, <4>3, SliceFacts
      <4>5. QED
        BY <4>4 DEF j
    <3>5. PICK m \in Nat : m >= r /\ (i + 1) + m <= Len(b) /\ Len(y.labels) >= 1
                           /\ y.labels[1] = Ascii(Slice(b, i + 1, m))
      <4>1. CASE i + 1 + n > Len(b)
        <5>1. NameStops(b, i)
          BY <4>1 DEF NameStops, AfterLabel
        <5>2. y.labels = <<Ascii(Slice(b, i + 1, Len(b) - i - 1))>>
          BY <2>1, <2>6, <5>1 DEF NameStopped
        <5>3. Len(b) - i - 1 \in Nat /\ Len(b) - i - 1 >= r
              /\ (i + 1) + (Len(b) - i - 1) <= Len(b)
          <6>1. i + 1 <= Len(b) /\ Len(b) - i - 1 \in Int
            BY <1>0, <2>1
          <6> HIDE DEF n, x
          <6>2. QED
            BY <1>0, <6>1
        <5>4. Len(y.labels) >= 1 /\ y.labels[1] = Ascii(Slice(b, i + 1, Len(b) - i - 1))
          <6> DEFINE t == Ascii(Slice(b, i + 1, Len(b) - i - 1))
          <6>1. y.labels = <<t>>
            BY <5>2
          <6> HIDE DEF t
          <6>2. Len(<<t>>) = 1 /\ <<t>>[1] = t
            OBVIOUS
          <6>3. Len(<<t>>) >= 1
            BY <6>2
          <6>4. QED
            BY <6>1, <6>2, <6>3 DEF t
        <5>5. QED
          BY <5>3, <5>4
      <4>2. CASE ~(i + 1 + n > Len(b))
        <5>1. ~NameStops(b, i)
          BY <2>1, <2>6, <4>2 DEF NameStops, AfterLabel
        <5>2. y.labels = <<LabelAt(b, i)>> \o z.labels /\ z.labels \in Seq(Seq(Byte))
          BY <5>1 DEF Name
        <5>3. Len(y.labels) >= 1 /\ y.labels[1] = LabelAt(b, i)
          <6>1. LabelAt(b, i) \in Seq(Byte)
            <7>1. i \in 12 .. Len(b)
              BY <1>0
            <7>2. QED
              BY <1>0, <5>1, <7>1, LabelEnds
          <6>2. QED
            BY <5>2, <6>1
        <5>4. (i + 1) + n <= Len(b)
          BY <1>0, <2>3, <4>2
        <5>5. y.labels[1] = Ascii(Slice(b, i + 1, n))
          BY <5>3 DEF LabelAt
        <5>6. QED
          BY <2>3, <3>3, <5>3, <5>4, <5>5
      <4>3. QED
        BY <4>1, <4>2
    <3> DEFINE v == Slice(b, i + 1, m)
    <3>6. /\ v \in Seq(Byte) /\ Len(v) = m
          /\ \A k \in 1 .. m : v[k] = b[i + 1 + k]
      <4> HIDE DEF r, u, n, x
      <4> DEFINE j == i + 1
      <4>1. b \in Seq(Byte) /\ j \in Nat /\ m \in Nat /\ j + m <= Len(b)
        BY <1>0, <3>3, <3>5
      <4>2. v = Slice(b, j, m)
        OBVIOUS
      <4> HIDE DEF j, v
      <4>3. v \in Seq(Byte) /\ Len(v) = m /\ \A k \in 1 .. m : v[k] = b[j + k]
        BY <4>1, <4>2, SliceFacts
      <4>4. QED
        BY <4>3 DEF j
    <3> HIDE DEF u, v, r
    <3>7. Begins(u, v)
      <4>1. \A k \in 1 .. r : u[k] = v[k]
        <5>1. \A k \in 1 .. r : k \in 1 .. m
          BY <3>3, <3>5
        <5>2. QED
          BY <3>4, <3>6, <5>1 DEF Cut
      <4>2. QED
        BY <3>4, <3>5, <3>6, <4>1 DEF Begins
    <3>8. Begins(Ascii(u), Ascii(v)) /\ Ascii(u) \in Seq(Byte)
      BY <3>4, <3>6, <3>7, AsciiFacts
    <3> HIDE DEF x
    <3>9. Len(x.labels) = 1 /\ x.labels[1] = Ascii(u)
      BY <3>1, <3>8
    <3>10. \A k \in 1 .. Len(x.labels) : Begins(x.labels[k], y.labels[k])
      <4>1. y.labels[1] = Ascii(v)
        BY <3>5 DEF v
      <4>2. QED
        BY <3>8, <3>9, <4>1
    <3>11. QED
      BY <3>1, <3>5, <3>9, <3>10 DEF PartOfName, x
  <2>7. QED
    BY <2>4, <2>5, <2>6
<1>3. QED
  BY <1>1, <1>2

LEMMA JoinPart ==
    ASSUME NEW x \in Name, NEW y \in Name, PartOfName(x, y), NEW e \in Seq(Byte)
    PROVE  PartOfName([labels |-> <<e>> \o x.labels, end |-> x.end],
                      [labels |-> <<e>> \o y.labels, end |-> y.end])
<1> DEFINE p == x.labels
           q == y.labels
           u == <<e>> \o p
           v == <<e>> \o q
<1>1. p \in Seq(Seq(Byte)) /\ q \in Seq(Seq(Byte)) /\ x.end \in Nat \cup {Nowhere} /\ Len(p) \in Nat /\ Len(q) \in Nat
  BY DEF Name
<1>2. Len(p) <= Len(q) /\ \A k \in 1 .. Len(p) : Begins(p[k], q[k])
  BY DEF PartOfName
<1> HIDE DEF p, q
<1>3. /\ Len(u) = Len(p) + 1 /\ Len(v) = Len(q) + 1 /\ u[1] = e /\ v[1] = e
      /\ \A k \in 2 .. Len(p) + 1 : u[k] = p[k - 1]
      /\ \A k \in 2 .. Len(q) + 1 : v[k] = q[k - 1]
  BY <1>1
<1> HIDE DEF u, v
<1>4. ASSUME NEW k \in 1 .. Len(u) PROVE Begins(u[k], v[k])
  <2>1. CASE k = 1
    BY <1>3, <2>1 DEF Begins
  <2>2. CASE k # 1
    <3>1. k \in 2 .. Len(p) + 1 /\ k \in 2 .. Len(q) + 1 /\ k - 1 \in 1 .. Len(p)
      BY <1>1, <1>2, <1>3, <2>2
    <3>2. QED
      BY <1>2, <1>3, <3>1
  <2>3. QED
    BY <2>1, <2>2
<1>5. x.end # Nowhere => u = v /\ x.end = y.end
  BY DEF PartOfName, u, v, p, q
<1>6. ASSUME NEW l, NEW m PROVE [labels |-> l, end |-> m].labels = l /\ [labels |-> l, end |-> m].end = m
  OBVIOUS
<1>7. PartOfName([labels |-> u, end |-> x.end], [labels |-> v, end |-> y.end])
  <2>1. Len(u) <= Len(v)
    BY <1>1, <1>2, <1>3
  <2>2. QED
    BY <1>4, <1>5, <2>1, <1>6 DEF PartOfName
<1>8. QED
  BY <1>7 DEF u, v, p, q

(* From wherever both walks are.                                           *)
LEMMA NameCut ==
    ASSUME NEW d, NEW b, Cut(d, b), NEW f, NEW g,
           NamesOf(f, d),
           NamesOf(g, b)
    PROVE  \A i \in 12 .. Len(d) : f[i] \in Name /\ g[i] \in Name /\ PartOfName(f[i], g[i])
<1>0. /\ d \in Seq(Byte) /\ b \in Seq(Byte) /\ Len(d) \in Nat /\ Len(b) \in Nat /\ Len(d) <= Len(b)
      /\ \A i \in 12 .. Len(d) : i \in 12 .. Len(b)
  BY DEF Cut
<1>1. (\A i \in 12 .. Len(d) : f[i] \in Name) /\ \A i \in 12 .. Len(b) : g[i] \in Name
  BY <1>0, NamesAreNames
<1> DEFINE Wrong == {i \in 12 .. Len(d) : ~PartOfName(f[i], g[i])}
<1>2. ASSUME Wrong # {} PROVE FALSE
  <2>1. PICK i \in Wrong : \A j \in Wrong : j <= i
    <3>1. Wrong \in SUBSET (0 .. Len(d))
      BY <1>0
    <3> HIDE DEF Wrong
    <3>2. QED
      BY <1>0, <1>2, <3>1, LastOne
  <2>2. i \in 12 .. Len(d) /\ i \in 12 .. Len(b) /\ f[i] \in Name /\ g[i] \in Name
    BY <1>0, <1>1
  <2>3. CASE NameStops(d, i)
    <3>1. \E z \in Name : g[i] = IF NameStops(b, i) THEN NameStopped(b, i)
                                 ELSE [labels |-> <<LabelAt(b, i)>> \o z.labels, end |-> z.end]
      <4>1. CASE NameStops(b, i)
        BY <2>2, <4>1 DEF NamesOf
      <4>2. CASE ~NameStops(b, i)
        <5> DEFINE q == AfterLabel(b, i)
                   z == g[q]
        <5>1. q \in 12 .. Len(b) /\ LabelAt(b, i) \in Seq(Byte)
          BY <1>0, <2>2, <4>2, LabelEnds
        <5>2. z \in Name
          BY <1>1, <5>1
        <5>3. g[i] = [z EXCEPT !.labels = <<LabelAt(b, i)>> \o @]
          BY <2>2, <4>2 DEF NamesOf
        <5> HIDE DEF z
        <5>4. g[i] = [labels |-> <<LabelAt(b, i)>> \o z.labels, end |-> z.end]
          BY <5>1, <5>2, <5>3, JoinName
        <5>5. QED
          BY <4>2, <5>2, <5>4
      <4>3. QED
        BY <4>1, <4>2
    <3>2. f[i] = NameStopped(d, i)
      BY <2>2, <2>3 DEF NamesOf
    <3>3. PartOfName(NameStopped(d, i), g[i])
      BY <2>2, <2>3, <3>1, StoppedCut
    <3>4. QED
      BY <2>1, <3>2, <3>3
  <2>4. CASE ~NameStops(d, i)
    <3> DEFINE q == AfterLabel(d, i)
               e == LabelAt(d, i)
    <3>1. /\ i + 1 \in 1 .. Len(d) /\ d[i + 1] \in Nat /\ d[i + 1] <= 63
          /\ q \in 12 .. Len(d) /\ q > i /\ e \in Seq(Byte)
      BY <1>0, <2>2, <2>4, LabelEnds
    <3>2. b[i + 1] = d[i + 1]
      BY <3>1 DEF Cut
    <3>3. AfterLabel(b, i) = q /\ ~NameStops(b, i)
      BY <1>0, <2>2, <2>4, <3>1, <3>2 DEF AfterLabel, NameStops
    <3>4. LabelAt(b, i) = e
      <4>1. (i + 1) + d[i + 1] <= Len(d) /\ i + 1 \in Nat
        BY <1>0, <2>2, <3>1 DEF AfterLabel
      <4>2. Slice(d, i + 1, d[i + 1]) = Slice(b, i + 1, d[i + 1])
        BY <3>1, <4>1, SliceSame
      <4>3. QED
        BY <3>2, <4>2 DEF LabelAt
    <3> DEFINE x == f[q]
               y == g[q]
    <3>5. f[i] = [x EXCEPT !.labels = <<e>> \o @] /\ g[i] = [y EXCEPT !.labels = <<e>> \o @]
      BY <2>2, <2>4, <3>3, <3>4 DEF NamesOf
    <3>6. x \in Name /\ y \in Name /\ PartOfName(x, y)
      <4> HIDE DEF q
      <4>1. q \in 12 .. Len(b) /\ ~(q <= i)
        BY <1>0, <2>2, <3>1
      <4>2. QED
        BY <1>1, <2>1, <3>1, <4>1
    <3> HIDE DEF q, e, x, y
    <3>7. /\ f[i] = [labels |-> <<e>> \o x.labels, end |-> x.end]
          /\ g[i] = [labels |-> <<e>> \o y.labels, end |-> y.end]
      BY <3>1, <3>5, <3>6, JoinName
    <3>8. PartOfName(f[i], g[i])
      <4>1. PartOfName([labels |-> <<e>> \o x.labels, end |-> x.end],
                       [labels |-> <<e>> \o y.labels, end |-> y.end])
        BY <3>1, <3>6, JoinPart
      <4>2. QED
        BY <3>7, <4>1
    <3>9. QED
      BY <2>1, <3>8
  <2>5. QED
    BY <2>3, <2>4
<1>3. QED
  BY <1>0, <1>1, <1>2

LEMMA PartParsed ==
    ASSUME NEW d, NEW b, Cut(d, b), NEW x \in Name, NEW y \in Name, PartOfName(x, y)
    PROVE  LET n == DnsOf(d, x)  w == DnsOf(b, y) IN
           /\ n.parsed =>
                /\ w.parsed /\ Len(n.labels) <= Len(w.labels)
                /\ \A k \in DOMAIN n.labels : IsPrefix(n.labels[k], w.labels[k])
                /\ n.labels # w.labels => n.truncated
           /\ n.qtype \in {0, w.qtype}
<1> DEFINE p == x.labels
           q == y.labels
           n == DnsOf(d, x)
           w == DnsOf(b, y)
<1>1. /\ p \in Seq(Seq(Byte)) /\ q \in Seq(Seq(Byte)) /\ x.end \in Nat \cup {Nowhere} /\ Len(p) \in Nat
      /\ Len(q) \in Nat /\ DOMAIN p = 1 .. Len(p) /\ DOMAIN q = 1 .. Len(q)
  BY DEF Name
<1>2. /\ Len(p) <= Len(q) /\ \A k \in 1 .. Len(p) : Begins(p[k], q[k])
      /\ x.end # Nowhere => x = y
  BY DEF PartOfName
<1>3. CASE \A k \in DOMAIN p : p[k] = <<>>
  BY <1>3 DEF DnsOf, NoDns
<1>4. CASE ~(\A k \in DOMAIN p : p[k] = <<>>)
  <2>1. ~(\A k \in DOMAIN q : q[k] = <<>>)
    <3> HIDE DEF p, q
    <3>1. PICK k \in 1 .. Len(p) : p[k] # <<>>
      BY <1>1, <1>4
    <3>2. k \in 1 .. Len(q) /\ p[k] \in Seq(Byte) /\ q[k] \in Seq(Byte) /\ Begins(p[k], q[k])
      BY <1>1, <1>2
    <3>3. q[k] # <<>>
      BY <3>1, <3>2 DEF Begins
    <3>4. QED
      BY <1>1, <3>2, <3>3
  <2>2. /\ n.parsed /\ n.labels = p /\ n.truncated = (x.end = Nowhere)
        /\ n.qtype = IF x.end # Nowhere /\ x.end + 2 <= Len(d) THEN U16(d, x.end) ELSE 0
    BY <1>4 DEF DnsOf
  <2>3. /\ w.parsed /\ w.labels = q
        /\ w.qtype = IF y.end # Nowhere /\ y.end + 2 <= Len(b) THEN U16(b, y.end) ELSE 0
    BY <2>1 DEF DnsOf
  <2>4. \A k \in DOMAIN p : IsPrefix(p[k], q[k])
    <3>1. ASSUME NEW k \in 1 .. Len(p) PROVE IsPrefix(p[k], q[k])
      <4>1. p[k] \in Seq(Byte) /\ q[k] \in Seq(Byte) /\ Begins(p[k], q[k])
        BY <1>1, <1>2
      <4>2. QED
        BY <4>1, BeginsIsPrefix
    <3>2. QED
      BY <1>1, <3>1
  <2>5. n.qtype \in {0, w.qtype}
    <3>1. CASE x.end # Nowhere /\ x.end + 2 <= Len(d)
      <4>1. x.end = y.end
        BY <1>2, <3>1
      <4>2. x.end \in Nat /\ Len(d) \in Nat /\ Len(b) \in Nat /\ Len(d) <= Len(b)
        BY <1>1, <3>1 DEF Cut
      <4>3. U16(d, x.end) = U16(b, x.end)
        BY <3>1, <4>2, U16Same
      <4>4. y.end # Nowhere /\ y.end + 2 <= Len(b)
        BY <3>1, <4>1, <4>2
      <4>5. n.qtype = w.qtype
        BY <2>2, <2>3, <3>1, <4>1, <4>3, <4>4
      <4>6. QED
        BY <4>5
    <3>2. CASE ~(x.end # Nowhere /\ x.end + 2 <= Len(d))
      BY <2>2, <3>2
    <3>3. QED
      BY <3>1, <3>2
  <2>6. p # q => n.truncated
    BY <1>2, <2>2
  <2> HIDE DEF n, w
  <2>7. QED
    BY <1>1, <1>2, <2>2, <2>3, <2>4, <2>5, <2>6 DEF n, w
<1>5. QED
  BY <1>3, <1>4

LEMMA DnsCut ==
    ASSUME NEW d, NEW b, Cut(d, b)
    PROVE  LET n == ParseDns(d)  w == ParseDns(b) IN
           /\ n.parsed =>
                /\ w.parsed /\ Len(n.labels) <= Len(w.labels)
                /\ \A k \in DOMAIN n.labels : IsPrefix(n.labels[k], w.labels[k])
                /\ n.labels # w.labels => n.truncated
           /\ n.qtype \in {0, w.qtype}
           /\ n.parsed \in BOOLEAN
<1>0. d \in Seq(Byte) /\ b \in Seq(Byte) /\ Len(d) \in Nat /\ Len(b) \in Nat /\ Len(d) <= Len(b)
  BY DEF Cut
<1>1. CASE ~(Len(d) > 12)
  <2>0. Len(d) <= 12
    BY <1>0, <1>1
  <2>1. ParseDns(d) = NoDns
    BY <2>0 DEF ParseDns
  <2>2. QED
    BY <2>1 DEF NoDns
<1>2. CASE Len(d) > 12
  <2>1. PICK f : /\ NamesOf(f, d)
                 /\ ParseDns(d) = DnsOf(d, f[12])
    BY <1>0, <1>2, NameWalk
  <2>2. PICK g : /\ NamesOf(g, b)
                 /\ ParseDns(b) = DnsOf(b, g[12])
    <3>1. Len(b) > 12
      BY <1>0, <1>2
    <3>2. QED
      BY <1>0, <3>1, NameWalk
  <2>3. 12 \in 12 .. Len(d)
    BY <1>0, <1>2
  <2>4. f[12] \in Name /\ g[12] \in Name /\ PartOfName(f[12], g[12])
    BY <2>1, <2>2, <2>3, NameCut
  <2>5. ParseDns(d).parsed \in BOOLEAN
    BY <2>1 DEF DnsOf, NoDns
  <2>6. QED
    BY <2>1, <2>2, <2>4, <2>5, PartParsed
<1>3. QED
  BY <1>1, <1>2

-----------------------------------------------------------------------------
(* Hellos.                                                                 *)
TlsHides(t, w) ==
    /\ t.hello \in {"none", w.hello} /\ t.version \in {0, w.version}
    /\ Hides(t.ciphers, w.ciphers) /\ Hides(t.curves, w.curves)
    /\ Hides(t.sni, w.sni) /\ Hides(t.alpn, w.alpn)
    /\ IsPrefix(t.extensions, w.extensions)
    /\ Hides(t.fingerprint, w.fingerprint)

LEMMA EmptyIsPrefix == ASSUME NEW s PROVE IsPrefix(<<>>, s)
  BY DEF IsPrefix

LEMMA EmptyBody == /\ ReadVector(<<>>, 0) = <<>> /\ ReadSni(<<>>) = <<>> /\ ReadAlpn(<<>>) = <<>>
<1>1. Len(<<>>) = 0
  OBVIOUS
<1>2. ReadVector(<<>>, 0) = <<>> /\ ReadSni(<<>>) = <<>>
  BY <1>1 DEF ReadVector, Fits2, ReadSni
<1> DEFINE e == <<>>
           Step(f, p) == IF p >= Len(e) \/ p + 1 + e[p + 1] > Len(e) THEN <<>>
                         ELSE <<Ascii(Slice(e, p + 1, e[p + 1]))>> \o f[p + 1 + e[p + 1]]
           Walk(f) == f = [p \in 2 .. Len(e) + 2 |-> Step(f, p)]
<1>3. \A f : \A p \in 2 .. Len(e) + 2 : Step(f, p) = <<>>
  BY <1>1
<1>4. ReadAlpn(<<>>) = (CHOOSE f : Walk(f))[2]
  BY DEF ReadAlpn
<1>5. 2 \in 2 .. Len(e) + 2
  BY <1>1
<1> HIDE DEF Step
<1>6. Walk([p \in 2 .. Len(e) + 2 |-> <<>>])
  BY <1>3
<1>7. Walk(CHOOSE f : Walk(f))
  BY <1>6
<1>8. (CHOOSE f : Walk(f))[2] = <<>>
  <2> DEFINE f == CHOOSE g : Walk(g)
  <2>1. Walk(f)
    BY <1>7
  <2> HIDE DEF f
  <2>2. f[2] = Step(f, 2)
    BY <1>5, <2>1
  <2>3. f[2] = <<>>
    BY <1>3, <1>5, <2>2
  <2>4. QED
    BY <2>3 DEF f
<1>9. QED
  BY <1>2, <1>4, <1>8

FirstOnes(x, y) ==
    \/ x = <<>>
    \/ x \in Seq(Extension) /\ y \in Seq(Extension) /\ Begins(x, y)

LEMMA FirstOnesCut ==
    ASSUME NEW d, NEW b, Cut(d, b), NEW p \in Int, NEW q \in Int, p \in {Nowhere, q}
    PROVE  FirstOnes(ReadExtensions(d, p), ReadExtensions(b, q))
<1>1. CASE p >= 0 /\ p + 2 <= Len(d)
  <2>1. p = q
    BY <1>1 DEF Nowhere
  <2>2. QED
    BY <1>1, <2>1, ExtensionsCut DEF FirstOnes
<1>2. CASE ~(p >= 0 /\ p + 2 <= Len(d))
  <2>1. ReadExtensions(d, p) = <<>>
    BY <1>2, ExtensionsCut
  <2>2. \A x, y : x = <<>> => FirstOnes(x, y)
    BY DEF FirstOnes
  <2>3. QED
    BY <2>1, <2>2
<1>3. QED
  BY <1>1, <1>2

LEMMA FirstOnesFacts ==
    ASSUME NEW x, NEW y, FirstOnes(x, y),
           \A i, j \in DOMAIN Types(y) : Types(y)[i] = Types(y)[j] => i = j
    PROVE  /\ IsPrefix(Types(x), Types(y))
           /\ \A t : Hides(BodyOf(x, t), BodyOf(y, t))
<1>1. CASE x = <<>>
  <2>1. Types(x) = <<>>
    <3>1. <<>> \in Seq(Extension) /\ Len(<<>>) = 0
      OBVIOUS
    <3>2. Types(<<>>) \in Seq(Nat) /\ Len(Types(<<>>)) = 0
      BY <3>1, TypesFacts
    <3>3. \A u \in Seq(Nat) : Len(u) = 0 => u = <<>>
      OBVIOUS
    <3>4. QED
      BY <1>1, <3>2, <3>3
  <2>2. \A t : BodyOf(x, t) = <<>>
    BY <1>1 DEF BodyOf
  <2>3. QED
    BY <2>1, <2>2, EmptyIsPrefix DEF Hides
<1>2. CASE x \in Seq(Extension) /\ y \in Seq(Extension) /\ Begins(x, y)
  BY <1>2, TypesBegin, BodyHides
<1>3. QED
  BY <1>1, <1>2 DEF FirstOnes

LEMMA BytesHide ==
    ASSUME NEW u, NEW v, Hides(u, v)
    PROVE  /\ Hides(ReadVector(u, 0), ReadVector(v, 0)) /\ Hides(ReadSni(u), ReadSni(v))
           /\ Hides(ReadAlpn(u), ReadAlpn(v))
  BY EmptyBody DEF Hides

LEMMA ClientCut ==
    ASSUME NEW d, NEW b, Cut(d, b), Complete(d) => d = b,
           LET types == ClientHello(b).extensions
           IN  \A i, j \in DOMAIN types : types[i] = types[j] => i = j
    PROVE  TlsHides(ClientHello(d), ClientHello(b)) /\ ClientHello(d).complete = Complete(d)
<1> DEFINE session(x) == SkipVector(x, 43)
           pos(x) == SkipVector(x, AfterVector(x, session(x)))
           es(x) == ReadExtensions(x, pos(x))
           t == ClientHello(d)
           w == ClientHello(b)
<1>0. Len(d) \in Nat /\ Len(b) \in Nat /\ Len(d) <= Len(b)
  BY DEF Cut
<1>1. t.hello = "client" /\ w.hello = "client" /\ t.complete = Complete(d)
  BY DEF ClientHello, NoTls
<1>2. CASE ~HasVersion(d)
  <2>1. /\ t.version = 0 /\ t.ciphers = <<>> /\ t.curves = <<>> /\ t.sni = <<>> /\ t.alpn = <<>>
        /\ t.extensions = <<>> /\ t.fingerprint = <<>>
    BY <1>2 DEF ClientHello, NoTls
  <2> HIDE DEF t, w
  <2>2. QED
    BY <1>1, <2>1, EmptyIsPrefix DEF TlsHides, Hides, t, w
<1>3. CASE HasVersion(d)
  <2>1. HasVersion(b) /\ U16(d, 9) = U16(b, 9)
    <3>1. 9 + 2 <= Len(d) /\ 11 <= Len(b)
      BY <1>0, <1>3 DEF HasVersion
    <3>2. QED
      BY <3>1, U16Same DEF HasVersion
  <2>2. /\ session(d) \in Int /\ session(b) \in Int /\ session(d) \in {Nowhere, session(b)}
    BY SkipCut
  <2>3. Hides(ReadVector(d, session(d)), ReadVector(b, session(b)))
        /\ AfterVector(d, session(d)) \in {Nowhere, AfterVector(b, session(b))}
        /\ AfterVector(d, session(d)) \in Int /\ AfterVector(b, session(b)) \in Int
    <3> HIDE DEF session
    <3>1. CASE session(d) = session(b)
      BY <2>2, <3>1, VectorCut
    <3>2. CASE session(d) = Nowhere
      <4>1. ~Fits2(d, session(d))
        BY <3>2 DEF Fits2, Nowhere
      <4>2. ReadVector(d, session(d)) = <<>> /\ AfterVector(d, session(d)) = Nowhere
        BY <4>1 DEF ReadVector, AfterVector
      <4>3. AfterVector(b, session(b)) \in Int /\ Nowhere \in Int
        BY <2>2, VectorCut DEF Nowhere
      <4>4. QED
        BY <4>2, <4>3 DEF Hides
    <3>3. QED
      BY <2>2, <3>1, <3>2
  <2> DEFINE p == AfterVector(d, session(d))
             q == AfterVector(b, session(b))
  <2>4. pos(d) \in Int /\ pos(b) \in Int /\ pos(d) \in {Nowhere, pos(b)}
    <3>1. p \in {Nowhere, q} /\ p \in Int /\ q \in Int
      BY <2>3
    <3> HIDE DEF p, q
    <3>2. SkipVector(d, p) \in Int /\ SkipVector(b, q) \in Int
      BY <3>1, SkipCut
    <3>3. SkipVector(d, p) \in {Nowhere, SkipVector(b, q)}
      <4>1. CASE p = q
        BY <3>1, <4>1, SkipCut
      <4>2. CASE p = Nowhere
        BY <4>2 DEF SkipVector, Nowhere
      <4>3. QED
        BY <3>1, <4>1, <4>2
    <3>4. QED
      BY <3>2, <3>3 DEF p, q
  <2>5. FirstOnes(es(d), es(b))
    <3> HIDE DEF pos
    <3>1. QED
      BY <2>4, FirstOnesCut
  <2> HIDE DEF session, pos, es
  <2>6. /\ t.version = U16(d, 9) /\ t.ciphers = ReadVector(d, session(d))
        /\ t.extensions = Types(es(d)) /\ t.curves = ReadVector(BodyOf(es(d), 10), 0)
        /\ t.sni = ReadSni(BodyOf(es(d), 0)) /\ t.alpn = ReadAlpn(BodyOf(es(d), 16))
        /\ ~Complete(d) => t.fingerprint = <<>>
    BY <1>3 DEF ClientHello, NoTls, session, pos, es
  <2>7. /\ w.version = U16(b, 9) /\ w.ciphers = ReadVector(b, session(b))
        /\ w.extensions = Types(es(b)) /\ w.curves = ReadVector(BodyOf(es(b), 10), 0)
        /\ w.sni = ReadSni(BodyOf(es(b), 0)) /\ w.alpn = ReadAlpn(BodyOf(es(b), 16))
    BY <2>1 DEF ClientHello, NoTls, session, pos, es
  <2>8. Complete(d) => t = w
    OBVIOUS
  <2> HIDE DEF t, w
  <2>9. \A i, j \in DOMAIN Types(es(b)) : Types(es(b))[i] = Types(es(b))[j] => i = j
    BY <2>7 DEF w
  <2>10. IsPrefix(t.extensions, w.extensions) /\ \A k : Hides(BodyOf(es(d), k), BodyOf(es(b), k))
    BY <2>5, <2>6, <2>7, <2>9, FirstOnesFacts
  <2>11. Hides(t.curves, w.curves) /\ Hides(t.sni, w.sni) /\ Hides(t.alpn, w.alpn)
    BY <2>6, <2>7, <2>10, BytesHide
  <2>12. Hides(t.fingerprint, w.fingerprint)
    BY <2>6, <2>8 DEF Hides
  <2>13. TlsHides(t, w)
    BY <1>1, <2>1, <2>3, <2>6, <2>7, <2>10, <2>11, <2>12 DEF TlsHides
  <2>14. QED
    BY <1>1, <2>13 DEF t, w
<1>4. QED
  BY <1>2, <1>3

LEMMA ServerCut ==
    ASSUME NEW d, NEW b, Cut(d, b), Complete(d) => d = b,
           LET types == ServerHello(b).extensions
           IN  \A i, j \in DOMAIN types : types[i] = types[j] => i = j
    PROVE  TlsHides(ServerHello(d), ServerHello(b)) /\ ServerHello(d).complete = Complete(d)
<1> DEFINE pos(x) == SkipVector(x, 43)
           es(x) == ReadExtensions(x, pos(x) + 3)
           t == ServerHello(d)
           w == ServerHello(b)
           Ends(x) == pos(x) = Nowhere \/ pos(x) + 3 > Len(x)
<1>0. Len(d) \in Nat /\ Len(b) \in Nat /\ Len(d) <= Len(b)
  BY DEF Cut
<1>1. t.hello = "server" /\ w.hello = "server" /\ t.complete = Complete(d)
      /\ t.curves = <<>> /\ w.curves = <<>> /\ t.sni = <<>> /\ w.sni = <<>>
      /\ t.alpn = <<>> /\ w.alpn = <<>>
  BY DEF ServerHello, NoTls
<1>2. CASE ~HasVersion(d)
  <2>1. t.version = 0 /\ t.ciphers = <<>> /\ t.extensions = <<>> /\ t.fingerprint = <<>>
    BY <1>2 DEF ServerHello, NoTls
  <2> HIDE DEF t, w
  <2>2. QED
    BY <1>1, <2>1, EmptyIsPrefix DEF TlsHides, Hides, t, w
<1>3. CASE HasVersion(d)
  <2>1. HasVersion(b) /\ U16(d, 9) = U16(b, 9)
    <3>1. 9 + 2 <= Len(d) /\ 11 <= Len(b)
      BY <1>0, <1>3 DEF HasVersion
    <3>2. QED
      BY <3>1, U16Same DEF HasVersion
  <2>2. /\ pos(d) \in Int /\ pos(b) \in Int /\ pos(d) \in {Nowhere, pos(b)}
        /\ pos(d) # Nowhere => pos(d) \in Nat
    BY SkipCut
  <2>w. w.version = U16(b, 9)
    BY <2>1 DEF ServerHello, NoTls
  <2>3. CASE Ends(d)
    <3>1. t.version = U16(d, 9) /\ t.ciphers = <<>> /\ t.extensions = <<>> /\ t.fingerprint = <<>>
      BY <1>3, <2>3 DEF ServerHello, NoTls
    <3> HIDE DEF t, w
    <3>2. QED
      BY <1>1, <2>1, <2>w, <3>1, EmptyIsPrefix DEF TlsHides, Hides, t, w
  <2>4. CASE ~Ends(d)
    <3>1. pos(d) = pos(b) /\ pos(d) \in Nat /\ pos(d) + 3 <= Len(d)
      BY <1>0, <2>2, <2>4
    <3>2. ~Ends(b)
      BY <1>0, <2>2, <2>4, <3>1
    <3>3. U16(d, pos(d)) = U16(b, pos(b))
      <4> HIDE DEF pos
      <4>1. pos(d) + 2 <= Len(d)
        BY <1>0, <3>1
      <4>2. QED
        BY <3>1, <4>1, U16Same
    <3>4. FirstOnes(es(d), es(b))
      <4> HIDE DEF pos
      <4>1. pos(d) + 3 \in Int /\ pos(b) + 3 \in Int /\ pos(d) + 3 \in {Nowhere, pos(b) + 3}
        BY <3>1
      <4>2. QED
        BY <4>1, FirstOnesCut
    <3>5. /\ t.version = U16(d, 9) /\ t.ciphers = <<U16(d, pos(d))>> /\ t.extensions = Types(es(d))
          /\ ~Complete(d) => t.fingerprint = <<>>
      BY <1>3, <2>4 DEF ServerHello, NoTls
    <3>6. /\ w.ciphers = <<U16(b, pos(b))>> /\ w.extensions = Types(es(b))
      BY <2>1, <3>2 DEF ServerHello, NoTls
    <3>7. Complete(d) => t = w
      OBVIOUS
    <3>8. \A i, j \in DOMAIN Types(es(b)) : Types(es(b))[i] = Types(es(b))[j] => i = j
      <4> HIDE DEF es
      <4>1. QED
        BY <3>6
    <3> HIDE DEF t, w, es, pos
    <3>9. IsPrefix(t.extensions, w.extensions)
      BY <3>4, <3>5, <3>6, <3>8, FirstOnesFacts
    <3>10. Hides(t.ciphers, w.ciphers)
      BY <3>3, <3>5, <3>6 DEF Hides
    <3>11. Hides(t.fingerprint, w.fingerprint)
      BY <3>5, <3>7 DEF Hides
    <3>12. TlsHides(t, w)
      BY <1>1, <2>1, <2>w, <3>5, <3>9, <3>10, <3>11 DEF TlsHides, Hides
    <3>13. QED
      BY <1>1, <3>12 DEF t, w
  <2>5. QED
    BY <2>3, <2>4
<1>4. QED
  BY <1>2, <1>3

(* A complete part of a single record is the whole.                        *)
OneRecord(b) ==
    /\ Len(b) > 5 /\ b[1] = 22 => Len(b) = 5 + U16(b, 3)
    /\ LET types == ParseTls(b).extensions
       IN  \A i, j \in DOMAIN types : types[i] = types[j] => i = j

LEMMA TlsCut ==
    ASSUME NEW d, NEW b, Cut(d, b), OneRecord(b)
    PROVE  LET t == ParseTls(d)  w == ParseTls(b)
           IN  TlsHides(t, w) /\ (t # w => ~t.complete)
<1>0. /\ d \in Seq(Byte) /\ b \in Seq(Byte) /\ Len(d) \in Nat /\ Len(b) \in Nat /\ Len(d) <= Len(b)
      /\ \A i \in 1 .. Len(d) : d[i] = b[i]
  BY DEF Cut
<1>1. CASE Len(d) < 6 \/ d[1] # 22
  <2>1. ParseTls(d) = NoTls
    BY <1>1 DEF ParseTls
  <2>2. QED
    BY <2>1, EmptyIsPrefix DEF NoTls, TlsHides, Hides
<1>2. CASE ~(Len(d) < 6 \/ d[1] # 22)
  <2>1. /\ ~(Len(b) < 6 \/ b[1] # 22) /\ d[6] = b[6] /\ Len(b) > 5 /\ Len(d) > 5 /\ b[1] = 22
    <3>1. 1 \in 1 .. Len(d) /\ 6 \in 1 .. Len(d)
      BY <1>0, <1>2
    <3>2. QED
      BY <1>0, <1>2, <3>1
  <2>2. Complete(d) => d = b
    <3>1. U16(d, 3) = U16(b, 3) /\ U16(d, 3) \in Nat
      <4>1. 3 + 2 <= Len(d)
        BY <1>0, <2>1
      <4>2. QED
        BY <4>1, U16Same
    <3>2. Len(b) = 5 + U16(b, 3)
      BY <2>1 DEF OneRecord
    <3>3. Complete(d) => Len(d) >= Len(b)
      BY <1>0, <3>1, <3>2 DEF Complete
    <3>4. QED
      BY <3>3, CutEqual
  <2> DEFINE t == ParseTls(d)
             w == ParseTls(b)
  <2>3. TlsHides(t, w) /\ t.complete = Complete(d)
    <3>1. CASE d[6] = 1
      <4>1. t = ClientHello(d) /\ w = ClientHello(b)
        BY <1>2, <2>1, <3>1 DEF ParseTls
      <4> HIDE DEF t, w
      <4>2. \A i, j \in DOMAIN w.extensions : w.extensions[i] = w.extensions[j] => i = j
        BY DEF OneRecord, w
      <4>3. QED
        BY <2>2, <4>1, <4>2, ClientCut
    <3>2. CASE d[6] = 2
      <4>1. t = ServerHello(d) /\ w = ServerHello(b)
        BY <1>2, <2>1, <3>2 DEF ParseTls
      <4> HIDE DEF t, w
      <4>2. \A i, j \in DOMAIN w.extensions : w.extensions[i] = w.extensions[j] => i = j
        BY DEF OneRecord, w
      <4>3. QED
        BY <2>2, <4>1, <4>2, ServerCut
    <3>3. CASE d[6] # 1 /\ d[6] # 2
      <4>1. t = [NoTls EXCEPT !.complete = Complete(d)] /\ w = [NoTls EXCEPT !.complete = Complete(b)]
        BY <1>2, <2>1, <3>3 DEF ParseTls
      <4>2. QED
        BY <4>1, EmptyIsPrefix DEF TlsHides, Hides, NoTls
    <3>4. QED
      BY <3>1, <3>2, <3>3
  <2>4. QED
    BY <2>2, <2>3
<1>3. QED
  BY <1>1, <1>2

LEMMA QuicCut ==
    ASSUME NEW d, NEW b, Cut(d, b), ParseQuic(d).initial
    PROVE  ParseQuic(b).initial /\ ParseQuic(b).long
<1>0. d \in Seq(Byte) /\ b \in Seq(Byte) /\ Len(d) \in Nat /\ Len(b) \in Nat /\ Len(d) <= Len(b)
  BY DEF Cut
<1>1. ~(Len(d) < 5 \/ d[1] \div 64 # 3)
  BY DEF ParseQuic, NoQuic
<1>2. Slice(d, 1, 4) \in KnownQuic /\ (d[1] \div 16) % 4 = 0
  BY <1>1 DEF ParseQuic
<1>3. Slice(d, 1, 4) = Slice(b, 1, 4) /\ d[1] = b[1]
  <2>1. 1 + 4 <= Len(d) /\ 1 \in 1 .. Len(d)
    BY <1>0, <1>1
  <2>2. QED
    BY <2>1, SliceSame DEF Cut
<1>4. ~(Len(b) < 5 \/ b[1] \div 64 # 3)
  BY <1>0, <1>1, <1>3
<1>5. QED
  BY <1>2, <1>3, <1>4 DEF ParseQuic

(* Only a head of the message is ever sampled.                             *)
SampleInv ==
    /\ message \in Messages
    /\ \E n \in 0 .. Len(Encode(message)) : sample = SubSeq(Encode(message), 1, n)

LEMMA SampleInductive == PayloadSpec => []SampleInv
<1>1. \A m \in Messages : Encode(m) \in Seq(Byte) /\ Len(Encode(m)) \in Nat /\ Cap \in Nat
  BY MessagesAssumption DEF Byte
<1>2. PayloadInit => SampleInv
  <2> SUFFICES ASSUME PayloadInit PROVE SampleInv
    OBVIOUS
  <2>1. message \in Messages /\ sample = <<>>
    BY DEF PayloadInit
  <2> DEFINE b == Encode(message)
  <2>2. b \in Seq(Byte) /\ Len(b) \in Nat
    BY <1>1, <2>1
  <2> HIDE DEF b
  <2>3. 0 \in 0 .. Len(b) /\ SubSeq(b, 1, 0) = <<>>
    BY <2>2
  <2>4. QED
    BY <2>1, <2>3 DEF SampleInv, b
<1>3. SampleInv /\ [PayloadNext]_payloadVars => SampleInv'
  <2> SUFFICES ASSUME SampleInv, [PayloadNext]_payloadVars PROVE SampleInv'
    OBVIOUS
  <2>1. CASE ReadPayload
    <3> DEFINE b == Encode(message)
    <3>1. b \in Seq(Byte) /\ Len(b) \in Nat /\ Cap \in Nat
      BY <1>1 DEF SampleInv
    <3>2. PICK k \in 1 .. Len(b) : sample' = SubSeq(b, 1, Min({k, Cap}))
      BY <2>1 DEF ReadPayload
    <3>3. message' = message
      BY <2>1 DEF ReadPayload
    <3> DEFINE n == Min({k, Cap})
    <3>4. n \in 0 .. Len(b)
      <4>1. k \in Int /\ Cap \in Int
        BY <3>1
      <4> HIDE DEF b
      <4>2. QED
        BY <3>1, <3>2, <4>1, MinOfTwo
    <3> HIDE DEF n
    <3>5. sample' = SubSeq(Encode(message'), 1, n) /\ n \in 0 .. Len(Encode(message'))
      BY <3>2, <3>3, <3>4 DEF n
    <3>6. QED
      BY <3>3, <3>5 DEF SampleInv
  <2>2. CASE Read
    BY <2>2 DEF Read, SampleInv
  <2>3. CASE Recycle
    <3>1. message' \in Messages /\ sample' = <<>>
      BY <2>3 DEF Recycle
    <3> DEFINE b == Encode(message')
    <3>2. b \in Seq(Byte) /\ Len(b) \in Nat
      BY <1>1, <3>1
    <3> HIDE DEF b
    <3>3. 0 \in 0 .. Len(b) /\ SubSeq(b, 1, 0) = <<>>
      BY <3>2
    <3>4. QED
      BY <3>1, <3>3 DEF SampleInv, b
  <2>4. CASE UNCHANGED payloadVars
    BY <2>4 DEF payloadVars, SampleInv
  <2>5. QED
    BY <2>1, <2>2, <2>3, <2>4 DEF PayloadNext
<1>4. QED
  BY <1>2, <1>3, PTL DEF PayloadSpec

LEMMA ReadingHides == SampleInv => CutOnlyHides
<1> SUFFICES ASSUME SampleInv, WasRead PROVE CutOnlyHides
  BY DEF CutOnlyHides
<1> DEFINE m == message
           b == Encode(m)
           d == sample
<1>1. m \in Messages /\ b \in Seq(Byte)
  BY MessagesAssumption DEF SampleInv, Byte
<1>2. Cut(d, b)
  <2>1. PICK n \in 0 .. Len(b) : d = SubSeq(b, 1, n)
    BY DEF SampleInv
  <2> HIDE DEF b
  <2>2. QED
    BY <1>1, <2>1, HeadIsCut
<1>3. m.tcp => OneRecord(b)
  BY <1>1, MessagesAssumption DEF OneRecord
<1>4. m.port53 /\ ParseDns(b).parsed => ~ParseQuic(b).long
  BY <1>1, MessagesAssumption
<1> HIDE DEF b, d, m
<1>5. features = Extract(m, d) /\ Whole = Extract(m, b)
  BY DEF WasRead, Whole, b, d, m
<1> DEFINE T(t, w) ==
             /\ t.hello \in {"none", w.hello} /\ t.version \in {0, w.version}
             /\ Hides(t.ciphers, w.ciphers) /\ Hides(t.curves, w.curves)
             /\ Hides(t.sni, w.sni) /\ Hides(t.alpn, w.alpn)
             /\ IsPrefix(t.extensions, w.extensions)
             /\ Hides(t.fingerprint, w.fingerprint)
             /\ t # w => ~t.complete
           D(n, w) ==
             /\ n.parsed =>
                  /\ w.parsed /\ Len(n.labels) <= Len(w.labels)
                  /\ \A k \in DOMAIN n.labels : IsPrefix(n.labels[k], w.labels[k])
                  /\ n.labels # w.labels => n.truncated
             /\ n.qtype \in {0, w.qtype}
<1>6. T(features.tls, Whole.tls)
  <2>1. CASE m.tcp
    <3>1. features.tls = ParseTls(d) /\ Whole.tls = ParseTls(b)
      BY <1>5, <2>1 DEF Extract
    <3>2. TlsHides(ParseTls(d), ParseTls(b))
          /\ (ParseTls(d) # ParseTls(b) => ~ParseTls(d).complete)
      BY <1>2, <1>3, <2>1, TlsCut
    <3>3. QED
      BY <3>1, <3>2 DEF TlsHides
  <2>2. CASE ~m.tcp
    <3>1. features.tls = NoTls /\ Whole.tls = NoTls
      BY <1>5, <2>2 DEF Extract
    <3>2. QED
      BY <3>1, EmptyIsPrefix DEF NoTls, Hides
  <2>3. QED
    BY <2>1, <2>2
<1>7. D(features.dns, Whole.dns)
  <2>1. CASE m.port53
    <3>1. features.dns = ParseDns(d) /\ Whole.dns = ParseDns(b)
      BY <1>5, <2>1 DEF Extract
    <3>2. QED
      BY <1>2, <3>1, DnsCut
  <2>2. CASE ~m.port53
    <3>1. features.dns = NoDns /\ Whole.dns = NoDns
      BY <1>5, <2>2 DEF Extract
    <3>2. QED
      BY <3>1 DEF NoDns
  <2>3. QED
    BY <2>1, <2>2
<1>8. Whole.quic.initial \/ ~features.quic.initial
  <2> SUFFICES ASSUME features.quic.initial PROVE Whole.quic.initial
    OBVIOUS
  <2>1. ~m.tcp /\ ParseQuic(d).initial
    BY <1>5 DEF Extract, NoQuic
  <2>2. ParseQuic(b).initial /\ ParseQuic(b).long
    BY <1>2, <2>1, QuicCut
  <2>3. ~Whole.dns.parsed
    <3>1. CASE m.port53
      BY <1>4, <1>5, <2>2, <3>1 DEF Extract
    <3>2. CASE ~m.port53
      BY <1>5, <3>2 DEF Extract, NoDns
    <3>3. QED
      BY <3>1, <3>2
  <2>4. Whole.quic = ParseQuic(b)
    BY <1>5, <2>1, <2>3 DEF Extract
  <2>5. QED
    BY <2>2, <2>4
<1>9. QED
  BY <1>6, <1>7, <1>8 DEF CutOnlyHides

(* Whatever the length and the content of a message, and wherever it was   *)
(* cut: what is read in a part is what is read in the whole, or less, and  *)
(* what is missing is flagged (features/payload.py).                       *)
THEOREM CutsOnlyHide == PayloadSpec => []CutOnlyHides
  BY SampleInductive, ReadingHides, PTL
=============================================================================
