----------------------- MODULE IncidentAggregatorProofs -----------------------
(***************************************************************************)
(* For any alerts, limits and histories, crashes included: what an id      *)
(* means never changes, the indexes describe the open incidents, what is   *)
(* kept quiet was announced, links are sound, and a line that reports      *)
(* nothing new waits for the quiet period.                                 *)
(***************************************************************************)
EXTENDS IncidentAggregator, FiniteSetTheorems, WellFoundedInduction, TLAPS

-----------------------------------------------------------------------------
(* What an id stands for, wherever it is kept.                             *)
Marks(f) == {<<i, f[i].key, f[i].born>> : i \in DOMAIN f}
OutMarks == {<<l.id, l.key, l.born>> : l \in out}

(* The counter in the file covers every id in the file and in              *)
(* alerts.jsonl, because the file is written before the lines of a tick;   *)
(* the one in memory covers the ids in memory.                             *)
Covered(M, n) == \A x \in M : x[1].n \in Nat /\ x[1].n <= n

IdsInv ==
    /\ seq \in Nat /\ disk.seq \in Nat
    /\ pc # "down" => disk.seq <= seq
    /\ Covered(Marks(open), seq) /\ Covered(OutMarks, seq)
    /\ Covered(Marks(disk.open), disk.seq) /\ Covered(owner, disk.seq)
    /\ pc = "write" => disk.seq = seq
    /\ pc \in {"idle", "down"} => out = {}
    /\ LET all == Marks(open) \cup Marks(disk.open) \cup OutMarks \cup owner
       IN  \A x, y \in all : x[1] = y[1] => x = y

LEMMA IdsInit == Init => IdsInv
BY DEF Init, IdsInv, Marks, OutMarks, Covered

(* A step that brings no new meaning of an id and keeps the counters keeps *)
(* the invariant.                                                          *)
LEMMA IdsFewer ==
    ASSUME IdsInv, seq' = seq, disk' = disk,
           Marks(open') \subseteq Marks(open) \cup OutMarks,
           OutMarks' \subseteq Marks(open) \cup OutMarks,
           owner' \subseteq owner \cup (IF pc = "write" THEN OutMarks ELSE {}),
           pc # "down", pc' # "down",
           pc' = "write" => pc = "write",
           pc' = "idle" => out' = {}
    PROVE  IdsInv'
BY DEF IdsInv, Covered, Marks, OutMarks

LEMMA IdsBeginTick ==
    ASSUME IdsInv, NEW batch, NEW gap, BeginTick(batch, gap)
    PROVE  IdsInv'
<1>1. Marks(open') \subseteq Marks(open) /\ OutMarks' = OutMarks
  BY DEF BeginTick, Drop, Marks, OutMarks
<1>2. QED
  BY <1>1, IdsFewer DEF BeginTick

LEMMA IdsOpenNew == ASSUME IdsInv, OpenNew PROVE IdsInv'
<1> DEFINE a   == Head(queue)
           st  == NewState(a)
           iid == [n |-> seq + 1, entity |-> st.entity]
           new == <<iid, st.key, st.born>>
           old == Marks(open) \cup Marks(disk.open) \cup OutMarks \cup owner
<1>1. Marks(open') \subseteq Marks(open) \cup {new}
  BY DEF OpenNew, Marks
<1>2. OutMarks' \subseteq OutMarks \cup {new}
  BY DEF OpenNew, OutMarks, Line
<1>3. /\ seq' = seq + 1 /\ pc = "handle" /\ pc' = "handle"
      /\ disk' = disk /\ owner' = owner
  BY DEF OpenNew, history
<1>4. Covered(old, seq)
  BY <1>3 DEF IdsInv, Covered
<1>5. new[1].n = seq + 1
  OBVIOUS
<1> HIDE DEF new, iid, st, a
<1>6. \A x \in old : x[1] # new[1]
  BY <1>4, <1>5 DEF Covered, IdsInv
<1>7. Covered({new}, seq')
  BY <1>3, <1>5 DEF Covered, IdsInv
<1>8. Covered(Marks(open)', seq') /\ Covered(OutMarks', seq')
  BY <1>1, <1>2, <1>3, <1>7 DEF IdsInv, Covered
<1>9. LET all == Marks(open') \cup Marks(disk'.open) \cup OutMarks' \cup owner'
      IN  \A x, y \in all : x[1] = y[1] => x = y
  <2>1. Marks(open') \cup Marks(disk'.open) \cup OutMarks' \cup owner'
          \subseteq old \cup {new}
    BY <1>1, <1>2, <1>3
  <2>2. QED
    BY <2>1, <1>6 DEF IdsInv
<1>10. QED
  BY <1>3, <1>8, <1>9 DEF IdsInv, Covered

LEMMA IdsRepeat == ASSUME IdsInv, Repeat PROVE IdsInv'
<1> DEFINE iid == byKey[AggKey(Head(queue))]
<1>1. PICK emitted : open' = [open EXCEPT ![iid] = Merged(open[iid], Head(queue), emitted)]
  BY DEF Repeat
<1>2. Marks(open') \subseteq Marks(open)
  BY <1>1 DEF Marks, Merged, MergedWith
<1>3. OutMarks' \subseteq Marks(open) \cup OutMarks
  <2>1. iid \in DOMAIN open
    BY DEF Repeat, Live
  <2>2. ASSUME NEW l \in out', l \notin out
        PROVE  <<l.id, l.key, l.born>> = <<iid, open[iid].key, open[iid].born>>
    <3>1. PICK st, reasons, related :
              /\ st = Merged(open[iid], Head(queue), now)
              /\ l = Line(iid, st, Head(queue), reasons, related)
      BY <2>2 DEF Repeat
    <3>2. st.key = open[iid].key /\ st.born = open[iid].born
      BY <3>1 DEF Merged, MergedWith
    <3>3. l.id = iid /\ l.key = st.key /\ l.born = st.born
      BY <3>1 DEF Line
    <3>4. QED
      BY <3>2, <3>3
  <2>3. QED
    BY <2>1, <2>2 DEF OutMarks, Marks
<1>4. QED
  BY <1>2, <1>3, IdsFewer DEF Repeat, history

LEMMA IdsFlush == ASSUME IdsInv, FlushIncidents PROVE IdsInv'
BY DEF IdsInv, FlushIncidents, memory, history, Covered, Marks, OutMarks

LEMMA IdsWriteLine == ASSUME IdsInv, WriteLine PROVE IdsInv'
<1>1. PICK l \in out : out' = out \ {l} /\ owner' = owner \cup {<<l.id, l.key, l.born>>}
  BY DEF WriteLine
<1>2. OutMarks' \subseteq OutMarks /\ owner' \subseteq owner \cup OutMarks
  BY <1>1 DEF OutMarks
<1>3. QED
  BY <1>2, IdsFewer DEF WriteLine, memory, Marks

LEMMA IdsCrash == ASSUME IdsInv, Crash PROVE IdsInv'
BY DEF IdsInv, Crash, Covered, Marks, OutMarks

LEMMA IdsRestart == ASSUME IdsInv, Restart PROVE IdsInv'
BY DEF IdsInv, Restart, history, Covered, Marks, OutMarks

LEMMA IdsStep == IdsInv /\ [Next]_vars => IdsInv'
<1>1. CASE UNCHANGED vars
  BY <1>1 DEF IdsInv, vars, Covered, Marks, OutMarks
<1>2. QED
  BY <1>1, IdsBeginTick, IdsOpenNew, IdsRepeat, IdsFlush, IdsWriteLine, IdsCrash,
     IdsRestart DEF Next, Step

(* An id that was written to alerts.jsonl never comes to mean another      *)
(* incident: incidents.json, with the counter, is replaced before any line *)
(* of its tick is written, and a restart counts on from there.             *)
THEOREM IdsAreForever == Spec => []IdsNeverReissued
<1>1. IdsInv => IdsNeverReissued
  BY DEF IdsInv, IdsNeverReissued
<1>2. QED
  BY <1>1, IdsInit, IdsStep, PTL DEF Spec

-----------------------------------------------------------------------------
LEMMA TypeInit == Init => TypeOK
BY DEF Init, TypeOK, IncidentMap, NoLine

(* What an alert adds to a state is of the right type.                     *)
LEMMA PartnerTypes ==
    ASSUME NEW a \in Alert, NEW e, NEW p \in Seq(Host)
    PROVE  MergePartners(p, e, a) \in Seq(Host)
<1>1. Peers(e, a) \subseteq Host
  BY AlertAssumption DEF Peers, Named, Nobody, Address
<1>2. \A q \in Seq(Host) : \A h : WithPeer(q, h, e, a) \in Seq(Host)
  BY <1>1 DEF WithPeer
<1> DEFINE met == WithPeer(WithPeer(p, a.src, e, a), a.dst, e, a)
<1>3. met \in Seq(Host)
  BY <1>2
<1> HIDE DEF met
<1>4. Len(met) \in Nat /\ Larger(1, Len(met) - MaxPartners + 1) \in 1 .. Len(met) + 1
  BY <1>3, ConstantAssumption DEF Larger
<1>5. SubSeq(met, Larger(1, Len(met) - MaxPartners + 1), Len(met)) \in Seq(Host)
  BY <1>3, <1>4
<1>6. QED
  BY <1>5 DEF MergePartners, met

LEMMA AlertTypes ==
    ASSUME NEW a \in Alert, now \in Nat
    PROVE  /\ EntityOf(a) \in Entity /\ AggKey(a) \in Key
           /\ NewState(a) \in State
<1>1. EntityOf(a) \in Entity /\ AggKey(a) \in Key
  BY DEF Entity, Key
<1>2. MergePartners(<<>>, EntityOf(a), a) \in Seq(Host)
  <2>1. <<>> \in Seq(Host)
    OBVIOUS
  <2>2. QED
    BY <2>1, PartnerTypes
<1>3. QED
  BY <1>1, <1>2, AlertAssumption DEF NewState, State

LEMMA MergedTypes ==
    ASSUME NEW a \in Alert, now \in Nat, NEW st \in State, NEW emitted \in Nat
    PROVE  Merged(st, a, emitted) \in State
<1>1. MergePartners(st.partners, st.entity, a) \in Seq(Host)
  BY PartnerTypes DEF State
<1>2. Larger(st.severity, a.severity) \in 0 .. 2 /\ Larger(st.confidence, a.confidence) \in Nat
      /\ Larger(st.peak, a.rate) \in Nat \cup {NoRate}
  BY AlertAssumption DEF State, Larger, NoRate
<1>3. st.subtypes \cup {a.subtype} \subseteq {b.subtype : b \in Alert}
      /\ st.classes \cup {a.class} \subseteq Class
  BY AlertAssumption DEF State
<1>4. QED
  BY <1>1, <1>2, <1>3 DEF Merged, MergedWith, State

LEMMA LineTypes ==
    ASSUME TypeOK, NEW a \in Alert, NEW st \in State, NEW iid \in Id,
           NEW reasons \in SUBSET Reason
    PROVE  Line(iid, st, a, reasons, Related(iid, a, st.classes)) \in OutLine
<1>1. Related(iid, a, st.classes) \subseteq Id
  BY DEF Related, Linkable, TypeOK, IncidentMap
<1>2. Hypothesis(Related(iid, a, st.classes), st.classes)
        \in {"none", "shared_entity", "multi_stage"}
  BY DEF Hypothesis
<1>3. Len(queue) \in Nat
  BY DEF TypeOK
<1>4. QED
  BY <1>1, <1>2, <1>3, AlertAssumption DEF Line, OutLine, State, TypeOK

LEMMA TypeBeginTick ==
    ASSUME TypeOK, NEW batch \in Batch, NEW gap \in 1 .. Window + 1, BeginTick(batch, gap),
           threat' = threat
    PROVE  TypeOK'
<1>1. batch \in Seq(Alert)
  <2>1. PICK n \in 0 .. MaxBatch : batch \in [1 .. n -> threat]
    BY DEF Batch
  <2>2. n \in Nat /\ threat \subseteq Alert
    BY ConstantAssumption DEF TypeOK, Alert
  <2>3. batch \in [1 .. n -> Alert]
    BY <2>1, <2>2
  <2>4. QED
    BY <2>2, <2>3
<1>2. now' \in Nat
  BY ConstantAssumption DEF BeginTick, TypeOK
<1>3. IncidentMap(open')
  BY DEF BeginTick, Drop, TypeOK, IncidentMap
<1>4. byKey' \in [Key -> Id \cup {NoId}] /\ byEntity' \in [Entity -> SUBSET Id]
  BY DEF BeginTick, Drop, TypeOK
<1>5. crowded' \subseteq Key
  <2>1. Overflow(now') \subseteq DOMAIN open
    BY DEF Overflow
  <2>2. {open[i].key : i \in Overflow(now')} \subseteq Key
    BY <2>1 DEF TypeOK, IncidentMap, State
  <2>3. QED
    BY <2>2 DEF BeginTick, TypeOK
<1>6. QED
  BY <1>1, <1>2, <1>3, <1>4, <1>5 DEF BeginTick, TypeOK

LEMMA TypeOpenNew == ASSUME TypeOK, OpenNew, threat' = threat PROVE TypeOK'
<1> DEFINE a   == Head(queue)
           st  == NewState(a)
           iid == [n |-> seq + 1, entity |-> st.entity]
<1>1. a \in Alert /\ Tail(queue) \in Seq(Alert)
  BY DEF OpenNew, TypeOK
<1>2. st \in State /\ iid \in Id /\ st.key \in Key
  <2>1. st \in State
    BY <1>1, AlertTypes DEF TypeOK
  <2>2. QED
    BY <2>1 DEF State, Id, TypeOK
<1>3. Line(iid, st, a, {"new"}, Related(iid, a, st.classes)) \in OutLine
  BY <1>1, <1>2, LineTypes DEF Reason
<1> HIDE DEF a, st, iid
<1>4. IncidentMap(open')
  BY <1>2 DEF OpenNew, TypeOK, IncidentMap, st, iid, a
<1>5. byKey' \in [Key -> Id \cup {NoId}] /\ byEntity' \in [Entity -> SUBSET Id]
  BY <1>2 DEF OpenNew, TypeOK, st, iid, a
<1>6. out' \subseteq OutLine
  BY <1>3 DEF OpenNew, TypeOK, st, iid, a
<1>7. seq' \in Nat /\ queue' \in Seq(Alert)
  BY <1>1 DEF OpenNew, TypeOK, a
<1>8. QED
  BY <1>4, <1>5, <1>6, <1>7 DEF OpenNew, TypeOK, history

LEMMA TypeRepeat == ASSUME TypeOK, Repeat, threat' = threat PROVE TypeOK'
<1> DEFINE a   == Head(queue)
           iid == byKey[AggKey(a)]
           old == open[iid]
<1>1. a \in Alert /\ Tail(queue) \in Seq(Alert)
  BY DEF Repeat, TypeOK
<1>2. iid \in DOMAIN open /\ iid \in Id /\ old \in State
  BY DEF Repeat, Live, TypeOK, IncidentMap
<1>3. Merged(old, a, now) \in State /\ Merged(old, a, old.lastEmitted) \in State
  BY <1>1, <1>2, MergedTypes DEF State, TypeOK
<1>4. EscalationReasons(old, a) \subseteq Reason /\ {"continuation"} \subseteq Reason
  BY DEF EscalationReasons, Reason
<1>5. \A reasons \in SUBSET Reason :
        Line(iid, Merged(old, a, now), a, reasons,
             Related(iid, a, Merged(old, a, now).classes)) \in OutLine
  BY <1>1, <1>2, <1>3, LineTypes
<1>6. out' \subseteq OutLine
  BY <1>4, <1>5 DEF Repeat, TypeOK
<1>7. IncidentMap(open')
  BY <1>2, <1>3 DEF Repeat, TypeOK, IncidentMap
<1>8. QED
  BY <1>1, <1>6, <1>7 DEF Repeat, TypeOK, history

LEMMA TypeFlush == ASSUME TypeOK, FlushIncidents, threat' = threat PROVE TypeOK'
BY DEF TypeOK, FlushIncidents, memory, history, IncidentMap

LEMMA TypeWriteLine == ASSUME TypeOK, WriteLine, threat' = threat PROVE TypeOK'
<1>1. PICK l \in out :
        /\ out' = out \ {l}
        /\ lines' = [lines EXCEPT ![l.key] =
                       [at |-> l.at, id |-> l.id,
                        escalated |-> l.reasons \subseteq Escalation]]
        /\ owner' = owner \cup {<<l.id, l.key, l.born>>}
        /\ crowded' = crowded \ {l.key}
  BY DEF WriteLine
<1>2. l.id \in Id /\ l.key \in Key /\ l.at \in Nat /\ l.born \in Nat
  BY DEF TypeOK, OutLine
<1>3. QED
  BY <1>1, <1>2 DEF WriteLine, memory, TypeOK, IncidentMap

LEMMA TypeCrash == ASSUME TypeOK, Crash, threat' = threat PROVE TypeOK'
BY DEF TypeOK, Crash, IncidentMap

LEMMA TypeRestart == ASSUME TypeOK, Restart, threat' = threat PROVE TypeOK'
<1>1. byKey' \in [Key -> Id \cup {NoId}]
  BY DEF Restart, TypeOK, IncidentMap
<1>2. byEntity' \in [Entity -> SUBSET Id]
  BY DEF Restart, TypeOK, IncidentMap
<1>3. QED
  BY <1>1, <1>2 DEF TypeOK, Restart, IncidentMap, history

LEMMA TypeStep == TypeOK /\ [Next]_vars => TypeOK'
<1>1. CASE UNCHANGED vars
  BY <1>1 DEF TypeOK, vars, IncidentMap
<1>2. QED
  BY <1>1, TypeBeginTick, TypeOpenNew, TypeRepeat, TypeFlush, TypeWriteLine, TypeCrash,
     TypeRestart DEF Next, Step

(* Every variable stays in its type, for any alerts and limits.            *)
THEOREM TypeCorrect == Spec => []TypeOK
BY TypeInit, TypeStep, PTL DEF Spec

-----------------------------------------------------------------------------
(* Ids are not reused, so that an id left in the list of an address is not *)
(* taken for a later one; nothing open is stale once a tick has begun, so  *)
(* that an alert opens an incident only where there is none; and the file  *)
(* names a key once.                                                       *)
IndexInv ==
    /\ IndexCoherent
    /\ \A i \in DOMAIN open : i.n <= seq
    /\ \A e \in Entity : \A i \in byEntity[e] : i.n <= seq
    /\ pc = "handle" => \A i \in DOMAIN open : now - open[i].lastSeen <= Window
    /\ \A i \in DOMAIN disk.open : i.n <= disk.seq
    /\ \A i, j \in DOMAIN disk.open : disk.open[i].key = disk.open[j].key => i = j

LEMMA IndexInit == Init => IndexInv
<1> SUFFICES ASSUME Init PROVE IndexInv
  OBVIOUS
<1>1. TypeOK
  BY TypeInit
<1>2. QED
  BY <1>1 DEF Init, IndexInv, IndexCoherent

LEMMA IndexBeginTick ==
    ASSUME IndexInv, TypeOK', NEW batch, NEW gap, BeginTick(batch, gap)
    PROVE  IndexInv'
<1> DEFINE D == Stale(now') \cup Overflow(now')
<1> USE DEF IndexInv, IndexCoherent
<1>1. /\ D \subseteq DOMAIN open /\ DOMAIN open' = DOMAIN open \ D
      /\ \A i \in DOMAIN open' : open'[i] = open[i]
      /\ \A e \in Entity : byEntity'[e] = byEntity[e] \ {i \in D : open[i].entity = e}
      /\ \A k \in Key : byKey'[k] = IF byKey[k] \in D /\ open[byKey[k]].key = k
                                    THEN NoId ELSE byKey[k]
  BY DEF BeginTick, Drop, Stale, Overflow
<1>2. /\ disk' = disk /\ seq' = seq /\ pc = "idle" /\ pc' = "handle"
      /\ \A i \in DOMAIN open : i \notin D => ~(now' - open[i].lastSeen > Window)
  BY DEF BeginTick, Stale
<1> HIDE DEF D
<1>3. \A i \in DOMAIN open : open[i].key \in Key /\ open[i].entity \in Entity
                             /\ open[i].lastSeen \in Nat
  BY DEF TypeOK, IncidentMap, State
<1>4. \A i \in DOMAIN open' : byKey'[open'[i].key] = i /\ i \in byEntity'[open'[i].entity]
  BY <1>1, <1>2, <1>3
<1>5. \A k \in Key : byKey'[k] # NoId => byKey'[k] \in DOMAIN open' /\ open'[byKey'[k]].key = k
  BY <1>1, <1>2, <1>3
<1>6. \A e \in Entity : \A i \in byEntity'[e] \cap DOMAIN open' :
         e \in {open'[i].entity, Bare(open'[i].opener)}
  BY <1>1, <1>2
<1>7. now' \in Nat /\ Window \in Nat
  BY ConstantAssumption DEF TypeOK
<1>8. \A i \in DOMAIN open' : now' - open'[i].lastSeen <= Window
  BY <1>1, <1>2, <1>3, <1>7
<1>9. QED
  BY <1>1, <1>2, <1>4, <1>5, <1>6, <1>8

LEMMA IndexOpenNew == ASSUME IndexInv, TypeOK', OpenNew PROVE IndexInv'
<1> DEFINE a   == Head(queue)
           st  == NewState(a)
           iid == [n |-> seq + 1, entity |-> st.entity]
           filed == {st.entity} \cup
                    IF a.src # NoHost /\ st.entity # Source(a.src)
                    THEN {Bare(a.src)} ELSE {}
<1> USE DEF IndexInv, IndexCoherent
<1>1. /\ DOMAIN open' = DOMAIN open \cup {iid}
      /\ open'[iid] = st /\ \A i \in DOMAIN open \ {iid} : open'[i] = open[i]
      /\ byKey' = [byKey EXCEPT ![st.key] = iid]
      /\ \A e \in Entity : byEntity'[e] = IF e \in filed THEN byEntity[e] \cup {iid}
                                          ELSE byEntity[e]
      /\ seq' = seq + 1 /\ disk' = disk /\ now' = now
      /\ pc = "handle" /\ pc' = "handle" /\ ~Live(st.key)
  BY DEF OpenNew
<1>2. a \in Alert /\ st \in State /\ seq \in Nat /\ now \in Nat
  <2>1. a \in Alert
    BY DEF OpenNew, TypeOK
  <2>2. QED
    BY <2>1, AlertTypes DEF TypeOK
<1>3. st.key \in Key /\ st.entity \in Entity /\ st.lastSeen = now
      /\ st.opener = a.src /\ iid.n = seq + 1
  BY <1>2 DEF State, NewState
<1>4. /\ iid \notin DOMAIN open /\ \A e \in Entity : iid \notin byEntity[e]
      /\ \A i \in DOMAIN open : i.n \in Nat
  BY <1>2, <1>3 DEF TypeOK, IncidentMap, Id
<1>5. \A i \in DOMAIN open : open[i].key # st.key
  BY <1>1 DEF Live
<1>6. \A e \in filed : e \in {st.entity, Bare(st.opener)}
  BY <1>3
<1> HIDE DEF a, st, iid, filed
<1>7. \A i \in DOMAIN open : open[i].key \in Key /\ open[i].entity \in Entity
  BY DEF TypeOK, IncidentMap, State
<1>8. st.entity \in filed
  BY DEF filed
<1>9. \A i \in DOMAIN open' : byKey'[open'[i].key] = i /\ i \in byEntity'[open'[i].entity]
  <2>1. \A k \in Key : byKey'[k] = IF k = st.key THEN iid ELSE byKey[k]
    BY <1>1, <1>3 DEF TypeOK
  <2>2. ASSUME NEW i \in DOMAIN open
        PROVE  byKey'[open'[i].key] = i /\ i \in byEntity'[open'[i].entity]
    <3>1. open'[i] = open[i] /\ byKey[open[i].key] = i /\ i \in byEntity[open[i].entity]
      BY <1>1, <1>4
    <3>2. byKey'[open[i].key] = i
      BY <2>1, <3>1, <1>5, <1>7
    <3>3. i \in byEntity'[open[i].entity]
      BY <1>1, <1>7, <3>1
    <3>4. QED
      BY <3>1, <3>2, <3>3
  <2>3. byKey'[open'[iid].key] = iid /\ iid \in byEntity'[open'[iid].entity]
    <3>1. iid \in DOMAIN open' /\ open'[iid] = st
      BY <1>1
    <3>2. byKey'[st.key] = iid
      BY <2>1, <1>3
    <3>3. byEntity'[st.entity] = byEntity[st.entity] \cup {iid}
      BY <1>1, <1>3, <1>8
    <3>4. QED
      BY <3>1, <3>2, <3>3
  <2>4. QED
    BY <1>1, <2>2, <2>3
<1>10. \A k \in Key : byKey'[k] # NoId => byKey'[k] \in DOMAIN open' /\ open'[byKey'[k]].key = k
  BY <1>1, <1>3, <1>4 DEF TypeOK
<1>11. \A e \in Entity : \A i \in byEntity'[e] : i \in byEntity[e] \/ i = iid
  <2> TAKE e \in Entity
  <2>1. byEntity'[e] = IF e \in filed THEN byEntity[e] \cup {iid} ELSE byEntity[e]
    BY <1>1
  <2>2. QED
    BY <2>1
<1>12. \A e \in Entity : \A i \in byEntity'[e] \cap DOMAIN open' :
         e \in {open'[i].entity, Bare(open'[i].opener)}
  <2> SUFFICES ASSUME NEW e \in Entity, NEW i \in byEntity'[e], i \in DOMAIN open'
               PROVE  e \in {open'[i].entity, Bare(open'[i].opener)}
    OBVIOUS
  <2>1. CASE i = iid
    <3>1. e \in filed
      BY <1>1, <1>4, <2>1
    <3>2. QED
      BY <1>1, <1>6, <2>1, <3>1
  <2>2. CASE i # iid
    <3>1. i \in byEntity[e] \cap DOMAIN open /\ open'[i] = open[i]
      BY <1>1, <1>11, <2>2
    <3>2. QED
      BY <1>1, <3>1
  <2>3. QED
    BY <2>1, <2>2
<1>13. /\ \A i \in DOMAIN open' : i.n <= seq' /\ now' - open'[i].lastSeen <= Window
       /\ \A e \in Entity : \A i \in byEntity'[e] : i.n <= seq'
  <2>1. \A i \in DOMAIN open \cup {iid} : i.n \in Nat /\ i.n <= seq + 1
    BY <1>2, <1>3, <1>4
  <2>2. \A e \in Entity : \A i \in byEntity[e] : i.n \in Nat
    BY DEF TypeOK, Id
  <2>3. \A i \in DOMAIN open' : i.n <= seq'
    BY <1>1, <2>1
  <2>4. ASSUME NEW e \in Entity, NEW i \in byEntity'[e] PROVE i.n <= seq'
    <3>1. i \in byEntity[e] \/ i = iid
      BY <1>11
    <3>2. QED
      BY <3>1, <1>1, <1>2, <1>3, <2>2
  <2>5. ASSUME NEW i \in DOMAIN open' PROVE now' - open'[i].lastSeen <= Window
    <3>1. CASE i = iid
      BY <3>1, <1>1, <1>2, <1>3, ConstantAssumption
    <3>2. CASE i # iid
      BY <3>2, <1>1
    <3>3. QED
      BY <3>1, <3>2
  <2>6. QED
    BY <2>3, <2>4, <2>5
<1>14. QED
  BY <1>1, <1>9, <1>10, <1>12, <1>13

LEMMA IndexRepeat == ASSUME IndexInv, TypeOK', Repeat PROVE IndexInv'
<1> DEFINE a   == Head(queue)
           iid == byKey[AggKey(a)]
<1> USE DEF IndexInv, IndexCoherent
<1>1. PICK emitted : open' = [open EXCEPT ![iid] = Merged(open[iid], a, emitted)]
  BY DEF Repeat
<1>2. /\ byKey' = byKey /\ byEntity' = byEntity /\ seq' = seq /\ disk' = disk
      /\ now' = now /\ pc = "handle" /\ pc' = "handle"
  BY DEF Repeat
<1>3. /\ DOMAIN open' = DOMAIN open
      /\ \A i \in DOMAIN open :
           /\ open'[i].key = open[i].key /\ open'[i].entity = open[i].entity
           /\ open[i].opener = open'[i].opener
           /\ open'[i].lastSeen \in {open[i].lastSeen, now}
  BY <1>1 DEF Merged, MergedWith
<1>4. now \in Nat /\ Window \in Nat
  BY ConstantAssumption DEF TypeOK
<1> HIDE DEF a, iid
<1>5. \A i \in DOMAIN open' : now' - open'[i].lastSeen <= Window
  BY <1>2, <1>3, <1>4
<1>6. QED
  BY <1>2, <1>3, <1>5

LEMMA IndexFlush == ASSUME IndexInv, TypeOK', FlushIncidents PROVE IndexInv'
BY DEF IndexInv, IndexCoherent, FlushIncidents, memory

LEMMA IndexWriteLine == ASSUME IndexInv, TypeOK', WriteLine PROVE IndexInv'
BY DEF IndexInv, IndexCoherent, WriteLine, memory

LEMMA IndexCrash == ASSUME IndexInv, TypeOK', Crash PROVE IndexInv'
BY DEF IndexInv, IndexCoherent, Crash

LEMMA IndexRestart == ASSUME IndexInv, TypeOK', Restart PROVE IndexInv'
<1> USE DEF IndexInv, IndexCoherent
<1>1. /\ pc' = "idle" /\ seq' = disk.seq /\ open' = disk.open /\ disk' = disk
      /\ \A e \in Entity : byEntity'[e] = {i \in DOMAIN open' : open'[i].entity = e}
  BY DEF Restart
<1>2. \A k \in Key : LET ids == {i \in DOMAIN open' : open'[i].key = k}
                     IN  byKey'[k] = IF ids = {} THEN NoId
                                     ELSE CHOOSE i \in ids : \A j \in ids : j.n <= i.n
  BY DEF Restart
<1>3. \A i \in DOMAIN open' : i.n \in Nat /\ open'[i].key \in Key /\ open'[i].entity \in Entity
  BY DEF TypeOK, IncidentMap, State, Id
<1>4. ASSUME NEW i \in DOMAIN open' PROVE byKey'[open'[i].key] = i
  <2> DEFINE ids == {j \in DOMAIN open' : open'[j].key = open'[i].key}
  <2>1. ids = {i}
    BY <1>1
  <2>2. i.n <= i.n
    BY <1>3
  <2>3. (CHOOSE m \in ids : \A j \in ids : j.n <= m.n) = i
    BY <2>1, <2>2
  <2>4. QED
    BY <1>2, <1>3, <2>1, <2>3
<1>5. ASSUME NEW k \in Key, byKey'[k] # NoId
      PROVE  byKey'[k] \in DOMAIN open' /\ open'[byKey'[k]].key = k
  <2>1. PICK i \in DOMAIN open' : open'[i].key = k
    BY <1>2, <1>5
  <2>2. QED
    BY <2>1, <1>4
<1>6. QED
  BY <1>1, <1>3, <1>4, <1>5

LEMMA IndexStep == IndexInv /\ [Next]_vars => IndexInv'
<1> SUFFICES ASSUME IndexInv, [Next]_vars PROVE IndexInv'
  OBVIOUS
<1>1. TypeOK'
  BY TypeStep DEF IndexInv, IndexCoherent
<1>2. CASE UNCHANGED vars
  BY <1>1, <1>2 DEF IndexInv, IndexCoherent, vars
<1>3. QED
  BY <1>1, <1>2, IndexBeginTick, IndexOpenNew, IndexRepeat, IndexFlush, IndexWriteLine,
     IndexCrash, IndexRestart DEF Next, Step

(* by_key and by_entity describe the open incidents, whatever is opened,   *)
(* folded, dropped or loaded.                                              *)
THEOREM IndexesDescribe == Spec => []IndexCoherent
<1>1. IndexInv => IndexCoherent
  BY DEF IndexInv
<1>2. QED
  BY <1>1, IndexInit, IndexStep, PTL DEF Spec

-----------------------------------------------------------------------------
(* The lines of a tick carry its time, which is then the last emission of  *)
(* the one open incident about their key; while they are written the file  *)
(* agrees with the memory.                                                 *)
SilenceInv ==
    /\ SilenceIsAccounted
    /\ \A l \in out : l.at = now /\
          \A i \in DOMAIN open : open[i].key = l.key => open[i].lastEmitted = now
    /\ pc = "write" => disk.open = open
    /\ pc \in {"idle", "down"} => out = {}

LEMMA SilenceInit == Init => SilenceInv
BY DEF Init, SilenceInv, SilenceIsAccounted

LEMMA SilenceBeginTick ==
    ASSUME SilenceInv, NEW batch, NEW gap, BeginTick(batch, gap)
    PROVE  SilenceInv'
<1>1. DOMAIN open' \subseteq DOMAIN open /\ \A i \in DOMAIN open' : open'[i] = open[i]
  BY DEF BeginTick, Drop
<1>2. QED
  BY <1>1 DEF BeginTick, SilenceInv, SilenceIsAccounted

LEMMA SilenceOpenNew == ASSUME IndexInv, SilenceInv, OpenNew PROVE SilenceInv'
<1> DEFINE a   == Head(queue)
           st  == NewState(a)
           iid == [n |-> seq + 1, entity |-> st.entity]
           new == Line(iid, st, a, {"new"}, Related(iid, a, st.classes))
<1>1. /\ DOMAIN open' = DOMAIN open \cup {iid}
      /\ open'[iid] = st /\ \A i \in DOMAIN open \ {iid} : open'[i] = open[i]
      /\ out' = out \cup {new} /\ disk' = disk /\ now' = now
      /\ lines' = lines /\ lost' = lost
      /\ pc = "handle" /\ pc' = "handle" /\ ~Live(st.key)
  BY DEF OpenNew, history
<1>2. st.lastEmitted = now /\ new.at = now /\ new.key = st.key
  BY DEF NewState, Line
<1>3. \A i \in DOMAIN open : open[i].key # st.key
  BY <1>1 DEF Live, IndexInv, IndexCoherent
<1> HIDE DEF a, st, iid, new
<1>4. SilenceIsAccounted'
  BY <1>1, <1>2 DEF SilenceInv, SilenceIsAccounted
<1>5. ASSUME NEW l \in out', NEW i \in DOMAIN open', open'[i].key = l.key
      PROVE  open'[i].lastEmitted = now'
  BY <1>1, <1>2, <1>3, <1>5 DEF SilenceInv
<1>6. QED
  BY <1>1, <1>2, <1>4, <1>5 DEF SilenceInv

LEMMA SilenceRepeat == ASSUME IndexInv, SilenceInv, Repeat PROVE SilenceInv'
<1> DEFINE a   == Head(queue)
           iid == byKey[AggKey(a)]
           old == open[iid]
<1>1. /\ iid \in DOMAIN open /\ disk' = disk /\ now' = now
      /\ lines' = lines /\ lost' = lost /\ pc = "handle" /\ pc' = "handle"
  BY DEF Repeat, Live, history
<1>2. \A i \in DOMAIN open : open[i].key = old.key => i = iid
  BY <1>1 DEF IndexInv, IndexCoherent
<1>3. CASE open' = [open EXCEPT ![iid] = Merged(old, a, old.lastEmitted)] /\ out' = out
  <2>1. /\ DOMAIN open' = DOMAIN open
        /\ \A i \in DOMAIN open : open'[i].key = open[i].key
                                  /\ open'[i].lastEmitted = open[i].lastEmitted
    BY <1>3 DEF Merged, MergedWith
  <2>2. SilenceIsAccounted'
    <3>1. \A i \in DOMAIN open' :
            \/ lines'[open'[i].key].at = open'[i].lastEmitted
            \/ lost'[open'[i].key] = open'[i].lastEmitted
            \/ \E l \in out' : l.key = open'[i].key /\ l.at = open'[i].lastEmitted
      BY <1>1, <1>3, <2>1 DEF SilenceInv, SilenceIsAccounted
    <3>2. \A i \in DOMAIN disk'.open :
            \/ lines'[disk'.open[i].key].at = disk'.open[i].lastEmitted
            \/ lost'[disk'.open[i].key] = disk'.open[i].lastEmitted
      BY <1>1 DEF SilenceInv, SilenceIsAccounted
    <3>3. QED
      BY <1>1, <3>1, <3>2 DEF SilenceIsAccounted
  <2>3. \A l \in out : l.at = now /\
          \A i \in DOMAIN open' : open'[i].key = l.key => open'[i].lastEmitted = now
    BY <2>1 DEF SilenceInv
  <2>4. QED
    BY <1>1, <1>3, <2>2, <2>3 DEF SilenceInv
<1>4. ASSUME NEW l, open' = [open EXCEPT ![iid] = Merged(old, a, now)],
             out' = out \cup {l}, l.key = old.key, l.at = now
      PROVE  SilenceInv'
  <2>1. /\ DOMAIN open' = DOMAIN open
        /\ \A i \in DOMAIN open : open'[i].key = open[i].key
        /\ \A i \in DOMAIN open \ {iid} : open'[i].lastEmitted = open[i].lastEmitted
        /\ open'[iid].lastEmitted = now
    BY <1>1, <1>4 DEF Merged, MergedWith
  <2> HIDE DEF a, iid
  <2>2. SilenceIsAccounted'
    BY <1>1, <1>4, <2>1 DEF SilenceInv, SilenceIsAccounted
  <2>3. ASSUME NEW m \in out', NEW i \in DOMAIN open', open'[i].key = m.key
        PROVE  open'[i].lastEmitted = now'
    BY <1>1, <1>2, <1>4, <2>1, <2>3 DEF SilenceInv
  <2>4. QED
    BY <1>1, <1>4, <2>2, <2>3 DEF SilenceInv
<1>5. \/ open' = [open EXCEPT ![iid] = Merged(old, a, old.lastEmitted)] /\ out' = out
      \/ \E reasons, related :
            /\ open' = [open EXCEPT ![iid] = Merged(old, a, now)]
            /\ out' = out \cup {Line(iid, Merged(old, a, now), a, reasons, related)}
  BY DEF Repeat
<1>6. \A reasons, related :
        LET l == Line(iid, Merged(old, a, now), a, reasons, related)
        IN  l.key = old.key /\ l.at = now
  BY DEF Line, Merged, MergedWith
<1>7. QED
  BY <1>3, <1>4, <1>5, <1>6

LEMMA SilenceFlush == ASSUME SilenceInv, FlushIncidents PROVE SilenceInv'
BY DEF SilenceInv, SilenceIsAccounted, FlushIncidents, memory, history

LEMMA SilenceWriteLine == ASSUME TypeOK, SilenceInv, WriteLine PROVE SilenceInv'
<1>1. PICK l \in out :
        /\ out' = out \ {l}
        /\ lines' = [lines EXCEPT ![l.key] =
                       [at |-> l.at, id |-> l.id,
                        escalated |-> l.reasons \subseteq Escalation]]
  BY DEF WriteLine
<1>2. /\ open' = open /\ disk' = disk /\ now' = now /\ lost' = lost
      /\ pc = "write" /\ pc' = IF out' = {} THEN "idle" ELSE "write"
      /\ disk.open = open
  BY DEF WriteLine, memory, SilenceInv
<1>3. l.key \in Key /\ \A k \in Key : lines'[k].at = IF k = l.key THEN l.at ELSE lines[k].at
  BY <1>1 DEF TypeOK, OutLine
<1>4. ASSUME NEW i \in DOMAIN open
      PROVE  \/ lines'[open[i].key].at = open[i].lastEmitted
             \/ lost'[open[i].key] = open[i].lastEmitted
             \/ \E m \in out' : m.key = open[i].key /\ m.at = open[i].lastEmitted
  <2>1. open[i].key \in Key
    BY DEF TypeOK, IncidentMap, State
  <2>2. CASE open[i].key = l.key
    BY <1>3, <2>2 DEF SilenceInv
  <2>3. CASE open[i].key # l.key
    BY <1>1, <1>2, <1>3, <2>1, <2>3 DEF SilenceInv, SilenceIsAccounted
  <2>4. QED
    BY <2>2, <2>3
<1>5. QED
  BY <1>1, <1>2, <1>4 DEF SilenceInv, SilenceIsAccounted

LEMMA SilenceCrash == ASSUME TypeOK, SilenceInv, Crash PROVE SilenceInv'
<1>1. /\ disk' = disk /\ lines' = lines /\ out' = {} /\ open' = <<>> /\ pc' = "down"
      /\ \A k \in Key : lost'[k] = IF pc = "write" /\ \E l \in out : l.key = k
                                   THEN now ELSE lost[k]
  BY DEF Crash
<1>2. ASSUME NEW i \in DOMAIN disk.open
      PROVE  \/ lines'[disk.open[i].key].at = disk.open[i].lastEmitted
             \/ lost'[disk.open[i].key] = disk.open[i].lastEmitted
  <2>1. disk.open[i].key \in Key
    BY DEF TypeOK, IncidentMap, State
  <2>2. CASE pc = "write" /\ \E l \in out : l.key = disk.open[i].key
    BY <1>1, <2>1, <2>2 DEF SilenceInv
  <2>3. CASE ~(pc = "write" /\ \E l \in out : l.key = disk.open[i].key)
    BY <1>1, <2>1, <2>3 DEF SilenceInv, SilenceIsAccounted
  <2>4. QED
    BY <2>2, <2>3
<1>3. QED
  BY <1>1, <1>2 DEF SilenceInv, SilenceIsAccounted

LEMMA SilenceRestart == ASSUME SilenceInv, Restart PROVE SilenceInv'
BY DEF SilenceInv, SilenceIsAccounted, Restart, history

LEMMA SilenceStep == IndexInv /\ SilenceInv /\ [Next]_vars => SilenceInv'
<1>1. CASE UNCHANGED vars
  BY <1>1 DEF SilenceInv, SilenceIsAccounted, vars
<1>2. IndexInv => TypeOK
  BY DEF IndexInv, IndexCoherent
<1>3. QED
  BY <1>1, <1>2, SilenceBeginTick, SilenceOpenNew, SilenceRepeat, SilenceFlush,
     SilenceWriteLine, SilenceCrash, SilenceRestart DEF Next, Step

(* An incident is only quiet on the strength of a line that was written,   *)
(* is about to be, or was lost when the process died.                      *)
THEOREM SilenceIsEarned == Spec => []SilenceIsAccounted
<1>1. SilenceInv => SilenceIsAccounted
  BY DEF SilenceInv
<1>2. QED
  BY <1>1, IndexInit, SilenceInit, IndexStep, SilenceStep, PTL DEF Spec
-----------------------------------------------------------------------------
(* There are finitely many open incidents, and the counter tells them      *)
(* apart.                                                                  *)
Numbered(f) ==
    /\ IsFiniteSet(DOMAIN f)
    /\ \A i, j \in DOMAIN f : i.n = j.n => i = j

CountInv == Numbered(open) /\ Numbered(disk.open)

LEMMA NumberedSmaller ==
    ASSUME NEW f, NEW g, Numbered(f), DOMAIN g \subseteq DOMAIN f
    PROVE  Numbered(g)
BY FS_Subset DEF Numbered

LEMMA CountOpenNew == ASSUME IndexInv, CountInv, OpenNew PROVE CountInv'
<1> DEFINE iid == [n |-> seq + 1, entity |-> NewState(Head(queue)).entity]
<1>1. DOMAIN open' = DOMAIN open \cup {iid} /\ disk' = disk
  BY DEF OpenNew
<1>3. \A i \in DOMAIN open : i.n \in Nat /\ i.n <= seq /\ seq \in Nat
  BY DEF IndexInv, IndexCoherent, TypeOK, IncidentMap, Id
<1>4. iid.n = seq + 1
  OBVIOUS
<1> HIDE DEF iid
<1>2. IsFiniteSet(DOMAIN open')
  BY <1>1, FS_AddElement DEF CountInv, Numbered
<1>5. \A i \in DOMAIN open : i.n # iid.n
  BY <1>3, <1>4
<1>6. QED
  BY <1>1, <1>2, <1>5 DEF CountInv, Numbered

LEMMA CountStep == IndexInv /\ CountInv /\ [Next]_vars => CountInv'
<1> SUFFICES ASSUME IndexInv, CountInv, [Next]_vars PROVE CountInv'
  OBVIOUS
<1>1. CASE UNCHANGED vars
  BY <1>1 DEF CountInv, vars
<1>2. CASE \E batch \in Batch, gap \in 1 .. Window + 1 : BeginTick(batch, gap)
  BY <1>2, NumberedSmaller DEF BeginTick, Drop, CountInv
<1>3. CASE OpenNew
  BY <1>3, CountOpenNew
<1>4. CASE Repeat
  <2>1. DOMAIN open' = DOMAIN open /\ disk' = disk
    BY <1>4 DEF Repeat
  <2>2. QED
    BY <2>1, NumberedSmaller DEF CountInv
<1>5. CASE FlushIncidents
  BY <1>5 DEF FlushIncidents, memory, CountInv
<1>6. CASE WriteLine
  BY <1>6 DEF WriteLine, memory, CountInv
<1>7. CASE Crash
  <2>1. DOMAIN open' = {} /\ disk' = disk
    BY <1>7 DEF Crash
  <2>2. QED
    BY <2>1, NumberedSmaller DEF CountInv
<1>8. CASE Restart
  BY <1>8 DEF Restart, CountInv
<1>9. QED
  BY <1>1, <1>2, <1>3, <1>4, <1>5, <1>6, <1>7, <1>8 DEF Next, Step

LEMMA CountInit == Init => CountInv
<1> SUFFICES ASSUME Init PROVE CountInv
  OBVIOUS
<1>1. DOMAIN open = {} /\ DOMAIN disk.open = {}
  BY DEF Init
<1>2. QED
  BY <1>1, FS_EmptySet DEF CountInv, Numbered

LEMMA LeastNat ==
    ASSUME NEW S \in SUBSET Nat, S # {}
    PROVE  \E m \in S : \A n \in S : m <= n
<1> DEFINE R == OpToRel(<, Nat)
<1>1. PICK m \in S : \A n \in S : ~(<<n, m>> \in R)
  BY NatLessThanWellFounded, WFMin
<1>2. \A n \in S : ~(n < m)
  BY <1>1 DEF OpToRel
<1>3. QED
  BY <1>2

(* The first m of a finite list are all of it, or m many.                  *)
LEMMA FirstOfList ==
    ASSUME NEW L, IsFiniteSet(L), \A i \in L : i.n \in Nat,
           \A i, j \in L : i.n = j.n => i = j,
           NEW m \in Nat,
           NEW S, S = {o \in L : Cardinality({p \in L : p.n <= o.n}) <= m}
    PROVE  L \subseteq S \/ Cardinality(S) >= m
<1> DEFINE Upto(o) == {p \in L : p.n <= o.n}
           Out == {o.n : o \in L \ S}
<1> SUFFICES ASSUME ~(L \subseteq S) PROVE Cardinality(S) >= m
  OBVIOUS
<1>1. Out # {} /\ Out \in SUBSET Nat
  <2>1. PICK o \in L \ S : TRUE
    OBVIOUS
  <2>2. o.n \in Out
    BY <2>1
  <2>3. QED
    BY <2>2
<1>2. PICK k \in Out : \A j \in Out : k <= j
  BY <1>1, LeastNat
<1>3. PICK o \in L \ S : o.n = k
  BY <1>2
<1>4. IsFiniteSet(S) /\ Cardinality(S) \in Nat /\ IsFiniteSet(Upto(o))
      /\ Cardinality(Upto(o)) \in Nat
  BY FS_Subset, FS_CardinalityType
<1>5. Cardinality(Upto(o)) > m
  BY <1>3, <1>4
<1>6. Upto(o) \ {o} \subseteq S
  <2> SUFFICES ASSUME NEW p \in L, p.n <= o.n, p # o PROVE p \in S
    OBVIOUS
  <2>1. p.n # o.n /\ p.n \in Nat /\ o.n \in Nat
    BY <1>3
  <2>2. p \in L \ S => p.n \in Out
    OBVIOUS
  <2> HIDE DEF Out
  <2>3. p.n \notin Out
    BY <1>2, <1>3, <2>1
  <2>4. QED
    BY <2>2, <2>3
<1>7. o \in Upto(o)
  BY <1>3
<1> HIDE DEF Upto, Out
<1>8. Cardinality(Upto(o) \ {o}) = Cardinality(Upto(o)) - 1
  BY <1>4, <1>7, FS_RemoveElement
<1>9. Cardinality(Upto(o) \ {o}) <= Cardinality(S)
  BY <1>4, <1>6, FS_Subset
<1>10. QED
  BY <1>4, <1>5, <1>8, <1>9

(* What _correlate finds, whatever the three lists hold.                   *)
LEMMA RelatedIsRight ==
    ASSUME IndexInv, CountInv, pc # "down", NEW a \in Alert, NEW iid, NEW classes
    PROVE  LET R    == Related(iid, a, classes)
               Same == {i \in DOMAIN open \ {iid} :
                           /\ open[i].entity = EntityOf(a)
                           /\ ChainAdjacent(classes, open[i].classes)}
           IN  /\ R \subseteq DOMAIN open \ {iid}
               /\ \A i \in R : Known(open[i]) \cap Names(a) # {}
               /\ (Same \subseteq R \/ Cardinality(R) >= MaxRelated)
<1> DEFINE R    == Related(iid, a, classes)
           Same == {i \in DOMAIN open \ {iid} :
                       /\ open[i].entity = EntityOf(a)
                       /\ ChainAdjacent(classes, open[i].classes)}
           L == Linkable(iid, classes)
           L1 == L \cap byEntity[EntityOf(a)]
           First == {o \in L1 : Cardinality({p \in L1 : p.n <= o.n}) <= MaxRelated}
<1>1. /\ First \subseteq R
      /\ \A i \in R : /\ i \in L
                      /\ \/ i \in byEntity[EntityOf(a)]
                         \/ /\ a.src # NoHost
                            /\ i \in byEntity[Bare(a.src)] \/ i \in byEntity[Source(a.src)]
  BY DEF Related
<1>2. L \subseteq DOMAIN open \ {iid}
  BY DEF Linkable
<1>3. R \subseteq DOMAIN open \ {iid}
  BY <1>1, <1>2
<1>4. ASSUME NEW i \in R PROVE Known(open[i]) \cap Names(a) # {}
  <2>1. i \in DOMAIN open /\ EntityOf(a) \in Entity
    BY <1>3, AlertTypes DEF IndexInv, IndexCoherent, TypeOK
  <2>2. a.src # NoHost => /\ a.src \in Address /\ Bare(a.src) \in Names(a)
                          /\ Bare(a.src) \in Entity /\ Source(a.src) \in Entity
    BY AlertAssumption DEF Names, Entity
  <2>3. \A e \in Entity : i \in byEntity[e] => e \in {open[i].entity, Bare(open[i].opener)}
    BY <2>1 DEF IndexInv, IndexCoherent
  <2>4. open[i].entity \in Known(open[i]) /\ EntityOf(a) \in Names(a)
    BY DEF Known, Names
  <2>5. open[i].opener # NoHost => Bare(open[i].opener) \in Known(open[i])
    BY DEF Known
  <2>6. CASE i \in byEntity[EntityOf(a)]
    <3>1. EntityOf(a) # Bare(NoHost)
      BY DEF EntityOf, Bare, Source, Nobody
    <3>2. EntityOf(a) \in Known(open[i])
      BY <2>1, <2>3, <2>4, <2>5, <2>6, <3>1
    <3>3. QED
      BY <2>4, <3>2
  <2>7. CASE a.src # NoHost /\ i \in byEntity[Bare(a.src)]
    <3>1. Bare(a.src) # Bare(NoHost)
      BY <2>7 DEF Bare
    <3>2. Bare(a.src) \in Known(open[i])
      BY <2>2, <2>3, <2>4, <2>5, <2>7, <3>1
    <3>3. QED
      BY <2>2, <2>7, <3>2
  <2>8. CASE a.src # NoHost /\ i \in byEntity[Source(a.src)]
    <3>1. open[i].entity = Source(a.src)
      BY <2>2, <2>3, <2>8 DEF Bare, Source
    <3>2. Bare(a.src) \in Known(open[i])
      BY <2>2, <2>8, <3>1 DEF Known
    <3>3. QED
      BY <2>2, <2>8, <3>2
  <2>9. QED
    BY <1>1, <2>6, <2>7, <2>8
<1>5. Same \subseteq L1
  BY DEF Linkable, IndexInv, IndexCoherent
<1>6. IsFiniteSet(DOMAIN open) /\ IsFiniteSet(L1) /\ IsFiniteSet(R)
  BY <1>2, <1>3, FS_Subset DEF CountInv, Numbered
<1>7. /\ \A i \in L1 : i.n \in Nat
      /\ \A i, j \in L1 : i.n = j.n => i = j
  BY <1>2 DEF CountInv, Numbered, IndexInv, IndexCoherent, TypeOK, IncidentMap, Id
<1>8. MaxRelated \in Nat
  BY ConstantAssumption
<1> HIDE DEF L1, R, Same
<1>9. L1 \subseteq First \/ Cardinality(First) >= MaxRelated
  BY <1>6, <1>7, <1>8, FirstOfList
<1>10. Cardinality(First) <= Cardinality(R) /\ Cardinality(R) \in Nat
       /\ Cardinality(First) \in Nat
  BY <1>1, <1>6, FS_Subset, FS_CardinalityType
<1> HIDE DEF First
<1>11. Same \subseteq R \/ Cardinality(R) >= MaxRelated
  BY <1>1, <1>5, <1>8, <1>9, <1>10
<1>12. QED
  BY <1>3, <1>4, <1>11 DEF R, Same

(* A line links only open incidents known under a name of its alert, and   *)
(* has left out an adjacent one on the same entity only when it is full.   *)
THEOREM LinksAreSound == Spec => LinksAreRight
<1> DEFINE A == \A l \in out' \ out :
        LET a    == Head(queue)
            own  == open'[l.id]
            Same == {i \in DOMAIN open \ {l.id} :
                        /\ open[i].entity = EntityOf(a)
                        /\ ChainAdjacent(own.classes, open[i].classes)}
        IN  /\ l.related \subseteq DOMAIN open \ {l.id}
            /\ \A i \in l.related : Known(open[i]) \cap Names(a) # {}
            /\ (Same \subseteq l.related \/ Cardinality(l.related) >= MaxRelated)
<1>1. ASSUME IndexInv, CountInv, OpenNew, NEW l \in out' \ out
      PROVE  /\ Head(queue) \in Alert /\ pc # "down"
             /\ l.related = Related(l.id, Head(queue), open'[l.id].classes)
  <2> DEFINE a   == Head(queue)
             st  == NewState(a)
             iid == [n |-> seq + 1, entity |-> st.entity]
  <2>1. l = Line(iid, st, a, {"new"}, Related(iid, a, st.classes))
    BY <1>1 DEF OpenNew
  <2>2. open'[iid] = st
    BY <1>1 DEF OpenNew
  <2>3. l.id = iid /\ l.related = Related(iid, a, st.classes)
    BY <2>1 DEF Line
  <2>4. a \in Alert /\ pc # "down"
    BY <1>1 DEF OpenNew, IndexInv, IndexCoherent, TypeOK
  <2>5. QED
    BY <2>2, <2>3, <2>4
<1>2. ASSUME IndexInv, CountInv, Repeat, NEW l \in out' \ out
      PROVE  /\ Head(queue) \in Alert /\ pc # "down"
             /\ l.related = Related(l.id, Head(queue), open'[l.id].classes)
  <2> DEFINE a   == Head(queue)
             iid == byKey[AggKey(a)]
             st  == Merged(open[iid], a, now)
  <2>1. /\ open' = [open EXCEPT ![iid] = st]
        /\ \E reasons : l = Line(iid, st, a, reasons, Related(iid, a, st.classes))
    BY <1>2 DEF Repeat
  <2>2. iid \in DOMAIN open
    BY <1>2 DEF Repeat, Live
  <2>3. open'[iid] = st
    BY <2>1, <2>2
  <2>4. l.id = iid /\ l.related = Related(iid, a, st.classes)
    BY <2>1 DEF Line
  <2>5. a \in Alert /\ pc # "down"
    BY <1>2 DEF Repeat, IndexInv, IndexCoherent, TypeOK
  <2>6. QED
    BY <2>3, <2>4, <2>5
<1>3. IndexInv /\ CountInv /\ (OpenNew \/ Repeat) => A
  BY <1>1, <1>2, RelatedIsRight
<1>4. ASSUME [Next]_vars, ~(OpenNew \/ Repeat) PROVE out' \subseteq out
  BY <1>4 DEF Next, Step, vars, BeginTick, FlushIncidents, WriteLine, Crash, Restart
<1>5. IndexInv /\ CountInv /\ [Next]_vars => A
  BY <1>3, <1>4
<1>6. IndexInv /\ CountInv /\ [Next]_vars => [A]_vars
  BY <1>5
<1>7. QED
  BY <1>6, IndexInit, CountInit, IndexStep, CountStep, PTL DEF Spec, LinksAreRight

-----------------------------------------------------------------------------
(* The shipped configuration is quiet for a minute and keeps an incident   *)
(* for five (alert_cooldown_s in detector.py, DEFAULT_WINDOW_S).  With a   *)
(* longer quiet period an incident would be forgotten before it may speak. *)
QuietWithinWindow == Quiet <= Window

(* A key that no open incident carries has not been written about, or not  *)
(* within the window, or was pushed out by the cap since.                  *)
Forgotten(k) ==
    lines[k].at = Never \/ k \in crowded \/ now - lines[k].at > Window

Tracks(f) ==
    /\ \A k \in Key : (\A i \in DOMAIN f : f[i].key # k) => Forgotten(k)
    /\ \A i \in DOMAIN f : /\ lines[f[i].key].at <= f[i].lastEmitted
                           /\ f[i].lastEmitted <= f[i].lastSeen
                           /\ f[i].lastSeen <= now

Escalates(l) == l.reasons \subseteq Escalation

(* What QuietBetweenLines asks of a line when it is written.               *)
Earned(l) ==
    \/ lines[l.key].at = Never
    \/ now - lines[l.key].at >= Quiet
    \/ l.key \in crowded
    \/ lines[l.key].escalated /\ lines[l.key].id = l.id /\ lines[l.key].at = now

(* The lines of a tick that report nothing new are earned, and there is    *)
(* one for a key: a second would come no time after the first.             *)
QuietInv ==
    /\ \A k \in Key : lines[k].at <= now
    /\ pc # "down" => Tracks(open)
    /\ Tracks(disk.open)
    /\ \A l \in out : l.id \in DOMAIN open /\ open[l.id].key = l.key
    /\ \A l \in out : Escalates(l) \/ Earned(l)
    /\ Quiet > 0 => \A l, m \in out : l.key = m.key => l = m \/ Escalates(l) \/ Escalates(m)

LEMMA QuietInit == Init => QuietInv
<1> SUFFICES ASSUME Init PROVE QuietInv
  OBVIOUS
<1>1. \A k \in Key : lines[k].at = Never
  BY DEF Init, NoLine
<1>2. DOMAIN open = {} /\ DOMAIN disk.open = {} /\ out = {}
  BY DEF Init
<1>3. now = 0
  BY DEF Init
<1>4. QED
  BY <1>1, <1>2, <1>3 DEF QuietInv, Tracks, Forgotten, Never

(* Time passing and keys pushed out only help.                             *)
LEMMA FileTracksLater ==
    ASSUME TypeOK, TypeOK', Tracks(disk.open), disk' = disk,
           lines' = lines, crowded \subseteq crowded', now <= now'
    PROVE  Tracks(disk.open)'
<1>1. now \in Nat /\ now' \in Nat /\ \A k \in Key : lines[k].at \in Nat \cup {Never}
  BY DEF TypeOK
<1>2. \A i \in DOMAIN disk.open : disk.open[i].lastSeen \in Nat
  BY DEF TypeOK, IncidentMap, State
<1>3. \A k \in Key : Forgotten(k) => Forgotten(k)'
  BY <1>1, ConstantAssumption DEF Forgotten, Never
<1>4. \A k \in Key : (\A i \in DOMAIN disk.open : disk.open[i].key # k) => Forgotten(k)'
  BY <1>3 DEF Tracks
<1>5. \A i \in DOMAIN disk.open : disk.open[i].lastSeen <= now'
  BY <1>1, <1>2 DEF Tracks
<1>6. QED
  BY <1>4, <1>5 DEF Tracks

LEMMA QuietBeginTick ==
    ASSUME IndexInv, CountInv, SilenceInv, QuietInv, TypeOK',
           NEW batch, NEW gap \in 1 .. Window + 1, BeginTick(batch, gap)
    PROVE  QuietInv'
<1> DEFINE kept == DOMAIN open \ Stale(now')
           D    == Stale(now') \cup Overflow(now')
<1>1. /\ DOMAIN open' = DOMAIN open \ D
      /\ \A i \in DOMAIN open' : open'[i] = open[i]
      /\ disk' = disk /\ lines' = lines /\ out' = out /\ pc = "idle"
      /\ now' = now + gap
      /\ crowded' = IF Cardinality(kept) <= MaxOpen THEN crowded
                    ELSE crowded \cup {open[i].key : i \in Overflow(now')}
  BY DEF BeginTick, Drop
<1>2. out = {} /\ TypeOK
  BY <1>1 DEF SilenceInv, IndexInv, IndexCoherent
<1>3. now \in Nat /\ now' \in Nat /\ now <= now' /\ crowded \subseteq crowded'
  BY <1>1, <1>2, ConstantAssumption DEF TypeOK
<1>5. Tracks(disk.open)'
  BY <1>1, <1>2, <1>3, FileTracksLater DEF QuietInv
<1>6. /\ \A k \in Key : (\A i \in DOMAIN open : open[i].key # k) => Forgotten(k)'
      /\ \A i \in DOMAIN open : /\ lines'[open[i].key].at <= open[i].lastEmitted
                                /\ open[i].lastEmitted <= open[i].lastSeen
                                /\ open[i].lastSeen <= now'
  <2>1. \A k \in Key : lines[k].at \in Nat \cup {Never}
    BY <1>2 DEF TypeOK
  <2>2. \A k \in Key : Forgotten(k) => Forgotten(k)'
    BY <1>1, <1>3, <2>1, ConstantAssumption DEF Forgotten, Never
  <2>3. \A i \in DOMAIN open : open[i].lastSeen \in Nat
    BY <1>2 DEF TypeOK, IncidentMap, State
  <2>4. Tracks(open)
    BY <1>1 DEF QuietInv
  <2>5. QED
    BY <1>1, <1>3, <2>2, <2>3, <2>4 DEF Tracks
<1>7. ASSUME NEW i \in DOMAIN open, i \in D, NEW k, k = open[i].key PROVE Forgotten(k)'
  <2>1. k \in Key /\ open[i].lastSeen \in Nat /\ open[i].lastEmitted \in Nat
    BY <1>2, <1>7 DEF TypeOK, IncidentMap, State
  <2>2. lines[k].at \in Nat \cup {Never}
    BY <1>2, <2>1 DEF TypeOK
  <2>3. CASE i \in Stale(now')
    <3>1. now' - open[i].lastSeen > Window
      BY <2>3 DEF Stale
    <3>2. lines'[k].at <= open[i].lastSeen
      BY <1>1, <1>6, <1>7, <2>1, <2>2 DEF Never
    <3>3. now' - lines'[k].at > Window
      BY <1>1, <1>3, <2>1, <2>2, <3>1, <3>2, ConstantAssumption DEF Never
    <3>4. QED
      BY <3>3 DEF Forgotten
  <2>4. CASE i \in Overflow(now')
    <3> DEFINE before == {j \in kept : Older(j, i)}
    <3>1. Cardinality(before) < Cardinality(kept) - MaxOpen
      BY <2>4 DEF Overflow
    <3>2. IsFiniteSet(kept) /\ IsFiniteSet(before)
      BY FS_Subset DEF CountInv, Numbered
    <3>3. Cardinality(kept) \in Nat /\ Cardinality(before) \in Nat /\ MaxOpen \in Nat
      BY <3>2, FS_CardinalityType, ConstantAssumption
    <3> HIDE DEF kept, before
    <3>4. ~(Cardinality(kept) <= MaxOpen)
      BY <3>1, <3>3
    <3>5. k \in crowded'
      BY <1>1, <1>7, <2>4, <3>4
    <3>6. QED
      BY <3>5 DEF Forgotten
  <2>5. QED
    BY <1>7, <2>3, <2>4
<1> HIDE DEF D, kept
<1>8. Tracks(open)'
  <2>1. ASSUME NEW k \in Key, \A i \in DOMAIN open' : open'[i].key # k
        PROVE  Forgotten(k)'
    <3>1. CASE \E i \in DOMAIN open : open[i].key = k
      BY <1>1, <1>7, <2>1, <3>1
    <3>2. CASE ~\E i \in DOMAIN open : open[i].key = k
      BY <1>6, <3>2
    <3>3. QED
      BY <3>1, <3>2
  <2>2. \A i \in DOMAIN open' : /\ lines'[open'[i].key].at <= open'[i].lastEmitted
                                /\ open'[i].lastEmitted <= open'[i].lastSeen
                                /\ open'[i].lastSeen <= now'
    BY <1>1, <1>6
  <2>3. QED
    BY <2>1, <2>2 DEF Tracks
<1>9. \A k \in Key : lines'[k].at <= now'
  BY <1>1, <1>2, <1>3 DEF QuietInv, TypeOK, Never
<1>10. QED
  BY <1>1, <1>2, <1>5, <1>8, <1>9 DEF QuietInv

LEMMA QuietOpenNew ==
    ASSUME QuietWithinWindow, IndexInv, SilenceInv, QuietInv, TypeOK', OpenNew
    PROVE  QuietInv'
<1> DEFINE a   == Head(queue)
           st  == NewState(a)
           iid == [n |-> seq + 1, entity |-> st.entity]
           new == Line(iid, st, a, {"new"}, Related(iid, a, st.classes))
<1>1. /\ DOMAIN open' = DOMAIN open \cup {iid}
      /\ open'[iid] = st /\ \A i \in DOMAIN open \ {iid} : open'[i] = open[i]
      /\ out' = out \cup {new} /\ disk' = disk /\ now' = now /\ seq' = seq + 1
      /\ lines' = lines /\ crowded' = crowded
      /\ pc = "handle" /\ pc' = "handle" /\ ~Live(st.key)
  BY DEF OpenNew, history
<1>2. /\ st.lastEmitted = now /\ st.lastSeen = now
      /\ new.id = iid /\ new.key = st.key /\ iid.n = seq + 1
  BY DEF NewState, Line
<1>3. st.key \in Key /\ TypeOK
  <2>1. a \in Alert /\ now \in Nat /\ TypeOK
    BY DEF OpenNew, IndexInv, IndexCoherent, TypeOK
  <2>2. st.key = AggKey(a)
    BY DEF NewState
  <2>3. AggKey(a) \in Key
    BY <2>1, AlertTypes
  <2>4. QED
    BY <2>1, <2>2, <2>3
<1>4. \A i \in DOMAIN open : open[i].key # st.key
  BY <1>1 DEF Live, IndexInv, IndexCoherent
<1>5. iid \notin DOMAIN open
  BY <1>2, <1>3 DEF IndexInv, TypeOK
<1> HIDE DEF a, st, iid, new
<1>6. now \in Nat /\ \A k \in Key : lines[k].at \in Nat \cup {Never}
  BY <1>3 DEF TypeOK
<1>7. Tracks(disk.open)'
  BY <1>1, <1>3, <1>6, FileTracksLater DEF QuietInv
<1>8. Forgotten(st.key)
  BY <1>1, <1>3, <1>4 DEF QuietInv, Tracks
<1>9. Tracks(open)'
  <2>1. ASSUME NEW k \in Key, \A i \in DOMAIN open' : open'[i].key # k PROVE Forgotten(k)'
    <3>1. \A i \in DOMAIN open : open[i].key # k
      BY <1>1, <1>5, <2>1
    <3>2. Forgotten(k)
      BY <1>1, <3>1 DEF QuietInv, Tracks
    <3>3. QED
      BY <1>1, <3>2 DEF Forgotten
  <2>2. ASSUME NEW i \in DOMAIN open'
        PROVE  /\ lines'[open'[i].key].at <= open'[i].lastEmitted
               /\ open'[i].lastEmitted <= open'[i].lastSeen
               /\ open'[i].lastSeen <= now'
    <3>1. CASE i = iid
      <4>1. lines[st.key].at <= now /\ now <= now
        BY <1>3, <1>6 DEF QuietInv
      <4>2. QED
        BY <1>1, <1>2, <3>1, <4>1
    <3>2. CASE i # iid
      BY <1>1, <3>2 DEF QuietInv, Tracks
    <3>3. QED
      BY <3>1, <3>2
  <2>3. QED
    BY <2>1, <2>2 DEF Tracks
<1>10. Earned(new)
  BY <1>2, <1>3, <1>6, <1>8, ConstantAssumption
     DEF Forgotten, Earned, Never, QuietWithinWindow
<1>11. \A l \in out : l.id \in DOMAIN open /\ open[l.id].key = l.key /\ l.key # st.key
  BY <1>4 DEF QuietInv
<1>12. \A l \in out' : l.id \in DOMAIN open' /\ open'[l.id].key = l.key
  <2>1. ASSUME NEW l \in out PROVE l.id \in DOMAIN open' /\ open'[l.id].key = l.key
    BY <1>1, <1>5, <1>11
  <2>2. new.id \in DOMAIN open' /\ open'[new.id].key = new.key
    BY <1>1, <1>2
  <2>3. QED
    BY <1>1, <2>1, <2>2
<1>13. \A l \in out' : Escalates(l) \/ Earned(l)'
  BY <1>1, <1>10 DEF QuietInv, Earned
<1>14. \A l, m \in out' : l.key = m.key => l = m \/ (l \in out /\ m \in out)
  BY <1>1, <1>2, <1>11
<1>15. QED
  BY <1>1, <1>7, <1>9, <1>12, <1>13, <1>14 DEF QuietInv

LEMMA QuietRepeat ==
    ASSUME IndexInv, SilenceInv, QuietInv, TypeOK', Repeat
    PROVE  QuietInv'
<1> DEFINE a   == Head(queue)
           iid == byKey[AggKey(a)]
           old == open[iid]
           escalated == EscalationReasons(old, a)
           reasons == IF escalated = {} THEN {"continuation"} ELSE escalated
           new == Line(iid, Merged(old, a, now), a, reasons,
                       Related(iid, a, Merged(old, a, now).classes))
<1>1. /\ iid \in DOMAIN open /\ disk' = disk /\ now' = now
      /\ lines' = lines /\ crowded' = crowded
      /\ pc = "handle" /\ pc' = "handle"
  BY DEF Repeat, Live, history
<1>2. \/ open' = [open EXCEPT ![iid] = Merged(old, a, old.lastEmitted)] /\ out' = out
      \/ /\ open' = [open EXCEPT ![iid] = Merged(old, a, now)] /\ out' = out \cup {new}
         /\ escalated # {} \/ now - old.lastEmitted >= Quiet
  BY DEF Repeat
<1>3. new.id = iid /\ new.key = old.key /\ new.reasons = reasons
  BY DEF Line, Merged, MergedWith
<1>4. escalated # {} => Escalates(new)
  BY <1>3 DEF EscalationReasons, Escalates
<1>5. \A m : LET st == Merged(old, a, m)
             IN  st.key = old.key /\ st.lastSeen = now /\ st.lastEmitted = m
  BY DEF Merged, MergedWith
<1>6. /\ DOMAIN open' = DOMAIN open
      /\ \A i \in DOMAIN open \ {iid} : open'[i] = open[i]
      /\ open'[iid].key = old.key /\ open'[iid].lastSeen = now
      /\ open'[iid].lastEmitted \in {old.lastEmitted, now}
  BY <1>1, <1>2, <1>5
<1> HIDE DEF a, iid, escalated, reasons, new
<1>7. TypeOK /\ Tracks(open)
  BY <1>1 DEF IndexInv, IndexCoherent, QuietInv
<1>8. /\ now \in Nat /\ \A k \in Key : lines[k].at \in Nat \cup {Never}
      /\ \A i \in DOMAIN open : open[i].key \in Key /\ open[i].lastEmitted \in Nat
                                /\ open[i].lastSeen \in Nat
  BY <1>7 DEF TypeOK, IncidentMap, State
<1>9. Tracks(disk.open)'
  BY <1>1, <1>7, <1>8, FileTracksLater DEF QuietInv
<1>10. \A i \in DOMAIN open : open'[i].key = open[i].key
  BY <1>6
<1>11. Tracks(open)'
  <2>1. ASSUME NEW k \in Key, \A i \in DOMAIN open' : open'[i].key # k PROVE Forgotten(k)'
    <3>1. Forgotten(k)
      BY <1>6, <1>7, <1>10, <2>1 DEF Tracks
    <3>2. QED
      BY <1>1, <3>1 DEF Forgotten
  <2>2. ASSUME NEW i \in DOMAIN open'
        PROVE  /\ lines'[open'[i].key].at <= open'[i].lastEmitted
               /\ open'[i].lastEmitted <= open'[i].lastSeen
               /\ open'[i].lastSeen <= now'
    <3>1. /\ lines[open[i].key].at <= open[i].lastEmitted
          /\ open[i].lastEmitted <= open[i].lastSeen
          /\ open[i].lastSeen <= now
      BY <1>6, <1>7, <2>2 DEF Tracks
    <3>2. CASE i = iid
      <4>1. lines[open[i].key].at <= now /\ open[i].lastEmitted <= now /\ now <= now
        BY <1>6, <1>8, <2>2, <3>1 DEF Never, QuietInv
      <4>2. QED
        BY <1>1, <1>6, <3>1, <3>2, <4>1
    <3>3. CASE i # iid
      BY <1>1, <1>6, <2>2, <3>1, <3>3
    <3>4. QED
      BY <3>2, <3>3
  <2>3. QED
    BY <2>1, <2>2 DEF Tracks
<1>12. \A l \in out' : l.id \in DOMAIN open' /\ open'[l.id].key = l.key
  BY <1>1, <1>2, <1>3, <1>6, <1>10 DEF QuietInv
<1>13. Earned(new) \/ Escalates(new) \/ out' = out
  <2> SUFFICES ASSUME now - old.lastEmitted >= Quiet PROVE Earned(new)
    BY <1>2, <1>4
  <2>1. old.key \in Key /\ lines[old.key].at <= old.lastEmitted
    BY <1>1, <1>7, <1>8 DEF Tracks
  <2>2. now - lines[old.key].at >= Quiet
    BY <1>1, <1>8, <2>1, ConstantAssumption DEF Never
  <2>3. QED
    BY <1>3, <2>2 DEF Earned
<1>14. \A l \in out' : Escalates(l) \/ Earned(l)'
  BY <1>1, <1>2, <1>13 DEF QuietInv, Earned
<1>15. ASSUME Quiet > 0, NEW l \in out, l.key = new.key, out' # out PROVE Escalates(new)
  <2>1. old.lastEmitted = now
    BY <1>1, <1>3, <1>15 DEF SilenceInv
  <2>2. ~(now - old.lastEmitted >= Quiet)
    BY <1>8, <1>15, <2>1, ConstantAssumption
  <2>3. QED
    BY <1>2, <1>4, <1>15, <2>2
<1>16. Quiet > 0 => \A l, m \in out' :
                       l.key = m.key => l = m \/ Escalates(l) \/ Escalates(m)
  BY <1>2, <1>15 DEF QuietInv
<1>17. QED
  BY <1>1, <1>8, <1>9, <1>11, <1>12, <1>14, <1>16 DEF QuietInv

(* The lines of a tick about one key are about one incident.               *)
LEMMA OneIdForKey ==
    ASSUME IndexInv, QuietInv, pc # "down", NEW l \in out, NEW m \in out, l.key = m.key
    PROVE  l.id = m.id
BY DEF IndexInv, IndexCoherent, QuietInv

LEMMA QuietWriteLine ==
    ASSUME IndexInv, SilenceInv, QuietInv, TypeOK', WriteLine
    PROVE  QuietInv'
<1>1. PICK w \in out :
        /\ out' = out \ {w}
        /\ lines' = [lines EXCEPT ![w.key] =
                       [at |-> w.at, id |-> w.id,
                        escalated |-> w.reasons \subseteq Escalation]]
        /\ crowded' = crowded \ {w.key}
  BY DEF WriteLine
<1>2. /\ open' = open /\ disk' = disk /\ now' = now /\ pc = "write"
      /\ disk.open = open /\ w.at = now
  BY DEF WriteLine, memory, SilenceInv
<1> TypeOK
  BY DEF IndexInv, IndexCoherent
<1>3. w.key \in Key /\ w.id \in DOMAIN open /\ open[w.id].key = w.key
  BY DEF TypeOK, OutLine, QuietInv
<1>4. /\ \A k \in Key : k # w.key =>
            lines'[k] = lines[k] /\ (k \in crowded => k \in crowded')
      /\ lines'[w.key].at = now /\ lines'[w.key].id = w.id
      /\ lines'[w.key].escalated = Escalates(w)
  BY <1>1, <1>2, <1>3 DEF TypeOK, Escalates
<1>5. /\ now \in Nat
      /\ \A i \in DOMAIN open : open[i].key \in Key /\ open[i].lastEmitted \in Nat
  BY DEF TypeOK, IncidentMap, State
<1>6. \A i \in DOMAIN open : open[i].key = w.key => open[i].lastEmitted = now
  BY DEF SilenceInv
<1>7. Tracks(open) /\ Tracks(disk.open)
  BY <1>2 DEF QuietInv
<1>8. Tracks(open)'
  <2>1. ASSUME NEW k \in Key, \A i \in DOMAIN open : open[i].key # k PROVE Forgotten(k)'
    <3>1. k # w.key /\ Forgotten(k)
      BY <1>3, <1>7, <2>1 DEF Tracks
    <3>2. QED
      BY <1>2, <1>4, <3>1 DEF Forgotten
  <2>2. ASSUME NEW i \in DOMAIN open PROVE lines'[open[i].key].at <= open[i].lastEmitted
    <3>1. CASE open[i].key = w.key
      <4>1. now <= now
        BY <1>5
      <4>2. QED
        BY <1>4, <1>6, <3>1, <4>1
    <3>2. CASE open[i].key # w.key
      BY <1>4, <1>5, <1>7, <3>2 DEF Tracks
    <3>3. QED
      BY <3>1, <3>2
  <2>3. QED
    BY <1>2, <1>7, <2>1, <2>2 DEF Tracks
<1>9. Tracks(disk.open)'
  BY <1>2, <1>8 DEF Tracks, Forgotten
<1>10. \A k \in Key : lines'[k].at <= now'
  <2>1. now <= now
    BY <1>5
  <2>2. QED
    BY <1>2, <1>4, <2>1 DEF QuietInv
<1>11. ASSUME NEW l \in out', ~Escalates(l) PROVE Earned(l)'
  <2>1. l \in out /\ l # w /\ l.key \in Key
    BY <1>1 DEF TypeOK, OutLine
  <2>2. CASE l.key # w.key
    <3>1. Earned(l)
      BY <1>11, <2>1 DEF QuietInv
    <3>2. QED
      BY <1>2, <1>4, <2>1, <2>2, <3>1 DEF Earned
  <2>3. CASE l.key = w.key /\ Quiet > 0
    <3>1. Escalates(w)
      BY <1>11, <2>1, <2>3 DEF QuietInv
    <3>2. l.id = w.id
      BY <1>2, <1>3, <2>1, <2>3, OneIdForKey
    <3>3. QED
      BY <1>2, <1>4, <2>3, <3>1, <3>2 DEF Earned
  <2>4. CASE l.key = w.key /\ ~(Quiet > 0)
    <3>1. now - now >= Quiet
      BY <1>5, <2>4, ConstantAssumption
    <3>2. QED
      BY <1>2, <1>4, <2>4, <3>1 DEF Earned
  <2>5. QED
    BY <2>2, <2>3, <2>4
<1>12. QED
  BY <1>1, <1>2, <1>8, <1>9, <1>10, <1>11 DEF QuietInv

LEMMA QuietStep ==
    ASSUME QuietWithinWindow, IndexInv, CountInv, SilenceInv, QuietInv, [Next]_vars
    PROVE  QuietInv'
<1>1. TypeOK /\ TypeOK'
  BY TypeStep DEF IndexInv, IndexCoherent
<1>2. CASE UNCHANGED vars
  BY <1>2 DEF QuietInv, Tracks, Forgotten, Earned, vars
<1>3. CASE FlushIncidents
  BY <1>3 DEF FlushIncidents, QuietInv, Tracks, Forgotten, Earned, memory, history
<1>4. CASE Crash
  BY <1>4 DEF Crash, QuietInv, Tracks, Forgotten, Earned
<1>5. CASE Restart
  BY <1>5 DEF Restart, QuietInv, Tracks, Forgotten, Earned, history, SilenceInv
<1>6. QED
  BY <1>1, <1>2, <1>3, <1>4, <1>5, QuietBeginTick, QuietOpenNew, QuietRepeat,
     QuietWriteLine DEF Next, Step

(* A line that reports nothing new comes at least the quiet period after   *)
(* the line before it about the same event, across crashes and restarts,   *)
(* unless the cap pushed the incident out in between.                      *)
THEOREM QuietIsKept == ASSUME QuietWithinWindow PROVE Spec => QuietBetweenLines
<1> DEFINE A == \A k \in Key :
         lines'[k] # lines[k] /\ ~lines'[k].escalated /\ lines[k].at # Never
         => \/ lines'[k].at - lines[k].at >= Quiet
            \/ k \in crowded
            \/ /\ lines[k].escalated /\ lines[k].id = lines'[k].id
               /\ lines[k].at = lines'[k].at
<1>1. ASSUME IndexInv, SilenceInv, QuietInv, WriteLine PROVE A
  <2>1. PICK w \in out :
          lines' = [lines EXCEPT ![w.key] =
                       [at |-> w.at, id |-> w.id,
                        escalated |-> w.reasons \subseteq Escalation]]
    BY <1>1 DEF WriteLine
  <2>2. w.at = now /\ (Escalates(w) \/ Earned(w)) /\ w.key \in Key
    BY <1>1 DEF SilenceInv, QuietInv, IndexInv, IndexCoherent, TypeOK, OutLine
  <2>3. /\ \A k \in Key : k # w.key => lines'[k] = lines[k]
        /\ lines'[w.key].at = now /\ lines'[w.key].id = w.id
        /\ lines'[w.key].escalated = Escalates(w)
    BY <1>1, <2>1, <2>2 DEF IndexInv, IndexCoherent, TypeOK, Escalates
  <2>4. QED
    BY <2>2, <2>3 DEF Earned
<1>2. ASSUME [Next]_vars, ~WriteLine PROVE lines' = lines
  BY <1>2 DEF Next, Step, vars, history, BeginTick, OpenNew, Repeat, FlushIncidents, Crash,
     Restart
<1>3. IndexInv /\ SilenceInv /\ QuietInv /\ [Next]_vars => [A]_vars
  BY <1>1, <1>2
<1>4. QED
  BY <1>3, IndexInit, CountInit, SilenceInit, QuietInit, IndexStep, CountStep, SilenceStep,
     QuietStep, PTL DEF Spec, QuietBetweenLines
=============================================================================
