------------------------- MODULE IncidentAggregator -------------------------
(***************************************************************************)
(* The incident aggregator of the detection engine                         *)
(* (unipe_ai/aggregation.py) together with the two files its output goes   *)
(* through: incidents.json, rewritten at the end of every process() call,  *)
(* and alerts.jsonl, to which the engine loop appends one line per alert   *)
(* the aggregator lets through.                                            *)
(*                                                                         *)
(* One engine tick is BeginTick, then one Handle step per alert, then      *)
(* FlushIncidents, then one WriteLine step per emitted alert.  The process *)
(* may die between any two of these steps (Crash) and is then started      *)
(* again from incidents.json (Restart).                                    *)
(*                                                                         *)
(* Left out: the traffic timestamps first_seen and traffic_last_seen, the  *)
(* message texts, the occurrence counts, and the copies of related ids and *)
(* hypothesis kept in the state (nothing reads them back).                 *)
(***************************************************************************)
EXTENDS Integers, FiniteSets, Sequences

CONSTANTS
    Host,        \* addresses an alert can name
    NoHost,      \* an empty or wildcard address
    AnyHost,     \* 0.0.0.0: nobody's address, but not an empty one
    NoId,        \* no incident
    Threats,     \* alerts the detectors may raise in one history, see threat
    Window,      \* window_s: an incident unseen for longer is closed
    Quiet,       \* quiet_s: silence between two lines about one event
    MaxOpen,     \* MAX_OPEN
    MaxRelated,  \* MAX_RELATED
    MaxPartners, \* partners kept of an incident
    MaxBatch,    \* bound: alerts in one tick
    MaxNow,      \* bound: last reading of the clock
    MaxSeq       \* bound: incidents opened in one history

Floodish == {"udp_flood", "syn_flood", "fan_in_flood", "icmp_flood",
             "high_rate_flow", "udp_high_rate_flow", "icmp_high_rate_flow",
             "syn_high_rate_flow"}

Scans == {"vertical_port_scan", "horizontal_sweep"}

(* Position of a threat class in the soft kill chain; 0 is "any stage".    *)
ChainRank == [recon_scanning     |-> 1, dns_abuse         |-> 2,
              c2_beaconing       |-> 3, encrypted_anomaly |-> 4,
              data_exfiltration  |-> 5, volumetric_ddos   |-> 0,
              ip_spoofing        |-> 0]

Class == DOMAIN ChainRank

(* An event is announced again when one of the first five reasons holds.   *)
Escalation == {"new_detector", "severity_increase", "new_destination",
               "additional_host", "behavioral_change"}

Reason == Escalation \cup {"new", "continuation"}

NoRate == -1     \* evidence without a usable packet_rate

-----------------------------------------------------------------------------
(* Names: the key that folds alerts into one incident, and the entity an   *)
(* incident is filed under.  0.0.0.0 is never an entity or a partner, yet  *)
(* an incident is filed and searched under it as under any source.         *)

AggKey(a) ==
    CASE a.subtype \in Floodish -> <<"dst", a.subtype, a.dst>>
      [] a.subtype \in Scans    -> <<"scan", a.subtype, a.src, a.dst, a.port>>
      [] OTHER                  -> <<"flow", a.class, a.subtype, a.flow>>

Alert == UNION Threats

Key == {AggKey(a) : a \in Alert}

(* by_entity is keyed by plain strings: a bare address, or "src:" and one. *)
Bare(h)   == <<"host", h>>
Source(h) == <<"src", h>>

Nobody == {NoHost, AnyHost}

EntityOf(a) ==
    CASE a.dst \notin Nobody -> Bare(a.dst)
      [] a.dst \in Nobody /\ a.src \notin Nobody -> Source(a.src)
      [] OTHER -> <<"flow", a.flow>>

Address == Host \cup {AnyHost}

Entity == {EntityOf(a) : a \in Alert}
            \cup {Bare(h) : h \in Address} \cup {Source(h) : h \in Address}

(* f"inc-{seq}-{entity}"                                                   *)
Id == [n : Nat, entity : Entity]

Named(a) == {a.src, a.dst} \ Nobody

(* The constants are sane.  Two alerts with the same flow id name the same *)
(* addresses, because make_flow_id spells both addresses out; a subtype    *)
(* belongs to one detector, hence to one class.                            *)
ASSUME ConstantAssumption ==
    /\ Window \in Nat \ {0} /\ Quiet \in Nat
    /\ MaxOpen \in Nat /\ MaxRelated \in Nat \ {0} /\ MaxPartners \in Nat \ {0}
    /\ MaxBatch \in Nat /\ MaxNow \in Nat /\ MaxSeq \in Nat
    /\ NoHost \notin Address /\ AnyHost \notin Host /\ NoId \notin Id

ASSUME AlertAssumption ==
    \A a \in Alert :
        /\ a.class \in Class /\ a.src \in Address \cup {NoHost}
        /\ a.dst \in Address \cup {NoHost}
        /\ a.severity \in 0 .. 2 /\ a.confidence \in Nat
        /\ a.rate \in Nat \cup {NoRate}

ASSUME FlowIdAssumption ==
    \A a, b \in Alert :
        /\ a.flow = b.flow => a.src = b.src /\ a.dst = b.dst
        /\ a.subtype = b.subtype => a.class = b.class

-----------------------------------------------------------------------------
VARIABLES
    threat,    \* the alerts this history is about
    now,       \* the engine's wall clock, one value per tick
    pc,        \* where the engine is in its tick: idle handle flush write down
    queue,     \* alerts of this tick still to be handled

    \* memory of the aggregator
    seq,       \* _seq
    open,      \* _open: incident id -> state
    byKey,     \* _by_key
    byEntity,  \* _by_entity; its lists are always in order of n
    out,       \* alerts emitted by this tick, not yet written

    disk,      \* incidents.json

    \* history, read by properties only
    lines,     \* last line of alerts.jsonl about each key
    owner,     \* <<id, key, born>> of every line ever written
    lost,      \* per key, when an emission last died with the process
    crowded    \* keys pushed out by the cap since their last line

vars == <<threat, now, pc, queue, seq, open, byKey, byEntity, out, disk,
          lines, owner, lost, crowded>>

memory  == <<seq, open, byKey, byEntity>>
history == <<lines, owner, lost, crowded>>

Never  == -1
NoLine == [at |-> Never, id |-> NoId, escalated |-> FALSE]
-----------------------------------------------------------------------------
(* One incident's state, and what a further alert changes in it.  Two      *)
(* fields are history: born, when it was opened, and opener, the source    *)
(* address of the alert that opened it.                                    *)

Larger(m, n) == IF m >= n THEN m ELSE n

Peers(entity, a) == {h \in Named(a) : Bare(h) # entity}

(* _merge_partners: the source first, then the destination, each once; the *)
(* last MaxPartners are kept.                                              *)
InSeq(p) == {p[i] : i \in DOMAIN p}

WithPeer(p, h, entity, a) ==
    IF h \in Peers(entity, a) \ InSeq(p) THEN Append(p, h) ELSE p

MergePartners(p, entity, a) ==
    LET met == WithPeer(WithPeer(p, a.src, entity, a), a.dst, entity, a)
    IN  SubSeq(met, Larger(1, Len(met) - MaxPartners + 1), Len(met))

NewState(a) ==
    [entity |-> EntityOf(a), key |-> AggKey(a), lastSeen |-> now,
     lastEmitted |-> now, severity |-> a.severity,
     confidence |-> a.confidence, subtypes |-> {a.subtype},
     classes |-> {a.class},
     partners |-> MergePartners(<<>>, EntityOf(a), a),
     peak |-> a.rate, born |-> now, opener |-> a.src]

(* The state after a further alert; emitted is its new lastEmitted.        *)
MergedWith(st, a, emitted) ==
    [entity |-> st.entity, key |-> st.key, lastSeen |-> now,
     lastEmitted |-> emitted, severity |-> Larger(st.severity, a.severity),
     confidence |-> Larger(st.confidence, a.confidence),
     subtypes |-> st.subtypes \cup {a.subtype},
     classes |-> st.classes \cup {a.class},
     partners |-> MergePartners(st.partners, st.entity, a),
     peak |-> Larger(st.peak, a.rate), born |-> st.born, opener |-> st.opener]

(* A mistake in Merged: a silent repeat is taken for an emission.          *)
MergedAsEmitted(st, a, emitted) == MergedWith(st, a, now)

Merged(st, a, emitted) == MergedWith(st, a, emitted)

(* What makes a repeat worth a line of its own.  A spoofed flood has new   *)
(* sources on every tick, so a flood's peers are not news.                 *)
EscalationReasons(st, a) ==
    LET news == IF a.subtype \in Floodish THEN {}
                ELSE Peers(st.entity, a) \ InSeq(st.partners)
        Holds(r) ==
            \/ r = "new_detector" /\ a.subtype \notin st.subtypes
            \/ r = "severity_increase" /\ a.severity > st.severity
            \/ r = "new_destination" /\ a.dst \in news
            \/ r = "additional_host" /\ news \ {a.dst} # {}
            \/ r = "behavioral_change" /\ st.peak > 0 /\ a.rate >= 2 * st.peak
    IN  {r \in Escalation : Holds(r)}

-----------------------------------------------------------------------------
(* Correlation: open incidents filed under the entity or the source of an  *)
(* alert, in the order of the three lists, until MaxRelated are found.  An *)
(* incident found in two of the lists takes two of the places.             *)

ChainAdjacent(A, B) ==
    LET ra == {ChainRank[c] : c \in A} \ {0}
        rb == {ChainRank[c] : c \in B} \ {0}
    IN  IF ra = {} \/ rb = {}
        THEN A # {} /\ B # {}
        ELSE \E x \in ra, y \in rb : \/ x # y /\ x - y \in -2 .. 2
                                     \/ x = y /\ A # B

Linkable(iid, classes) ==
    {o \in DOMAIN open : o # iid /\ ChainAdjacent(classes, open[o].classes)}

(* A mistake in Related: only the list of the alert's source is searched.  *)
RelatedBySource(iid, a, classes) ==
    IF a.src = NoHost THEN {} ELSE Linkable(iid, classes) \cap byEntity[Bare(a.src)]

Related(iid, a, classes) ==
    LET L1 == Linkable(iid, classes) \cap byEntity[EntityOf(a)]
        L2 == IF a.src = NoHost THEN {}
              ELSE Linkable(iid, classes) \cap byEntity[Bare(a.src)]
        L3 == IF a.src = NoHost THEN {}
              ELSE Linkable(iid, classes) \cap byEntity[Source(a.src)]
        UpTo(L, o) == Cardinality({p \in L : p.n <= o.n})
        Place(o) == IF o \in L1 THEN UpTo(L1, o)
                    ELSE IF o \in L2 THEN Cardinality(L1) + UpTo(L2, o)
                    ELSE Cardinality(L1) + Cardinality(L2) + UpTo(L3, o)
    IN  {o \in L1 \cup L2 \cup L3 : Place(o) <= MaxRelated}

Hypothesis(related, classes) ==
    IF related = {} THEN "none"
    ELSE IF Cardinality(classes) >= 2 THEN "multi_stage" ELSE "shared_entity"

(* The emitted copy of an alert.  Alerts of one tick are told apart by the *)
(* length of the queue when they were handled: a longer queue came first.  *)
Line(iid, st, a, reasons, related) ==
    [id |-> iid, key |-> st.key, born |-> st.born, at |-> now,
     severity |-> a.severity, confidence |-> a.confidence,
     reasons |-> reasons, related |-> related,
     hypothesis |-> Hypothesis(related, st.classes), left |-> Len(queue)]

-----------------------------------------------------------------------------
Init ==
    /\ threat \in Threats
    /\ now = 0 /\ pc = "idle" /\ queue = <<>>
    /\ seq = 0 /\ open = <<>>
    /\ byKey = [k \in Key |-> NoId] /\ byEntity = [e \in Entity |-> {}]
    /\ out = {}
    /\ disk = [seq |-> 0, open |-> <<>>]
    /\ lines = [k \in Key |-> NoLine] /\ owner = {}
    /\ lost = [k \in Key |-> Never] /\ crowded = {}

(* _expire: incidents unseen for longer than the window, then the oldest   *)
(* of the rest down to the cap.  sorted() is stable and a dict keeps the   *)
(* order of insertion, so the smaller n goes first among equals.           *)
Stale(t) == {i \in DOMAIN open : t - open[i].lastSeen > Window}

Older(i, j) == \/ open[i].lastSeen < open[j].lastSeen
               \/ open[i].lastSeen = open[j].lastSeen /\ i.n < j.n

(* A mistake in Overflow: it makes room for an incident still to come.     *)
OverflowEarly(t) ==
    LET kept == DOMAIN open \ Stale(t)
    IN  {i \in kept : Cardinality({j \in kept : Older(j, i)})
                          <= Cardinality(kept) - MaxOpen}

Overflow(t) ==
    LET kept == DOMAIN open \ Stale(t)
    IN  {i \in kept : Cardinality({j \in kept : Older(j, i)})
                          < Cardinality(kept) - MaxOpen}

(* A mistake in Drop: by_key keeps naming the dropped incidents.           *)
DropKeepingKeys(D) ==
    /\ open' = [i \in DOMAIN open \ D |-> open[i]]
    /\ byEntity' = [e \in Entity |->
                        byEntity[e] \ {i \in D : open[i].entity = e}]
    /\ UNCHANGED byKey

(* _drop.  The id stays in the list of the alert's source address, if it   *)
(* was filed there: only the list of the incident's entity is cleaned.     *)
Drop(D) ==
    /\ open' = [i \in DOMAIN open \ D |-> open[i]]
    /\ byKey' = [k \in Key |->
                    IF byKey[k] \in D /\ open[byKey[k]].key = k
                    THEN NoId ELSE byKey[k]]
    /\ byEntity' = [e \in Entity |->
                        byEntity[e] \ {i \in D : open[i].entity = e}]

(* Detector.score calls process() with this tick's alerts, some time after *)
(* the tick before; the clock is read once per tick.                       *)
BeginTick(batch, gap) ==
    /\ pc = "idle" /\ now + gap <= MaxNow /\ seq + Len(batch) <= MaxSeq
    /\ now' = now + gap
    /\ Drop(Stale(now') \cup Overflow(now'))
    /\ queue' = batch /\ pc' = "handle"
    /\ crowded' = IF Cardinality(DOMAIN open \ Stale(now')) <= MaxOpen THEN crowded
                  ELSE crowded \cup {open[i].key : i \in Overflow(now')}
    /\ UNCHANGED <<seq, out, disk, lines, owner, lost>>

(* The incident an alert continues, if it is still open.                   *)
Live(k) ==
    /\ byKey[k] \in DOMAIN open
    /\ now - open[byKey[k]].lastSeen <= Window

(* _handle, first sight: _open_new.                                        *)
OpenNew ==
    /\ pc = "handle" /\ queue # <<>>
    /\ LET a   == Head(queue)
           st  == NewState(a)
           iid == [n |-> seq + 1, entity |-> st.entity]
           filed == {st.entity} \cup
                    IF a.src # NoHost /\ st.entity # Source(a.src)
                    THEN {Bare(a.src)} ELSE {}
       IN  /\ ~Live(st.key)
           /\ seq' = seq + 1
           /\ open' = [i \in DOMAIN open \cup {iid} |->
                          IF i = iid THEN st ELSE open[i]]
           /\ byKey' = [byKey EXCEPT ![st.key] = iid]
           /\ byEntity' = [e \in Entity |->
                              IF e \in filed THEN byEntity[e] \cup {iid}
                              ELSE byEntity[e]]
           /\ out' = out \cup
                {Line(iid, st, a, {"new"}, Related(iid, a, st.classes))}
    /\ queue' = Tail(queue)
    /\ UNCHANGED <<now, pc, disk, history>>

(* _handle, a repeat within the window: announced when something escalated *)
(* or the quiet period is over, folded silently otherwise.                 *)
Repeat ==
    /\ pc = "handle" /\ queue # <<>>
    /\ LET a   == Head(queue)
           iid == byKey[AggKey(a)]
           old == open[iid]
           Folded(emitted) == Merged(old, a, emitted)
           escalated == EscalationReasons(old, a)
           reasons == IF escalated = {} THEN {"continuation"} ELSE escalated
           quietOver == now - old.lastEmitted >= Quiet
       IN  /\ Live(AggKey(a))
           /\ \/ /\ escalated # {} \/ quietOver
                 /\ open' = [open EXCEPT ![iid] = Folded(now)]
                 /\ out' = out \cup
                      {Line(iid, Folded(now), a, reasons,
                            Related(iid, a, Folded(now).classes))}
              \/ /\ escalated = {} /\ ~quietOver
                 /\ open' = [open EXCEPT ![iid] = Folded(old.lastEmitted)]
                 /\ UNCHANGED out
    /\ queue' = Tail(queue)
    /\ UNCHANGED <<now, pc, seq, byKey, byEntity, disk, history>>

(* A mistake in FlushIncidents: the counter is not saved.                  *)
FlushWithoutSeq ==
    /\ pc = "handle" /\ queue = <<>>
    /\ disk' = [seq |-> 0, open |-> open]
    /\ pc' = IF out = {} THEN "idle" ELSE "write"
    /\ UNCHANGED <<now, queue, memory, out, history>>

(* flush(): a temporary file replaces incidents.json in one step, before   *)
(* process() returns, so before any line of this tick is written.          *)
FlushIncidents ==
    /\ pc = "handle" /\ queue = <<>>
    /\ disk' = [seq |-> seq, open |-> open]
    /\ pc' = IF out = {} THEN "idle" ELSE "write"
    /\ UNCHANGED <<now, queue, memory, out, history>>

(* The engine writes the emitted alerts one by one, sorted by severity,    *)
(* then confidence, then the order in which they were handled.             *)
Precedes(l, m) ==
    \/ l.severity > m.severity
    \/ /\ l.severity = m.severity
       /\ \/ l.confidence > m.confidence
          \/ l.confidence = m.confidence /\ l.left >= m.left

WriteLine ==
    /\ pc = "write"
    /\ \E l \in out :
        /\ \A m \in out : Precedes(l, m)
        /\ out' = out \ {l}
        /\ lines' = [lines EXCEPT ![l.key] =
                       [at |-> l.at, id |-> l.id,
                        escalated |-> l.reasons \subseteq Escalation]]
        /\ owner' = owner \cup {<<l.id, l.key, l.born>>}
        /\ crowded' = crowded \ {l.key}
    /\ pc' = IF out' = {} THEN "idle" ELSE "write"
    /\ UNCHANGED <<now, queue, memory, disk, lost>>

(* The process ends: killed, stopped, or out of an uncaught exception.     *)
(* Nothing of the aggregator is saved on the way out.                      *)
Crash ==
    /\ pc # "down" /\ pc' = "down"
    /\ seq' = 0 /\ open' = <<>> /\ queue' = <<>> /\ out' = {}
    /\ byKey' = [k \in Key |-> NoId] /\ byEntity' = [e \in Entity |-> {}]
    /\ lost' = [k \in Key |->
                  IF pc = "write" /\ \E l \in out : l.key = k
                  THEN now ELSE lost[k]]
    /\ UNCHANGED <<now, disk, lines, owner, crowded>>

(* load(): the indexes are rebuilt from the open incidents; the filing     *)
(* under an alert's source address is not part of the file.                *)
Restart ==
    /\ pc = "down" /\ pc' = "idle"
    /\ seq' = disk.seq /\ open' = disk.open
    /\ byKey' = [k \in Key |->
                   LET ids == {i \in DOMAIN disk.open : disk.open[i].key = k}
                   IN  IF ids = {} THEN NoId
                       ELSE CHOOSE i \in ids : \A j \in ids : j.n <= i.n]
    /\ byEntity' = [e \in Entity |->
                      {i \in DOMAIN disk.open : disk.open[i].entity = e}]
    /\ UNCHANGED <<now, queue, out, disk, history>>

Batch == UNION {[1 .. n -> threat] : n \in 0 .. MaxBatch}

Step ==
    \/ \E batch \in Batch, gap \in 1 .. Window + 1 : BeginTick(batch, gap)
    \/ OpenNew
    \/ Repeat
    \/ FlushIncidents
    \/ WriteLine
    \/ Crash
    \/ Restart

Next == Step /\ UNCHANGED threat

Spec == Init /\ [][Next]_vars

-----------------------------------------------------------------------------
(* Type correctness of every variable.                                     *)
State ==
    [entity : Entity, key : Key, lastSeen : Nat, lastEmitted : Nat,
     severity : 0 .. 2, confidence : Nat,
     subtypes : SUBSET {a.subtype : a \in Alert}, classes : SUBSET Class,
     partners : Seq(Host), peak : Nat \cup {NoRate}, born : Nat,
     opener : Address \cup {NoHost}]

OutLine ==
    [id : Id, key : Key, born : Nat, at : Nat,
     severity : 0 .. 2, confidence : Nat, reasons : SUBSET Reason,
     related : SUBSET Id,
     hypothesis : {"none", "shared_entity", "multi_stage"}, left : Nat]

IncidentMap(f) ==
    DOMAIN f \subseteq Id /\ \A i \in DOMAIN f : f[i] \in State

TypeOK ==
    /\ threat \in Threats
    /\ now \in Nat /\ pc \in {"idle", "handle", "write", "down"}
    /\ queue \in Seq(Alert)
    /\ seq \in Nat /\ IncidentMap(open)
    /\ byKey \in [Key -> Id \cup {NoId}]
    /\ byEntity \in [Entity -> SUBSET Id]
    /\ out \subseteq OutLine
    /\ disk.seq \in Nat /\ IncidentMap(disk.open)
    /\ lines \in [Key -> [at : Nat \cup {Never}, id : Id \cup {NoId}, escalated : BOOLEAN]]
    /\ owner \subseteq Id \X Key \X Nat
    /\ lost \in [Key -> Nat \cup {Never}] /\ crowded \subseteq Key

(* An incident id in alerts.jsonl always means the same incident: a crash  *)
(* never makes the engine hand an id it has published to another event.    *)
IdsNeverReissued ==
    \A x, y \in owner : x[1] = y[1] => x = y

(* The indexes describe the open incidents exactly, through expiry, the    *)
(* cap and reloading: at most one open incident per key, found by by_key,  *)
(* each filed under its entity, and no list naming an open incident but    *)
(* that of its entity and that of the source it was opened for.  A list    *)
(* may still name incidents that are closed.                               *)
IndexCoherent ==
    /\ TypeOK
    /\ pc # "down" =>
      /\ \A i \in DOMAIN open : byKey[open[i].key] = i /\ i \in byEntity[open[i].entity]
      /\ \A k \in Key : byKey[k] # NoId => byKey[k] \in DOMAIN open /\ open[byKey[k]].key = k
      /\ \A e \in Entity : \A i \in byEntity[e] \cap DOMAIN open :
            e \in {open[i].entity, Bare(open[i].opener)}

(* Silence is always earned.  An event is kept quiet on the strength of    *)
(* its last emission, and that emission is in alerts.jsonl, about to be    *)
(* written, or was lost when the process died between flush and write.     *)
SilenceIsAccounted ==
    LET Accounted(f, pending) ==
          \A i \in DOMAIN f :
            \/ lines[f[i].key].at = f[i].lastEmitted
            \/ lost[f[i].key] = f[i].lastEmitted
            \/ \E l \in pending : l.key = f[i].key /\ l.at = f[i].lastEmitted
    IN  /\ pc # "down" => Accounted(open, out)
        /\ Accounted(disk.open, IF pc = "write" THEN out ELSE {})

(* Correlation is sound and, up to MaxRelated, complete: a line links only *)
(* open incidents that share a name with the alert, their entity or the    *)
(* source they were opened for, and leaves out an adjacent one filed under *)
(* the alert's entity only when it is full.  A source 0.0.0.0 is a name    *)
(* here, although it is nobody's.  The entity index must survive dropping  *)
(* and reloading for this, while its lists still name closed incidents.    *)
Names(a) == {EntityOf(a)} \cup {Bare(h) : h \in {a.src, a.dst} \ {NoHost}}

Known(st) ==
    {st.entity} \cup {Bare(h) : h \in {st.opener} \ {NoHost}}
                \cup {Bare(h) : h \in {g \in Address : st.entity = Source(g)}}

LinksAreRight ==
    [][\A l \in out' \ out :
        LET a    == Head(queue)
            own  == open'[l.id]
            Same == {i \in DOMAIN open \ {l.id} :
                        /\ open[i].entity = EntityOf(a)
                        /\ ChainAdjacent(own.classes, open[i].classes)}
        IN  /\ l.related \subseteq DOMAIN open \ {l.id}
            /\ \A i \in l.related : Known(open[i]) \cap Names(a) # {}
            /\ (Same \subseteq l.related \/ Cardinality(l.related) >= MaxRelated)]_vars

(* Folding: a line that reports nothing new comes at least the quiet       *)
(* period after the previous line about the same event, across restarts,   *)
(* unless the cap pushed the incident out in between.  Within one tick an  *)
(* escalation may be written before the first sight.                       *)
QuietBetweenLines ==
    [][\A k \in Key :
         lines'[k] # lines[k] /\ ~lines'[k].escalated /\ lines[k].at # Never
         => \/ lines'[k].at - lines[k].at >= Quiet
            \/ k \in crowded
            \/ /\ lines[k].escalated /\ lines[k].id = lines'[k].id
               /\ lines[k].at = lines'[k].at]_vars

=============================================================================
