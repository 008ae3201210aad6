---------------------------- MODULE EntityStore ----------------------------
(***************************************************************************)
(* unipe_ai/entities.py: the dossiers the engine keeps about every address *)
(* it has seen, and entities.json.  The engine's loop drives it: a tick    *)
(* observes its flows, notes the alerts they led to, then flushes.         *)
(*                                                                         *)
(* Flows are stamped with the wall clock; an alert with the time of the    *)
(* traffic it is about, which is earlier.  Every collection of a dossier,  *)
(* and the store itself, is a dict cut down to its highest ranks; a dict   *)
(* keeps its order of insertion and sorted() is stable, so among equals    *)
(* the one inserted first goes.                                            *)
(*                                                                         *)
(* Left out: counts kept only for display, texts, and the cut of the seven *)
(* threat classes to twelve.                                               *)
(***************************************************************************)
EXTENDS Integers, FiniteSets, Sequences, SequencesExt

CONSTANTS
    Host, NoHost,     \* addresses; an empty or wildcard address
    NoPort, NoName,   \* a feature without a service port, without a name
    Feature,          \* flows a tick may bring: src, dst, port, name
    Alert,            \* alerts: src, dst, class, severity, age of the traffic
    MaxEntities, MaxPartners, MaxPorts, MaxDomains,
    MaxRefs,          \* MAX_ALERT_REFS
    FlushEvery,       \* FLUSH_EVERY_S
    MaxFlows,         \* bound: flows in one tick
    MaxAlerts,        \* bound: alerts in one tick
    MaxNow            \* bound: last reading of the clock

ASSUME SizeAssumption ==
    /\ MaxEntities \in Nat \ {0} /\ MaxPartners \in Nat \ {0}
    /\ MaxPorts \in Nat \ {0} /\ MaxDomains \in Nat \ {0} /\ MaxRefs \in Nat \ {0}
    /\ FlushEvery \in Nat \ {0}
    /\ MaxFlows \in Nat /\ MaxAlerts \in Nat /\ MaxNow \in Nat
    /\ NoHost \notin Host

ASSUME InputAssumption ==
    /\ \A f \in Feature : f.src \in Host \cup {NoHost} /\ f.dst \in Host \cup {NoHost}
    /\ \A a \in Alert :
         /\ a.src \in Host \cup {NoHost} /\ a.dst \in Host \cup {NoHost}
         /\ a.severity \in 0 .. 2 /\ a.age \in Nat

VARIABLES
    now,        \* wall clock, one value per tick
    pc,         \* idle, alerts, flush, failing (a KeyError escaped), down
    alerts,     \* alerts of this tick still to be noted
    store,      \* _entities, in order of insertion
    dirty,      \* _dirty
    lastFlush,  \* _last_flush
    disk        \* the dossiers in entities.json

vars == <<now, pc, alerts, store, dirty, lastFlush, disk>>

-----------------------------------------------------------------------------
(* Dicts: sequences of records with a key and a rank.                      *)

Keys(d) == {d[i].key : i \in DOMAIN d}

Place(d, k) == CHOOSE i \in DOMAIN d : d[i].key = k

(* The n entries that sorted() puts first.                                 *)
Lowest(d, n) ==
    {i \in DOMAIN d :
        Cardinality({j \in DOMAIN d : \/ d[j].rank < d[i].rank
                                      \/ d[j].rank = d[i].rank /\ j < i}) < n}

(* A mistake in CutTo: what was inserted first goes, whatever its rank.    *)
CutToNewest(d, n) == IF Len(d) <= n THEN d ELSE SubSeq(d, Len(d) - n + 1, Len(d))

(* The k-th smallest of a set of positions.                                *)
Nth(kept, k) == CHOOSE i \in kept : Cardinality({j \in kept : j <= i}) = k

CutTo(d, n) ==
    LET kept == DOMAIN d \ Lowest(d, Len(d) - n)
    IN  IF Len(d) <= n THEN d ELSE [k \in 1 .. n |-> d[Nth(kept, k)]]

Put(d, k, rank) ==
    IF k \in Keys(d) THEN [d EXCEPT ![Place(d, k)] = [key |-> k, rank |-> rank]]
    ELSE Append(d, [key |-> k, rank |-> rank])

(* A counted key: its rank is how often it was put.                        *)
Count(d, k) ==
    Put(d, k, IF k \in Keys(d) THEN d[Place(d, k)].rank + 1 ELSE 1)

-----------------------------------------------------------------------------
(* One dossier: key is the address, rank its last_seen.                    *)

Priority(severity, count, classes) ==
    IF severity = 2 /\ (count >= 2 \/ classes >= 2) THEN "critical"
    ELSE IF severity = 2 \/ (severity = 1 /\ count >= 3) THEN "high"
    ELSE IF severity = 1 \/ count >= 1 THEN "medium"
    ELSE "low"

Blank(h, t) ==
    [key |-> h, rank |-> t, first |-> t, classes |-> {}, severity |-> 0,
     priority |-> "low", partners |-> <<>>, ports |-> <<>>, domains |-> <<>>,
     refs |-> <<>>, count |-> 0]

(* _touch: a new dossier is trimmed away at once when it is the oldest.    *)
Touch(s, h, t) ==
    IF h \in Keys(s)
    THEN [s EXCEPT ![Place(s, h)].rank = IF @ >= t THEN @ ELSE t]
    ELSE CutTo(Append(s, Blank(h, t)), MaxEntities)

(* One endpoint of a flow.                                                 *)
ObserveEnd(s, h, peer, f, t) ==
    LET i == Place(s, h)
        partners == IF peer = NoHost THEN s[i].partners
                    ELSE CutTo(Put(s[i].partners, peer, t), MaxPartners)
        ports    == IF f.port = NoPort THEN s[i].ports
                    ELSE CutTo(Count(s[i].ports, f.port), MaxPorts)
        domains  == IF f.name = NoName THEN s[i].domains
                    ELSE CutTo(Put(s[i].domains, f.name, t), MaxDomains)
    IN  [s EXCEPT ![i].partners = partners, ![i].ports = ports,
                  ![i].domains = domains]

Observe(s, f, t) ==
    LET atSrc == IF f.src = NoHost THEN s
                 ELSE ObserveEnd(Touch(s, f.src, t), f.src, f.dst, f, t)
    IN  IF f.dst = NoHost THEN atSrc
        ELSE ObserveEnd(Touch(atSrc, f.dst, t), f.dst, f.src, f, t)

(* A batch, flow by flow.                                                  *)
ObserveAll(s, flows, t) ==
    LET after[i \in 0 .. Len(flows)] ==
           IF i = 0 THEN s ELSE Observe(after[i - 1], flows[i], t)
    IN  after[Len(flows)]

Ref(a) == [at |-> now - a.age, class |-> a.class, severity |-> a.severity]

(* note_alert on one dossier, its priority computed from count alerts.     *)
NotedWith(d, a, peer, count) ==
    LET classes  == d.classes \cup {a.class}
        severity == IF a.severity >= d.severity THEN a.severity ELSE d.severity
        refs     == Append(d.refs, Ref(a))
    IN  [d EXCEPT !.classes = classes, !.severity = severity,
           !.partners = IF peer = NoHost THEN @
                        ELSE CutTo(Put(@, peer, Ref(a).at), MaxPartners),
           !.refs = SubSeq(refs, IF Len(refs) > MaxRefs THEN 2 ELSE 1, Len(refs)),
           !.count = @ + 1,
           !.priority = Priority(severity, count, Cardinality(classes))]

(* A mistake in Noted: the alert itself does not count yet.                *)
NotedEarly(d, a, peer) == NotedWith(d, a, peer, d.count)

Noted(d, a, peer) == NotedWith(d, a, peer, d.count + 1)

Peer(a, h) == IF h = a.src THEN a.dst ELSE a.src

(* A mistake in NoteEnd: only addresses with a dossier are noted.          *)
NoteEndKnown(s, h, a) ==
    IF h = NoHost \/ h \notin Keys(s) THEN s
    ELSE LET t == Touch(s, h, Ref(a).at)
         IN  [t EXCEPT ![Place(t, h)] = Noted(@, a, Peer(a, h))]

(* A dossier that was trimmed as soon as it was touched is updated where   *)
(* nobody sees it; if the alert names a peer, _add_partner looks it up in  *)
(* the store and raises a KeyError.                                        *)
NoteEnd(s, h, a) ==
    LET t == Touch(s, h, Ref(a).at)
    IN  IF h = NoHost \/ h \notin Keys(t) THEN s
        ELSE [t EXCEPT ![Place(t, h)] = Noted(@, a, Peer(a, h))]

NoteFails(s, h, a) ==
    h # NoHost /\ Peer(a, h) # NoHost /\ h \notin Keys(Touch(s, h, Ref(a).at))

-----------------------------------------------------------------------------
Init ==
    /\ now = 0 /\ pc = "idle" /\ alerts = <<>>
    /\ store = <<>> /\ dirty = FALSE /\ lastFlush = -FlushEvery
    /\ disk = <<>>

Batches(S, n) == UNION {[1 .. k -> S] : k \in 0 .. n}

Hosts(s) == (UNION {{s[i].src, s[i].dst} : i \in DOMAIN s}) \ {NoHost}

(* A batch arrives: observe_flows, with the alerts the detectors raise     *)
(* about the addresses of this batch.                                      *)
ObserveFlows(flows, raised) ==
    /\ pc = "idle" /\ now < MaxNow
    /\ Hosts(raised) \subseteq Hosts(flows)
    /\ now' = now + 1
    /\ store' = ObserveAll(store, flows, now')
    /\ dirty' = TRUE
    /\ alerts' = raised /\ pc' = "alerts"
    /\ UNCHANGED <<lastFlush, disk>>

NoteAlert ==
    /\ pc = "alerts" /\ alerts # <<>>
    /\ LET a == Head(alerts)
           atSrc == NoteEnd(store, a.src, a)
       IN  \/ /\ ~NoteFails(store, a.src, a) /\ ~NoteFails(atSrc, a.dst, a)
              /\ store' = NoteEnd(atSrc, a.dst, a)
              /\ dirty' = TRUE /\ alerts' = Tail(alerts) /\ UNCHANGED pc
           \/ /\ NoteFails(store, a.src, a) \/ NoteFails(atSrc, a.dst, a)
              /\ store' = IF NoteFails(store, a.src, a) THEN store ELSE atSrc
              /\ alerts' = <<>> /\ pc' = "failing" /\ UNCHANGED dirty
    /\ UNCHANGED <<now, lastFlush, disk>>

Due == dirty /\ now - lastFlush >= FlushEvery

Save ==
    /\ store' = CutTo(store, MaxEntities) /\ disk' = store'
    /\ dirty' = FALSE /\ lastFlush' = now

(* A mistake in Flush: the dirt is forgotten when it is too early to write.*)
FlushForgets ==
    /\ pc = "alerts" /\ alerts = <<>> /\ pc' = "idle"
    /\ \/ Due /\ Save
       \/ ~Due /\ dirty' = FALSE /\ UNCHANGED <<store, lastFlush, disk>>
    /\ UNCHANGED <<now, alerts>>

(* flush() at the end of a tick: at most once every FLUSH_EVERY_S.         *)
Flush ==
    /\ pc = "alerts" /\ alerts = <<>> /\ pc' = "idle"
    /\ \/ Due /\ Save
       \/ ~Due /\ UNCHANGED <<store, dirty, lastFlush, disk>>
    /\ UNCHANGED <<now, alerts>>

(* The loop ends, interrupted anywhere or by the exception: the finally    *)
(* clause flushes whatever there is.                                       *)
Stop ==
    /\ pc # "down" /\ pc' = "down" /\ alerts' = <<>>
    /\ Save
    /\ UNCHANGED now

(* The process is killed: memory is gone, the file is whole.               *)
Kill ==
    /\ pc # "down" /\ pc' = "down" /\ alerts' = <<>>
    /\ store' = <<>> /\ dirty' = FALSE /\ lastFlush' = -FlushEvery
    /\ UNCHANGED <<now, disk>>

Load ==
    /\ pc = "down" /\ pc' = "idle"
    /\ store' = CutTo(disk, MaxEntities)
    /\ dirty' = FALSE /\ lastFlush' = -FlushEvery
    /\ UNCHANGED <<now, alerts, disk>>

Next ==
    \/ \E flows \in Batches(Feature, MaxFlows), raised \in Batches(Alert, MaxAlerts) :
          ObserveFlows(flows, raised)
    \/ NoteAlert
    \/ Flush
    \/ Stop
    \/ Kill
    \/ Load

Spec == Init /\ [][Next]_vars

-----------------------------------------------------------------------------
(* Type correctness, with the caps of every collection.                    *)
Dict(d, n) ==
    /\ Len(d) <= n
    /\ \A i, j \in DOMAIN d : d[i].key = d[j].key => i = j

TypeOK ==
    /\ now \in Nat /\ pc \in {"idle", "alerts", "failing", "down"}
    /\ alerts \in Seq(Alert) /\ dirty \in BOOLEAN /\ lastFlush \in Int
    /\ \A s \in {store, disk} :
         /\ Dict(s, MaxEntities)
         /\ \A i \in DOMAIN s :
              /\ s[i].key \in Host /\ s[i].rank \in Int /\ s[i].first \in Int
              /\ Dict(s[i].partners, MaxPartners) /\ Keys(s[i].partners) \subseteq Host
              /\ Dict(s[i].ports, MaxPorts) /\ Dict(s[i].domains, MaxDomains)
              /\ Len(s[i].refs) <= MaxRefs /\ s[i].count >= Len(s[i].refs)

(* A dossier is of one piece, in memory and in the file: its collections   *)
(* are within their caps, its priority is                                  *)
(* that of the alerts it counts, it keeps the latest of them up to the     *)
(* cap, and its severity is at least theirs.                               *)
DossierCoherent ==
    /\ TypeOK
    /\ \A s \in {store, disk} : \A i \in DOMAIN s :
           LET d == s[i]
           IN  /\ d.priority = Priority(d.severity, d.count, Cardinality(d.classes))
               /\ Len(d.refs) = IF d.count > MaxRefs THEN MaxRefs ELSE d.count
               /\ \A n \in DOMAIN d.refs : d.refs[n].severity <= d.severity
                                           /\ d.refs[n].class \in d.classes
                                           /\ d.refs[n].at <= d.rank

(* Only the oldest go: when a tick costs an address its dossier, or makes  *)
(* it start over, the store is full of others seen since.                  *)
Dossier(s, h) == s[Place(s, h)]

EvictsOnlyOldest ==
    [][pc # "down" /\ pc' # "down" =>
        \A h \in Keys(store) :
          \/ /\ h \in Keys(store')
             /\ Dossier(store', h).first = Dossier(store, h).first
             /\ Dossier(store', h).count >= Dossier(store, h).count
          \/ /\ Len(store') = MaxEntities
             /\ \A k \in Keys(store') :
                  Dossier(store', k).rank >= Dossier(store, h).rank]_vars

(* An alert reaches the dossiers of both its ends.  An end is missed only  *)
(* when the store is full of others that were all seen after the traffic,  *)
(* or, if it had become the oldest, to make room for the other end.        *)
LostOnlyWhenOlder ==
    [][pc = "alerts" /\ pc' = "alerts" =>
        LET a == Head(alerts)
            Reached(h) == h \in Keys(store') /\ Last(Dossier(store', h).refs) = Ref(a)
            Others == {Dossier(store', k).rank : k \in Keys(store') \ {a.src, a.dst}}
        IN  \A h \in {a.src, a.dst} \ {NoHost} :
              \/ Reached(h)
              \/ Len(store') = MaxEntities /\ \A t \in Others : t > Ref(a).at
              \/ /\ h = a.src /\ a.dst # NoHost /\ Reached(a.dst)
                 /\ Len(store') = MaxEntities /\ \A t \in Others : t >= Ref(a).at]_vars

(* What is not dirty is saved: memory and file agree, so a kill then costs *)
(* nothing.                                                                *)
CleanMeansSaved == pc # "down" /\ ~dirty => store = disk

-----------------------------------------------------------------------------
(* What the guide says of note_alert and the code does not do when a tick  *)
(* brings more addresses than the store holds.                             *)

(* note_alert updates the partners of a dossier, and never fails.          *)
NoteAlertSucceeds == pc # "failing"

=============================================================================
