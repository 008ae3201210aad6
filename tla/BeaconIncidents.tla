-------------------------- MODULE BeaconIncidents --------------------------
(***************************************************************************)
(* The beacon tracker and the incident aggregator in one engine, as        *)
(* Detector.score (unipe_ai/models/detector.py) joins them: what a tick    *)
(* raises goes through the aggregator in the same tick, on the same clock. *)
(* The tracker holds back a repeat for its cooldown, the aggregator for    *)
(* its quiet period; the aggregator remembers across a restart what the    *)
(* tracker forgets.  Other detectors raise nothing here, and no beacon     *)
(* alert is below min_confidence.                                          *)
(***************************************************************************)
EXTENDS BeaconTracker

CONSTANTS
    IncidentWindow,   \* window_s of the aggregator
    QuietPeriod,      \* quiet_s of the aggregator: detector.alert_cooldown_s
    MaxIncidents,     \* bound: incidents opened in one history
    NoId

(* config.toml and the defaults of the two components.                     *)
ASSUME PacingAssumption ==
    /\ IncidentWindow = Cooldown /\ QuietPeriod \in 1..Cooldown
    /\ MaxIncidents \in Nat
    /\ \A s \in Sites : s.mortal \in BOOLEAN    \* whether the engine may die

VARIABLES
    \* the aggregator and its files
    pc, queue, seq, open, byKey, byEntity, out, disk,
    lines, owner, lost, crowded,
    started      \* the wall clock when this engine started

files == <<pc, queue, seq, open, byKey, byEntity, out, disk, lines, owner, lost, crowded>>
all   == <<vars, files, started>>

(* _alert_from_stats: the severity says how flat the interval is.          *)
AlertOf(p, severity) ==
    [class |-> "c2_beaconing", subtype |-> "periodic_beacon", src |-> "local",
     dst |-> p, flow |-> p, port |-> 0, severity |-> severity,
     confidence |-> 1, rate |-> -1]

BeaconAlerts == {AlertOf(p, s) : p \in Peer, s \in {1, 2}}

Flat(p, w) == Regular(w, Need(p), Limit(p) \div 2)

(* A peer that is raised called in this tick, so its windows are kept.     *)
Raise(p) == AlertOf(p, IF Flat(p, windows'[p]) THEN 2 ELSE 1)

Aggregator == INSTANCE IncidentAggregator WITH
    Host <- Peer \cup {"local"}, NoHost <- "", AnyHost <- "0.0.0.0",
    Threats <- {BeaconAlerts}, Window <- IncidentWindow, Quiet <- QuietPeriod,
    MaxOpen <- Cardinality(Peer), MaxRelated <- 1, MaxPartners <- 32,
    MaxBatch <- Cardinality(Peer), MaxNow <- Start + MaxIncidents + 100,
    MaxSeq <- MaxIncidents, threat <- BeaconAlerts

ASSUME NoIdAssumption == NoId \notin Aggregator!Id

KeyOf(p) == Aggregator!AggKey(AlertOf(p, 1))

JoinedInit ==
    /\ Init /\ started = Start
    /\ pc = "idle" /\ queue = <<>> /\ seq = 0 /\ open = <<>>
    /\ byKey = [k \in Aggregator!Key |-> NoId]
    /\ byEntity = [e \in Aggregator!Entity |-> {}] /\ out = {}
    /\ disk = [seq |-> 0, open |-> <<>>]
    /\ lines = [k \in Aggregator!Key |-> Aggregator!NoLine] /\ owner = {}
    /\ lost = [k \in Aggregator!Key |-> Aggregator!Never] /\ crowded = {}

(* Detector.score: with no features nothing is called, not even process(). *)
Score ==
    /\ pc = "idle"
    /\ \/ Listen /\ Aggregator!BeginTick(SetToSeq({Raise(p) : p \in raised'}), 1)
       \/ NoFeatures /\ UNCHANGED files
    /\ UNCHANGED <<site, started>>

Process ==
    /\ \/ Aggregator!OpenNew \/ Aggregator!Repeat
       \/ Aggregator!FlushIncidents \/ Aggregator!WriteLine
    /\ UNCHANGED <<vars, started>>

(* The engine dies: the tracker has no file, and what it heard is gone.    *)
Die ==
    /\ site.mortal /\ Aggregator!Crash
    /\ windows' = [p \in Peer |-> <<>>] /\ lastAlert' = [p \in Peer |-> 0]
    /\ raised' = {} /\ called' = [p \in Peer |-> <<>>]
    /\ heard' = [p \in Peer |-> 0] /\ alerted' = [p \in Peer |-> 0]
    /\ UNCHANGED <<site, now, started>>

StayDown ==
    /\ pc = "down" /\ now < site.end /\ now' = now + 1
    /\ UNCHANGED <<site, tracker, ghosts, files, started>>

StartAgain ==
    /\ Aggregator!Restart /\ started' = now
    /\ UNCHANGED vars

JoinedNext == Score \/ Process \/ Die \/ StayDown \/ StartAgain

JoinedSpec == JoinedInit /\ [][JoinedNext]_all

-----------------------------------------------------------------------------
(* Whatever the tracker raises is in alerts.jsonl by the end of the tick.  *)
(* The aggregator keeps quiet only about what an engine before this one    *)
(* had emitted, less than the quiet period ago: within one life the two    *)
(* pacings never swallow a beacon between them.                            *)
RaiseIsAnnounced ==
    pc = "idle" => \A p \in raised :
        \/ lines[KeyOf(p)].at = now
        \/ /\ byKey[KeyOf(p)] \in DOMAIN open
           /\ open[byKey[KeyOf(p)]].lastEmitted <= started
           /\ now - open[byKey[KeyOf(p)]].lastEmitted < QuietPeriod

(* The cooldown and the incident window are both 300 s.  A beacon that     *)
(* goes on for an engine's life is therefore a continuation only when it   *)
(* is raised on the very second its cooldown ends, and a new incident any  *)
(* later: its incidents neither overlap nor are two raises ever closer.    *)
ContinuesOnlyOnTheDot ==
    [][\A p \in Peer :
        LET before == lines[KeyOf(p)]
            after  == lines'[KeyOf(p)]
        IN  after # before /\ before.at > started /\ before.at # now =>
              (after.id = before.id <=> after.at - before.at = Cooldown)]_all

=============================================================================
