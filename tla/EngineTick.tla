----------------------------- MODULE EngineTick -----------------------------
(***************************************************************************)
(* The loop of the engine (engine.py): a batch comes in, the window hands  *)
(* over the flows with traffic, the heaviest are scored, alerts are        *)
(* written with notes on what the sensor could not see, and the totals of  *)
(* the tap and of the tick are kept and published as the status.           *)
(*                                                                         *)
(* A flow is handed over in any tick or in none, and is never recycled.    *)
(* The tick is cut in two where the files can be seen, or the engine be    *)
(* interrupted, in between.                                                *)
(***************************************************************************)
EXTENDS Detection, Sequences, SequencesExt

CONSTANTS
    Scenarios,          \* sets of flows, one of which the network carries
    MaxScorePerTick,    \* MAX_SCORE_PER_TICK
    MinSamples,         \* TapDirection.min_samples
    MinMinorityShare,   \* TapDirection.min_minority_share, in percent
    MaxFlows,           \* bound: flows of one tick
    MaxTicks            \* bound

ASSUME EngineAssumption ==
    /\ MaxScorePerTick \in Nat \ {0} /\ MinSamples \in Nat \ {0}
    /\ MinMinorityShare \in 0 .. 100
    /\ MaxFlows \in Nat /\ MaxTicks \in Nat

(* The features of a flow; one without packets is not handed over.         *)
Fields == {"proto", "src", "sport", "dst", "dport", "packets", "pps", "ms", "syn", "ack",
           "ttl", "total", "query", "hello", "traits", "ml", "new", "at"}

ASSUME FlowAssumption ==
    \A S \in Scenarios : \A f \in S :
        /\ Fields \subseteq DOMAIN f
        /\ f.sport \in Nat /\ f.dport \in Nat /\ f.packets \in Nat \ {0} /\ f.pps \in Nat
        /\ f.syn \in Nat /\ f.ack \in Nat /\ f.ttl \in Nat /\ f.total \in Nat
        /\ f.ml \in 0 .. 100
        /\ f.traits \subseteq {"known_bad_ja3", "legacy_tls_version", "tls_without_sni"}

VARIABLES
    network,     \* the flows there are
    batch,       \* what the window has handed over, in the order of the map
    known,       \* flows handed over before: no longer is_new_flow
    phase,       \* "gather", "written" or "stopped"
    toServer, toClient, message,   \* TapDirection
    dropped,     \* Throughput.flows_dropped_cap
    written,     \* the alerts of this tick, each with its notes
    status,      \* status.json
    missed,      \* new flows the cap has dropped (auxiliary)
    lost,        \* how many flows the cap has dropped (auxiliary)
    ticks        \* auxiliary, for the bound

tap == <<toServer, toClient, message>>
vars == <<network, batch, known, phase, tap, dropped, written, status, missed, lost, ticks>>

-----------------------------------------------------------------------------
(* The heaviest flows first, those of one weight in their order, when      *)
(* there are too many.                                                     *)
Place(b, i) ==
    Cardinality({j \in DOMAIN b :
        b[j].packets > b[i].packets \/ (b[j].packets = b[i].packets /\ j <= i)})
Capped(b) ==
    IF Len(b) <= MaxScorePerTick THEN b
    ELSE [n \in 1 .. MaxScorePerTick |-> b[CHOOSE i \in DOMAIN b : Place(b, i) = n]]

Features(b) == {[b[i] EXCEPT !.at = i] : i \in DOMAIN b}
Scored(b) == Score(Features(Capped(b)))

(* TapDirection.snapshot.                                                  *)
OneDirectional(s, c) ==
    s + c >= MinSamples /\ 100 * Min({s, c}) < MinMinorityShare * (s + c)
Snapshot ==
    [oneWay |-> OneDirectional(toServer, toClient), message |-> message,
     total |-> toServer + toClient]

(* coverage_notes: which of the conditional ones.                          *)
CoverageNotes(t, drops) ==
    {n \in {"one_way", "not_classified", "drops", "degraded"} :
        \/ n = "one_way" /\ t.oneWay
        \/ n = "not_classified" /\ ~t.oneWay /\ t.total < MinSamples
        \/ n = "drops" /\ drops > 0
        \/ n = "degraded" /\ (drops > 0 \/ t.oneWay)}

Status(t, drops, running) ==
    [running |-> running, dropped |-> drops, tap |-> t,
     degraded |-> drops > 0 \/ t.oneWay, notes |-> CoverageNotes(t, drops)]

NoStatus == [running |-> FALSE, dropped |-> 0,
             tap |-> [oneWay |-> FALSE, message |-> "", total |-> 0],
             degraded |-> FALSE, notes |-> {}]

Init ==
    /\ network \in Scenarios
    /\ batch = <<>> /\ known = {} /\ phase = "gather"
    /\ toServer = 0 /\ toClient = 0 /\ message = ""
    /\ dropped = 0 /\ written = {} /\ status = NoStatus
    /\ missed = {} /\ lost = 0 /\ ticks = 0

-----------------------------------------------------------------------------
(* The window finds traffic of one more flow; what it hands over is known  *)
(* to it from then on, scored or not.                                      *)
HandOver ==
    /\ phase = "gather" /\ Len(batch) < MaxFlows /\ ticks < MaxTicks
    /\ \E f \in network :
        /\ FlowId(f) \notin {FlowId(h) : h \in ToSet(batch)}
        /\ batch' = Append(batch, [f EXCEPT !.new = FlowId(f) \notin known])
        /\ known' = known \cup {FlowId(f)}
    /\ UNCHANGED <<network, phase, tap, dropped, written, status, missed, lost, ticks>>

Excess == Len(batch) - Len(Capped(batch))

(* Scoring and writing, with the drops of this tick.                       *)
WriteAlerts ==
    /\ phase = "gather" /\ phase' = "written" /\ ticks < MaxTicks
    /\ missed' = missed \cup {FlowId(f) : f \in {h \in ToSet(batch) \ ToSet(Capped(batch)) : h.new}}
    /\ lost' = lost + Excess
    /\ written' = {[alert |-> a, notes |-> CoverageNotes(Snapshot, dropped + Excess)] :
                    a \in Scored(batch)}
    /\ UNCHANGED <<network, batch, known, tap, dropped, status, ticks>>

(* A conversation is counted when it is new and its ports tell which side  *)
(* is the server; the message stays once there is one.  The mistake counts *)
(* its windows.                                                            *)
Counted(fs) ==
    /\ toServer' = toServer + Cardinality({f \in fs : f.dport < f.sport})
    /\ toClient' = toClient + Cardinality({f \in fs : f.dport > f.sport})
    /\ message' = IF ~OneDirectional(toServer', toClient') THEN message
                  ELSE IF toClient' > toServer' THEN "replies inbound" ELSE "requests outbound"
NoteWindows == Counted(ToSet(Capped(batch)))
Note == Counted({f \in ToSet(Capped(batch)) : f.new})

Account ==
    /\ phase = "written" /\ phase' = "gather"
    /\ Note
    /\ dropped' = dropped + Excess
    /\ status' = Status(Snapshot', dropped', TRUE)
    /\ batch' = <<>> /\ written' = {} /\ ticks' = ticks + 1
    /\ UNCHANGED <<network, known, missed, lost>>

(* Ctrl-C, or an exception in the tick: the last status is written from    *)
(* what has been accounted for.                                            *)
Interrupt ==
    /\ phase # "stopped" /\ phase' = "stopped"
    /\ status' = Status(Snapshot, dropped, FALSE)
    /\ UNCHANGED <<network, batch, known, tap, dropped, written, missed, lost, ticks>>

Next == HandOver \/ WriteAlerts \/ Account \/ Interrupt

Spec == Init /\ [][Next]_vars

-----------------------------------------------------------------------------
(* A batch means the same in every tick: what is said of batches is said   *)
(* of those of the first.                                                  *)
FirstBatch == phase = "gather" /\ ticks = 0

(* Whom the alerts accuse and whom they defend.                            *)
Named(alerts) ==
    {<<"victim", a.dst>> : a \in {b \in alerts : b.subtype \in FloodSubtypes}}
    \cup {<<"scanner", a.src>> : a \in {b \in alerts : b.class = "recon_scanning"}}

(* One more packet of an attack hides no attack: for every threshold on a  *)
(* ratio or an average, for the alternatives of fan-in, and for the cap,   *)
(* who is named for a batch is named for one with a single packet more.    *)
SinglePacket(f) == f.packets = 1 /\ (SynOnly(f) \/ f.proto # "tcp")

AttackNotHidden ==
    [][FirstBatch /\ HandOver /\ SinglePacket(Last(batch'))
         => Named(Scored(batch)) \subseteq Named(Scored(batch'))]_vars

(* "a flood already reported per destination": signs of spoofing are kept  *)
(* back only for a flood that is itself reported, after every filter.      *)
SpoofingNotLost ==
    FirstBatch =>
        LET out == Scored(batch) IN
        \A s \in Spoofing(Features(Capped(batch))) :
            \/ \E a \in out : Key(a) = Key(s)
            \/ /\ s.subtype \in SpoofNoise
               /\ \E a \in out : a.subtype \in FloodSubtypes /\ a.dst = s.dst

(* The order in which the kernel map is read does not matter to what is    *)
(* reported, but for the source a martian_source names and the protocol in *)
(* the id of a scan, which are those of the first flow.  Swaps with the    *)
(* first reach every order.                                                *)
Outline(alerts) ==
    {CASE a.subtype = "martian_source" -> <<a.subtype, "", a.dst, 0>>
       [] a.class = "recon_scanning"   -> <<a.subtype, a.src, a.dst, a.dport>>
       [] OTHER                        -> Key(a) : a \in alerts}

OrderIrrelevant ==
    FirstBatch /\ Len(batch) <= MaxScorePerTick =>
        \A i \in DOMAIN batch :
            Outline(Scored(batch))
              = Outline(Scored([batch EXCEPT ![1] = batch[i], ![i] = batch[1]]))

(* What the sensor says of itself.  "Absence of an alert is not            *)
(* assurance": every alert written since a flow was dropped says so, and   *)
(* so does every status of a running engine.  "Count conversations, not    *)
(* the windows they span": the tap counts every conversation once, but for *)
(* those the cap dropped when they were new.                               *)
DropsDeclared ==
    /\ phase = "written" => \A w \in written : lost > 0 <=> "drops" \in w.notes
    /\ phase = "gather" => status.dropped = lost

ConversationsCountedOnce ==
    phase = "gather" =>
        LET pending == {FlowId(f) : f \in {h \in ToSet(batch) : h.new}}
        IN  toServer + toClient =
                Cardinality({k \in known \ (pending \cup missed) : k[4] # k[6]})

HealthIsTrue == DropsDeclared /\ ConversationsCountedOnce

=============================================================================
