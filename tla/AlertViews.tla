----------------------------- MODULE AlertViews -----------------------------
(***************************************************************************)
(* What the console shows of the rows of a playback: the rows that are not *)
(* suppressed and pass the filters, folded into incidents (incidents.ts),  *)
(* one of which the analyst may have open.                                 *)
(*                                                                         *)
(* An alert is what these views tell apart; a row is its timestamp, so     *)
(* that two rows of one time, whose order is that of the file, are left    *)
(* out, and so are pins, the selected row and the search box.              *)
(***************************************************************************)
EXTENDS Playback

CONSTANTS
    Alert,         \* timestamp -> dst_ip, src_ip, incident_id, subtype, severity,
                   \* threat_class
    WINDOW_S,      \* two alerts about one victim this near are one incident
    MaxLooks,      \* bound: the clicks among which it looks at these views
    Blank          \* the empty address, incident_id or filter

ASSUME ViewsAssumption ==
    /\ UNION Files \subseteq DOMAIN Alert /\ WINDOW_S \in Nat /\ MaxLooks \in Nat
    /\ \A t \in DOMAIN Alert :
        {"dst_ip", "src_ip", "incident_id", "subtype", "severity", "threat_class"}
          \subseteq DOMAIN Alert[t]

VARIABLES
    suppressions,        \* rules of the session: a field and its value
    filters,             \* field -> the value asked for, or Blank
    selectedIncidentId   \* or <<>>

views == <<suppressions, filters, selectedIncidentId>>

SuppressKind == {"dst_ip", "src_ip", "subtype"}
FilterKind == {"severity", "threat_class", "dst_ip"}

AlertMatchesSuppress(a, rule) ==
    a[rule.kind] = rule.value /\ (rule.kind = "subtype" \/ rule.value # Blank)

FilterSuppressed(rs) ==
    {r \in rs : \A rule \in suppressions : ~AlertMatchesSuppress(Alert[r], rule)}

(* The destination "(aggregate)" asks for the rows that have none.         *)
Asked(a, field) == IF a[field] = Blank THEN "(aggregate)" ELSE a[field]
Filtered ==
    {r \in FilterSuppressed(Revealed) :
        \A f \in FilterKind : filters[f] \in {Blank, Asked(Alert[r], f)}}

VictimOf(a) ==
    IF a.dst_ip # Blank THEN <<"dst", a.dst_ip>>
    ELSE IF a.src_ip # Blank THEN <<"src", a.src_ip>> ELSE <<"aggregate", Blank>>

-----------------------------------------------------------------------------
(* The loop of buildIncidents: for each row the one that opened the        *)
(* incident it is put in.  byEngineId holds where the first row of an id   *)
(* went, byVictim the incident opened last about a victim.  The mistake    *)
(* notes an id only with the incident it opens.                            *)
OpenerNotingOpened(rs) ==
    LET opener[r \in rs] ==
          LET before  == {s \in rs : s < r}
              known   == {s \in before : opener[s] = s /\ Alert[s].incident_id # Blank
                                           /\ Alert[s].incident_id = Alert[r].incident_id}
              opened  == {s \in before : opener[s] = s /\ VictimOf(Alert[s]) = VictimOf(Alert[r])}
              hit     == Max(opened)
              end     == Max({s \in before : opener[s] = hit})
          IN  IF known # {} THEN opener[Min(known)]
              ELSE IF opened # {} /\ r - end <= WINDOW_S THEN hit ELSE r
    IN  opener
Opener(rs) ==
    LET opener[r \in rs] ==
          LET before  == {s \in rs : s < r}
              known   == {s \in before : Alert[s].incident_id # Blank
                                           /\ Alert[s].incident_id = Alert[r].incident_id}
              opened  == {s \in before : opener[s] = s /\ VictimOf(Alert[s]) = VictimOf(Alert[r])}
              hit     == Max(opened)
              end     == Max({s \in before : opener[s] = hit})
          IN  IF known # {} THEN opener[Min(known)]
              ELSE IF opened # {} /\ r - end <= WINDOW_S THEN hit ELSE r
    IN  opener

(* The incidents of the rows that are left and shown.  One has the id of   *)
(* the engine if its first row has one.                                    *)
BuildIncidents ==
    [rs \in UNION {SUBSET f : f \in Files} |->
       LET opener == Opener(rs)
       IN  {[id |-> IF Alert[o].incident_id # Blank THEN <<Alert[o].incident_id, <<>>, 0>>
                    ELSE <<"inc", VictimOf(Alert[o]), o>>,
             alerts |-> {r \in rs : opener[r] = o}] : o \in {opener[r] : r \in rs}}]

Incidents == BuildIncidents[Filtered]

ViewsInit ==
    /\ Init
    /\ suppressions = {}
    /\ filters = [f \in FilterKind |-> Blank]
    /\ selectedIncidentId = <<>>

-----------------------------------------------------------------------------
Look == "looks" \in analyst /\ clicks < MaxLooks /\ clicks' = clicks + 1

(* A destination chosen again in a chart is no longer asked for.           *)
OnFilter ==
    /\ Look
    /\ \E f \in FilterKind : \E v \in {Asked(Alert[r], f) : r \in Revealed} :
        \/ filters' = [filters EXCEPT ![f] = v]
        \/ f = "dst_ip" /\ filters[f] = v /\ filters' = [filters EXCEPT ![f] = Blank]
    /\ UNCHANGED <<suppressions, selectedIncidentId>>

OnClearFilters ==
    /\ Look
    /\ filters' = [f \in FilterKind |-> Blank]
    /\ UNCHANGED <<suppressions, selectedIncidentId>>

OnSuppress ==
    /\ Look
    /\ \E r \in Filtered, kind \in SuppressKind :
        /\ Alert[r][kind] # Blank
        /\ suppressions' = suppressions \cup {[kind |-> kind, value |-> Alert[r][kind]]}
    /\ UNCHANGED <<filters, selectedIncidentId>>

OnRemoveSuppress ==
    /\ Look
    /\ \E rule \in suppressions : suppressions' = suppressions \ {rule}
    /\ UNCHANGED <<filters, selectedIncidentId>>

OnSelectIncident ==
    /\ Look
    /\ \E i \in Incidents : selectedIncidentId' = i.id
    /\ UNCHANGED <<suppressions, filters>>

(* A row is selected, in the list or with the arrow keys.                  *)
OnSelect ==
    /\ Look
    /\ Filtered # {} /\ selectedIncidentId' = <<>>
    /\ UNCHANGED <<suppressions, filters>>

ViewsNext ==
    /\ UNCHANGED analyst
    /\ \/ PlayOrControl /\ UNCHANGED views
       \/ OnLoadFile /\ suppressions' = {} /\ UNCHANGED <<filters, selectedIncidentId>>
       \/ /\ OnFilter \/ OnClearFilters \/ OnSuppress \/ OnRemoveSuppress
             \/ OnSelectIncident \/ OnSelect
          /\ UNCHANGED <<rows, coming, count, playing, seek, clock, sought>>

ViewsSpec == ViewsInit /\ [][ViewsNext]_<<vars, views>> /\ WF_clock(Step)

-----------------------------------------------------------------------------
(* Of these rows no two incidents have one id, nor do they share an        *)
(* incident of the engine.                                                 *)
Distinct ==
    [rs \in UNION {SUBSET f : f \in Files} |->
       \A i, j \in BuildIncidents[rs] : \A r \in i.alerts, s \in j.alerts :
         \/ i = j
         \/ /\ i.id # j.id
            /\ Alert[r].incident_id = Alert[s].incident_id => Alert[r].incident_id = Blank]

(* What the analyst reads as one incident stays it: as more rows come into *)
(* view every incident keeps its id, so that the one that is open stays    *)
(* open, and its alerts; and what the engine put into one incident is in   *)
(* one here, however long it was quiet and whomever its alerts are about.  *)
OnlyMoreRevealed == rows' = rows /\ count' > count /\ UNCHANGED <<suppressions, filters>>

IncidentsOnlyGrow ==
    [][OnlyMoreRevealed =>
         /\ Distinct[Filtered']
         /\ \A i \in Incidents : \E j \in Incidents' :
              i.id = j.id /\ i.alerts \subseteq j.alerts]_<<vars, views>>
=============================================================================
