------------------------------ MODULE Console ------------------------------
(***************************************************************************)
(* The analyst's console: the poll of Dashboard.tsx, the read_pipeline     *)
(* command it awaits (src-tauri/src/lib.rs), and what the analyst does in  *)
(* the meantime: delete a row, reset, load a file to replay, resume, pause,*)
(* open a dossier.  The engine goes on writing its three files throughout. *)
(*                                                                         *)
(* A row is a number, smaller meaning further up in the sorted list; lines *)
(* with the same rowKey, which dedupeAlerts drops, are the same row.  What *)
(* a click sets is rendered before anything else happens; what the loading *)
(* of a file sets, a FileReader's callback, is rendered in a step of its   *)
(* own (Render), and rows that are applied, in a transition (Commit): until*)
(* then the screen and the handlers have the old ones.  Selection, pins,   *)
(* filters and the incidents tab only view the list and are left out.      *)
(***************************************************************************)
EXTENDS Integers, Sequences, FiniteSets, FiniteSetsExt, Functions

CONSTANTS
    LiveRows,     \* rows the engine may write to alerts.jsonl
    MockRows,     \* the samples the console starts with
    FileRows,     \* rows of the files an analyst may load
    TailRows,     \* lines of alerts.jsonl that are read, at most
    Courses       \* bounds: what a history may bring, see course

ASSUME RowsAssumption ==
    /\ LiveRows \cup MockRows \cup FileRows \subseteq Nat \ {0}
    /\ TailRows \in Nat \ {0}
    /\ Courses \subseteq [rows : Seq(LiveRows), old : Nat, flows : Nat,
                           versions : Nat, deletes : BOOLEAN, tears : BOOLEAN]
    /\ \A c \in Courses : c.old <= Len(c.rows)

VARIABLES
    course,       \* rows written, how many of them by earlier runs of the engine,
                  \* flows counted, versions of entities.json, whether rows are
                  \* deleted, and status.json may be read half written
    \* what the engine writes
    file,         \* rows of alerts.jsonl, as they were appended
    status,       \* flows_in of status.json, None, or Torn while it is written
    total,        \* the engine's flow counter
    counted,      \* flows counted by all engines so far (auxiliary)
    version,      \* version of entities.json, 0 while there is none
    up,           \* whether its socket or a fresh status is there
    \* the console
    alerts,       \* rows of the list
    label,        \* where they are said to come from
    next,         \* rows and label once the transitions under way are committed
    swept,        \* rows that a reset threw away before they were shown (auxiliary)
    dismissed, dismissedRef,
    fp,           \* fingerprint of the rows applied last
    stampRef,     \* alertsStampRef
    manual,       \* manualOverride
    replay,       \* replayActive
    live, paused,
    polling,      \* the poll effect runs
    pending,      \* a loaded file is not rendered yet
    dossier,      \* a dossier is open
    ents,         \* version of the entities it shows, or None
    entStampRef,
    sample, rate, \* rateSampleRef and the rate shown, with the true counts
    \* the poll
    poll

files    == <<file, status, total, counted, version, up>>
list     == <<alerts, label, next, swept, fp>>
gone     == <<dismissed, dismissedRef>>
mode     == <<manual, replay, live, paused, polling, pending>>
entities == <<dossier, ents, entStampRef>>
gauge    == <<sample, rate>>
state    == <<files, list, gone, stampRef, mode, entities, gauge, poll>>
vars     == <<course, state>>

None == -1
Torn == -2
NoStamp == -3     \* the empty string of a stamp reference

(* alertsFingerprint, "" before anything was applied.                      *)
NoFp == <<>>
Fingerprint(rows) ==
    IF rows = {} THEN <<0, 0, 0>> ELSE <<Cardinality(rows), Min(rows), Max(rows)>>

(* A file's stamp; its length tells the versions of these files apart.     *)
Stamp(lines) == Len(lines)

(* read_jsonl: the last 8 MB of the file.                                  *)
LastRows(lines) == {lines[i] : i \in {j \in DOMAIN lines : j > Len(lines) - TailRows}}

Idle == [stage |-> "idle"]

(* A poll as it goes on, with what it learns.                              *)
With(p, news) ==
    [x \in DOMAIN p \cup DOMAIN news |-> IF x \in DOMAIN news THEN news[x] ELSE p[x]]

Init ==
    /\ course \in Courses
    /\ file = SubSeq(course.rows, 1, course.old) /\ status = None /\ total = 0 /\ counted = 0 /\ version = 0 /\ up = FALSE
    /\ alerts = MockRows /\ label = "mock" /\ fp = NoFp
    /\ next = [rows |-> alerts, label |-> label] /\ swept = {}
    /\ dismissed = {} /\ dismissedRef = {}
    /\ stampRef = NoStamp
    /\ manual = FALSE /\ replay = FALSE /\ live = FALSE /\ paused = FALSE
    /\ polling = TRUE /\ pending = FALSE
    /\ dossier = FALSE /\ ents = None /\ entStampRef = NoStamp
    /\ sample = [flows |-> None, at |-> 0] /\ rate = [shown |-> 0, real |-> 0]
    /\ poll = Idle

-----------------------------------------------------------------------------
(* The engine and the exporter.                                            *)
console == <<list, gone, stampRef, mode, entities, gauge, poll>>

WriteAlert ==
    /\ Len(file) < Len(course.rows)
    /\ file' = Append(file, course.rows[Len(file) + 1])
    /\ UNCHANGED <<status, total, counted, version, up, console>>

CountFlow ==
    /\ counted < course.flows
    /\ total' = total + 1 /\ counted' = counted + 1
    /\ status' = total'
    /\ UNCHANGED <<file, version, up, console>>

(* status.json is truncated and then written.                              *)
TearStatus ==
    /\ course.tears /\ status >= 0 /\ status' = Torn
    /\ UNCHANGED <<file, total, counted, version, up, console>>
WriteStatus ==
    /\ status \in {None, Torn} /\ status' = total
    /\ UNCHANGED <<file, total, counted, version, up, console>>

WriteEntities ==
    /\ version < course.versions /\ version' = version + 1
    /\ UNCHANGED <<file, status, total, counted, up, console>>

PipelineChanges ==
    /\ up' = ~up
    /\ total' \in IF up' THEN {0, total} ELSE {total}
    /\ UNCHANGED <<file, status, counted, version, console>>

-----------------------------------------------------------------------------
(* The poll: tick() asks with the stamps it remembers, the backend stamps  *)
(* each file before it reads it, the answer is applied.                    *)
PollStarts ==
    /\ polling /\ ~paused /\ poll = Idle
    /\ poll' = [stage |-> "asked", prev |-> stampRef, eprev |-> entStampRef,
                load |-> dossier]
    /\ UNCHANGED <<files, list, gone, stampRef, mode, entities, gauge>>

PollStamps ==
    /\ poll.stage = "asked"
    /\ poll' = With(poll, [stage |-> "stamped", stamp |-> Stamp(file)])
    /\ UNCHANGED <<files, list, gone, stampRef, mode, entities, gauge>>

(* The rows, unless the stamp is the one remembered; then the other stamp. *)
PollReads ==
    /\ poll.stage = "stamped"
    /\ poll' = With(poll, [stage  |-> "read",
                           rows   |-> IF poll.prev = poll.stamp THEN {} ELSE LastRows(file),
                           estamp |-> version])
    /\ UNCHANGED <<files, list, gone, stampRef, mode, entities, gauge>>

(* A mistake in PollAnswers: the file is stamped after it was read.        *)
PollAnswersStamped ==
    /\ poll.stage = "read"
    /\ poll' = With(poll, [stage  |-> "answered",
                           stamp  |-> Stamp(file),
                           ents   |-> IF ~poll.load \/ poll.eprev = poll.estamp \/ version = 0
                                      THEN None ELSE version,
                           status |-> IF status = Torn THEN None ELSE status,
                           at     |-> counted,
                           live   |-> up])
    /\ UNCHANGED <<files, list, gone, stampRef, mode, entities, gauge>>

(* The entities, if they were asked for and have changed, and the status.  *)
PollAnswers ==
    /\ poll.stage = "read"
    /\ poll' = With(poll, [stage  |-> "answered",
                           ents   |-> IF ~poll.load \/ poll.eprev = poll.estamp \/ version = 0
                                      THEN None ELSE version,
                           status |-> IF status = Torn THEN None ELSE status,
                           at     |-> counted,
                           live   |-> up])
    /\ UNCHANGED <<files, list, gone, stampRef, mode, entities, gauge>>

(* A mistake in NoteFlowsIn: the first sample counts from zero.            *)
NoteFlowsFromZero(n, at) ==
    /\ sample' = [flows |-> n, at |-> at]
    /\ rate' = IF sample.flows = None THEN [shown |-> n, real |-> 0]
               ELSE IF n < sample.flows THEN [shown |-> 0, real |-> 0]
               ELSE [shown |-> n - sample.flows, real |-> at - sample.at]

(* noteFlowsIn; a poll soon after the sample changes nothing.              *)
NoteFlowsIn(n, at) ==
    \/ /\ sample.flows = None \/ n < sample.flows
       /\ sample' = [flows |-> n, at |-> at]
       /\ rate' = [shown |-> 0, real |-> 0]
    \/ /\ sample.flows # None /\ n >= sample.flows
       /\ sample' = [flows |-> n, at |-> at]
       /\ rate' = [shown |-> n - sample.flows, real |-> at - sample.at]
    \/ /\ sample.flows # None /\ n >= sample.flows
       /\ UNCHANGED gauge

(* applyAlerts of rows whose fingerprint is that of the rows applied last: *)
(* only the label is set, at once; else a transition starts.               *)
Applying(sorted, from) ==
    /\ fp' = Fingerprint(sorted)
    /\ \/ /\ fp' = fp
          /\ label' = from /\ next' = [next EXCEPT !.label = from]
          /\ UNCHANGED <<alerts, swept>>
       \/ /\ fp' # fp
          /\ next' = [rows |-> sorted, label |-> from] /\ swept' = {}
          /\ UNCHANGED <<alerts, label>>

(* A mistake in ApplyAlerts: rows that were dismissed stay in.             *)
ApplyUnfiltered(rows, from) == Applying(rows, from)

ApplyAlerts(rows, from) == Applying(rows \ dismissedRef, from)

Committed == next = [rows |-> alerts, label |-> label]

(* What a callback has set is rendered before a transition.                *)
Commit ==
    /\ ~pending /\ ~Committed
    /\ alerts' = next.rows /\ label' = next.label
    /\ UNCHANGED <<files, next, swept, fp, gone, stampRef, mode, entities, gauge, poll>>

(* The entities shown after a poll, if the dossier is still open.          *)
EntitiesShown ==
    IF dossier /\ poll.eprev # poll.estamp /\ poll.ents # None THEN poll.ents ELSE ents

PollApplied ==
    /\ poll.stage = "answered"
    /\ live' = poll.live
    /\ NoteFlowsIn(IF poll.status = None THEN 0 ELSE poll.status, poll.at)
    /\ entStampRef' = poll.estamp
    /\ ents' = EntitiesShown
    /\ stampRef' = poll.stamp
    /\ \/ /\ poll.prev # poll.stamp /\ poll.rows # {}
          /\ ApplyAlerts(poll.rows, "live")
       \/ /\ poll.prev # poll.stamp /\ poll.rows = {} /\ poll.live
          /\ label' = "live" /\ alerts' = {} /\ fp' = NoFp
          /\ next' = [rows |-> {}, label |-> "live"] /\ UNCHANGED swept
       \/ /\ poll.prev = poll.stamp \/ (poll.rows = {} /\ ~poll.live)
          /\ UNCHANGED list
    /\ poll' = Idle
    /\ UNCHANGED <<files, gone, manual, replay, paused, polling, pending, dossier>>

(* The command is rejected.                                                *)
PollFails ==
    /\ poll.stage = "answered"
    /\ live' = FALSE /\ poll' = Idle
    /\ UNCHANGED <<files, list, gone, stampRef, manual, replay, paused, polling,
                   pending, entities, gauge>>

-----------------------------------------------------------------------------
(* The analyst.  What a click has set is rendered at once: the reference   *)
(* follows the dismissed rows and the poll effect follows manualOverride,  *)
(* dropping a poll in flight when it is torn down.                         *)
Mode == IF replay THEN "replay" ELSE IF live /\ ~manual THEN "live"
        ELSE IF label = "mock" THEN "mock" ELSE "offline"

(* A mistake in EffectFollows: manualOverride is no dependency of it.      *)
EffectStays == UNCHANGED <<polling, poll>>

EffectFollows ==
    /\ polling' = ~manual'
    /\ poll' = IF manual' = ~polling THEN poll ELSE Idle

OnDelete ==
    /\ course.deletes /\ ~pending
    /\ \E r \in alerts :
        /\ dismissed' = dismissed \cup {r} /\ dismissedRef' = dismissed'
        /\ alerts' = alerts \ {r} /\ next' = [next EXCEPT !.rows = @ \ {r}]
    /\ UNCHANGED <<files, label, swept, fp, stampRef, mode, entities, gauge, poll>>

(* The rows dismissed are those on the screen; the list of a transition    *)
(* under way is emptied all the same.                                      *)
OnResetAlerts ==
    /\ ~pending /\ (alerts # {} \/ rate.shown # 0)
    /\ dismissed' = dismissed \cup alerts /\ dismissedRef' = dismissed'
    /\ alerts' = {} /\ next' = [next EXCEPT !.rows = {}] /\ fp' = NoFp
    /\ swept' = swept \cup (next.rows \ alerts)
    /\ sample' = [flows |-> None, at |-> 0] /\ rate' = [shown |-> 0, real |-> 0]
    /\ replay' = FALSE
    /\ manual' = (manual /\ ~replay)
    /\ stampRef' = IF replay THEN NoStamp ELSE stampRef
    /\ EffectFollows
    /\ UNCHANGED <<files, label, live, paused, pending, entities>>

(* reader.onload: rendered later.                                          *)
OnLoadFile ==
    /\ ~pending
    /\ \E rows \in (SUBSET FileRows) \ {{}} : ApplyAlerts(rows, "file")
    /\ manual' = TRUE /\ live' = FALSE /\ replay' = TRUE
    /\ dismissed' = {} /\ stampRef' = NoStamp
    /\ pending' = TRUE
    /\ UNCHANGED <<files, dismissedRef, paused, polling, entities, gauge, poll>>

Render ==
    /\ pending /\ pending' = FALSE
    /\ dismissedRef' = dismissed
    /\ polling' = ~manual
    /\ poll' = IF polling = ~manual THEN poll ELSE Idle
    /\ UNCHANGED <<files, list, dismissed, stampRef, manual, replay, live, paused,
                   entities, gauge>>

OnResumeLive ==
    /\ ~pending /\ (manual \/ replay)
    /\ manual' = FALSE /\ replay' = FALSE
    /\ stampRef' = NoStamp /\ entStampRef' = NoStamp
    /\ EffectFollows
    /\ UNCHANGED <<files, list, gone, live, paused, pending, dossier, ents,
                   gauge>>

(* The button is there only in live mode.                                  *)
OnTogglePause ==
    /\ ~pending /\ Mode = "live" /\ paused' = ~paused
    /\ UNCHANGED <<files, list, gone, stampRef, manual, replay, live, polling, pending,
                   entities, gauge, poll>>

OnSelectIp ==
    /\ course.versions > 0 /\ ~pending
    /\ dossier' = TRUE /\ entStampRef' = NoStamp
    /\ UNCHANGED <<files, list, gone, stampRef, mode, ents, gauge, poll>>

OnCloseDossier ==
    /\ ~pending /\ dossier /\ dossier' = FALSE
    /\ ents' = None
    /\ UNCHANGED <<files, list, gone, stampRef, mode, entStampRef, gauge, poll>>

Engine == \/ WriteAlert \/ CountFlow \/ TearStatus \/ WriteStatus \/ WriteEntities
          \/ PipelineChanges
Polled == \/ PollStarts \/ PollStamps \/ PollReads \/ PollAnswers
          \/ PollApplied \/ PollFails
Analyst == \/ OnDelete \/ OnResetAlerts \/ OnLoadFile \/ OnResumeLive \/ OnTogglePause
           \/ OnSelectIp \/ OnCloseDossier

Next == UNCHANGED course /\ (Engine \/ Polled \/ Analyst \/ Render \/ Commit)

(* The interval timer and the backend go on; a poll that is sent time and  *)
(* again does not fail for ever; React finishes what it renders.           *)
Fairness ==
    /\ WF_state(PollStarts) /\ WF_state(PollStamps) /\ WF_state(PollReads)
    /\ WF_state(PollAnswers) /\ SF_state(PollApplied) /\ WF_state(Render)
    /\ WF_state(Commit)

Spec == Init /\ [][Next]_vars /\ Fairness

-----------------------------------------------------------------------------
Sources == [mock |-> MockRows, live |-> LiveRows, file |-> FileRows]

Settled == polling /\ ~pending /\ Committed

(* The list has the rows of the file that are read and not dismissed, but  *)
(* those that a reset swept away before the list had them.  From a file    *)
(* that is read in part, a list with the same fingerprint will do: rows of *)
(* the middle of the list may be others.                                   *)
Shows ==
    LET due == LastRows(file) \ dismissed
    IN  IF Len(file) <= TailRows THEN due \ swept \subseteq alerts /\ alerts \subseteq due
        ELSE fp \in {NoFp, Fingerprint(due)}

(* When the stamp remembered is that of the file, every row of the file is *)
(* in the list unless the analyst dismissed it: a poll that says           *)
(* "unchanged" never leaves out what an earlier one should have shown, as  *)
(* long as no single row is deleted, nor a reset hits a transition.        *)
ShowsTheFile ==
    Settled /\ file # <<>> /\ stampRef = Stamp(file) => course.deletes \/ Shows

(* The list holds no row that should not be there: one deleted or reset    *)
(* away does not come back with a poll, nor with a transition begun        *)
(* before, and all are from the source that the label names.               *)
RowsBelong ==
    /\ ~pending => (alerts \cup next.rows) \cap dismissed = {}
    /\ Committed => alerts \subseteq Sources[label]

(* The rate shown is the number of flows counted between two samples: a    *)
(* restarted engine, a failed poll or a reset never adds to it, unless     *)
(* status.json was read half written.                                      *)
RateIsTraffic == ~course.tears => rate.shown <= rate.real

(* Once the analyst leaves the live console alone and the engine rests,    *)
(* the list comes to show what is in the file.                             *)
ConsoleCatchesUp ==
    <>[](~manual /\ ~paused /\ file # <<>>) => <>[](course.deletes \/ Shows)

=============================================================================
