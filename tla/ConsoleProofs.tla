--------------------------- MODULE ConsoleProofs ---------------------------
(***************************************************************************)
(* For any rows, files and numbers of flows: the rate that Console shows,  *)
(* and the rows in its list.                                               *)
(***************************************************************************)
EXTENDS Console, FiniteSetTheorems, WellFoundedInduction, TLAPS

(* The flow count that the console reads from a status.                    *)
FlowsIn(s) == IF s = None THEN 0 ELSE s

(* An answer grows by its fields; those of the rate come last.             *)
PollShape ==
    /\ poll = [x \in DOMAIN poll |-> poll[x]] /\ "stage" \in DOMAIN poll
    /\ poll.stage \in {"idle", "asked", "stamped", "read", "answered"}
    /\ poll.stage # "answered" => "status" \notin DOMAIN poll /\ "at" \notin DOMAIN poll

(* How many flows an engine did not count itself, or lost with a restart:  *)
(* this never shrinks, from a sample to an answer to the file.             *)
RateInv ==
    /\ PollShape
    /\ total \in Nat /\ counted \in Nat
    /\ ~course.tears =>
         /\ status \in Nat \cup {None} /\ total <= FlowsIn(status)
         /\ poll.stage = "answered" =>
              /\ poll.status \in Nat \cup {None} /\ poll.at \in Nat
              /\ poll.at - FlowsIn(poll.status) <= counted - FlowsIn(status)
         /\ sample.flows # None =>
              /\ sample.flows \in Nat /\ sample.at \in Nat
              /\ sample.at - sample.flows <= counted - FlowsIn(status)
              /\ poll.stage = "answered" =>
                   sample.at - sample.flows <= poll.at - FlowsIn(poll.status)
         /\ rate.shown \in Int /\ rate.real \in Int /\ rate.shown <= rate.real

-----------------------------------------------------------------------------
(* A step that neither samples nor answers, nor touches what is counted.   *)
LEMMA RateKept ==
    ASSUME RateInv, UNCHANGED <<course, status, total, counted, sample, rate>>,
           poll' = poll \/ (PollShape' /\ poll'.stage # "answered")
    PROVE  RateInv'
<1>1. CASE poll' = poll
  BY <1>1 DEF RateInv, PollShape, FlowsIn
<1>2. CASE PollShape' /\ poll'.stage # "answered"
  BY <1>2 DEF RateInv, FlowsIn
<1>3. QED
  BY <1>1, <1>2

LEMMA IdleShape == ASSUME poll' = Idle PROVE PollShape' /\ poll'.stage # "answered"
  BY DEF PollShape, Idle

LEMMA RateInit == Init => RateInv
<1> SUFFICES ASSUME Init PROVE RateInv
  OBVIOUS
<1>1. PollShape
  BY DEF Init, PollShape, Idle
<1>2. QED
  BY <1>1 DEF Init, RateInv, FlowsIn, Idle, None

LEMMA RateStep == ASSUME RateInv, [Next]_vars PROVE RateInv'
<1>1. CASE WriteAlert /\ UNCHANGED course
  BY <1>1, RateKept DEF WriteAlert, files, gauge, console
<1>2. CASE CountFlow /\ UNCHANGED course
  <2>1. /\ UNCHANGED <<course, poll, sample, rate>>
        /\ total' = total + 1 /\ counted' = counted + 1 /\ status' = total'
    BY <1>2 DEF CountFlow, console, gauge
  <2>2. QED
    BY <2>1 DEF RateInv, PollShape, FlowsIn, None
<1>3. CASE TearStatus /\ UNCHANGED course
  <2>1. UNCHANGED <<course, poll, sample, rate, total, counted>> /\ course.tears
    BY <1>3 DEF TearStatus, console, gauge
  <2>2. QED
    BY <2>1 DEF RateInv, PollShape
<1>4. CASE WriteStatus /\ UNCHANGED course
  <2>1. /\ UNCHANGED <<course, poll, sample, rate, total, counted>>
        /\ status \in {None, Torn} /\ status' = total
    BY <1>4 DEF WriteStatus, console, gauge
  <2>2. QED
    BY <2>1 DEF RateInv, PollShape, FlowsIn, None, Torn
<1>5. CASE WriteEntities /\ UNCHANGED course
  BY <1>5, RateKept DEF WriteEntities, files, gauge, console
<1>6. CASE PipelineChanges /\ UNCHANGED course
  <2>1. /\ UNCHANGED <<course, poll, sample, rate, status, counted>>
        /\ total' \in {0, total}
    BY <1>6 DEF PipelineChanges, console, gauge
  <2>2. QED
    BY <2>1 DEF RateInv, PollShape, FlowsIn, None
<1>7. CASE PollStarts /\ UNCHANGED course
  <2>1. PollShape' /\ poll'.stage # "answered"
    BY <1>7 DEF PollStarts, PollShape
  <2>2. QED
    BY <1>7, <2>1, RateKept DEF PollStarts, files, gauge
<1>8. CASE PollStamps /\ UNCHANGED course
  <2>1. PollShape' /\ poll'.stage # "answered"
    BY <1>8 DEF PollStamps, With, RateInv, PollShape
  <2>2. QED
    BY <1>8, <2>1, RateKept DEF PollStamps, files, gauge
<1>9. CASE PollReads /\ UNCHANGED course
  <2>1. PollShape' /\ poll'.stage # "answered"
    BY <1>9 DEF PollReads, With, RateInv, PollShape
  <2>2. QED
    BY <1>9, <2>1, RateKept DEF PollReads, files, gauge
<1>10. CASE PollAnswers /\ UNCHANGED course
  <2>1. /\ poll.stage = "read" /\ UNCHANGED <<course, status, total, counted, sample, rate>>
        /\ poll'.stage = "answered" /\ poll'.at = counted
        /\ poll'.status = IF status = Torn THEN None ELSE status
    BY <1>10 DEF PollAnswers, With, files, gauge
  <2>2. PollShape'
    BY <1>10, <2>1 DEF PollAnswers, PollShape, With
  <2>3. QED
    BY <2>1, <2>2 DEF RateInv, FlowsIn, None, Torn
<1>11. CASE PollApplied /\ UNCHANGED course
  <2> DEFINE n == FlowsIn(poll.status)
  <2>1. UNCHANGED <<course, status, total, counted>> /\ poll.stage = "answered" /\ poll' = Idle
    BY <1>11 DEF PollApplied, files
  <2>2. PollShape' /\ poll'.stage # "answered"
    BY <2>1, IdleShape
  <2>3. NoteFlowsIn(n, poll.at)
    BY <1>11 DEF PollApplied, FlowsIn
  <2>4. CASE UNCHANGED gauge
    BY <2>1, <2>2, <2>4, RateKept DEF gauge
  <2>5. CASE /\ sample.flows = None \/ n < sample.flows
             /\ sample' = [flows |-> n, at |-> poll.at] /\ rate' = [shown |-> 0, real |-> 0]
    BY <2>1, <2>2, <2>5 DEF RateInv, FlowsIn, None
  <2>6. CASE /\ sample.flows # None /\ n >= sample.flows
             /\ sample' = [flows |-> n, at |-> poll.at]
             /\ rate' = [shown |-> n - sample.flows, real |-> poll.at - sample.at]
    BY <2>1, <2>2, <2>6 DEF RateInv, FlowsIn, None
  <2>7. QED
    BY <2>3, <2>4, <2>5, <2>6 DEF NoteFlowsIn
<1>12. CASE PollFails /\ UNCHANGED course
  BY <1>12, RateKept, IdleShape DEF PollFails, EffectFollows, files, gauge
<1>13. CASE OnDelete /\ UNCHANGED course
  BY <1>13, RateKept DEF OnDelete, files, gauge, console
<1>14. CASE OnResetAlerts /\ UNCHANGED course
  <2>1. /\ UNCHANGED <<course, status, total, counted>> /\ (poll' = poll \/ poll' = Idle)
        /\ sample' = [flows |-> None, at |-> 0] /\ rate' = [shown |-> 0, real |-> 0]
    BY <1>14 DEF OnResetAlerts, EffectFollows, files
  <2>2. PollShape' /\ (poll'.stage = "answered" => poll' = poll)
    BY <2>1, IdleShape DEF RateInv, PollShape
  <2>3. QED
    BY <2>1, <2>2 DEF RateInv, FlowsIn
<1>15. CASE OnLoadFile /\ UNCHANGED course
  BY <1>15, RateKept DEF OnLoadFile, files, gauge, console
<1>16. CASE OnResumeLive /\ UNCHANGED course
  BY <1>16, RateKept, IdleShape DEF OnResumeLive, EffectFollows, files, gauge
<1>17. CASE OnTogglePause /\ UNCHANGED course
  BY <1>17, RateKept DEF OnTogglePause, files, gauge, console
<1>18. CASE OnSelectIp /\ UNCHANGED course
  BY <1>18, RateKept DEF OnSelectIp, files, gauge, console
<1>19. CASE OnCloseDossier /\ UNCHANGED course
  BY <1>19, RateKept DEF OnCloseDossier, files, gauge, console
<1>20. CASE Render /\ UNCHANGED course
  BY <1>20, RateKept, IdleShape DEF Render, EffectFollows, files, gauge
<1>21. CASE Commit /\ UNCHANGED course
  BY <1>21, RateKept DEF Commit, files, gauge
<1>22. CASE UNCHANGED vars
  BY <1>22, RateKept DEF vars, state, files, gauge
<1>23. QED
  BY <1>1, <1>2, <1>3, <1>4, <1>5, <1>6, <1>7, <1>8, <1>9, <1>10, <1>11, <1>12, <1>13,
     <1>14, <1>15, <1>16, <1>17, <1>18, <1>19, <1>20, <1>21, <1>22 DEF Next, Engine, Polled, Analyst

(* However many flows are counted and engines restarted, whatever polls    *)
(* fail or are dropped: the rate never shows more flows than were counted  *)
(* between its two samples, if no status is read half written.             *)
THEOREM RateIsReal == Spec => []RateIsTraffic
<1>1. RateInv => RateIsTraffic
  BY DEF RateInv, RateIsTraffic
<1>2. QED
  BY <1>1, RateInit, RateStep, PTL DEF Spec

-----------------------------------------------------------------------------
(* What the stages of a poll have learnt.                                  *)
Fields ==
    /\ poll.stage \in {"idle", "asked", "stamped", "read", "answered"}
    /\ poll.stage # "idle" => "prev" \in DOMAIN poll
    /\ poll.stage \in {"stamped", "read", "answered"} => "stamp" \in DOMAIN poll
    /\ poll.stage \in {"read", "answered"} => "rows" \in DOMAIN poll

LEMMA IdleFields == ASSUME poll' = Idle PROVE Fields' /\ poll'.stage = "idle"
  BY DEF Fields, Idle

LEMMA StartFields ==
    ASSUME PollStarts
    PROVE  Fields' /\ poll'.stage = "asked" /\ poll'.prev = stampRef
  BY DEF PollStarts, Fields

LEMMA StampFields ==
    ASSUME Fields, PollStamps
    PROVE  /\ Fields' /\ poll'.stage = "stamped"
           /\ poll'.prev = poll.prev /\ poll'.stamp = Len(file)
  BY DEF PollStamps, Fields, With, Stamp

LEMMA ReadFields ==
    ASSUME Fields, PollReads
    PROVE  /\ Fields' /\ poll'.stage = "read"
           /\ poll'.prev = poll.prev /\ poll'.stamp = poll.stamp
           /\ poll'.rows = IF poll.prev = poll.stamp THEN {} ELSE LastRows(file)
  BY DEF PollReads, Fields, With

LEMMA AnswerFields ==
    ASSUME Fields, PollAnswers
    PROVE  /\ Fields' /\ poll'.stage = "answered"
           /\ poll'.prev = poll.prev /\ poll'.stamp = poll.stamp /\ poll'.rows = poll.rows
  BY DEF PollAnswers, Fields, With

-----------------------------------------------------------------------------
(* Rows with the fingerprint of others share their first row with them,    *)
(* and are as many.                                                        *)
LEMMA MinFacts ==
    ASSUME NEW S \in SUBSET Nat, S # {}
    PROVE  Min(S) \in S
<1> DEFINE R == OpToRel(<, Nat)
<1>1. PICK m \in S : \A n \in S : ~(<<n, m>> \in R)
  BY NatLessThanWellFounded, WFMin
<1>2. \A n \in S : ~(n < m)
  BY <1>1 DEF OpToRel
<1>3. \A n \in S : m <= n
  BY <1>2
<1>4. QED
  BY <1>3 DEF Min

LEMMA SameFingerprint ==
    ASSUME NEW A \in SUBSET (Nat \ {0}), NEW B \in SUBSET (Nat \ {0}),
           Fingerprint(A) = Fingerprint(B)
    PROVE  /\ A = {} <=> B = {}
           /\ A # {} => \E r \in A : r \in B
           /\ Cardinality(A) = Cardinality(B)
<1>1. ASSUME NEW S \in SUBSET (Nat \ {0}), S # {}
      PROVE  /\ Fingerprint(S) = <<Cardinality(S), Min(S), Max(S)>>
             /\ Min(S) \in S /\ Min(S) # 0
  BY <1>1, MinFacts DEF Fingerprint
<1>2. \A S : S = {} => Fingerprint(S) = <<0, 0, 0>>
  BY DEF Fingerprint
<1>3. A = {} => B = {}
  <2>1. SUFFICES ASSUME A = {}, B # {} PROVE FALSE
    OBVIOUS
  <2>2. <<Cardinality(B), Min(B), Max(B)>> = <<0, 0, 0>> /\ Min(B) # 0
    BY <1>1, <1>2, <2>1
  <2>3. QED
    BY <2>2
<1>4. B = {} => A = {}
  <2>1. SUFFICES ASSUME B = {}, A # {} PROVE FALSE
    OBVIOUS
  <2>2. <<Cardinality(A), Min(A), Max(A)>> = <<0, 0, 0>> /\ Min(A) # 0
    BY <1>1, <1>2, <2>1
  <2>3. QED
    BY <2>2
<1>5. CASE A = {}
  BY <1>3, <1>5
<1>6. CASE A # {}
  <2>1. /\ <<Cardinality(A), Min(A), Max(A)>> = <<Cardinality(B), Min(B), Max(B)>>
        /\ Min(A) \in A /\ Min(B) \in B
    BY <1>1, <1>4, <1>6
  <2>2. Cardinality(A) = Cardinality(B) /\ Min(A) = Min(B)
    BY <2>1
  <2>3. QED
    BY <1>4, <1>6, <2>1, <2>2
<1>7. QED
  BY <1>5, <1>6

LEMMA FingerprintIsOne == \A rows : Fingerprint(rows) # NoFp
  BY DEF Fingerprint, NoFp

-----------------------------------------------------------------------------
(* What is read of a file, and what a line adds to it.                     *)
LEMMA TailFacts ==
    ASSUME NEW lines \in Seq(LiveRows)
    PROVE  /\ LastRows(lines) \subseteq Range(lines)
           /\ Len(lines) <= TailRows => LastRows(lines) = Range(lines)
           /\ lines # <<>> => LastRows(lines) # {}
<1>1. DOMAIN lines = 1..Len(lines) /\ Len(lines) \in Nat /\ TailRows \in Nat \ {0}
  BY RowsAssumption
<1>2. Range(lines) = {lines[i] : i \in 1..Len(lines)}
  BY <1>1 DEF Range
<1>3. LastRows(lines) = {lines[i] : i \in {j \in 1..Len(lines) : j > Len(lines) - TailRows}}
  BY <1>1 DEF LastRows
<1>4. ASSUME lines # <<>> PROVE lines[Len(lines)] \in LastRows(lines)
  BY <1>1, <1>3, <1>4
<1>5. ASSUME Len(lines) <= TailRows
      PROVE  {j \in 1..Len(lines) : j > Len(lines) - TailRows} = 1..Len(lines)
  BY <1>1, <1>5
<1>6. QED
  BY <1>2, <1>3, <1>4, <1>5

LEMMA AppendFacts ==
    ASSUME NEW lines \in Seq(LiveRows), NEW r \in LiveRows
    PROVE  /\ Append(lines, r) \in Seq(LiveRows) /\ Len(Append(lines, r)) = Len(lines) + 1
           /\ Range(Append(lines, r)) = Range(lines) \cup {r}
           /\ IsFiniteSet(Range(lines)) => IsFiniteSet(Range(Append(lines, r)))
<1> DEFINE more == Append(lines, r)
<1>1. more \in Seq(LiveRows) /\ Len(more) = Len(lines) + 1
  OBVIOUS
<1>2. /\ DOMAIN more = 1..(Len(lines) + 1) /\ DOMAIN lines = 1..Len(lines) /\ Len(lines) \in Nat
      /\ more[Len(lines) + 1] = r /\ \A i \in 1..Len(lines) : more[i] = lines[i]
  BY <1>1
<1>3. Range(more) = {more[i] : i \in 1..(Len(lines) + 1)} /\ Range(lines) = {lines[i] : i \in 1..Len(lines)}
  BY <1>2 DEF Range
<1>4. Range(more) = Range(lines) \cup {r}
  BY <1>2, <1>3
<1>5. IsFiniteSet(Range(lines)) => IsFiniteSet(Range(lines) \cup {r})
  BY FS_AddElement
<1>6. QED
  BY <1>1, <1>4, <1>5

(* The rows the list is to have are some of those applied last, which are  *)
(* from the source that is named; a poll carries rows of the file.         *)
Applied ==
    IF fp = NoFp THEN next.rows \subseteq Sources[next.label]
    ELSE /\ next.label # "mock"
         /\ \E A \in SUBSET Sources[next.label] : fp = Fingerprint(A) /\ next.rows \subseteq A

Dismissing ==
    /\ IF pending THEN dismissed = {} ELSE dismissedRef = dismissed
    /\ (alerts \cup next.rows) \cap dismissed = {}

Labelled ==
    /\ next = [rows |-> next.rows, label |-> next.label]
    /\ next.label \in {"mock", "live", "file"}

Filed == file \in Seq(LiveRows) /\ IsFiniteSet(Range(file))

Carried == poll.stage \in {"read", "answered"} => poll.rows \subseteq Range(file)

ListInv == course \in Courses /\ Fields /\ Dismissing /\ Applied /\ Labelled /\ Filed /\ Carried

(* No row the engine writes is in a file that is loaded; otherwise a file  *)
(* could have the fingerprint of the rows it is to replace.                *)
FilesAreOther == LiveRows \cap FileRows = {}

LEMMA SourceFacts ==
    /\ Sources["mock"] = MockRows /\ Sources["live"] = LiveRows /\ Sources["file"] = FileRows
    /\ \A from \in {"mock", "live", "file"} : Sources[from] \subseteq Nat \ {0}
  BY RowsAssumption DEF Sources

LEMMA FiledFacts ==
    ASSUME Filed PROVE Range(file) \subseteq LiveRows /\ LastRows(file) \subseteq Range(file)
<1>1. file \in [1..Len(file) -> LiveRows]
  BY DEF Filed
<1>2. QED
  BY <1>1, TailFacts DEF Filed, Range

LEMMA ApplyFits ==
    ASSUME FilesAreOther, Applied, Labelled,
           NEW from \in {"live", "file"}, NEW rows \in SUBSET Sources[from],
           ApplyAlerts(rows, from)
    PROVE  /\ Applied' /\ Labelled' /\ fp' # NoFp /\ alerts' = alerts
           /\ fp' = Fingerprint(rows \ dismissedRef)
           /\ \/ next'.rows = rows \ dismissedRef /\ fp' # fp
              \/ next'.rows = next.rows /\ fp' = fp
<1> DEFINE sorted == rows \ dismissedRef
<1>1. /\ fp' = Fingerprint(sorted) /\ fp' # NoFp /\ alerts' = alerts
      /\ next' = [rows |-> IF fp' = fp THEN next.rows ELSE sorted, label |-> from]
  BY FingerprintIsOne DEF ApplyAlerts, Applying, Labelled
<1>2. sorted \subseteq Sources[from] /\ sorted \in SUBSET (Nat \ {0})
  BY SourceFacts
<1>3. Labelled' /\ next'.label = from /\ next'.rows = IF fp' = fp THEN next.rows ELSE sorted
  BY <1>1 DEF Labelled
<1>4. Applied'
  <2>1. SUFFICES \E B \in SUBSET Sources[from] : fp' = Fingerprint(B) /\ next'.rows \subseteq B
    BY <1>1, <1>3 DEF Applied
  <2>2. CASE fp' # fp
    BY <1>1, <1>2, <1>3, <2>2
  <2>3. CASE fp' = fp
    <3>1. PICK A \in SUBSET Sources[next.label] : fp = Fingerprint(A) /\ next.rows \subseteq A
      BY <1>1, <2>3 DEF Applied
    <3>2. next.label \in {"live", "file"} /\ A \in SUBSET (Nat \ {0})
      BY <1>1, <2>3, <3>1, SourceFacts DEF Applied, Labelled
    <3>3. Fingerprint(A) = Fingerprint(sorted)
      BY <1>1, <2>3, <3>1
    <3>4. /\ A = {} <=> sorted = {}
          /\ A # {} => \E r \in A : r \in sorted
      BY <1>2, <3>2, <3>3, SameFingerprint
    <3>5. CASE A = {}
      BY <1>1, <1>2, <1>3, <2>3, <3>1, <3>5
    <3>6. CASE A # {}
      <4>1. PICK r \in A : r \in sorted
        BY <3>4, <3>6
      <4>2. r \in Sources[next.label] /\ r \in Sources[from]
        BY <1>2, <3>1, <4>1
      <4>3. next.label = from
        BY <3>2, <4>2, SourceFacts DEF FilesAreOther
      <4>4. QED
        BY <1>1, <1>3, <2>3, <3>1, <4>3
    <3>7. QED
      BY <3>5, <3>6
  <2>4. QED
    BY <2>2, <2>3
<1>5. QED
  BY <1>1, <1>3, <1>4

(* A step that leaves the list alone, and one that ends or drops a poll.   *)
LEMMA ListKept ==
    ASSUME ListInv, UNCHANGED <<course, file, pending, dismissed, dismissedRef, alerts, next, fp>>,
           Fields', Carried'
    PROVE  ListInv'
BY DEF ListInv, Dismissing, Applied, Labelled, Filed

LEMMA ListHeld ==
    ASSUME ListInv, file' = file, poll' \in {poll, Idle}
    PROVE  Fields' /\ Carried'
<1>1. CASE poll' = Idle
  BY <1>1, IdleFields DEF Carried
<1>2. CASE poll' = poll
  BY <1>2 DEF ListInv, Fields, Carried
<1>3. QED
  BY <1>1, <1>2

LEMMA SubSeqFacts ==
    ASSUME NEW S, NEW s \in Seq(S), NEW n \in Nat, n <= Len(s)
    PROVE  SubSeq(s, 1, n) \in Seq(S) /\ Len(SubSeq(s, 1, n)) = n
  OBVIOUS

LEMMA ListInit == Init => ListInv
<1> SUFFICES ASSUME Init PROVE ListInv
  OBVIOUS
<1>1. Fields /\ poll.stage = "idle"
  BY DEF Init, Fields, Idle
<1>2. Dismissing /\ Applied /\ Labelled
  BY SourceFacts DEF Init, Dismissing, Applied, Labelled
<1>3. Filed
  <2>1. course.rows \in Seq(LiveRows) /\ course.old \in 0..Len(course.rows)
    BY RowsAssumption DEF Init
  <2>2. file \in Seq(LiveRows)
    BY <2>1, SubSeqFacts DEF Init
  <2>3. file \in [1..Len(file) -> LiveRows] /\ Len(file) \in Nat
    BY <2>2
  <2>4. IsFiniteSet(1..Len(file))
    BY <2>3, FS_Interval
  <2>5. Range(file) = {file[i] : i \in 1..Len(file)}
    BY <2>3 DEF Range
  <2>6. file \in Surjection(1..Len(file), Range(file))
    BY <2>3, <2>5 DEF Surjection
  <2>7. IsFiniteSet(Range(file))
    BY <2>4, <2>6, FS_Surjection
  <2>8. QED
    BY <2>2, <2>7 DEF Filed
<1>4. QED
  BY <1>1, <1>2, <1>3 DEF Init, ListInv, Carried

LEMMA WriteFacts ==
    ASSUME ListInv, WriteAlert, UNCHANGED course
    PROVE  /\ Filed' /\ Len(file') = Len(file) + 1 /\ Len(file) \in Nat
           /\ Range(file) \subseteq Range(file')
<1>1. course.rows \in Seq(LiveRows) /\ file \in Seq(LiveRows) /\ IsFiniteSet(Range(file))
  BY RowsAssumption DEF ListInv, Filed
<1>2. Len(file) < Len(course.rows) /\ file' = Append(file, course.rows[Len(file) + 1])
  BY DEF WriteAlert
<1>3. course.rows[Len(file) + 1] \in LiveRows
  BY <1>1, <1>2
<1>4. /\ file' \in Seq(LiveRows) /\ Len(file') = Len(file) + 1
      /\ Range(file') = Range(file) \cup {course.rows[Len(file) + 1]} /\ IsFiniteSet(Range(file'))
  BY <1>1, <1>2, <1>3, AppendFacts
<1>5. QED
  BY <1>1, <1>4 DEF Filed

LEMMA ListStep == ASSUME FilesAreOther, ListInv, [Next]_vars PROVE ListInv'
<1>0. file' = file /\ poll' \in {poll, Idle} => Fields' /\ Carried'
  BY ListHeld
<1>1. CASE WriteAlert /\ UNCHANGED course
  <2>1. Filed' /\ Range(file) \subseteq Range(file')
    BY <1>1, WriteFacts
  <2>2. UNCHANGED <<pending, dismissed, dismissedRef, alerts, next, fp, poll>>
    BY <1>1 DEF WriteAlert, console, list, gone, mode
  <2>3. QED
    BY <1>1, <2>1, <2>2 DEF ListInv, Fields, Dismissing, Applied, Labelled, Carried
<1>2. CASE (CountFlow \/ TearStatus \/ WriteStatus \/ WriteEntities \/ PipelineChanges) /\ UNCHANGED course
  BY <1>0, <1>2, ListKept DEF CountFlow, TearStatus, WriteStatus, WriteEntities, PipelineChanges,
                              console, list, gone, mode
<1>3. CASE PollStarts /\ UNCHANGED course
  BY <1>3, StartFields, ListKept DEF PollStarts, files, list, gone, mode, Carried
<1>4. CASE PollStamps /\ UNCHANGED course
  BY <1>4, StampFields, ListKept DEF PollStamps, files, list, gone, mode, ListInv, Carried
<1>5. CASE PollReads /\ UNCHANGED course
  <2>1. Fields' /\ poll'.rows \subseteq Range(file)
    BY <1>5, ReadFields, FiledFacts DEF ListInv
  <2>2. QED
    BY <1>5, <2>1, ListKept DEF PollReads, files, list, gone, mode, Carried
<1>6. CASE PollAnswers /\ UNCHANGED course
  <2>1. Fields' /\ poll'.rows \subseteq Range(file)
    BY <1>6, AnswerFields DEF ListInv, PollAnswers, Carried
  <2>2. QED
    BY <1>6, <2>1, ListKept DEF PollAnswers, files, list, gone, mode, Carried
<1>7. CASE PollApplied /\ UNCHANGED course
  <2>1. /\ poll' = Idle /\ UNCHANGED <<file, pending, dismissed, dismissedRef>>
        /\ poll.rows \subseteq LiveRows /\ Fields' /\ Carried'
    BY <1>0, <1>7, FiledFacts DEF PollApplied, files, gone, ListInv, Carried
  <2>2. Filed'
    BY <2>1 DEF ListInv, Filed
  <2>3. CASE ApplyAlerts(poll.rows, "live")
    <3>1. /\ Applied' /\ Labelled' /\ alerts' = alerts
          /\ next'.rows = poll.rows \ dismissedRef \/ next'.rows = next.rows
      BY <2>1, <2>3, ApplyFits, SourceFacts DEF ListInv
    <3>2. Dismissing'
      BY <2>1, <3>1 DEF ListInv, Dismissing
    <3>3. QED
      BY <1>7, <2>1, <2>2, <3>1, <3>2 DEF ListInv
  <2>4. CASE alerts' = {} /\ fp' = NoFp /\ next' = [rows |-> {}, label |-> "live"]
    BY <1>7, <2>1, <2>2, <2>4 DEF ListInv, Dismissing, Applied, Labelled
  <2>5. CASE UNCHANGED list
    BY <1>7, <2>1, <2>5, ListKept DEF list
  <2>6. QED
    BY <1>7, <2>3, <2>4, <2>5 DEF PollApplied
<1>8. CASE PollFails /\ UNCHANGED course
  BY <1>0, <1>8, ListKept DEF PollFails, files, list, gone
<1>9. CASE OnDelete /\ UNCHANGED course
  <2>1. PICK r \in alerts : /\ dismissed' = dismissed \cup {r} /\ dismissedRef' = dismissed'
                            /\ alerts' = alerts \ {r}
                            /\ next' = [next EXCEPT !.rows = @ \ {r}]
    BY <1>9 DEF OnDelete
  <2>2. UNCHANGED <<file, fp, pending, poll>> /\ ~pending
    BY <1>9 DEF OnDelete, files, mode
  <2>3. next' = [rows |-> next.rows \ {r}, label |-> next.label]
    BY <2>1 DEF ListInv, Labelled
  <2>4. Dismissing' /\ Applied' /\ Labelled'
    BY <2>1, <2>2, <2>3 DEF ListInv, Dismissing, Applied, Labelled
  <2>5. QED
    BY <1>0, <1>9, <2>2, <2>4 DEF ListInv, Filed
<1>10. CASE OnResetAlerts /\ UNCHANGED course
  <2>1. /\ UNCHANGED <<file, pending>> /\ ~pending /\ poll' \in {poll, Idle}
        /\ dismissedRef' = dismissed' /\ alerts' = {} /\ fp' = NoFp
        /\ next' = [next EXCEPT !.rows = {}]
    BY <1>10 DEF OnResetAlerts, EffectFollows, files
  <2>2. next' = [rows |-> {}, label |-> next.label]
    BY <2>1 DEF ListInv, Labelled
  <2>3. Dismissing' /\ Applied' /\ Labelled'
    BY <2>1, <2>2 DEF Dismissing, Applied, ListInv, Labelled
  <2>4. QED
    BY <1>0, <1>10, <2>1, <2>3 DEF ListInv, Filed
<1>11. CASE OnLoadFile /\ UNCHANGED course
  <2>1. PICK rows \in SUBSET FileRows : ApplyAlerts(rows, "file")
    BY <1>11 DEF OnLoadFile
  <2>2. UNCHANGED <<file, poll>> /\ pending' = TRUE /\ dismissed' = {}
    BY <1>11 DEF OnLoadFile, files
  <2>3. Applied' /\ Labelled'
    BY <2>1, ApplyFits, SourceFacts DEF ListInv
  <2>4. Dismissing'
    BY <2>2 DEF Dismissing
  <2>5. QED
    BY <1>0, <1>11, <2>2, <2>3, <2>4 DEF ListInv, Filed
<1>12. CASE (OnResumeLive \/ OnTogglePause \/ OnSelectIp \/ OnCloseDossier) /\ UNCHANGED course
  BY <1>0, <1>12, ListKept DEF OnResumeLive, OnTogglePause, OnSelectIp, OnCloseDossier, EffectFollows,
                               files, list, gone, mode
<1>13. CASE Render /\ UNCHANGED course
  <2>1. /\ UNCHANGED <<file, fp, alerts, next, dismissed>> /\ pending /\ pending' = FALSE
        /\ dismissedRef' = dismissed /\ poll' \in {poll, Idle}
    BY <1>13 DEF Render, files, list
  <2>2. QED
    BY <1>0, <1>13, <2>1 DEF ListInv, Dismissing, Applied, Labelled, Filed
<1>14. CASE Commit /\ UNCHANGED course
  <2>1. /\ UNCHANGED <<file, fp, next, dismissed, dismissedRef, pending, poll>>
        /\ alerts' = next.rows
    BY <1>14 DEF Commit, files, gone, mode
  <2>2. QED
    BY <1>0, <1>14, <2>1 DEF ListInv, Dismissing, Applied, Labelled, Filed
<1>15. CASE UNCHANGED vars
  BY <1>0, <1>15, ListKept DEF vars, state, files, list, gone, mode
<1>16. QED
  BY <1>1, <1>2, <1>3, <1>4, <1>5, <1>6, <1>7, <1>8, <1>9, <1>10, <1>11, <1>12, <1>13, <1>14,
     <1>15 DEF Next, Engine, Polled, Analyst

(* Whatever the polls bring and the analyst does, loads of files included: *)
(* a row that was dismissed does not come back, and the rows in the list   *)
(* are from the source that is named, if files hold other rows than those  *)
(* the engine is writing.                                                  *)
THEOREM RowsAreWhereTheyBelong == ASSUME FilesAreOther PROVE Spec => []RowsBelong
<1>1. ListInv => RowsBelong
  <2>1. SUFFICES ASSUME ListInv PROVE RowsBelong
    OBVIOUS
  <2>2. next.rows \subseteq Sources[next.label]
    <3>1. CASE fp = NoFp
      BY <2>1, <3>1 DEF ListInv, Applied
    <3>2. CASE fp # NoFp
      <4>1. PICK A \in SUBSET Sources[next.label] : next.rows \subseteq A
        BY <2>1, <3>2 DEF ListInv, Applied
      <4>2. QED
        BY <4>1
    <3>3. QED
      BY <3>1, <3>2
  <2>3. Committed => next.rows = alerts /\ next.label = label
    BY DEF Committed
  <2>4. QED
    BY <2>1, <2>2, <2>3 DEF ListInv, Dismissing, RowsBelong
<1>2. ListInv /\ [Next]_vars => ListInv'
  BY ListStep
<1>3. QED
  BY <1>1, <1>2, ListInit, PTL DEF Spec

-----------------------------------------------------------------------------
(* Who polls: an override stops the polling once it is rendered, and drops *)
(* a poll under way, which else carries the stamp that is remembered.      *)
Steady == polling /\ ~pending

Override ==
    /\ {manual, replay, polling, pending} \subseteq BOOLEAN
    /\ replay => manual
    /\ IF pending THEN manual ELSE polling = ~manual
    /\ ~polling => poll = Idle
    /\ Steady /\ poll.stage # "idle" => poll.prev = stampRef

(* A stamp is at most that of the file, which only grows: if it is that of *)
(* the file, then the rows read after it are its last; and all of it,      *)
(* those of the list among them, while the file is read as a whole.        *)
StampOf(n) == n \in Nat /\ n <= Len(file)

Stamped ==
    /\ stampRef # NoStamp => StampOf(stampRef)
    /\ poll.stage \in {"stamped", "read", "answered"} => StampOf(poll.stamp)
    /\ poll.stage \in {"read", "answered"} /\ poll.prev # poll.stamp =>
         /\ poll.stamp = Len(file) => poll.rows = LastRows(file)
         /\ Len(file) <= TailRows /\ Steady /\ fp # NoFp =>
              next.rows \subseteq poll.rows \/ next.rows \subseteq FileRows

(* Shows of the list once it is committed.                                 *)
WillShow ==
    LET due == LastRows(file) \ dismissed
    IN  IF Len(file) <= TailRows THEN due \ swept \subseteq next.rows /\ next.rows \subseteq due
        ELSE fp \in {NoFp, Fingerprint(due)}

(* Without deletions the fingerprint is that of the list, so that it does  *)
(* not take the rows of a grown file for those shown.                      *)
Shown ==
    /\ fp # NoFp => next.rows \subseteq Range(file) \/ next.rows \subseteq FileRows
    /\ ~course.deletes => fp \in {NoFp, Fingerprint(next.rows)}
    /\ Steady /\ file # <<>> /\ stampRef = Len(file) => course.deletes \/ WillShow

ShowInv == Override /\ Stamped /\ Shown

(* A step of the poll that leaves what it has read, and one that drops it. *)
LEMMA ShowKept ==
    ASSUME ShowInv,
           UNCHANGED <<course, file, next, swept, fp, dismissed, stampRef, polling, pending>>,
           Override', poll' \in {poll, Idle}
    PROVE  ShowInv'
<1>1. CASE poll' = poll
  BY <1>1 DEF ShowInv, Stamped, StampOf, Shown, WillShow, Steady
<1>2. CASE poll' = Idle
  BY <1>2 DEF ShowInv, Stamped, StampOf, Shown, WillShow, Steady, Idle
<1>3. QED
  BY <1>1, <1>2

LEMMA ShowInit == Init => ShowInv
<1> SUFFICES ASSUME Init PROVE ShowInv
  OBVIOUS
<1>0. Len(file) \in Nat
  BY ListInit DEF ListInv, Filed
<1>1. Override
  BY DEF Init, Override, Steady, Idle
<1>2. Stamped
  BY DEF Init, Stamped, Idle
<1>3. Shown
  <2>1. fp = NoFp /\ stampRef = NoStamp
    BY DEF Init
  <2>2. stampRef # Len(file)
    BY <1>0, <2>1 DEF NoStamp
  <2>3. QED
    BY <2>1, <2>2 DEF Shown
<1>4. QED
  BY <1>1, <1>2, <1>3 DEF ShowInv

(* Who polls, through every step.                                          *)
LEMMA OverrideStep == ASSUME Fields, Override, [Next]_vars PROVE Override'
<1> USE DEF Override, Steady
<1>1. CASE Engine
  BY <1>1 DEF Engine, WriteAlert, CountFlow, TearStatus, WriteStatus, WriteEntities, PipelineChanges,
              console, mode
<1>2. CASE PollStarts
  BY <1>2, StartFields DEF PollStarts, mode, Idle
<1>3. CASE PollStamps
  BY <1>3, StampFields DEF PollStamps, mode, Idle
<1>4. CASE PollReads
  BY <1>4, ReadFields DEF PollReads, mode, Idle
<1>5. CASE PollAnswers
  BY <1>5, AnswerFields DEF PollAnswers, mode, Idle
<1>6. CASE PollApplied
  BY <1>6 DEF PollApplied, Idle
<1>7. CASE PollFails
  BY <1>7 DEF PollFails, Idle
<1>8. CASE OnDelete \/ OnTogglePause \/ OnSelectIp \/ OnCloseDossier
  BY <1>8 DEF OnDelete, OnTogglePause, OnSelectIp, OnCloseDossier, mode
<1>9. CASE OnResetAlerts
  BY <1>9 DEF OnResetAlerts, EffectFollows, Idle
<1>10. CASE OnLoadFile
  BY <1>10 DEF OnLoadFile
<1>11. CASE OnResumeLive
  BY <1>11 DEF OnResumeLive, EffectFollows, Idle
<1>12. CASE Render
  BY <1>12 DEF Render, Idle
<1>13. CASE Commit
  BY <1>13 DEF Commit, mode
<1>14. CASE UNCHANGED vars
  BY <1>14 DEF vars, state, mode
<1>15. QED
  BY <1>1, <1>2, <1>3, <1>4, <1>5, <1>6, <1>7, <1>8, <1>9, <1>10, <1>11, <1>12, <1>13, <1>14
     DEF Next, Polled, Analyst

(* A poll that is applied to a console at rest: the list comes to have     *)
(* what was read, when that is the whole file.                             *)
LEMMA AppliedShows ==
    ASSUME FilesAreOther, ListInv, ShowInv, Steady, ~course.deletes, Len(file) <= TailRows,
           poll.stage = "answered", poll.prev # poll.stamp,
           ApplyAlerts(poll.rows, "live")
    PROVE  next'.rows = poll.rows \ dismissed
<1> DEFINE sorted == poll.rows \ dismissed
<1>1. dismissedRef = dismissed /\ poll.rows \subseteq LiveRows /\ IsFiniteSet(poll.rows)
  BY FiledFacts, FS_Subset DEF ListInv, Dismissing, Steady, Carried, Filed
<1>2. /\ fp' = Fingerprint(sorted)
      /\ next'.rows = sorted \/ (next'.rows = next.rows /\ fp' = fp)
  BY <1>1, ApplyFits, SourceFacts DEF ListInv
<1>3. CASE next'.rows = next.rows /\ fp' = fp
  <2>1. fp # NoFp /\ Fingerprint(next.rows) = Fingerprint(sorted)
    BY <1>2, <1>3, FingerprintIsOne DEF ShowInv, Shown
  <2>2. next.rows \in SUBSET (Nat \ {0}) /\ sorted \in SUBSET (Nat \ {0})
    BY <1>1, SourceFacts DEF ListInv, Applied, Labelled
  <2>3. /\ next.rows = {} <=> sorted = {}
        /\ next.rows # {} => \E r \in next.rows : r \in sorted
        /\ Cardinality(next.rows) = Cardinality(sorted)
    BY <2>1, <2>2, SameFingerprint
  <2>4. next.rows \subseteq poll.rows \/ next.rows \subseteq FileRows
    BY <2>1 DEF ShowInv, Stamped
  <2>5. next.rows \cap dismissed = {}
    BY DEF ListInv, Dismissing
  <2>6. CASE next.rows \subseteq poll.rows
    <3>1. next.rows \subseteq sorted
      BY <2>5, <2>6
    <3>2. IsFiniteSet(sorted)
      BY <1>1, FS_Subset
    <3>3. next.rows = sorted
      BY <2>3, <3>1, <3>2, FS_Subset
    <3>4. QED
      BY <1>3, <3>3
  <2>7. CASE next.rows \subseteq FileRows
    <3>1. next.rows = {}
      BY <1>1, <2>3, <2>7 DEF FilesAreOther
    <3>2. QED
      BY <1>3, <2>3, <3>1
  <2>8. QED
    BY <2>4, <2>6, <2>7
<1>4. QED
  BY <1>2, <1>3

LEMMA ShowStep == ASSUME FilesAreOther, ListInv, ListInv', ShowInv, [Next]_vars PROVE ShowInv'
<1>0. Override'
  BY OverrideStep DEF ListInv, ShowInv
<1>1. /\ file \in Seq(LiveRows) /\ Len(file) \in Nat /\ NoStamp \notin Nat /\ TailRows \in Nat
      /\ LastRows(file) \subseteq Range(file)
      /\ Len(file) <= TailRows => LastRows(file) = Range(file)
      /\ file # <<>> => LastRows(file) # {}
  BY TailFacts, RowsAssumption DEF ListInv, Filed, NoStamp
<1>2. CASE WriteAlert /\ UNCHANGED course
  <2>1. Len(file') = Len(file) + 1 /\ Range(file) \subseteq Range(file')
    BY <1>2, WriteFacts
  <2>2. UNCHANGED <<course, pending, polling, dismissed, next, swept, fp, poll, stampRef>>
    BY <1>2 DEF WriteAlert, console, list, gone, mode
  <2>3. \A n : StampOf(n) => StampOf(n)' /\ n # Len(file')
    BY <1>1, <2>1 DEF StampOf
  <2>4. Len(file') <= TailRows => Len(file) <= TailRows
    BY <1>1, <2>1
  <2>5. Stamped'
    BY <2>2, <2>3, <2>4 DEF ShowInv, Stamped, Steady
  <2>6. stampRef # Len(file')
    <3>1. CASE stampRef = NoStamp
      BY <1>1, <2>1, <3>1
    <3>2. CASE StampOf(stampRef)
      BY <2>3, <3>2
    <3>3. QED
      BY <3>1, <3>2 DEF ShowInv, Stamped
  <2>7. Shown'
    BY <2>1, <2>2, <2>6 DEF ShowInv, Shown
  <2>8. QED
    BY <1>0, <2>5, <2>7 DEF ShowInv
<1>3. CASE (CountFlow \/ TearStatus \/ WriteStatus \/ WriteEntities \/ PipelineChanges) /\ UNCHANGED course
  BY <1>0, <1>3, ShowKept DEF CountFlow, TearStatus, WriteStatus, WriteEntities, PipelineChanges,
                              console, list, gone, mode
<1>4. CASE (PollStarts \/ PollStamps \/ PollReads \/ PollAnswers) /\ UNCHANGED course
  <2>1. UNCHANGED <<course, file, next, swept, fp, dismissed, stampRef, polling, pending>>
    BY <1>4 DEF PollStarts, PollStamps, PollReads, PollAnswers, files, list, gone, mode
  <2>2. Shown'
    BY <2>1 DEF ShowInv, Shown, WillShow, Steady
  <2>3. Stamped'
    <3>1. CASE PollStarts
      BY <2>1, <3>1, StartFields DEF ShowInv, Stamped, StampOf
    <3>2. CASE PollStamps
      <4>1. poll'.stage = "stamped" /\ poll'.stamp = Len(file)
        BY <3>2, StampFields DEF ListInv
      <4>2. QED
        BY <1>1, <2>1, <4>1 DEF ShowInv, Stamped, StampOf
    <3>3. CASE PollReads
      <4>1. /\ poll'.stage = "read" /\ poll'.prev = poll.prev /\ poll'.stamp = poll.stamp
            /\ poll'.rows = IF poll.prev = poll.stamp THEN {} ELSE LastRows(file)
        BY <3>3, ReadFields DEF ListInv
      <4>2. poll.stage = "stamped"
        BY <3>3 DEF PollReads
      <4>3. QED
        BY <1>1, <2>1, <4>1, <4>2 DEF ShowInv, Stamped, StampOf, Shown
    <3>4. CASE PollAnswers
      <4>1. /\ poll'.stage = "answered" /\ poll'.prev = poll.prev /\ poll'.stamp = poll.stamp
            /\ poll'.rows = poll.rows
        BY <3>4, AnswerFields DEF ListInv
      <4>2. poll.stage = "read"
        BY <3>4 DEF PollAnswers
      <4>3. QED
        BY <2>1, <4>1, <4>2 DEF ShowInv, Stamped, StampOf, Steady
    <3>5. QED
      BY <1>4, <3>1, <3>2, <3>3, <3>4
  <2>4. QED
    BY <1>0, <2>2, <2>3 DEF ShowInv
<1>5. CASE PollApplied /\ UNCHANGED course
  <2>1. /\ poll.stage = "answered" /\ poll' = Idle /\ stampRef' = poll.stamp
        /\ UNCHANGED <<course, file, dismissed, polling, pending>>
        /\ StampOf(poll.stamp) /\ poll.rows \subseteq Range(file)
    BY <1>5 DEF PollApplied, files, gone, ShowInv, Stamped, ListInv, Carried
  <2>2. Stamped'
    BY <2>1 DEF Stamped, StampOf, Idle
  <2>3. CASE poll.prev # poll.stamp /\ poll.rows # {} /\ ApplyAlerts(poll.rows, "live")
    <3>1. /\ fp' = Fingerprint(poll.rows \ dismissedRef)
          /\ \/ next'.rows = poll.rows \ dismissedRef /\ fp' # fp
             \/ next'.rows = next.rows /\ fp' = fp
      BY <2>1, <2>3, ApplyFits, SourceFacts, FiledFacts DEF ListInv
    <3>2. fp' # NoFp => next'.rows \subseteq Range(file') \/ next'.rows \subseteq FileRows
      BY <2>1, <3>1 DEF ShowInv, Shown
    <3>3. ~course.deletes => fp' \in {NoFp, Fingerprint(next'.rows)}
      BY <3>1 DEF ShowInv, Shown
    <3>4. ASSUME Steady, ~course.deletes, poll.stamp = Len(file)
          PROVE  WillShow'
      <4>1. poll.rows = LastRows(file) /\ dismissedRef = dismissed
        BY <2>1, <2>3, <3>4 DEF ShowInv, Stamped, Steady, ListInv, Dismissing
      <4>2. Len(file) <= TailRows => next'.rows = LastRows(file) \ dismissed
        BY <2>1, <2>3, <3>4, <4>1, AppliedShows
      <4>3. QED
        BY <2>1, <3>1, <4>1, <4>2 DEF WillShow
    <3>5. Shown'
      BY <2>1, <3>2, <3>3, <3>4 DEF Shown, Steady
    <3>6. QED
      BY <1>0, <2>2, <3>5 DEF ShowInv
  <2>4. CASE poll.prev # poll.stamp /\ poll.rows = {} /\ next' = [rows |-> {}, label |-> "live"] /\ fp' = NoFp
    <3>1. poll.stamp = Len(file) => file = <<>>
      BY <1>1, <2>1, <2>4 DEF ShowInv, Stamped
    <3>2. QED
      BY <1>0, <2>1, <2>2, <2>4, <3>1 DEF ShowInv, Shown
  <2>5. CASE UNCHANGED list /\ (poll.prev = poll.stamp \/ poll.rows = {})
    <3>1. UNCHANGED <<next, swept, fp>>
      BY <2>5 DEF list
    <3>2. ASSUME Steady, file # <<>>, poll.stamp = Len(file)
          PROVE  course.deletes \/ WillShow
      <4>1. poll.prev = poll.stamp
        BY <1>1, <2>1, <2>5, <3>2 DEF ShowInv, Stamped
      <4>2. stampRef = Len(file)
        BY <2>1, <3>2, <4>1 DEF ShowInv, Override
      <4>3. QED
        BY <3>2, <4>2 DEF ShowInv, Shown
    <3>3. Shown'
      BY <2>1, <3>1, <3>2 DEF ShowInv, Shown, WillShow, Steady
    <3>4. QED
      BY <1>0, <2>2, <3>3 DEF ShowInv
  <2>6. QED
    BY <1>5, <2>3, <2>4, <2>5 DEF PollApplied
<1>6. CASE PollFails /\ UNCHANGED course
  BY <1>0, <1>6, ShowKept DEF PollFails, files, list, gone
<1>7. CASE OnDelete /\ UNCHANGED course
  <2>1. PICK r \in alerts : next' = [next EXCEPT !.rows = @ \ {r}]
    BY <1>7 DEF OnDelete
  <2>2. next'.rows \subseteq next.rows
    BY <2>1 DEF ListInv, Labelled
  <2>3. /\ course.deletes /\ UNCHANGED <<course, file, fp, stampRef, polling, pending, poll>>
    BY <1>7 DEF OnDelete, files, mode
  <2>4. Stamped' /\ Shown'
    BY <2>2, <2>3 DEF ShowInv, Stamped, StampOf, Shown, Steady
  <2>5. QED
    BY <1>0, <2>4 DEF ShowInv
<1>8. CASE OnResetAlerts /\ UNCHANGED course
  <2>1. /\ next' = [next EXCEPT !.rows = {}] /\ fp' = NoFp /\ dismissed' = dismissed \cup alerts
        /\ swept' = swept \cup (next.rows \ alerts)
        /\ UNCHANGED <<course, file, pending>> /\ ~pending /\ poll' \in {poll, Idle}
        /\ stampRef' = IF replay THEN NoStamp ELSE stampRef
    BY <1>8 DEF OnResetAlerts, EffectFollows, files
  <2>2. next'.rows = {}
    BY <2>1 DEF ListInv, Labelled
  <2>3. Stamped'
    BY <2>1 DEF ShowInv, Stamped, StampOf, Idle
  <2>4. ASSUME ~replay, polling' PROVE Steady
    BY <1>8, <2>1, <2>4 DEF OnResetAlerts, EffectFollows, ShowInv, Override, Steady
  <2>5. WillShow => WillShow'
    BY <2>1, <2>2 DEF WillShow
  <2>6. Shown'
    BY <1>1, <2>1, <2>2, <2>4, <2>5 DEF ShowInv, Shown, Steady
  <2>7. QED
    BY <1>0, <2>3, <2>6 DEF ShowInv
<1>9. CASE OnLoadFile /\ UNCHANGED course
  <2>1. PICK rows \in SUBSET FileRows : ApplyAlerts(rows, "file")
    BY <1>9 DEF OnLoadFile
  <2>2. UNCHANGED <<course, file, poll>> /\ pending' = TRUE /\ stampRef' = NoStamp
    BY <1>9 DEF OnLoadFile, files
  <2>3. /\ fp' = Fingerprint(rows \ dismissedRef)
        /\ \/ next'.rows = rows \ dismissedRef /\ fp' # fp
           \/ next'.rows = next.rows /\ fp' = fp
    BY <2>1, ApplyFits, SourceFacts DEF ListInv
  <2>4. Stamped' /\ Shown'
    BY <2>2, <2>3 DEF ShowInv, Stamped, StampOf, Shown, Steady
  <2>5. QED
    BY <1>0, <2>4 DEF ShowInv
<1>10. CASE OnResumeLive /\ UNCHANGED course
  <2>1. /\ UNCHANGED <<course, file, next, fp, dismissed, pending>> /\ stampRef' = NoStamp
        /\ poll' = Idle
    BY <1>10 DEF OnResumeLive, EffectFollows, files, list, gone, ShowInv, Override
  <2>2. Stamped' /\ Shown'
    BY <1>1, <2>1 DEF ShowInv, Stamped, Shown, Idle
  <2>3. QED
    BY <1>0, <2>2 DEF ShowInv
<1>11. CASE (OnTogglePause \/ OnSelectIp \/ OnCloseDossier) /\ UNCHANGED course
  BY <1>0, <1>11, ShowKept DEF OnTogglePause, OnSelectIp, OnCloseDossier, files, list, gone, mode
<1>12. CASE Render /\ UNCHANGED course
  <2>1. /\ UNCHANGED <<course, file, next, fp, dismissed, stampRef>> /\ poll' \in {poll, Idle}
        /\ polling' = FALSE
    BY <1>12 DEF Render, files, list, ShowInv, Override
  <2>2. Stamped' /\ Shown'
    BY <2>1 DEF ShowInv, Stamped, StampOf, Shown, Steady, Idle
  <2>3. QED
    BY <1>0, <2>2 DEF ShowInv
<1>13. CASE Commit /\ UNCHANGED course
  BY <1>0, <1>13, ShowKept DEF Commit, files, gone, mode
<1>14. CASE UNCHANGED vars
  BY <1>0, <1>14, ShowKept DEF vars, state, files, list, gone, mode
<1>15. QED
  BY <1>2, <1>3, <1>4, <1>5, <1>6, <1>7, <1>8, <1>9, <1>10, <1>11, <1>12, <1>13, <1>14
     DEF Next, Engine, Polled, Analyst

(* However the polls, the writes of the engine and the clicks interleave,  *)
(* and however late a list is committed: a console that remembers the      *)
(* stamp of the file shows every row of it that was neither dismissed nor  *)
(* swept away by a reset, if no single row is deleted and loaded files     *)
(* hold other rows; of a file that is read in part, rows with the          *)
(* fingerprint of its last ones.                                           *)
THEOREM NothingIsLeftOut == ASSUME FilesAreOther PROVE Spec => []ShowsTheFile
<1>1. ListInv /\ ShowInv => ShowsTheFile
  <2>1. SUFFICES ASSUME ListInv, ShowInv, Settled, file # <<>>, stampRef = Len(file), ~course.deletes
                 PROVE  Shows
    BY DEF ShowsTheFile, Stamp
  <2>2. WillShow /\ next.rows = alerts
    BY <2>1 DEF ShowInv, Shown, Settled, Steady, Committed
  <2>3. QED
    BY <2>2 DEF WillShow, Shows
<1>2. ListInv /\ [Next]_vars => ListInv'
  BY ListStep
<1>3. ListInv /\ ListInv' /\ ShowInv /\ [Next]_vars => ShowInv'
  BY ShowStep
<1>4. QED
  BY <1>1, <1>2, <1>3, ListInit, ShowInit, PTL DEF Spec

=============================================================================
