------------------------------ MODULE Playback ------------------------------
(***************************************************************************)
(* The playback of a loaded file (Dashboard.tsx): rows are revealed as a   *)
(* clock runs over their timestamps, and the analyst plays, pauses, seeks, *)
(* skips, restarts, changes the speed, deletes a row or loads another file.*)
(* The controls are set at once, but the rows of a file come in a later    *)
(* transition: until then the rows before them are played.                 *)
(*                                                                         *)
(* A row is its timestamp.  The clock belongs to an effect that is started *)
(* anew when the rows, the speed or `playing' change, and only then.  What *)
(* the analyst does is bounded in number; the speed only matters for that. *)
(***************************************************************************)
EXTENDS Naturals, FiniteSets, FiniteSetsExt

CONSTANTS
    Files,        \* the files there are: sets of timestamps
    Analysts,     \* kinds of analysts: whether they delete, restart as it plays, seek
                  \* before a file has come, or look at views of the rows (AlertViews)
    NoSeek,       \* the null of replaySeekTRef
    MaxClicks     \* bound: what the analyst does

ASSUME PlaybackAssumption ==
    /\ \A f \in Files : f # {} /\ f \subseteq Nat /\ IsFiniteSet(f)
    /\ Analysts \subseteq SUBSET {"deletes", "restarts", "hurries", "looks"} /\ MaxClicks \in Nat

VARIABLES
    analyst,   \* what the analyst may do besides the other controls
    rows,      \* timestamps of the rows that are left
    coming,    \* those of the file whose transition is under way, or none
    count,     \* how many of them are revealed
    playing,
    seek,      \* replaySeekTRef
    clock,     \* pendingT of the running effect
    sought,    \* where the analyst sought last, since then left alone (auxiliary)
    clicks     \* auxiliary, for the bound

vars == <<analyst, rows, coming, count, playing, seek, clock, sought, clicks>>

tMin == Min(rows)
tMax == Max(rows)

(* The place of a row among the rows, in their order.                      *)
Place(rs, r) == Cardinality({s \in rs : s <= r})

(* sessionAlerts: the first of the rows in their order.                    *)
Revealed == {r \in rows : Place(rows, r) <= count}

(* upperBoundIndex: how many rows are not after t.  The mistake goes on to *)
(* the next row.                                                           *)
UpperBoundNext(rs, t) == Cardinality({r \in rs : r <= t}) + (IF t < Max(rs) THEN 1 ELSE 0)
UpperBound(rs, t) == Cardinality({r \in rs : r <= t})

(* The timestamp of the n-th row, or of the last.                          *)
CountTh(rs, n) ==
    CHOOSE r \in rs : Place(rs, r) = IF n < Cardinality(rs) THEN n ELSE Cardinality(rs)

(* Where an effect that starts with these rows begins, and what it shows.  *)
(* The mistake forgets the position sought.                                *)
EffectStartsAnew(rs, n, from) ==
    LET t == IF n > 0 THEN CountTh(rs, n) ELSE Min(rs)
        again == n >= Cardinality(rs) \/ t >= Max(rs)
    IN  /\ clock' = IF again THEN Min(rs) ELSE t
        /\ count' = IF again THEN 1 ELSE n
        /\ seek' = NoSeek
EffectStarts(rs, n, from) ==
    LET t == IF from # NoSeek THEN from
             ELSE IF n > 0 THEN CountTh(rs, n) ELSE Min(rs)
        again == n >= Cardinality(rs) \/ t >= Max(rs)
    IN  /\ clock' = IF again THEN Min(rs) ELSE t
        /\ count' = IF again THEN 1 ELSE n
        /\ seek' = NoSeek

(* The first file is loaded, over rows of before or over none.             *)
Init ==
    /\ analyst \in Analysts
    /\ rows \in Files /\ playing = TRUE
    /\ coming \in {{}} \cup {f \in Files : f \cap rows = {}}
    /\ count = 1 /\ clock = tMin
    /\ seek = NoSeek /\ sought = NoSeek
    /\ clicks = 0

-----------------------------------------------------------------------------
(* A frame of the animation; the rows follow at most every 50 ms.  The     *)
(* mistake goes round.                                                     *)
StepRound ==
    /\ playing
    /\ clock' = IF clock + 1 >= tMax THEN tMin ELSE clock + 1
    /\ count' = UpperBound(rows, clock')
    /\ UNCHANGED <<rows, coming, playing, seek, sought, clicks>>
Step ==
    /\ playing
    /\ clock' = clock + 1
    /\ \/ /\ clock' >= tMax /\ playing' = FALSE /\ count' = Cardinality(rows)
       \/ /\ clock' < tMax /\ UNCHANGED playing
          /\ count' \in {count, UpperBound(rows, clock')}
    /\ UNCHANGED <<rows, coming, seek, sought, clicks>>

Click == clicks < MaxClicks /\ clicks' = clicks + 1

(* Played to the end, play starts over.                                    *)
OnPlayPause ==
    /\ Click
    /\ \/ /\ playing /\ playing' = FALSE
          /\ UNCHANGED <<count, seek, clock>>
       \/ /\ ~playing /\ playing' = TRUE
          /\ IF count >= Cardinality(rows)
             THEN EffectStarts(rows, 1, tMin)
             ELSE EffectStarts(rows, count, seek)
    /\ sought' = NoSeek
    /\ UNCHANGED <<rows, coming>>

OnSeek ==
    /\ coming = {} \/ "hurries" \in analyst
    /\ Click
    /\ \E t \in tMin .. tMax :
        /\ seek' = t /\ sought' = t
        /\ count' = UpperBound(rows, t)
    /\ playing' = FALSE
    /\ UNCHANGED <<rows, coming, clock>>

OnSkipEnd ==
    /\ Click
    /\ playing' = FALSE /\ seek' = NoSeek /\ sought' = NoSeek
    /\ count' = Cardinality(rows)
    /\ UNCHANGED <<rows, coming, clock>>

(* While it plays, no dependency of the effect changes.                    *)
OnRestart ==
    /\ Click
    /\ playing' = TRUE /\ sought' = NoSeek
    /\ \/ ~playing /\ EffectStarts(rows, 1, tMin)
       \/ playing /\ "restarts" \in analyst /\ count' = 1 /\ seek' = tMin /\ UNCHANGED clock
    /\ UNCHANGED <<rows, coming>>

OnSpeed ==
    /\ Click
    /\ \/ playing /\ EffectStarts(rows, count, seek)
       \/ ~playing /\ UNCHANGED <<count, seek, clock>>
    /\ UNCHANGED <<rows, coming, playing, sought>>

OnDelete ==
    /\ "deletes" \in analyst /\ Click
    /\ \E r \in Revealed :
        /\ rows' = rows \ {r} /\ rows' # {}
        /\ \/ playing /\ EffectStarts(rows', count, seek)
           \/ ~playing /\ UNCHANGED <<count, seek, clock>>
    /\ sought' = NoSeek
    /\ UNCHANGED <<coming, playing>>

(* A file of other rows.  The effect starts anew if it plays from now on,  *)
(* or at another speed than before; but with the rows that are there.      *)
OnLoadFile ==
    /\ Click
    /\ \E f \in Files : f \cap (rows \cup coming) = {} /\ coming' = f
    /\ playing' = TRUE /\ sought' = NoSeek
    /\ \/ EffectStarts(rows, 1, seek)
       \/ playing /\ count' = 1 /\ UNCHANGED <<seek, clock>>
    /\ UNCHANGED rows

(* The transition ends: the effect starts anew with as many rows revealed  *)
(* as there were of the others.                                            *)
Commit ==
    /\ coming # {} /\ rows' = coming /\ coming' = {}
    /\ \/ playing /\ EffectStarts(rows', count, seek)
       \/ ~playing /\ UNCHANGED <<count, seek, clock>>
    /\ sought' = NoSeek
    /\ UNCHANGED <<playing, clicks>>

PlayOrControl ==
    \/ Step
    \/ Commit
    \/ OnPlayPause \/ OnSeek \/ OnSkipEnd \/ OnRestart \/ OnSpeed \/ OnDelete

Next == UNCHANGED analyst /\ (PlayOrControl \/ OnLoadFile)

Spec == Init /\ [][Next]_vars /\ WF_clock(Step)

-----------------------------------------------------------------------------
(* An analyst whose controls keep the clock and the rows together.         *)
Careful == analyst \cap {"deletes", "restarts", "hurries"} = {}

(* The clock is the cursor: while it runs, no row after it is revealed but *)
(* the first, which the playback starts with.  A deletion, a restart while *)
(* it plays, or a seek in rows about to go, moves the one without the other.*)
NothingAhead == Careful /\ playing => \A r \in Revealed : r <= clock \/ r = tMin

(* Play resumes where the analyst sought: the exact time, not that of the  *)
(* row before it.                                                          *)
SeekIsHonoured ==
    [][Careful /\ OnPlayPause /\ ~playing /\ sought # NoSeek /\ sought < tMax
         => clock' = sought]_vars

(* Left alone, every playback ends.                                        *)
PlaysToTheEnd == <>[]~playing

=============================================================================
