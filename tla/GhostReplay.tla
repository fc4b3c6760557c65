------------------------------ MODULE GhostReplay ------------------------------
(***************************************************************************)
(* The crash scrubber of the studio (CrashScrubber in App.tsx) and the     *)
(* indexed ghost overlay it replays (ghostReplay.ts).  An overlay comes    *)
(* from a maintenance record's payload, which the gateway stores as it was *)
(* sent: parseGhostReplay decides whether it can be replayed, and          *)
(* seekGhostReplay trusts what parsing established: it searches the seek   *)
(* index, then only the points between two of its entries.                 *)
(*                                                                         *)
(* Times are whole ticks; positions are one coordinate; sequences are      *)
(* indexed from 1.                                                         *)
(***************************************************************************)
EXTENDS Integers, Sequences, FiniteSets

CONSTANTS
    Payloads,       \* maintenance payloads: [window, overlay], each or NoRecord
    TicksPerSecond, \* the resolution of time
    MaxElapsed,     \* bound: ticks between two animation frames (0.1 s in the code)
    NoRecord

VARIABLES
    records,        \* the maintenance records shown: a sequence of payloads
    selected,       \* the selected record's position (its id), 0 when none
    scrubS,         \* the time shown
    playing

replayVars == <<records, selected, scrubS, playing>>

AbsDiff(a, b) == IF a > b THEN a - b ELSE b - a
MinOf(a, b) == IF a < b THEN a ELSE b
MaxOf(a, b) == IF a > b THEN a ELSE b

-------------------------------------------------------------------------------

\* parsePoint: the recorded divergence is the distance of the two positions
validPoint(point) == point.divergence = AbsDiff(point.actual, point.predicted)

\* parseSeekEntry: in range, and addressing the last point at or before its time
validSeekEntry(entry, points) ==
    /\ entry.time >= points[1].time /\ entry.time <= points[Len(points)].time
    /\ entry.point \in DOMAIN points
    /\ points[entry.point].time <= entry.time
    /\ entry.point + 1 \in DOMAIN points => points[entry.point + 1].time > entry.time

\* parseDivergence: values go with the status, and the status with the threshold
validDivergence(d) ==
    /\ (d.status = "missing") <=> (d.maxM = NoRecord)
    /\ d.maxM # NoRecord => (d.status = "diverged") = (d.maxM >= d.warnM)

\* the points: endpoints at the time bounds, time strictly increasing, no more
\* of them than source samples, every divergence consistent
validPoints(o) ==
    LET n == Len(o.points) IN
    /\ n >= 2
    /\ n <= o.sourceSampleCount
    /\ o.points[1].time = o.startS /\ o.points[n].time = o.endS
    /\ \A i \in 2..n : o.points[i].time > o.points[i - 1].time
    /\ \A i \in 1..n : validPoint(o.points[i])

\* the seek index: it spans the trace, is monotonic and leaves no gap over 1 s
validSeekIndex(o) ==
    LET n == Len(o.seekIndex) IN
    /\ n >= 2
    /\ \A i \in 1..n : validSeekEntry(o.seekIndex[i], o.points)
    /\ o.seekIndex[1].time = o.startS /\ o.seekIndex[n].time = o.endS
    /\ \A i \in 2..n :
          /\ o.seekIndex[i].time > o.seekIndex[i - 1].time
          /\ o.seekIndex[i].point >= o.seekIndex[i - 1].point
          /\ o.seekIndex[i].time - o.seekIndex[i - 1].time <= TicksPerSecond

\* tryParseGhostReplay: the overlay when it is one, None when parsing throws
parseGhostReplay(o) ==
    IF /\ o # NoRecord
       /\ o.unverified                      \* no device, recording or field claim
       /\ o.endS >= o.startS
       /\ o.durationS = o.endS - o.startS
       /\ validPoints(o)
       /\ validSeekIndex(o)
       /\ validDivergence(o.divergence)
    THEN o ELSE NoRecord

\* the loop both searches of seekGhostReplay run: the last index of from..to
\* whose time is at or before t, from when there is none; what is left to search
\* are the indices lo..lo + width
searchTimes(entries, from, to, t) ==
    LET search[width \in 0..(to - from)] ==
            [lo \in from..(to - width) |->
                LET half == (width + 1) \div 2 IN
                IF width = 0 THEN lo
                ELSE IF entries[lo + half].time <= t THEN search[width - half][lo + half]
                                                     ELSE search[half - 1][lo]]
    IN  search[to - from][from]

\* mix: the position at a ratio of the way between two, as a fraction
mix(left, right, ratio) ==
    [num |-> left * ratio.den + (right - left) * ratio.num, den |-> ratio.den]

\* seekGhostReplay
seekGhostReplay(replay, requested) ==
    LET t == MinOf(replay.endS, MaxOf(replay.startS, requested))
        n == Len(replay.points)
        indexLow == searchTimes(replay.seekIndex, 1, Len(replay.seekIndex), t)
        pointLow == replay.seekIndex[indexLow].point
        pointHigh == IF indexLow + 1 <= Len(replay.seekIndex)
                     THEN MinOf(n, replay.seekIndex[indexLow + 1].point + 1) ELSE n
        before == searchTimes(replay.points, pointLow, pointHigh, t)
        after == MinOf(n, before + 1)
        left == replay.points[before]
        right == replay.points[after]
        span == right.time - left.time
        ratio == IF span > 0 THEN [num |-> t - left.time, den |-> span] ELSE [num |-> 0, den |-> 1]
    IN  [timeS |-> t, before |-> before, after |-> after,
         actual |-> mix(left.actual, right.actual, ratio),
         predicted |-> mix(left.predicted, right.predicted, ratio)]

-------------------------------------------------------------------------------

Active == IF selected \in DOMAIN records THEN records[selected]
          ELSE IF records # <<>> THEN records[1] ELSE NoRecord
\* crashWindow: the payload's impact window, when it is one
crashWindow(p) ==
    IF p # NoRecord /\ p.window # NoRecord /\ p.window.endS > p.window.startS
    THEN p.window ELSE NoRecord
replayOf(p) == IF p = NoRecord THEN NoRecord ELSE parseGhostReplay(p.overlay)
Replay == replayOf(Active)

\* the effect on a new active record or payload: go to the impact, or to the
\* start of the replay, and stop
OnActiveChanged(p) ==
    /\ playing' = FALSE
    /\ scrubS' = CASE crashWindow(p) # NoRecord -> crashWindow(p).impactS
                   [] crashWindow(p) = NoRecord /\ replayOf(p) # NoRecord -> replayOf(p).startS
                   [] OTHER -> 0

ReplayInit ==
    /\ records = <<>>
    /\ selected = 0
    /\ scrubS = 0
    /\ playing = FALSE

\* the maintenance records are fetched again: the payloads are new objects, so
\* the effect runs even when the same record is shown; a selection that is
\* gone falls back to the first record, or to none
RecordsArrive ==
    /\ \E p \in Payloads : records' \in {<<>>, <<p>>, <<Active, p>>, <<p, Active>>}
    /\ NoRecord \notin {records'[i] : i \in DOMAIN records'}
    /\ selected' = IF selected \in DOMAIN records' THEN selected ELSE MinOf(1, Len(records'))
    /\ OnActiveChanged(IF selected' = 0 THEN NoRecord ELSE records'[selected'])

Select ==
    /\ \E i \in DOMAIN records : i # selected /\ selected' = i /\ OnActiveChanged(records[i])
    /\ UNCHANGED records

\* the range input: over the replay, or over the window when there is none
Drag ==
    /\ records # <<>>
    /\ Replay # NoRecord \/ crashWindow(Active) # NoRecord
    /\ LET range == IF Replay # NoRecord THEN Replay ELSE crashWindow(Active) IN
          scrubS' \in range.startS..range.endS
    /\ playing' = FALSE
    /\ UNCHANGED <<records, selected>>

StepBack ==
    /\ Replay # NoRecord
    /\ scrubS' = MaxOf(Replay.startS, scrubS - 1)
    /\ playing' = FALSE
    /\ UNCHANGED <<records, selected>>

StepForward ==
    /\ Replay # NoRecord
    /\ scrubS' = MinOf(Replay.endS, scrubS + 1)
    /\ playing' = FALSE
    /\ UNCHANGED <<records, selected>>

\* the play button: at the end it starts over
TogglePlay ==
    /\ Replay # NoRecord
    /\ scrubS' = IF ~playing /\ scrubS >= Replay.endS THEN Replay.startS ELSE scrubS
    /\ playing' = ~playing
    /\ UNCHANGED <<records, selected>>

\* one animation frame of the playing effect
AnimationFrame ==
    /\ playing /\ Replay # NoRecord
    /\ \E elapsed \in 0..MaxElapsed :
          LET next == MinOf(Replay.endS, scrubS + elapsed) IN
          /\ scrubS' = next
          /\ playing' = (next < Replay.endS)
    /\ UNCHANGED <<records, selected>>

ReplayNext ==
    RecordsArrive \/ Select \/ Drag \/ StepBack \/ StepForward \/ TogglePlay \/ AnimationFrame

ReplaySpec == ReplayInit /\ [][ReplayNext]_replayVars

-------------------------------------------------------------------------------

\* The variables hold values of their types.
ReplayTypeOK ==
    /\ Len(records) <= 2
    /\ selected \in 0..Len(records)
    /\ scrubS \in Int
    /\ playing \in BOOLEAN

\* Whatever overlay was accepted and wherever the scrubber stands, the indexed
\* search finds the point a scan of the whole trace would find, and the shown
\* position lies between that point and the next, on it at its own time.
SeekFindsThePoint ==
    Replay # NoRecord =>
        LET frame == seekGhostReplay(Replay, scrubS)
            upTo == {i \in DOMAIN Replay.points : Replay.points[i].time <= frame.timeS}
            left == Replay.points[frame.before].actual
            right == Replay.points[frame.after].actual
        IN  /\ frame.before \in upTo
            /\ \A i \in upTo : i <= frame.before
            /\ frame.actual.num >= MinOf(left, right) * frame.actual.den
            /\ frame.actual.num <= MaxOf(left, right) * frame.actual.den
            /\ frame.timeS = Replay.points[frame.before].time =>
                 frame.actual.num = left * frame.actual.den

\* Only a replay that can be replayed plays, and it never plays on at its end:
\* a refresh, a selection or a vanished record stops it.
PlaysWithinReplay == playing => Replay # NoRecord /\ scrubS < Replay.endS

\* the scrubber's safety
ReplaySafe == SeekFindsThePoint /\ PlaysWithinReplay
===============================================================================
