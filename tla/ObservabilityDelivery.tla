----------------------- MODULE ObservabilityDelivery -----------------------
(***************************************************************************)
(* The delivery adapter of the observability transport: standard input is  *)
(* cut into lines whatever its chunks, every line is validated, events are *)
(* buffered and sent to the collector in bounded batches, one POST each,   *)
(* against one timer and without a retry.                                  *)
(*                                                                         *)
(* The input is a sequence of characters: "x" a byte of an event, "z" a    *)
(* byte that makes its line something else than a valid event, "r" and "n" *)
(* the line ends.                                                          *)
(***************************************************************************)
EXTENDS Naturals, Sequences, SequencesExt, FiniteSets

CONSTANTS Streams,     \* inputs
          Endpoints,   \* collector addresses given on the command line
          Commands,    \* command lines
          MaxLine,     \* MAX_OBSERVABILITY_EVENT_BYTES
          MaxBatch,    \* MAX_OBSERVABILITY_EVENTS_PER_BATCH
          MaxBatchBytes, Envelope,   \* MAX_OBSERVABILITY_BATCH_BYTES; bytes around the events
          Statuses,    \* answers of the collector
          None

VARIABLES command, endpoint, stream,
          read,       \* characters of the input received so far
          pos,        \* characters consumed as lines
          buffered,   \* lines waiting for a batch
          phase,      \* "read", "post", "discard", "done"
          wire,       \* the batch under way to the collector, or None
          answer,     \* status the collector has answered with, or None
          accepted,   \* external: batches the collector has kept, in order
          batches, events,   \* deliveredBatches, deliveredEvents
          final,      \* the input has ended and its last batch is under way
          exit        \* exit code, or None

vars == <<command, endpoint, stream, read, pos, buffered, phase, wire, answer, accepted,
          batches, events, final, exit>>
input == <<command, endpoint, stream>>

----------------------------------------------------------------------------
(* Lines.                                                                  *)

\* slice(0, newline) without the carriage return before the newline.
stripCR(s) == IF s # <<>> /\ Last(s) = "r" THEN Front(s) ELSE s

\* Index of the first newline in what has been read and not consumed, or 0.
newlineAt ==
  LET at == {i \in (pos + 1)..read : stream[i] = "n"}
  IN IF at = {} THEN 0 ELSE CHOOSE i \in at : \A j \in at : i <= j

pending == SubSeq(stream, pos + 1, read)

validateObservationEvent(line) == \A i \in 1..Len(line) : line[i] = "x"

----------------------------------------------------------------------------
(* Batches.                                                                *)

BytesOf(evs) == FoldLeft(LAMBDA n, e : n + Len(e), 0, evs) + Len(evs) - 1 + Envelope

validateObservationDeliveryBatch(evs) ==
  /\ Len(evs) \in 1..MaxBatch
  /\ \A i \in 1..Len(evs) : validateObservationEvent(evs[i]) /\ Len(evs[i]) <= MaxLine
  /\ BytesOf(evs) <= MaxBatchBytes

validateFixtureEndpoint(e) ==
  /\ e.scheme = "http" /\ e.host \in {"127.0.0.1", "[::1]"}
  /\ ~e.credentials /\ ~e.query /\ ~e.fragment
  /\ e.port # None /\ e.port \in 1024..65535

----------------------------------------------------------------------------
(* The command line.                                                       *)

Exit(code) == phase' = "done" /\ exit' = code

(* check: the parts in which the committed policy and schemas differ from  *)
(* the constants of the adapter; it passes when there is none.             *)
PolicyParts == {"version", "limits", "endpoint", "lifecycle", "custody", "maturity", "schema"}
validateObservabilityTransportPolicy(drift) == drift = {}

runCli ==
  /\ phase = "start"
  /\ IF command = "check"
     THEN \E drift \in SUBSET PolicyParts :
            Exit(IF validateObservabilityTransportPolicy(drift) THEN 0 ELSE 1)
     ELSE IF command # "deliver" THEN Exit(2)
     ELSE phase' = "read" /\ exit' = exit
  /\ UNCHANGED <<input, read, pos, buffered, wire, answer, accepted, batches, events, final>>

Fail == Exit(1)

----------------------------------------------------------------------------
(* boundedJsonLines, pulled by deliverObservationLines.                    *)

\* A chunk arrives once every complete line of the input so far is consumed.
readChunk ==
  /\ phase = "read" /\ newlineAt = 0 /\ Len(pending) <= MaxLine /\ read < Len(stream)
  /\ read' \in (read + 1)..Len(stream)
  /\ UNCHANGED <<input, pos, buffered, phase, wire, answer, accepted, batches, events, final, exit>>

\* What is left of a chunk is already longer than a line may be.
pendingTooLong ==
  /\ phase = "read" /\ newlineAt = 0 /\ Len(pending) > MaxLine
  /\ Fail
  /\ UNCHANGED <<input, read, pos, buffered, wire, answer, accepted, batches, events, final>>

(* flush: the batch is validated, the endpoint is validated, the timer is  *)
(* armed and the POST is sent.                                             *)
flush(evs) ==
  IF validateObservationDeliveryBatch(evs) /\ validateFixtureEndpoint(endpoint)
  THEN phase' = "post" /\ wire' = evs /\ answer' = None /\ exit' = exit
  ELSE Fail /\ UNCHANGED <<wire, answer>>

admitLine(line) ==
  IF Len(line) > MaxLine \/ ~validateObservationEvent(line)
  THEN Fail /\ UNCHANGED <<buffered, wire, answer>>
  ELSE LET b == Append(buffered, line)
       IN /\ buffered' = b
          /\ IF Len(b) = MaxBatch THEN flush(b) ELSE UNCHANGED <<phase, wire, answer, exit>>

nextLine ==
  /\ phase = "read" /\ newlineAt # 0
  /\ LET line == stripCR(SubSeq(stream, pos + 1, newlineAt - 1))
     IN IF line # <<>> THEN admitLine(line) ELSE UNCHANGED <<buffered, phase, wire, answer, exit>>
  /\ pos' = newlineAt
  /\ UNCHANGED <<input, read, accepted, batches, events, final>>

\* The input ends: its last line has no newline, and the rest is flushed.
endOfInput ==
  /\ phase = "read" /\ read = Len(stream) /\ newlineAt = 0 /\ Len(pending) <= MaxLine /\ ~final
  /\ LET line == stripCR(pending)
     IN IF line = <<>>
        THEN UNCHANGED <<buffered, phase, wire, answer, exit>>
        ELSE admitLine(line)
  /\ pos' = read /\ final' = TRUE
  /\ UNCHANGED <<input, read, accepted, batches, events>>

lastFlush ==
  /\ phase = "read" /\ final
  /\ IF buffered # <<>> THEN flush(buffered)
     ELSE /\ IF events = 0 THEN Exit(1) ELSE Exit(0)
          /\ UNCHANGED <<wire, answer>>
  /\ UNCHANGED <<input, read, pos, buffered, accepted, batches, events, final>>

----------------------------------------------------------------------------
(* deliverObservationBatch and the collector.                              *)

\* External: the collector keeps the batch, whether or not anybody waits.
collectorAccepts ==
  /\ wire # None /\ answer = None
  /\ \E s \in Statuses :
       /\ answer' = s
       /\ accepted' = IF s \in 200..299 THEN Append(accepted, wire) ELSE accepted
  /\ wire' = None
  /\ UNCHANGED <<input, read, pos, buffered, phase, batches, events, final, exit>>

\* External: the request is lost before the collector sees it.
requestLost ==
  /\ wire # None /\ answer = None
  /\ wire' = None
  /\ UNCHANGED <<input, read, pos, buffered, phase, answer, accepted, batches, events, final, exit>>

\* The answer arrives before the deadline; its body is discarded next.
response ==
  /\ phase = "post" /\ answer # None
  /\ IF answer \in 100..599 THEN phase' = "discard" /\ exit' = exit ELSE Fail
  /\ UNCHANGED <<input, read, pos, buffered, wire, answer, accepted, batches, events, final>>

\* Mutant: the buffer keeps the events that were delivered.
bodyDiscardedKeep ==
  /\ phase = "discard"
  /\ IF answer \in 200..299
     THEN /\ phase' = "read" /\ exit' = exit
          /\ batches' = batches + 1 /\ events' = events + Len(buffered) /\ buffered' = Tail(buffered)
     ELSE Fail /\ UNCHANGED <<batches, events, buffered>>
  /\ answer' = None
  /\ UNCHANGED <<input, read, pos, wire, accepted, final>>

bodyDiscarded ==
  /\ phase = "discard"
  /\ IF answer \in 200..299
     THEN /\ phase' = "read" /\ exit' = exit
          /\ batches' = batches + 1 /\ events' = events + Len(buffered) /\ buffered' = <<>>
     ELSE Fail /\ UNCHANGED <<batches, events, buffered>>
  /\ answer' = None
  /\ UNCHANGED <<input, read, pos, wire, accepted, final>>

\* Mutant: the timer is cleared when the headers arrive.
deadlineHeaders ==
  /\ phase = "post"
  /\ Fail
  /\ UNCHANGED <<input, read, pos, buffered, wire, answer, accepted, batches, events, final>>

(* The timer fires while the request or the discarding of its body is      *)
(* pending; the collector may still accept what is on the wire.            *)
deadline ==
  /\ phase \in {"post", "discard"}
  /\ Fail
  /\ UNCHANGED <<input, read, pos, buffered, wire, answer, accepted, batches, events, final>>

----------------------------------------------------------------------------
Init ==
  /\ command \in Commands /\ endpoint \in Endpoints /\ stream \in Streams
  /\ read = 0 /\ pos = 0 /\ buffered = <<>>
  /\ phase = "start" /\ wire = None /\ answer = None /\ accepted = <<>>
  /\ batches = 0 /\ events = 0 /\ final = FALSE /\ exit = None

Reader == runCli \/ readChunk \/ pendingTooLong \/ nextLine \/ endOfInput \/ lastFlush

Next == Reader \/ collectorAccepts \/ requestLost \/ response \/ bodyDiscarded \/ deadline

(* The process runs, its input ends, and the timer fires; the collector    *)
(* and the network owe nothing.                                            *)
Fairness == WF_vars(Reader) /\ WF_vars(deadline)

Spec == Init /\ [][Next]_vars /\ Fairness

----------------------------------------------------------------------------
TypeOK ==
  /\ read \in 0..Len(stream) /\ pos \in 0..read
  /\ phase \in {"start", "read", "post", "discard", "done"}
  /\ exit \in {None, 0, 1, 2} /\ (exit = None <=> phase # "done")
  /\ batches \in Nat /\ events \in Nat /\ final \in BOOLEAN
  /\ answer \in Statuses \cup {None}

(* The lines of the whole input, computed without chunks.                  *)
LineEnds == {0} \cup {i \in 1..Len(stream) : stream[i] = "n"} \cup {Len(stream) + 1}
AllLines ==
  LET ends == SetToSortSeq(LineEnds, <)
  IN [i \in 1..(Len(ends) - 1) |-> stripCR(SubSeq(stream, ends[i] + 1, ends[i + 1] - 1))]
InputLines == SelectSeq(AllLines, LAMBDA l : l # <<>>)

Flat(bs) == FoldLeft(LAMBDA s, b : s \o b, <<>>, bs)

(* The collector holds a prefix of the input: in order, each event once,   *)
(* no invalid line, every batch but the last one full - whatever the       *)
(* chunks, and also when the answer to a batch came too late.              *)
CollectorHoldsPrefix ==
  /\ IsPrefix(Flat(accepted), InputLines)
  /\ \A i \in 1..Len(accepted) :
       /\ \A j \in 1..Len(accepted[i]) : validateObservationEvent(accepted[i][j])
       /\ Len(accepted[i]) # MaxBatch => i = Len(accepted) /\ Flat(accepted) = InputLines

(* Exit code 0 means the collector has every event of the input, in as     *)
(* many batches as the adapter reports; the count never exceeds what the   *)
(* collector has.                                                          *)
ReportTruthful ==
  /\ batches <= Len(accepted) /\ events <= Len(Flat(accepted))
  /\ exit = 0 /\ command = "deliver" =>
       /\ Flat(accepted) = InputLines /\ events = Len(InputLines) /\ events > 0
       /\ batches = Len(accepted)

(* The input is refused only when some line of it is not an event, is too  *)
(* long with its line end, or there is none: the chunks decide nothing     *)
(* else. Delivery failures are told apart by an undelivered batch.         *)
RefusalHasReason ==
  exit = 1 /\ command = "deliver" =>
    \/ ~validateFixtureEndpoint(endpoint)
    \/ Len(buffered) = MaxBatch \/ (final /\ buffered # <<>>)     \* its delivery failed
    \/ InputLines = <<>>
    \/ \E i \in 1..Len(InputLines) : ~validateObservationEvent(InputLines[i])
    \/ \E a \in LineEnds, b \in LineEnds :
         a < b /\ "n" \notin Range(SubSeq(stream, a + 1, b - 1)) /\ b - 1 - a > MaxLine

(* Telemetry leaves for the loopback collector only.                       *)
LoopbackOnly ==
  wire # None \/ accepted # <<>> =>
    endpoint.host \in {"127.0.0.1", "[::1]"} /\ endpoint.scheme = "http" /\ ~endpoint.credentials

(* The adapter at work.                                                    *)
Delivering == phase # "done"
============================================================================
