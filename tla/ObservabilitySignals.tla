------------------------ MODULE ObservabilitySignals ------------------------
(***************************************************************************)
(* The events the gateway and the workers write, the checks each side makes*)
(* of them, and the projection of one delivery batch into metric series    *)
(* and sampled trace spans.                                                *)
(*                                                                         *)
(* An event is one record; a field it does not have is None. Field hash is *)
(* the outcome of the 1-in-64 hash of its trace and span. Durations are    *)
(* counted in tenths of the microsecond grain they are rounded to.         *)
(***************************************************************************)
EXTENDS Naturals, Sequences, SequencesExt, FiniteSets, FiniteSetsExt

CONSTANTS Runtimes,         \* [env, rev, dep] of a producing process
          Responses,        \* [method, route, status, dur, hash] of gateway requests
          Attempts,         \* worker attempts: job, task, provider, n, request, call, outcome ...
          Candidates,       \* arbitrary events, for the comparison of the validators
          Documented, Tasks,   \* contracts/documentation.json: routes and worker tasks
          GatewayBuckets, WorkerBuckets,
          GatewaySlow, WorkerSlow, GatewayMax, WorkerMax, RetryMax,
          MaxEvents,        \* MAX_OBSERVABILITY_EVENTS_PER_BATCH
          None

VARIABLES batch, candidate, signals
vars == <<batch, candidate, signals>>

Unmanaged == {"local", "ci"}
Environments == Unmanaged \cup {"sandbox", "staging", "production", "controlled-lab"}
METHODS == {"DELETE", "GET", "HEAD", "OPTIONS", "PATCH", "POST", "PUT"}

----------------------------------------------------------------------------
(* The gateway's event and its check.                                      *)

requestOutcome(status) ==
  IF status >= 500 THEN "server-error" ELSE IF status >= 400 THEN "client-error" ELSE "success"

LevelOfRequest(outcome) ==
  IF outcome = "server-error" THEN "error" ELSE IF outcome = "client-error" THEN "warn" ELSE "info"

roundMillis(d) == ((d + 5) \div 10) * 10

createGatewayRequestObservation(rt, r) ==
  LET outcome == requestOutcome(r.status)
  IN [name |-> "gateway.request.completed", service |-> "gateway", level |-> LevelOfRequest(outcome),
      env |-> rt.env, rev |-> rt.rev, dep |-> rt.dep, request |-> "q", parent |-> None, job |-> None,
      attempt |-> None, call |-> None, method |-> r.method, route |-> r.route, status |-> r.status,
      outcome |-> outcome, dur |-> roundMillis(r.dur), task |-> None, provider |-> None, n |-> None,
      error |-> None, retry |-> None, hash |-> r.hash]

validateGatewayRequestObservation(e) ==
  /\ e.name = "gateway.request.completed" /\ e.service = "gateway"
  /\ e.env \in Environments
  /\ e.env \notin Unmanaged => e.rev # None
  /\ e.request # None
  /\ \A f \in {"parent", "job", "attempt", "call"} : e[f] = None
  /\ IF e.env \notin Unmanaged THEN e.dep # None ELSE e.dep = None
  /\ e.method \in METHODS /\ e.route # None
  /\ e.status \in 100..599
  /\ e.outcome = requestOutcome(e.status) /\ e.level = LevelOfRequest(e.outcome)
  /\ e.dur \in 0..GatewayMax
  \* attributes: the request-completion allowlist
  /\ \A f \in {"task", "provider", "n", "error", "retry"} : e[f] = None

----------------------------------------------------------------------------
(* The worker's events and their check.                                    *)

WorkerOutcomes == {"succeeded", "retry-scheduled", "failed", "discarded"}
LevelOfAttempt(o) == IF o = "succeeded" THEN "info" ELSE IF o = "failed" THEN "error" ELSE "warn"

base_event(name, level, rt, a) ==
  [name |-> name, service |-> "workers", level |-> level, env |-> rt.env, rev |-> rt.rev,
   dep |-> rt.dep, request |-> a.request, parent |-> a.request, job |-> a.job, attempt |-> "attempt",
   call |-> IF name = "worker.job.attempt.completed" THEN a.call ELSE None,
   method |-> None, route |-> None, status |-> None, outcome |-> None, dur |-> None,
   task |-> a.task, provider |-> a.provider, n |-> IF a.n < 1 THEN 1 ELSE a.n,
   error |-> None, retry |-> None, hash |-> a.hash]

create_worker_attempt_started_observation(rt, a) ==
  base_event("worker.job.attempt.started", "info", rt, a)

create_worker_attempt_completed_observation(rt, a) ==
  [base_event("worker.job.attempt.completed", LevelOfAttempt(a.outcome), rt, a) EXCEPT
     !.outcome = a.outcome, !.dur = roundMillis(a.dur), !.error = a.error, !.retry = a.retry]

validate_worker_observation(e) ==
  /\ e.service = "workers" /\ e.env \in Environments
  /\ e.env \notin Unmanaged => e.rev # None
  /\ (e.request = None) <=> (e.parent = None)
  /\ e.job # None /\ e.attempt # None
  /\ IF e.env \notin Unmanaged THEN e.dep # None ELSE e.dep = None
  /\ e.method = None /\ e.route = None /\ e.status = None
  /\ e.task # None /\ e.provider \in {"local", "modal"} /\ e.n \in 1..10
  /\ \/ /\ e.name = "worker.job.attempt.started"
        /\ e.level = "info" /\ e.call = None
        /\ e.outcome = None /\ e.dur = None /\ e.error = None /\ e.retry = None
     \/ /\ e.name = "worker.job.attempt.completed"
        /\ e.outcome \in WorkerOutcomes /\ e.level = LevelOfAttempt(e.outcome)
        /\ e.dur \in 0..WorkerMax /\ e.retry \in (0..RetryMax) \cup {None}
        /\ e.outcome = "succeeded" => e.error = None /\ e.retry = None
        /\ e.outcome = "retry-scheduled" => e.error # None /\ e.retry # None
        /\ e.outcome \in {"failed", "discarded"} => e.error # None /\ e.retry = None
        /\ e.call # None => e.provider = "modal" /\ e.task = "train.policy"

----------------------------------------------------------------------------
(* The transport's check of any event.                                     *)

validateEnvelope(e) ==
  /\ e.level \in {"info", "warn", "error"} /\ e.env \in Environments
  /\ e.env \notin Unmanaged => e.rev # None
  /\ IF e.env \in Unmanaged THEN e.dep = None ELSE e.dep # None

validateGatewayEvent(e) ==
  /\ e.service = "gateway" /\ e.request # None
  /\ e.parent = None /\ e.job = None /\ e.attempt = None /\ e.call = None
  /\ e.task = None /\ e.provider = None /\ e.n = None /\ e.error = None /\ e.retry = None
  /\ e.method \in METHODS /\ e.route # None
  /\ e.status \in 100..599
  /\ e.outcome = requestOutcome(e.status) /\ e.level = LevelOfRequest(e.outcome)
  /\ e.dur \in 0..GatewayMax

workerAttributes(e) ==
  /\ e.service = "workers"
  /\ (e.request = None) <=> (e.parent = None)
  /\ e.job # None /\ e.attempt # None
  /\ e.method = None /\ e.route = None /\ e.status = None
  /\ e.task # None /\ e.provider \in {"local", "modal"} /\ e.n \in 1..10
  /\ IF e.name = "worker.job.attempt.started"
     THEN /\ e.outcome = None /\ e.dur = None /\ e.error = None /\ e.retry = None
          /\ e.level = "info" /\ e.call = None
     ELSE /\ e.outcome \in WorkerOutcomes /\ e.level = LevelOfAttempt(e.outcome)
          /\ e.dur \in 0..WorkerMax /\ e.retry \in (0..RetryMax) \cup {None}
          /\ CASE e.outcome = "succeeded" -> e.error = None /\ e.retry = None
               [] e.outcome = "retry-scheduled" -> e.error # None /\ e.retry # None
               [] OTHER -> e.error # None /\ e.retry = None

validateWorkerEvent(e) ==
  /\ workerAttributes(e)
  /\ e.call # None => e.provider = "modal" /\ e.task = "train.policy"

validateObservationEvent(e) ==
  /\ validateEnvelope(e)
  /\ CASE e.name = "gateway.request.completed" -> validateGatewayEvent(e)
       [] e.name \in {"worker.job.attempt.started", "worker.job.attempt.completed"} -> validateWorkerEvent(e)
       [] OTHER -> FALSE

----------------------------------------------------------------------------
(* Projection. A series is keyed by metric and labels.                     *)

(* The method/route pairs the generated documentation names; method "*"    *)
(* stands for all, and no pair may be named twice.                         *)
Expanded(r) == {<<m, r.path>> : m \in IF r.method = "*" THEN METHODS ELSE {r.method}}
authorityFromDocumentation == UNION {Expanded(r) : r \in Documented}

Completion(e) == e.name # "worker.job.attempt.started"
Gateway(e) == e.name = "gateway.request.completed"

KnownLabels(e) ==
  IF Gateway(e) THEN e.route = "unmatched" \/ <<e.method, e.route>> \in authorityFromDocumentation ELSE e.task \in Tasks

CounterOf(e) ==
  IF Gateway(e) THEN "requests_total" ELSE IF Completion(e) THEN "completed_total" ELSE "started_total"
HistogramOf(e) == IF Gateway(e) THEN "request_ms" ELSE "attempt_ms"
HistogramFor(counter) == IF counter = "requests_total" THEN "request_ms" ELSE "attempt_ms"
BucketsOf(metric) == IF metric = "request_ms" THEN GatewayBuckets ELSE WorkerBuckets
Histograms == {"request_ms", "attempt_ms"}

LabelsOf(e) ==
  IF Gateway(e) THEN <<e.env, e.method, e.route, e.status \div 100>>
  ELSE IF Completion(e) THEN <<e.env, e.outcome, e.provider, e.task>> ELSE <<e.env, e.provider, e.task>>

Put(series, key, v) ==
  [k \in DOMAIN series \cup {key} |-> IF k = key THEN v ELSE series[k]]

addCounter(series, e) ==
  LET key == <<CounterOf(e), LabelsOf(e)>>
  IN Put(series, key, IF key \in DOMAIN series THEN series[key] + 1 ELSE 1)

NewHistogram(metric) ==
  [count |-> 0, sum |-> 0, buckets |-> [i \in 1..Len(BucketsOf(metric)) |-> 0]]

addHistogram(series, e) ==
  LET metric == HistogramOf(e)
      key == <<metric, LabelsOf(e)>>
      h == IF key \in DOMAIN series THEN series[key] ELSE NewHistogram(metric)
  IN Put(series, key,
       [count |-> h.count + 1, sum |-> h.sum + roundMillis(e.dur),
        buckets |-> [i \in DOMAIN h.buckets |->
                       h.buckets[i] + IF e.dur <= BucketsOf(metric)[i] THEN 1 ELSE 0]])

Slow(e) == e.dur >= IF Gateway(e) THEN GatewaySlow ELSE WorkerSlow
Failure(e) == e.outcome \notin {"success", "succeeded"}

\* The reasons in their fixed order, written as a set.
traceReasons(e) ==
  IF ~Completion(e) THEN {}
  ELSE LET reasons == (IF Failure(e) THEN {"failure"} ELSE {}) \cup (IF Slow(e) THEN {"slow"} ELSE {})
       IN IF reasons = {} /\ e.hash THEN {"baseline"} ELSE reasons

traceFromEvent(e, reasons) == [event |-> e, reasons |-> reasons]

----------------------------------------------------------------------------
(* The check of a signal set.                                              *)

labelsAreValid(metric, labels) ==
  /\ labels[1] \in Environments
  /\ IF metric \in {"requests_total", "request_ms"}
     THEN /\ labels[2] \in METHODS /\ labels[4] \in 1..5
          /\ labels[3] = "unmatched" \/ <<labels[2], labels[3]>> \in authorityFromDocumentation
     ELSE LET l == IF metric = "started_total" THEN <<"succeeded">> \o Tail(labels) ELSE Tail(labels)
          IN l[1] \in WorkerOutcomes /\ l[2] \in {"local", "modal"} /\ l[3] \in Tasks

validateMetricSeries(set) ==
  \A k \in DOMAIN set.series :
    LET v == set.series[k]
    IN /\ labelsAreValid(k[1], k[2])
       /\ IF k[1] \notin Histograms THEN v \in 1..MaxEvents
          ELSE /\ v.count \in 1..MaxEvents /\ v.sum <= v.count * Last(BucketsOf(k[1]))
               /\ \A i \in DOMAIN v.buckets :
                    v.buckets[i] <= v.count /\ (i > 1 => v.buckets[i - 1] <= v.buckets[i])
               /\ Last(v.buckets) = v.count

Counters(set) == {k \in DOMAIN set.series : k[1] \notin Histograms}
SumCounters(set) == MapThenSumSet(LAMBDA k : set.series[k], Counters(set))

validateSignalSetIntegrity(set) ==
  /\ \A k \in Counters(set) : k[1] # "started_total" =>
       LET h == <<HistogramFor(k[1]), k[2]>>
       IN h \in DOMAIN set.series /\ set.series[h].count = set.series[k]
  /\ \A k \in DOMAIN set.series \ Counters(set) :
       LET c == <<IF k[1] = "request_ms" THEN "requests_total" ELSE "completed_total", k[2]>>
       IN c \in DOMAIN set.series /\ set.series[c] = set.series[k].count
  /\ SumCounters(set) = set.eventCount
  /\ Len(set.traces) <= set.eventCount

validateTraceSpan(t) ==
  /\ Completion(t.event) /\ t.reasons # {} /\ Cardinality(t.reasons) <= 2
  /\ validateObservationEvent(t.event) /\ KnownLabels(t.event)
  /\ t.reasons = traceReasons(t.event)

validateObservabilitySignalSet(set) ==
  /\ set.eventCount \in 1..MaxEvents
  /\ Cardinality(DOMAIN set.series) \in 1..(2 * MaxEvents)
  /\ validateMetricSeries(set) /\ validateSignalSetIntegrity(set)
  /\ Len(set.traces) <= MaxEvents
  /\ \A i \in 1..Len(set.traces) : validateTraceSpan(set.traces[i])

----------------------------------------------------------------------------
projectEvent(acc, e) ==
  LET counted == addCounter(acc.series, e)
      reasons == traceReasons(e)
  IN [acc EXCEPT
        !.series = IF Completion(e) THEN addHistogram(counted, e) ELSE counted,
        !.traces = IF reasons # {} THEN Append(@, traceFromEvent(e, reasons)) ELSE @]

validateObservationDeliveryBatch(b) ==
  Len(b) \in 1..MaxEvents /\ \A i \in 1..Len(b) : validateObservationEvent(b[i])

\* "refused", or the signal set printed.
projectObservabilitySignals(b) ==
  IF \/ ~validateObservationDeliveryBatch(b)
     \/ \E i \in 1..Len(b) : ~KnownLabels(b[i])
  THEN [ok |-> FALSE]
  ELSE LET acc == FoldLeft(projectEvent, [series |-> <<>>, traces |-> <<>>], b)
           set == [eventCount |-> Len(b), series |-> acc.series, traces |-> acc.traces]
       IN IF validateObservabilitySignalSet(set) THEN [ok |-> TRUE, set |-> set] ELSE [ok |-> FALSE]

----------------------------------------------------------------------------
(* Producers write to the batch what their own checks let through.         *)

gatewayWrites ==
  \E rt \in Runtimes, r \in Responses :
    LET e == createGatewayRequestObservation(rt, r)
    IN validateGatewayRequestObservation(e) /\ batch' = Append(batch, e)

workerWrites ==
  \E rt \in Runtimes, a \in Attempts :
    \E e \in {create_worker_attempt_started_observation(rt, a),
              create_worker_attempt_completed_observation(rt, a)} :
      validate_worker_observation(e) /\ batch' = Append(batch, e)

Write ==
  /\ signals = None /\ Len(batch) < MaxEvents /\ (gatewayWrites \/ workerWrites)
  /\ UNCHANGED <<candidate, signals>>

Project ==
  /\ signals = None /\ batch # <<>>
  /\ signals' = projectObservabilitySignals(batch)
  /\ UNCHANGED <<batch, candidate>>

Init == batch = <<>> /\ candidate \in Candidates /\ signals = None

Next == Write \/ Project
Spec == Init /\ [][Next]_vars

----------------------------------------------------------------------------
TypeOK ==
  /\ Len(batch) <= MaxEvents
  /\ signals # None => signals.ok \in BOOLEAN

(* The gateway and the worker accept exactly the events the transport      *)
(* accepts, for every combination of fields: no event is written that the  *)
(* adapter refuses, and none is lost at its source that it would take.     *)
ValidatorsAgree ==
  candidate # None =>
    (validateObservationEvent(candidate) <=>
       \/ validateGatewayRequestObservation(candidate)
       \/ validate_worker_observation(candidate))

(* A batch of written events whose routes and tasks are documented is      *)
(* always projected: the projector never refuses its own output.           *)
ProjectionAccepted ==
  signals # None /\ (\A i \in 1..Len(batch) : KnownLabels(batch[i])) => signals.ok

SameSeries(d, e) ==
  /\ d.name = e.name /\ d.env = e.env /\ d.method = e.method /\ d.route = e.route
  /\ d.task = e.task /\ d.provider = e.provider
  /\ IF Gateway(d) THEN d.status \div 100 = e.status \div 100 ELSE d.outcome = e.outcome

(* Every event is counted in one series, which counts exactly the events   *)
(* that agree with it in environment, route or task, and class of outcome; *)
(* a bucket of a histogram counts those no longer than its bound.          *)
SeriesMatchBatch ==
  signals # None /\ signals.ok =>
    \A i \in 1..Len(batch) :
      LET e == batch[i]
          same == {j \in 1..Len(batch) : SameSeries(batch[j], e)}
          h == signals.set.series[<<HistogramOf(e), LabelsOf(e)>>]
      IN /\ signals.set.series[<<CounterOf(e), LabelsOf(e)>>] = Cardinality(same)
         /\ Completion(e) =>
              /\ h.count = Cardinality(same)
              /\ \A b \in DOMAIN h.buckets :
                   h.buckets[b] = Cardinality({j \in same : batch[j].dur <= BucketsOf(HistogramOf(e))[b]})

(* Every failed and every slow completion of the batch has its span, in    *)
(* order, with all its reasons; a healthy one has a span only by the hash. *)
FailuresTraced ==
  signals # None /\ signals.ok =>
    LET kept == SelectSeq(batch, LAMBDA e : Completion(e) /\ (Failure(e) \/ Slow(e) \/ e.hash))
    IN /\ [i \in 1..Len(signals.set.traces) |-> signals.set.traces[i].event] = kept
       /\ \A i \in 1..Len(kept) :
            /\ "failure" \in signals.set.traces[i].reasons <=> Failure(kept[i])
            /\ "slow" \in signals.set.traces[i].reasons <=> Slow(kept[i])
            /\ "baseline" \in signals.set.traces[i].reasons => ~Failure(kept[i]) /\ ~Slow(kept[i])

(* A stored signal set that lost a series, or whose counter or histogram   *)
(* changed, is refused when it is read again.                              *)
TamperDetected ==
  signals # None /\ signals.ok =>
    \A k \in DOMAIN signals.set.series :
      LET s == signals.set
          without == [s EXCEPT !.series = [j \in DOMAIN s.series \ {k} |-> s.series[j]]]
          changed == IF k[1] \in Histograms
                     THEN [s EXCEPT !.series[k].count = @ + 1]
                     ELSE [s EXCEPT !.series[k] = @ + 1]
      IN ~validateObservabilitySignalSet(without) /\ ~validateObservabilitySignalSet(changed)
============================================================================
