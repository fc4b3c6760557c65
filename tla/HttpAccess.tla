----------------------------- MODULE HttpAccess -----------------------------
(***************************************************************************)
(* The gateway process: bootstrap from its environment, the hooks every    *)
(* request passes (origin, rate limit, bounded body), the identity of a    *)
(* request, the mapping of errors, the completion event, and shutdown.     *)
(*                                                                         *)
(* A request is handled in three steps, as in the code: the hooks run at   *)
(* once, the identity is read from the database, the handler answers.      *)
(* Signing in and out, and time, interleave with them.                     *)
(***************************************************************************)
EXTENDS Naturals, Sequences, FiniteSets

CONSTANTS Configs,       \* environments the process is started with
          Requests,      \* requests clients send: ip, kind, safe, origin, cookie, dev, body
          Tokens, SessionUsers,
          Window,        \* windowMs
          Limit,         \* Limit[kind]
          MaxBuckets,
          MaxTime, MaxRequests, Absent

VARIABLES env,        \* environment of the process
          proc,       \* "starting", "up", "stopping", "refused" or "exited"
          buckets,    \* rate buckets: key, count, resetsAt, and their place in the map's order
          sessions,   \* token -> session row, or Absent
          reqs,       \* requests under way
          done,       \* history: the request completed last, with its event
          arrivals,   \* history: every request that reached the limiter
          now, sent

httpVars == <<env, proc, buckets, sessions, reqs, done, arrivals, now, sent>>

----------------------------------------------------------------------------
(* Bootstrap.                                                              *)

Production == env.node = "production"
Gateways == {"sandbox", "staging", "production"}
Environments == Gateways \cup {"local", "ci", "controlled-lab"}

(* secrets: "env" no directory is set, "files" read from a real directory, *)
(* "ambiguous" a file or directory is refused or also set in the           *)
(* environment.                                                            *)
loadManagedRuntimeSecrets == env.secrets # "ambiguous"

assertDeploymentBootstrap ==
  IF Production
  THEN /\ env.dep \in Gateways /\ ~env.legacy
       /\ env.revision /\ env.secrets = "files"
       /\ env.manifest = "authorizes"
  ELSE env.dep \notin Gateways

DeploymentId == IF Production /\ env.manifest = "authorizes" THEN "deployment" ELSE Absent

configuredPublicOrigin ==
  CASE env.origin = "none" -> Absent
    [] env.origin = "https" -> "own"
    [] env.origin = "http" -> IF Production THEN "throws" ELSE "own"
    [] env.origin = "malformed" -> "throws"

assertAuthConfiguration ==
  /\ configuredPublicOrigin # "throws"
  /\ Production => configuredPublicOrigin # Absent /\ env.secret /\ ~env.dev
  /\ env.github # "half"

reviewTokenConfigured == Production => env.review # "short"

Start ==
  /\ proc = "starting"
  /\ proc' = IF /\ loadManagedRuntimeSecrets /\ assertDeploymentBootstrap
                /\ assertAuthConfiguration /\ reviewTokenConfigured
             THEN "up" ELSE "refused"
  /\ UNCHANGED <<env, buckets, sessions, reqs, done, arrivals, now, sent>>

gatewayObservabilityRuntimeContext ==
  [environment |-> IF env.dep \in Environments THEN env.dep ELSE "local",
   revision |-> IF env.revision THEN "revision" ELSE Absent,
   deploymentId |-> DeploymentId]

----------------------------------------------------------------------------
(* Hooks.                                                                  *)

HasSessionCookie(r) == r.cookie # Absent

assertTrustedRequestOrigin(r) ==
  /\ r.origin # Absent =>
       IF configuredPublicOrigin # Absent THEN r.origin = configuredPublicOrigin
       ELSE ~Production /\ r.origin = "local"
  /\ ~(Production /\ ~r.safe /\ HasSessionCookie(r) /\ r.origin = Absent)

requestRateLimitIdentity(r) == r.ip
KeyOf(r) == <<r.kind, requestRateLimitIdentity(r)>>

BucketsOf(k) == {b \in buckets : b.key = k}

(* Over the cap the expired buckets go, then the oldest entries.           *)
Evicted(bs) ==
  IF Cardinality(bs) <= MaxBuckets THEN bs
  ELSE LET live == {b \in bs : b.resetsAt > now}
       IN {b \in live : Cardinality({c \in live : c.place > b.place}) < MaxBuckets}

Fresh(k, place) == [key |-> k, count |-> 1, resetsAt |-> now + Window, place |-> place]

(* The store after the request is counted; a bucket whose window has ended *)
(* is replaced in its old place.                                           *)
consume(k) ==
  IF BucketsOf(k) = {} THEN Evicted(buckets \cup {Fresh(k, sent)})
  ELSE LET b == CHOOSE b \in BucketsOf(k) : TRUE
       IN Evicted((buckets \ {b}) \cup
                  {IF b.resetsAt <= now THEN Fresh(k, b.place) ELSE [b EXCEPT !.count = @ + 1]})

\* Mutant: the count of the window so far is not read.
CountedAfresh(k) == 1

Counted(k) ==
  LET open == {b \in BucketsOf(k) : b.resetsAt > now}
  IN IF open = {} THEN 1 ELSE (CHOOSE b \in open : TRUE).count + 1

OverLimit(r) == r.kind # "auth" /\ Counted(KeyOf(r)) > Limit[r.kind]

(* Headers a refusal by the hooks carries.                                 *)
denialHeaders(status) == IF status = 429 THEN {"retry-after"} ELSE {}

(* The completion event of a request, and the checks it must pass before   *)
(* it is written; an event that fails them is dropped in silence.          *)
createGatewayRequestObservation(status, hour) ==
  LET rt == gatewayObservabilityRuntimeContext
      outcome == IF status >= 500 THEN "server-error" ELSE IF status >= 400 THEN "client-error"
                 ELSE "success"
  IN [rt |-> rt, status |-> status, outcome |-> outcome, overAnHour |-> hour]

Unmanaged == {"local", "ci"}

validateGatewayRequestObservation(e) ==
  /\ e.rt.environment \notin Unmanaged => e.rt.revision # Absent /\ e.rt.deploymentId # Absent
  /\ e.rt.environment \in Unmanaged => e.rt.deploymentId = Absent
  /\ ~e.overAnHour

Complete(r, status, user, headers) ==
  \E hour \in (IF r.stream THEN BOOLEAN ELSE {FALSE}) :
    done' = [r |-> r, status |-> status, user |-> user, headers |-> headers, hour |-> hour,
             event |-> validateGatewayRequestObservation(
                         createGatewayRequestObservation(status, hour))]

Incoming(q) ==
  [ip |-> q.ip, kind |-> q.kind, safe |-> q.safe, origin |-> q.origin, cookie |-> q.cookie,
   dev |-> q.dev, body |-> q.body, n |-> sent, stream |-> FALSE]

Arrive ==
  /\ proc = "up" /\ sent < MaxRequests /\ sent' = sent + 1
  /\ \E q \in Requests :
       LET r == Incoming(q)
           counted == assertTrustedRequestOrigin(r) /\ r.kind # "auth"
       IN /\ buckets' = IF counted THEN consume(KeyOf(r)) ELSE buckets
          /\ arrivals' = IF counted
                         THEN Append(arrivals, [key |-> KeyOf(r), at |-> now, over |-> OverLimit(r)])
                         ELSE arrivals
          /\ IF ~assertTrustedRequestOrigin(r)
             THEN Complete(r, 403, Absent, denialHeaders(403)) /\ UNCHANGED reqs
             ELSE IF OverLimit(r)
             THEN Complete(r, 429, Absent, denialHeaders(429)) /\ UNCHANGED reqs
             ELSE IF r.body \in {"unbounded", "carries-key"}      \* preValidation
             THEN Complete(r, 400, Absent, {}) /\ UNCHANGED reqs
             ELSE reqs' = reqs \cup {[r |-> r, step |-> "auth", user |-> Absent]} /\ UNCHANGED done
  /\ UNCHANGED <<env, proc, sessions, now>>

----------------------------------------------------------------------------
(* Identity.                                                               *)

headerAuthEnabled == ~Production /\ (env.dev \/ env.node = "test")

(* A development header names a user, who is created if need be; otherwise *)
(* the session row of the cookie does, while it has not expired.           *)
getCurrentUser(r) ==
  IF headerAuthEnabled /\ r.dev # Absent THEN r.dev
  ELSE IF r.cookie = Absent THEN Absent
  ELSE IF sessions[r.cookie] # Absent
       THEN IF sessions[r.cookie].expires > now THEN sessions[r.cookie].user ELSE Absent
  ELSE Absent

Authenticate ==
  /\ \E q \in reqs :
       /\ q.step = "auth"
       /\ LET u == getCurrentUser(q.r)
          IN IF u = Absent                          \* requireUser
             THEN reqs' = reqs \ {q} /\ Complete(q.r, 401, Absent, {})
             ELSE /\ reqs' = (reqs \ {q}) \cup {[q EXCEPT !.step = "handler", !.user = u]}
                  /\ UNCHANGED done
  /\ UNCHANGED <<env, proc, buckets, sessions, arrivals, now, sent>>

(* routeError: a known refusal keeps its 4xx status, anything else is 503. *)
routeError(status) == IF status \in 400..499 THEN status ELSE 503

Respond ==
  /\ \E q \in reqs, stream \in BOOLEAN, outcome \in {200, 409, 422, 500} :
       /\ q.step = "handler"
       /\ reqs' = reqs \ {q}
       /\ Complete([q.r EXCEPT !.stream = stream],
                   IF outcome = 200 THEN 200 ELSE routeError(outcome), q.user, {})
  /\ UNCHANGED <<env, proc, buckets, sessions, arrivals, now, sent>>

(* Auth.js writes and deletes session rows.                                *)
SignIn ==
  /\ proc = "up"
  /\ \E t \in Tokens, u \in SessionUsers :
       sessions[t] = Absent /\ sessions' = [sessions EXCEPT ![t] = [user |-> u, expires |-> now + 2]]
  /\ UNCHANGED <<env, proc, buckets, reqs, done, arrivals, now, sent>>

SignOut ==
  /\ \E t \in Tokens : sessions[t] # Absent /\ sessions' = [sessions EXCEPT ![t] = Absent]
  /\ UNCHANGED <<env, proc, buckets, reqs, done, arrivals, now, sent>>

Tick ==
  /\ proc = "up" /\ now < MaxTime /\ now' = now + 1
  /\ UNCHANGED <<env, proc, buckets, sessions, reqs, done, arrivals, sent>>

(* stop: signals are taken once; closing waits for the requests under way, *)
(* the deadline does not.                                                  *)
Signal == proc = "up" /\ proc' = "stopping" /\ UNCHANGED <<buckets, reqs, env, sessions, done, arrivals, now, sent>>
Close == proc = "stopping" /\ reqs = {} /\ proc' = "exited" /\ UNCHANGED <<buckets, reqs, env, sessions, done, arrivals, now, sent>>

Deadline == proc = "stopping" /\ proc' = "exited" /\ reqs' = {} /\ UNCHANGED <<buckets, env, sessions, done, arrivals, now, sent>>

HttpInit ==
  /\ env \in Configs /\ proc = "starting"
  /\ buckets = {} /\ reqs = {} /\ done = Absent /\ arrivals = <<>>
  /\ sessions = [t \in Tokens |-> Absent]
  /\ now = 0 /\ sent = 0

HttpNext ==
  \/ Start \/ Arrive \/ Authenticate \/ Respond
  \/ SignIn \/ SignOut \/ Tick
  \/ Signal \/ Close \/ Deadline

(* The event loop runs: a started bootstrap ends and the deadline fires.   *)
HttpSpec == HttpInit /\ [][HttpNext]_httpVars /\ WF_httpVars(Start) /\ WF_httpVars(Deadline)

----------------------------------------------------------------------------
\* Types of the process, the store and the requests.
HttpTypeOK ==
  /\ env \in Configs /\ proc \in {"starting", "up", "stopping", "refused", "exited"}
  /\ \A b \in buckets : b.count \in 1..MaxRequests
  /\ \A b, c \in buckets : b.key = c.key => b = c
  /\ \A q \in reqs : q.step = "handler" <=> q.user # Absent
  /\ now \in 0..MaxTime /\ sent \in 0..MaxRequests

Passed(k, from, to) ==
  Cardinality({i \in DOMAIN arrivals : /\ arrivals[i].key = k /\ ~arrivals[i].over
                                       /\ arrivals[i].at \in from..to})

(* As long as no bucket is evicted, no client gets more than twice the     *)
(* limit of a class through in any stretch of one window, wherever the     *)
(* stretch begins.                                                         *)
AnyWindowBounded ==
  Cardinality({arrivals[i].key : i \in DOMAIN arrivals}) <= MaxBuckets =>
    \A k \in {arrivals[i].key : i \in DOMAIN arrivals}, t \in 0..MaxTime :
      Passed(k, t, t + Window - 1) <= 2 * Limit[k[1]]

(* A client is refused only when it has sent more than the limit of the    *)
(* class within the last window, evictions included.                       *)
RefusedOnlyOverLimit ==
  \A i \in DOMAIN arrivals : arrivals[i].over =>
    Cardinality({j \in 1..i : /\ arrivals[j].key = arrivals[i].key
                              /\ arrivals[j].at + Window > arrivals[i].at})
      > Limit[arrivals[i].key[1]]

(* The store never exceeds its cap, and what is evicted for a request is   *)
(* never that request's own bucket.                                        *)
StoreBounded ==
  /\ Cardinality(buckets) <= MaxBuckets
  /\ arrivals # <<>> => BucketsOf(arrivals[Len(arrivals)].key) # {}

(* In production a request is handled for a user only on a session of that *)
(* user, and one that changes state only when it came from the configured  *)
(* origin: the bootstrap, the hooks and the identity together.             *)
ProductionIdentity ==
  Production /\ done # Absent /\ done.user # Absent =>
    done.r.cookie # Absent /\ (done.r.safe \/ done.r.origin = "own")

(* A gateway that started writes the completion event of every request,    *)
(* except of one that took over an hour and except in the laboratory,      *)
(* where no deployment authority exists: the events are not refused for    *)
(* the way it was deployed.                                                *)
EveryResponseObserved ==
  done # Absent => done.event \/ done.hour \/ env.dep = "controlled-lab"

(* The process between a signal and its end.                               *)
Stopping == proc = "stopping"
=============================================================================
