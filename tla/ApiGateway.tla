----------------------------- MODULE ApiGateway -----------------------------
(***************************************************************************)
(* A request's way through the middleware of main.py, outermost first:     *)
(* LoggingMiddleware, RateLimitMiddleware, AuthMiddleware, and the route's *)
(* handler, with the counters of metrics/prometheus.py.  It composes       *)
(* RateLimiter and ApiKeys.  Of the handlers, only what the middleware     *)
(* sees of them is here; the calls of the API key endpoints are ApiKeys'.  *)
(***************************************************************************)
EXTENDS RateLimiter, ApiKeys

CONSTANTS MaxCrashes  \* bound on the crashes

ASSUME GatewayAssumption == MaxCrashes \in Nat

VARIABLES
  req,      \* [Requests -> its dispatch: [pc, kind, token, status]]
  metrics,  \* the process's counters: [requests, errors, failures, hits]
  crashes

gatewayVars == <<req, metrics, crashes>>
vars == <<now, counters, limited, rows, generated, issued, op, auth, touch, req, metrics, crashes>>

\* What the steps of one component leave alone of another.
keyState     == <<rows, generated, issued, op, auth, touch>>
limiterState == <<counters, limited>>

\* kind: open, login, key (it carries X-API-Key) or token (it does not); token is when its
\* token expires, 0 if it carries none that is valid.
NotReceived == [pc |-> "new", kind |-> "open", token |-> 0, status |-> 0]
NoMetrics   == [requests |-> 0, errors |-> 0, failures |-> 0, hits |-> 0]

Init ==
  /\ LimiterInit /\ KeysInit
  /\ req = [r \in Requests |-> NotReceived] /\ metrics = NoMetrics /\ crashes = 0
-----------------------------------------------------------------------------
\* decode_access_token.
Decodes(token) == token > now

GoOn(r, pc) == req' = [req EXCEPT ![r].pc = pc]

Answer(r, status) == req' = [req EXCEPT ![r] = [@ EXCEPT !.pc = "answered", !.status = status]]

\* A request arrives.  The paths that are open, and OPTIONS, pass both checks by; a login
\* is counted by its address, any other request by the sub of a token that decodes.
Receive(r, kind, token, p) ==
  /\ req[r].pc = "new"
  /\ req' = [req EXCEPT ![r] = [NotReceived EXCEPT
               !.pc = IF kind = "open" THEN "handling" ELSE "limiting",
               !.kind = kind, !.token = token]]
  /\ IF kind = "open" THEN UNCHANGED <<now, limiterState>>
     ELSE Arrive(r, IF kind = "login" \/ Decodes(token) THEN p ELSE None)
  /\ UNCHANGED <<keyState, metrics, crashes>>

\* INCR or EXPIRE is answered; over the limit the request is.
Count(r) ==
  /\ Increment(r) \/ Expire(r)
  /\ IF limited'[r].at = "refused"
     THEN Answer(r, 429) /\ metrics' = [metrics EXCEPT !.hits = @ + 1]
     ELSE UNCHANGED <<req, metrics>>
  /\ UNCHANGED <<keyState, crashes>>

\* increment_auth_failure and the answer.
FailAuthentication(r, status) ==
  /\ Answer(r, status)
  /\ metrics' = [metrics EXCEPT !.failures = @ + 1]

\* AuthMiddleware up to its first await: a key goes before a token, and needs a secret.
Authenticate(r) ==
  /\ req[r].pc = "limiting" /\ limited[r].at = "passed"
  /\ \/ /\ req[r].kind = "login"
        /\ GoOn(r, "handling") /\ UNCHANGED <<keyState, metrics>>
     \/ /\ req[r].kind = "key"
        /\ \/ \E k \in Keys, s \in issued \cup {0} : Present(r, k, s)
              /\ GoOn(r, "authenticating") /\ UNCHANGED metrics
           \/ FailAuthentication(r, 401) /\ UNCHANGED keyState
     \/ /\ req[r].kind = "token" /\ UNCHANGED keyState
        /\ IF Decodes(req[r].token) THEN GoOn(r, "handling") /\ UNCHANGED metrics
           ELSE FailAuthentication(r, 401)
  /\ UNCHANGED <<now, limiterState, crashes>>

\* The database answers authenticate; an error is a failure, too.
CheckKey(r) ==
  /\ SelectActive(r) \/ Verify(r)
  /\ CASE auth'[r].pc = "accepted" -> GoOn(r, "handling") /\ UNCHANGED metrics
       [] auth'[r].pc = "refused"  -> FailAuthentication(r, 401)
       [] auth'[r].pc = "error"    -> FailAuthentication(r, 500)
       [] OTHER                    -> UNCHANGED <<req, metrics>>
  /\ UNCHANGED <<limiterState, crashes>>

\* The handler answers well or, by answering or raising, with an error, of which 500 is one;
\* a login with wrong credentials is an authentication failure.
Handle(r) ==
  /\ req[r].pc = "handling"
  /\ \/ \E status \in {200, 500} : Answer(r, status) /\ UNCHANGED metrics
     \/ req[r].kind = "login" /\ FailAuthentication(r, 401)
  /\ UNCHANGED <<now, limiterState, keyState, crashes>>

\* Defective variant: only the server's own errors are recorded.
RecordedServerErrors(status) ==
  [metrics EXCEPT !.requests = @ + 1, !.errors = IF status >= 500 THEN @ + 1 ELSE @]

\* record_api_request and record_api_error.
Recorded(status) ==
  [metrics EXCEPT !.requests = @ + 1, !.errors = IF status >= 400 THEN @ + 1 ELSE @]

\* The response passes LoggingMiddleware, or the exception that stands for a 500.
Log(r) ==
  /\ req[r].pc = "answered"
  /\ GoOn(r, "logged")
  /\ metrics' = Recorded(req[r].status)
  /\ UNCHANGED <<now, limiterState, keyState, crashes>>

\* The endpoints of the API keys, and the tasks behind accepted requests.
KeyCalls ==
  /\ \/ \E k \in Keys, e \in Expiries : Create(k, e)
     \/ \E o \in Ops, k \in Keys, kind \in {"deactivate", "regenerate"} : Select(o, kind, k)
     \/ \E o \in Ops : Deactivate(o) \/ Regenerate(o) \/ FailOp(o)
     \/ \E r \in Requests : TouchSelect(r) \/ Touch(r)
  /\ UNCHANGED <<limiterState, gatewayVars>>

TimePasses == PassTime /\ UNCHANGED <<keyState, gatewayVars>>

\* The process dies and starts again, with new counters; Redis and the database live on.
Crash ==
  /\ crashes < MaxCrashes /\ crashes' = crashes + 1
  /\ LimiterCrash /\ KeysCrash
  /\ req' = [r \in Requests |-> IF req[r].pc \in {"new", "logged"} THEN req[r]
                                ELSE [req[r] EXCEPT !.pc = "lost"]]
  /\ metrics' = NoMetrics

Next ==
  \/ \E r \in Requests :
       \/ \E kind \in {"open", "login"}, p \in Principals : Receive(r, kind, 0, p)
       \/ \E kind \in {"key", "token"}, token \in Expiries \cup {0}, p \in Principals :
             Receive(r, kind, token, p)
       \/ Count(r) \/ Authenticate(r) \/ CheckKey(r) \/ Handle(r) \/ Log(r)
  \/ KeyCalls \/ TimePasses \/ Crash

Spec == Init /\ [][Next]_vars
-----------------------------------------------------------------------------
\* The variables' types.
TypeOK ==
  /\ LimiterTypeOK /\ KeysTypeOK
  /\ req \in [Requests -> [pc : {"new", "limiting", "authenticating", "handling", "answered",
                                 "logged", "lost"},
                           kind : {"open", "login", "key", "token"}, token : Nat,
                           status : {0, 200, 401, 429, 500}]]
  /\ metrics \in [requests : Nat, errors : Nat, failures : Nat, hits : Nat]
  /\ crashes \in 0 .. MaxCrashes

\* The counters that the KPI alerts compare agree with each other: every authentication
\* failure and every request over the limit is an error too, or is about to be logged as one.
RefusalsAreErrors ==
  metrics.failures + metrics.hits
    <= metrics.errors + Cardinality({r \in Requests : req[r].pc = "answered" /\ req[r].status >= 400})

=============================================================================
