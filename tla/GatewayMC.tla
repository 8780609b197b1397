----------------------------- MODULE GatewayMC -----------------------------
EXTENDS ApiGateway, TLC

\* Requests are interchangeable, and so are the calls of the key endpoints.
Sym == Permutations(Requests) \cup Permutations(Ops)

\* The two components meet in the requests alone, so a behaviour exercises one of them
\* fully: the limiter with requests that are lost sight of once it is done with them, the
\* keys with two requests that carry one, are not counted and are lost sight of once they
\* are answered, or two requests of any kind.
Received == {r \in Requests : req[r].pc # "new"}

Limits ==
  /\ \A o \in Ops : op[o].pc = "new"
  /\ \A r \in Received : /\ req[r].kind = "token" /\ req[r].token = MaxTime + 1
                         /\ req[r].pc \in {"limiting", "lost"} \/ limited[r].at = "refused"

KeyLife ==
  /\ \A r \in Received : /\ req[r].kind = "key" /\ req[r].token = 0
                         /\ req[r].pc \in {"limiting", "authenticating", "handling", "lost"}

TwoOfAnyKind ==
  /\ issued = {} /\ \A o \in Ops : op[o].pc = "new"

Focus ==
  \/ Limits
  \/ Cardinality(Received) <= 2 /\ now < MaxTime /\ (KeyLife \/ TwoOfAnyKind)
=============================================================================
