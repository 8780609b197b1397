------------------------------ MODULE HubLoop ------------------------------
(***************************************************************************)
(* The loop that the broadcasts of realtime/ws_hub.py have in common: over *)
(* a set of clients, awaiting a send to each.  Other tasks change the set  *)
(* meanwhile, and an iteration over a Python set raises when the size of   *)
(* the set has changed since it began.  A broadcast under way is a record; *)
(* the feeds that broadcast keep it in a variable of theirs.               *)
(***************************************************************************)
EXTENDS Naturals, FiniteSets

CONSTANTS Symbols,  \* TRACKED_SYMBOLS, which the feeds are about
          None

\* at: the client that is sent to; size: of the set when the loop began; present: the
\* clients that have been in the set since, churn: whether other tasks have changed it.
NoCast == [at |-> None, size |-> 0, sent |-> {}, stale |-> {}, present |-> {}, churn |-> FALSE]

\* The first send of a broadcast; without a client there is nothing to send.
Begun(clients) ==
  IF clients = {} THEN {NoCast}
  ELSE {[NoCast EXCEPT !.at = x, !.size = Cardinality(clients), !.present = clients] : x \in clients}

\* The clients that were there all the time and were sent nothing.
Unserved(cast, sent) == {[client |-> x, churn |-> cast.churn] : x \in cast.present \ sent}

\* The set has lost the clients in gone to other tasks.
Disturbed(cast, gone) ==
  IF cast.at = None THEN cast
  ELSE [cast EXCEPT !.churn = @ \/ gone # {}, !.present = @ \ gone]

\* A client has joined the set.
Joined(cast) == [cast EXCEPT !.churn = cast.at # None]

\* The loop goes on to x, or is over (or has raised) and the clients in rest are left.
OnTo(cast, x, stale) == [cast EXCEPT !.at = x, !.sent = @ \cup {cast.at}, !.stale = stale]
Ended(cast, rest) ==
  [cast |-> NoCast, clients |-> rest, unserved |-> Unserved(cast, cast.sent \cup {cast.at})]

\* After a send the loop meets a set of another size and raises; or goes on to a client that
\* was sent nothing; or is over, and the stale clients are discarded.  In a set that changed
\* and kept its size the iterator may miss clients.
Turn(cast, clients, stale) ==
  LET next == clients \ (cast.sent \cup {cast.at})
  IN  IF Cardinality(clients) # cast.size THEN {Ended(cast, clients)}
      ELSE {[cast |-> OnTo(cast, x, stale), clients |-> clients, unserved |-> {}] : x \in next}
           \cup (IF next = {} \/ cast.churn THEN {Ended(cast, clients \ stale)} ELSE {})

\* The send to the current client returns, or raises, as one to a broken socket may: the
\* client is then stale.  It is discarded in the loop (early) or when it is over.
Turns(cast, clients, broken, early) ==
  UNION {Turn(cast, IF early THEN clients \ stale ELSE clients, stale) :
           stale \in {cast.stale, cast.stale \cup ({cast.at} \cap broken)}}
=============================================================================
