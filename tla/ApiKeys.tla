------------------------------ MODULE ApiKeys ------------------------------
(***************************************************************************)
(* API keys: the operations of api_keys/service.py behind the endpoints of *)
(* api/routes/api_keys.py, the key authentication of middleware/auth.py    *)
(* and the tasks it leaves behind to stamp last_used_at.                   *)
(*                                                                         *)
(* Every call has a session of its own and goes on with the row it has     *)
(* selected.  SQLAlchemy's UPDATE writes the columns whose value differs   *)
(* from the selected one, and no other.  A secret is the number of its     *)
(* generation; its hash is as good as itself.                              *)
(***************************************************************************)
EXTENDS RequestClock

CONSTANTS Ops,       \* calls of the endpoints that deactivate and regenerate
          Keys,      \* key_ids
          Expiries   \* values of expires_at; a key without one has a distant one

ASSUME KeysAssumption == Expiries \subseteq Nat /\ "none" \notin Keys

VARIABLES
  rows,       \* [Keys -> the committed row]
  generated,  \* the secrets generated so far are 1 .. generated
  issued,     \* the secrets that an answer has carried to their user
  op,         \* [Ops -> a call under way: [pc, kind, key, active, secret]]
  auth,       \* [Requests -> its authentication: [pc, key, secret, seen, void]]
  touch       \* [Requests -> the task it has left: none, new or, with a row selected, a row]

keyVars == <<now, rows, generated, issued, op, auth, touch>>

\* A key that does not exist is a row that no SELECT finds.
NoRow == [secret |-> 0, active |-> FALSE, expires |-> 0, used |-> FALSE]
NoOp  == [pc |-> "new", kind |-> "none", key |-> "none", active |-> FALSE, secret |-> 0]
Done  == [NoOp EXCEPT !.pc = "done"]
NoAuth == [pc |-> "new", key |-> "none", secret |-> 0, seen |-> NoRow, void |-> FALSE]
NoTouch == [pc |-> "none", row |-> NoRow]

Exists(k) == rows[k].secret > 0

\* What authenticates with the row and the clock as they are.
Valid(k, secret) == rows[k].active /\ rows[k].secret = secret /\ rows[k].expires >= now

KeysInit ==
  /\ ClockInit
  /\ rows = [k \in Keys |-> NoRow] /\ generated = 0 /\ issued = {}
  /\ op = [o \in Ops |-> NoOp]
  /\ auth = [r \in Requests |-> NoAuth] /\ touch = [r \in Requests |-> NoTouch]
-----------------------------------------------------------------------------
(***************************************************************************)
(* Operations.  An answer that gets lost is a secret that nobody presents. *)
(***************************************************************************)
\* create_key: the row is inserted and committed under a key_id nobody has used.
Create(k, expires) ==
  /\ ~Exists(k)
  /\ generated' = generated + 1
  /\ rows' = [rows EXCEPT ![k] = [secret |-> generated', active |-> TRUE, expires |-> expires,
                                  used |-> FALSE]]
  /\ issued' = issued \cup {generated'}
  /\ UNCHANGED <<now, op, auth, touch>>

\* get_key_for_user, and the changes to the selected row up to the commit; 404 if there
\* is none.
Select(o, kind, k) ==
  /\ op[o].pc = "new"
  /\ generated' = IF kind = "regenerate" /\ Exists(k) THEN generated + 1 ELSE generated
  /\ op' = [op EXCEPT ![o] =
              IF Exists(k) THEN [pc |-> "commit", kind |-> kind, key |-> k,
                                 active |-> rows[k].active, secret |-> generated']
              ELSE Done]
  /\ UNCHANGED <<now, rows, issued, auth, touch>>

\* deactivate_key: is_active is written if the selected row had it set.
Deactivate(o) ==
  /\ op[o].pc = "commit" /\ op[o].kind = "deactivate"
  /\ rows' = IF op[o].active THEN [rows EXCEPT ![op[o].key] = [@ EXCEPT !.active = FALSE]] ELSE rows
  /\ op' = [op EXCEPT ![o] = Done]
  /\ UNCHANGED <<now, generated, issued, auth, touch>>

\* regenerate_key: the hash is written, and is_active if the selected row had it unset.
Regenerate(o) ==
  /\ op[o].pc = "commit" /\ op[o].kind = "regenerate"
  /\ rows' = [rows EXCEPT ![op[o].key] =
                [@ EXCEPT !.secret = op[o].secret,
                          !.active = rows[op[o].key].active \/ ~op[o].active]]
  /\ issued' = issued \cup {op[o].secret}
  /\ op' = [op EXCEPT ![o] = Done]
  /\ UNCHANGED <<now, generated, auth, touch>>

\* The database fails: the transaction is rolled back.
FailOp(o) ==
  /\ op[o].pc = "commit"
  /\ op' = [op EXCEPT ![o] = Done]
  /\ UNCHANGED <<now, rows, generated, issued, auth, touch>>
-----------------------------------------------------------------------------
(***************************************************************************)
(* Authentication: AuthMiddleware with authenticate.                       *)
(***************************************************************************)
\* A request presents a key with a secret of an answer, or a wrong one.
Present(r, k, secret) ==
  /\ auth[r].pc = "new"
  /\ auth' = [auth EXCEPT ![r] = [NoAuth EXCEPT !.pc = "select", !.key = k, !.secret = secret,
                                                !.void = ~Valid(k, secret)]]
  /\ UNCHANGED <<now, rows, generated, issued, op, touch>>

\* The session is closed: the key_id is kept, and whether the credentials were void.
Ended(r, pc) == [auth[r] EXCEPT !.pc = pc, !.secret = 0, !.seen = NoRow]

\* The SELECT of the active row; the database may fail.
SelectActive(r) ==
  /\ auth[r].pc = "select"
  /\ \/ /\ rows[auth[r].key].active
        /\ auth' = [auth EXCEPT ![r] = [@ EXCEPT !.pc = "verify", !.seen = rows[auth[r].key]]]
     \/ /\ ~rows[auth[r].key].active
        /\ auth' = [auth EXCEPT ![r] = Ended(r, "refused")]
     \/ auth' = [auth EXCEPT ![r] = Ended(r, "error")]
  /\ UNCHANGED <<now, rows, generated, issued, op, touch>>

\* The SELECT of the user, which may fail, and the checks of the selected row; an accepted
\* request leaves a task.
Verify(r) ==
  LET ok == auth[r].seen.expires >= now /\ auth[r].seen.secret = auth[r].secret
  IN  /\ auth[r].pc = "verify"
      /\ \E pc \in {IF ok THEN "accepted" ELSE "refused", "error"} :
           /\ auth' = [auth EXCEPT ![r] = Ended(r, pc)]
           /\ touch' = [touch EXCEPT ![r].pc = IF pc = "accepted" THEN "new" ELSE @]
      /\ UNCHANGED <<now, rows, generated, issued, op>>

\* _touch_api_key: the row is selected ...
TouchSelect(r) ==
  /\ touch[r].pc = "new"
  /\ touch' = [touch EXCEPT ![r] = [pc |-> "commit", row |-> rows[auth[r].key]]]
  /\ UNCHANGED <<now, rows, generated, issued, op, auth>>

\* Defective variant: the whole row is written as it was selected.
TouchRow(r) ==
  /\ touch[r].pc = "commit"
  /\ rows' \in {rows, [rows EXCEPT ![auth[r].key] = [touch[r].row EXCEPT !.used = TRUE]]}
  /\ touch' = [touch EXCEPT ![r] = NoTouch]
  /\ UNCHANGED <<now, generated, issued, op, auth>>

\* ... and last_used_at written, or an error swallowed.
Touch(r) ==
  /\ touch[r].pc = "commit"
  /\ rows' \in {rows, [rows EXCEPT ![auth[r].key] = [@ EXCEPT !.used = TRUE]]}
  /\ touch' = [touch EXCEPT ![r] = NoTouch]
  /\ UNCHANGED <<now, generated, issued, op, auth>>

\* The process dies with its sessions and tasks.
KeysCrash ==
  /\ op' = [o \in Ops |-> IF op[o].pc = "commit" THEN Done ELSE op[o]]
  /\ auth' = [r \in Requests |-> IF auth[r].pc \in {"select", "verify"}
                                 THEN Ended(r, "lost") ELSE auth[r]]
  /\ touch' = [r \in Requests |-> NoTouch]
  /\ UNCHANGED <<now, rows, generated, issued>>

KeysNext ==
  \/ \E k \in Keys, e \in Expiries : Create(k, e)
  \/ \E o \in Ops, k \in Keys, kind \in {"deactivate", "regenerate"} : Select(o, kind, k)
  \/ \E o \in Ops : Deactivate(o) \/ Regenerate(o) \/ FailOp(o)
  \/ \E r \in Requests : \/ \E k \in Keys, s \in issued \cup {0} : Present(r, k, s)
                         \/ SelectActive(r) \/ Verify(r) \/ TouchSelect(r) \/ Touch(r)
  \/ Tick /\ UNCHANGED <<rows, generated, issued, op, auth, touch>>
  \/ KeysCrash

KeysSpec == KeysInit /\ [][KeysNext]_keyVars
-----------------------------------------------------------------------------
Row == [secret : Nat, active : BOOLEAN, expires : Nat, used : BOOLEAN]

\* The variables' types.
KeysTypeOK ==
  /\ now \in 0 .. MaxTime
  /\ rows \in [Keys -> Row]
  /\ generated \in Nat /\ issued \subseteq 1 .. generated
  /\ op \in [Ops -> [pc : {"new", "commit", "done"},
                     kind : {"none", "deactivate", "regenerate"}, key : Keys \cup {"none"},
                     active : BOOLEAN, secret : Nat]]
  /\ auth \in [Requests -> [pc : {"new", "select", "verify", "accepted", "refused", "error", "lost"},
                            key : Keys \cup {"none"}, secret : Nat, seen : Row, void : BOOLEAN]]
  /\ touch \in [Requests -> [pc : {"none", "new", "commit"}, row : Row]]

\* Whatever rotations, deactivations, expiry and the tasks of other requests do meanwhile,
\* credentials that are void when a request presents them never let it in: no secret that
\* was issued and is void becomes valid again, not even by a rotation that sets the key
\* active, nor by a call that goes on with a row selected before.
VoidNeverAccepted == \A r \in Requests : auth[r].void => auth[r].pc # "accepted"

=============================================================================
