---------------------------- MODULE PositionBook ----------------------------
(***************************************************************************)
(* What the positions table promises: per user and symbol at most one net  *)
(* position, to which every booked order adds its quantity at once and     *)
(* which is closed at once, alone or with others of its symbol.            *)
(***************************************************************************)
EXTENDS Integers

CONSTANTS Users, Symbols, Quantities, Flat

VARIABLE book   \* [Users \X Symbols -> net quantity, or Flat]

Init == book = [us \in Users \X Symbols |-> Flat]

\* An order is booked: it opens a position or adds to the one there is.
Book(u, s, q) ==
  book' = [book EXCEPT ![<<u, s>>] = IF @ = Flat THEN q ELSE @ + q]

\* The positions of the users in U are closed.
CloseOut(U, s) ==
  /\ \A u \in U : book[<<u, s>>] # Flat
  /\ book' = [us \in Users \X Symbols |-> IF us[1] \in U /\ us[2] = s THEN Flat ELSE book[us]]

Next ==
  \E s \in Symbols :
    \/ \E u \in Users, q \in Quantities : Book(u, s, q)
    \/ \E U \in SUBSET Users : CloseOut(U, s)

Spec == Init /\ [][Next]_book
=============================================================================
