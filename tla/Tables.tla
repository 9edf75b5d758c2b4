------------------------------- MODULE Tables -------------------------------
(***************************************************************************)
(* SQLite tables as the application uses them through SQLAlchemy.  A table *)
(* maps the ids of its rows to the rows.  A new row gets the id after the  *)
(* largest one in use (the tables have no AUTOINCREMENT), so the id of a   *)
(* deleted last row is used again.  Foreign keys are declared but never    *)
(* enforced: no connection turns them on.                                  *)
(***************************************************************************)
EXTENDS Integers

Ids(t) == DOMAIN t
IsTable(t, ids, rows) == Ids(t) \subseteq ids /\ t \in [Ids(t) -> rows]

NextRowId(t, i) == /\ \A j \in Ids(t) : j < i
                   /\ i = 1 \/ i - 1 \in Ids(t)

Put(t, i, row) == [j \in Ids(t) \cup {i} |-> IF j = i THEN row ELSE t[j]]
Drop(t, S) == [j \in Ids(t) \ S |-> t[j]]
=============================================================================
