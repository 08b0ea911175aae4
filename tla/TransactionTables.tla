------------------------- MODULE TransactionTables -------------------------
(***************************************************************************)
(* The three tables of the wallet's transaction database, seen by one      *)
(* transaction id: pending outbound, pending inbound and completed.  Every  *)
(* operator is one database transaction of TransactionServiceSqliteDatabase *)
(* and is written as its effect X(db), with CanX(db) where it may fail.     *)
(* A row is absent, live (its cancelled flag is unset) or cancelled; the    *)
(* transaction id is the primary key of each table.                        *)
(***************************************************************************)

RowState == {"absent", "live", "cancelled"}

\* sent: send_count > 0 in the pending outbound row.
Db == [outbound : RowState, inbound : RowState, completed : RowState, sent : BOOLEAN]

EmptyDb == [outbound |-> "absent", inbound |-> "absent", completed |-> "absent", sent |-> FALSE]

\* Cancelled rows do not count.
TransactionExists(db) == "live" \in {db.outbound, db.inbound, db.completed}

\* insert refuses a live row, and the primary key any other one.
CanAddOutbound(db) == db.outbound = "absent"
AddOutbound(db) == [db EXCEPT !.outbound = "live", !.sent = FALSE]

CanAddInbound(db) == db.inbound = "absent"
AddInbound(db) == [db EXCEPT !.inbound = "live"]

\* The pending row is looked up with cancelled = false, deleted, and the
\* completed row inserted, in one database transaction.
CanCompleteOutbound(db) == db.completed = "absent" /\ db.outbound = "live"
CompleteOutbound(db) == [db EXCEPT !.outbound = "absent", !.completed = "live"]

CanCompleteInbound(db) == db.completed = "absent" /\ db.inbound = "live"
CompleteInbound(db) == [db EXCEPT !.inbound = "absent", !.completed = "live"]

\* set_pending_transaction_cancellation_status: the inbound row if there is
\* one, else the outbound row; the flag's old value does not matter.
CanSetCancelled(db) == db.inbound # "absent" \/ db.outbound # "absent"
SetCancelled(db, flag) ==
    LET row == IF flag THEN "cancelled" ELSE "live"
    IN  IF db.inbound # "absent" THEN [db EXCEPT !.inbound = row] ELSE [db EXCEPT !.outbound = row]

\* increment_send_count: the completed row, else the outbound row, else a live
\* inbound row.
CanIncrementSendCount(db) ==
    db.completed # "absent" \/ db.outbound # "absent" \/ db.inbound = "live"
IncrementSendCount(db) ==
    IF db.completed = "absent" /\ db.outbound # "absent" THEN [db EXCEPT !.sent = TRUE] ELSE db
=============================================================================
