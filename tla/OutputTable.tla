----------------------------- MODULE OutputTable -----------------------------
(***************************************************************************)
(* The table "outputs" of a wallet and the statements the output manager   *)
(* runs on it (wallet/src/output_manager_service/storage/sqlite_db/).      *)
(*                                                                         *)
(* A table is a function from the outputs it has a row for.  A row keeps   *)
(* the columns the statements branch on: the status, the block the output  *)
(* was found mined in, the block it was found spent in, and the            *)
(* transactions it is received and spent in.  mined_height and             *)
(* mined_in_block are always set and cleared together, so they are one     *)
(* block; likewise marked_deleted_at_height and marked_deleted_in_block.   *)
(***************************************************************************)
EXTENDS Naturals, FiniteSets, Functions

CONSTANTS Outputs, TxIds, NoTx,
          Locks        \* script_lock_height of every output

NoTxAssumption == NoTx \notin TxIds

NoBlock == [height |-> 0, id |-> 0]

OutputStatus == {"Unspent", "Spent", "EncumberedToBeReceived", "EncumberedToBeSpent", "Invalid",
                 "CancelledInbound", "UnspentMinedUnconfirmed", "ShortTermEncumberedToBeReceived",
                 "ShortTermEncumberedToBeSpent", "SpentMinedUnconfirmed", "AbandonedCoinbase"}
ShortTerm == {"ShortTermEncumberedToBeReceived", "ShortTermEncumberedToBeSpent"}
EncumberedStatus == ShortTerm \cup {"EncumberedToBeReceived", "EncumberedToBeSpent"}
SpentStatus == {"Spent", "SpentMinedUnconfirmed"}

NewRow(status, tx) ==
    [status |-> status, mined |-> NoBlock, deleted |-> NoBlock, received_in |-> tx, spent_in |-> NoTx]

WithStatus(rows, status) == {o \in DOMAIN rows : rows[o].status = status}
OfTx(rows, t) == {o \in DOMAIN rows : t \in {rows[o].received_in, rows[o].spent_in}}

Insert(rows, S, status, tx) ==
    [o \in DOMAIN rows \cup S |-> IF o \in S THEN NewRow(status, tx) ELSE rows[o]]

-----------------------------------------------------------------------------
(* The statements of the services' requests.                                *)

CanEncumber(rows, ins) == ins \subseteq WithStatus(rows, "Unspent")
EncumberInputs(rows, t, ins) ==
    [o \in DOMAIN rows |->
        IF o \in ins
        THEN [rows[o] EXCEPT !.status = "ShortTermEncumberedToBeSpent", !.spent_in = t]
        ELSE rows[o]]

(* update_outputs_with_tx_id_and_status_to_new_status                       *)
ChangeStatus(rows, t, from, to) ==
    [o \in DOMAIN rows |->
        IF o \in OfTx(rows, t) /\ rows[o].status = from THEN [rows[o] EXCEPT !.status = to] ELSE rows[o]]

ConfirmEncumbered(rows, t) ==
    ChangeStatus(ChangeStatus(rows, t, "ShortTermEncumberedToBeReceived", "EncumberedToBeReceived"),
                 t, "ShortTermEncumberedToBeSpent", "EncumberedToBeSpent")

Encumbered(rows, t) == {o \in OfTx(rows, t) : rows[o].status \in EncumberedStatus}

(* A spent output is offered again at once and loses its block, so that the *)
(* next validation looks for it.  With no encumbered row the call fails and *)
(* the table stays as it is.                                                *)
CancelPending(rows, t) ==
    [o \in DOMAIN rows |->
        IF o \notin Encumbered(rows, t) THEN rows[o]
        ELSE IF rows[o].received_in = t THEN [rows[o] EXCEPT !.status = "CancelledInbound"]
        ELSE [rows[o] EXCEPT !.status = "Unspent", !.spent_in = NoTx, !.mined = NoBlock]]

ReinstateCancelledInbound(rows, t) == ChangeStatus(rows, t, "CancelledInbound", "EncumberedToBeReceived")

SetCoinbaseAbandoned(rows, t) ==
    [o \in DOMAIN rows |->
        IF rows[o].received_in = t THEN [rows[o] EXCEPT !.status = "AbandonedCoinbase"] ELSE rows[o]]
UnsetCoinbaseAbandoned(rows, t) == ChangeStatus(rows, t, "AbandonedCoinbase", "EncumberedToBeReceived")

-----------------------------------------------------------------------------
(* The statements of the validation task.  Each one finds its row by the    *)
(* hash alone and writes the status whatever the status was.                *)

SetMined(rows, o, block, confirmed) ==
    [rows EXCEPT ![o].mined = block, ![o].deleted = NoBlock,
                 ![o].status = IF confirmed THEN "Unspent" ELSE "UnspentMinedUnconfirmed"]
SetUnminedAndInvalid(rows, o) ==
    [rows EXCEPT ![o].mined = NoBlock, ![o].deleted = NoBlock, ![o].status = "Invalid"]
MarkSpent(rows, o, block, confirmed) ==
    [rows EXCEPT ![o].deleted = block,
                 ![o].status = IF confirmed THEN "Spent" ELSE "SpentMinedUnconfirmed"]
MarkUnspent(rows, o) == [rows EXCEPT ![o].deleted = NoBlock, ![o].status = "Unspent"]

SetToBeRevalidated(rows) ==
    [o \in DOMAIN rows |-> [rows[o] EXCEPT !.mined = NoBlock, !.deleted = NoBlock, !.status = "Invalid"]]

-----------------------------------------------------------------------------
(* The queries.                                                             *)

IndexUnconfirmedUnspent(rows) == {o \in DOMAIN rows : rows[o].deleted = NoBlock}
IndexUnconfirmed(rows) ==
    {o \in DOMAIN rows : rows[o].status = "UnspentMinedUnconfirmed" \/ rows[o].mined = NoBlock}
IndexMinedUnspent(rows) ==
    {o \in DOMAIN rows : /\ rows[o].mined # NoBlock
                         /\ rows[o].deleted = NoBlock \/ rows[o].status = "SpentMinedUnconfirmed"}
IndexInvalid(rows) == WithStatus(rows, "Invalid") \cup WithStatus(rows, "CancelledInbound")

(* The rows "first by height, descending" may return: those at the top.     *)
LastMined(rows) ==
    {o \in DOMAIN rows : /\ rows[o].mined # NoBlock
                         /\ \A p \in DOMAIN rows : rows[p].mined.height <= rows[o].mined.height}
LastSpent(rows) ==
    {o \in DOMAIN rows : /\ rows[o].deleted # NoBlock
                         /\ \A p \in DOMAIN rows : rows[p].deleted.height <= rows[o].deleted.height}

(* fetch_unspent_outputs_for_spending in its default, Safe mode.            *)
Spendable(rows, tip) == {o \in WithStatus(rows, "Unspent") : Locks[o] <= tip}

(* The rows each category of get_balance sums over; AND binds tighter than  *)
(* OR in its SQL.  No output of the model has a maturity, and a coinbase    *)
(* that waits to be mined, which the query leaves out of the incoming       *)
(* balance by its source, is not told apart.                                *)
AvailableBalance(rows) == WithStatus(rows, "Unspent")
TimeLockedBalance(rows, tip) == {o \in DOMAIN rows : Locks[o] > tip}
PendingIncomingBalance(rows) ==
    {o \in DOMAIN rows : rows[o].status \in {"EncumberedToBeReceived", "ShortTermEncumberedToBeReceived",
                                             "UnspentMinedUnconfirmed"}}
PendingOutgoingBalance(rows) ==
    {o \in DOMAIN rows : rows[o].status \in {"EncumberedToBeSpent", "ShortTermEncumberedToBeSpent",
                                             "SpentMinedUnconfirmed"}}
=============================================================================
