------------------------ MODULE TransactionMonitoring ------------------------
(***************************************************************************)
(* What the wallet does with completed transactions: it broadcasts them     *)
(* (TransactionBroadcastProtocol, one task per transaction), validates       *)
(* them against the base node's chain (TransactionValidationProtocol, one    *)
(* task at a time) and checks imported ones against its output manager       *)
(* (check_faux_transactions), while the base node mines, reorganises and     *)
(* drops transactions.                                                      *)
(*                                                                         *)
(* A task reads a row, asks the base node, and writes the row when the       *)
(* answer arrives; reading with the base node's answer is one step here, the *)
(* write another.                                                           *)
(***************************************************************************)
EXTENDS Integers, Sequences, FiniteSets, FiniteSetsExt

CONSTANTS
    Normal,              \* interactive, one-sided and split transactions
    Coinbases,           \* coinbase transactions of this wallet
    Fauxes,              \* records of imported or scanned outputs
    CoinbaseHeight,      \* the block height of each coinbase
    NumConfirmations,    \* num_confirmations_required
    MaxHeight,           \* bound on the chain
    MaxReorgs,           \* bound on reorganisations
    MaxRevalidations,    \* bound on revalidations by the user
    MaxCrashes,          \* bound on crashes of the wallet
    ReorgWhileValidating \* whether the chain reorganises under a validation

Txs == Normal \cup Coinbases \cup Fauxes

VARIABLES
    row,         \* row[t]: the completed_transactions row of t
    funds,       \* funds[t]: t's inputs and outputs in the output manager
    cast,        \* cast[t]: t's broadcast task
    val,         \* the validation task
    chain,       \* the base node's chain
    mempool,     \* the base node's mempool
    relayed,     \* transactions some mempool of the network has held
    reorgs, revalidations, crashes

vars == <<row, funds, cast, val, chain, mempool, relayed, reorgs, revalidations, crashes>>
walletVars == <<row, funds, cast, val>>
nodeVars == <<chain, mempool, relayed, reorgs>>
boundVars == <<revalidations, crashes>>

\* A block is known by its height and the fork it was mined on.
Block == [height : 0..MaxHeight, fork : 0..MaxReorgs]
NoBlock == [height |-> 0, fork |-> 0]

Status == {"absent", "Completed", "Broadcast", "MinedUnconfirmed", "MinedConfirmed", "Rejected",
           "Coinbase", "Imported", "FauxUnconfirmed", "FauxConfirmed"}

Row == [status : Status, cancelled : BOOLEAN, mined : Block]

\* again: last_rejection is set.
Cast == [step : {"none", "submit", "accepted", "query", "cancel", "reject", "done"}, again : BOOLEAN]

\* todo: rows still to be written; was: their status when they were read; found:
\* where the base node has them; tip: its tip.
Validation == [step : {"none", "reorg", "unmine", "fetch", "apply", "revive", "abandon", "cancel"},
               todo : SUBSET Txs, was : [Txs -> Status], found : [Txs -> Block], tip : Block]

NoValidation == [step |-> "none", todo |-> {}, was |-> [t \in Txs |-> "absent"],
                 found |-> [t \in Txs |-> NoBlock], tip |-> NoBlock]

TypeOK ==
    /\ row \in [Txs -> Row]
    /\ funds \in [Txs -> {"held", "released", "abandoned"}]
    /\ cast \in [Txs -> Cast]
    /\ val \in Validation
    /\ chain \in Seq([fork : 0..MaxReorgs, txs : SUBSET Txs]) /\ Len(chain) <= MaxHeight
    /\ mempool \subseteq Normal /\ relayed \subseteq Normal /\ mempool \subseteq relayed
    /\ reorgs \in 0..MaxReorgs
    /\ revalidations \in 0..MaxRevalidations
    /\ crashes \in 0..MaxCrashes

NoCast == [step |-> "none", again |-> FALSE]

Init ==
    /\ row = [t \in Txs |-> [status |-> "absent", cancelled |-> FALSE, mined |-> NoBlock]]
    /\ funds = [t \in Txs |-> "held"]
    /\ cast = [t \in Txs |-> NoCast]
    /\ val = NoValidation
    /\ chain = <<>> /\ mempool = {} /\ relayed = {}
    /\ reorgs = 0 /\ revalidations = 0 /\ crashes = 0

-----------------------------------------------------------------------------
(***************************************************************************)
(* The base node, as its wallet service answers (transaction_query,         *)
(* transaction_batch_query, get_header_by_height).                          *)
(***************************************************************************)
BlockAt(h) == [height |-> h, fork |-> chain[h].fork]

OnChain(b) == b.height \in DOMAIN chain /\ BlockAt(b.height) = b

InChain(t) == \E h \in DOMAIN chain : t \in chain[h].txs

Location(t) ==
    IF InChain(t) THEN BlockAt(CHOOSE h \in DOMAIN chain : t \in chain[h].txs) ELSE NoBlock

Tip == IF chain = <<>> THEN NoBlock ELSE BlockAt(Len(chain))

Confirmed(b, tip) == tip.height - b.height >= NumConfirmations

-----------------------------------------------------------------------------
(***************************************************************************)
(* The completed_transactions table.  r is a row.                           *)
(***************************************************************************)
Live(r) == r.status # "absent" /\ ~ r.cancelled

\* update_mined_height: "cancelled: None" leaves the flag as it is.
UpdateMinedHeight(r, b, confirmed, faux) ==
    [r EXCEPT !.mined = b,
              !.status = IF faux THEN IF confirmed THEN "FauxConfirmed" ELSE "FauxUnconfirmed"
                         ELSE IF confirmed THEN "MinedConfirmed" ELSE "MinedUnconfirmed"]

\* set_as_unmined.  coinbase_block_height is set in the rows of coinbases and, to
\* the maturity of the output, of imported transactions; these become Coinbase.
SetAsUnmined(t, r) ==
    [r EXCEPT !.mined = NoBlock, !.cancelled = FALSE,
              !.status = IF t \notin Normal THEN "Coinbase"
                         ELSE IF @ = "Broadcast" THEN @ ELSE "Completed"]

\* fetch_last_mined_transaction: the highest block of any row, cancelled or not.
MinedRows == {t \in Txs : row[t].mined # NoBlock}
LastMined == {t \in MinedRows : \A u \in MinedRows : row[u].mined.height <= row[t].mined.height}

\* fetch_unconfirmed_transactions_info, without the imported transactions that
\* have no signature to ask for.
Unconfirmed ==
    {t \in Normal \cup Coinbases :
        /\ Live(row[t])
        /\ row[t].mined = NoBlock \/ row[t].status = "MinedUnconfirmed"}

\* get_transactions_to_be_broadcast.
ToBeBroadcast == {t \in Normal : Live(row[t]) /\ row[t].status \in {"Completed", "Broadcast"}}

-----------------------------------------------------------------------------
(***************************************************************************)
(* The transaction service.                                                *)
(***************************************************************************)
\* broadcast_completed_transaction: one task per transaction.
Started(S) == [t \in Txs |-> IF t \in S /\ cast[t].step = "none"
                             THEN [step |-> "submit", again |-> FALSE] ELSE cast[t]]

\* A completed negotiation, or submit_transaction.
SubmitTransaction(t) ==
    /\ t \in Normal /\ row[t].status = "absent"
    /\ row' = [row EXCEPT ![t].status = "Completed"]
    /\ cast' = [cast EXCEPT ![t] = [step |-> "submit", again |-> FALSE]]
    /\ UNCHANGED <<funds, val, nodeVars, boundVars>>

GenerateCoinbase(t) ==
    /\ t \in Coinbases /\ row[t].status = "absent"
    /\ row' = [row EXCEPT ![t].status = "Coinbase"]
    /\ UNCHANGED <<funds, cast, val, nodeVars, boundVars>>

\* start_transaction_validation_protocol: a second task finds the mutex taken.
ValidationStarted == IF val.step = "none" THEN [NoValidation EXCEPT !.step = "reorg"] ELSE val

StartValidation ==
    /\ val.step = "none"
    /\ val' = ValidationStarted
    /\ UNCHANGED <<row, funds, cast, nodeVars, boundVars>>

\* add_utxo_import_transaction_with_status, for an output the scanner has seen.
ImportUtxo(t) ==
    /\ t \in Fauxes /\ row[t].status = "absent" /\ InChain(t)
    /\ \E status \in {"Imported", "FauxUnconfirmed"} : row' = [row EXCEPT ![t].status = status]
    /\ val' = ValidationStarted
    /\ UNCHANGED <<funds, cast, nodeVars, boundVars>>

\* mark_all_transactions_as_unvalidated, then a validation.
StartRevalidation ==
    /\ revalidations < MaxRevalidations
    /\ revalidations' = revalidations + 1
    /\ row' = [t \in Txs |-> [row[t] EXCEPT !.cancelled = FALSE, !.mined = NoBlock]]
    /\ val' = ValidationStarted
    /\ UNCHANGED <<funds, cast, nodeVars, crashes>>

\* complete_transaction_broadcast_protocol.
CompleteBroadcast(t) ==
    /\ cast[t].step = "done"
    /\ cast' = [cast EXCEPT ![t] = NoCast]
    /\ UNCHANGED <<row, funds, val, nodeVars, boundVars>>

-----------------------------------------------------------------------------
(***************************************************************************)
(* TransactionBroadcastProtocol.                                           *)
(***************************************************************************)
Goto(t, step) == cast' = [cast EXCEPT ![t].step = step]

\* The checks at the head of the main loop; a failed one ends the task.
Broadcastable(t) ==
    Live(row[t]) /\ row[t].status \in {"Completed", "Broadcast", "MinedUnconfirmed"}

StopBroadcast(t) ==
    /\ cast[t].step \in {"submit", "query"} /\ ~ Broadcastable(t)
    /\ Goto(t, "done")
    /\ UNCHANGED <<row, funds, val, nodeVars, boundVars>>

\* submit_transaction.  An answer that is lost, or that comes from a base node
\* which is not synced, leaves the mode as it is.
SubmitAccepted(t) ==
    /\ cast[t].step = "submit" /\ Broadcastable(t) /\ ~ InChain(t)
    /\ mempool' = mempool \cup {t} /\ relayed' = relayed \cup {t}
    /\ \E step \in {"submit", "accepted"} : Goto(t, step)
    /\ UNCHANGED <<row, funds, val, chain, reorgs, boundVars>>

SubmitAlreadyMined(t) ==
    /\ cast[t].step = "submit" /\ Broadcastable(t) /\ InChain(t)
    /\ Goto(t, "query")
    /\ UNCHANGED <<row, funds, val, nodeVars, boundVars>>

\* A double spend, an orphan, a time lock or an invalid transaction.
SubmitRejected(t) ==
    /\ cast[t].step = "submit" /\ Broadcastable(t) /\ ~ InChain(t) /\ t \notin mempool
    /\ Goto(t, "cancel")
    /\ UNCHANGED <<row, funds, val, nodeVars, boundVars>>

\* broadcast_completed_transaction of the database; a cancelled row is an error.
MarkBroadcast(t) ==
    /\ cast[t].step = "accepted"
    /\ row' = IF Live(row[t]) /\ row[t].status = "Completed"
              THEN [row EXCEPT ![t].status = "Broadcast"] ELSE row
    /\ Goto(t, IF Live(row[t]) THEN "query" ELSE "done")
    /\ UNCHANGED <<funds, val, nodeVars, boundVars>>

\* transaction_query.
QueryStored(t) ==
    /\ cast[t].step = "query" /\ Broadcastable(t)
    /\ InChain(t) \/ t \in mempool
    /\ Goto(t, "done")
    /\ UNCHANGED <<row, funds, val, nodeVars, boundVars>>

\* Not stored: submitted again, unless that was tried within the window already.
QueryNotStored(t) ==
    /\ cast[t].step = "query" /\ Broadcastable(t)
    /\ ~ InChain(t) /\ t \notin mempool
    /\ \/ cast' = [cast EXCEPT ![t] = [step |-> "submit", again |-> TRUE]]
       \/ cast[t].again /\ Goto(t, "cancel")
    /\ UNCHANGED <<row, funds, val, nodeVars, boundVars>>

\* cancel_transaction: the output manager first.
CancelOutputs(t) ==
    /\ cast[t].step = "cancel"
    /\ funds' = [funds EXCEPT ![t] = "released"]
    /\ Goto(t, "reject")
    /\ UNCHANGED <<row, val, nodeVars, boundVars>>

RejectTransaction(t) ==
    /\ cast[t].step = "reject"
    /\ row' = IF Live(row[t]) THEN [row EXCEPT ![t].cancelled = TRUE, ![t].status = "Rejected"] ELSE row
    /\ Goto(t, "done")
    /\ UNCHANGED <<funds, val, nodeVars, boundVars>>

BroadcastStep(t) ==
    \/ StopBroadcast(t) \/ SubmitAlreadyMined(t) \/ MarkBroadcast(t) \/ QueryStored(t)
    \/ QueryNotStored(t) \/ CancelOutputs(t) \/ RejectTransaction(t) \/ CompleteBroadcast(t)

-----------------------------------------------------------------------------
(***************************************************************************)
(* TransactionValidationProtocol.                                          *)
(***************************************************************************)
\* check_for_reorgs, one turn of its loop: the row at the top is still in its
\* block, or is to be unmined.
CheckForReorgs ==
    /\ val.step = "reorg"
    /\ \/ LastMined = {} /\ val' = [val EXCEPT !.step = "fetch"]
       \/ \E t \in LastMined :
            val' = IF OnChain(row[t].mined) THEN [val EXCEPT !.step = "fetch"]
                   ELSE [val EXCEPT !.step = "unmine", !.todo = {t}]
    /\ UNCHANGED <<row, funds, cast, nodeVars, boundVars>>

\* update_transaction_as_unmined; the status is never Coinbase here, so that the
\* output manager is not told.
UnmineReorged(t) ==
    /\ val.step = "unmine" /\ t \in val.todo
    /\ row' = [row EXCEPT ![t] = SetAsUnmined(t, @)]
    /\ val' = [NoValidation EXCEPT !.step = "reorg"]
    /\ UNCHANGED <<funds, cast, nodeVars, boundVars>>

\* query_base_node_for_transactions, all in one batch.
QueryTransactions ==
    /\ val.step = "fetch"
    /\ val' = [val EXCEPT !.step = "apply", !.todo = Unconfirmed, !.tip = Tip,
                          !.was = [t \in Txs |-> IF t \in Unconfirmed THEN row[t].status ELSE "absent"],
                          !.found = [t \in Txs |-> IF t \in Unconfirmed THEN Location(t) ELSE NoBlock]]
    /\ UNCHANGED <<row, funds, cast, nodeVars, boundVars>>

Written(t) == [val EXCEPT !.step = "apply", !.todo = @ \ {t}, !.was[t] = "absent", !.found[t] = NoBlock]

UpdateAsMined(t) ==
    /\ val.step = "apply" /\ t \in val.todo /\ val.found[t] # NoBlock
    /\ row' = [row EXCEPT ![t] = UpdateMinedHeight(@, val.found[t], Confirmed(val.found[t], val.tip), FALSE)]
    /\ val' = IF val.was[t] = "Coinbase" THEN [Written(t) EXCEPT !.step = "revive", !.found[t] = val.found[t]]
              ELSE Written(t)
    /\ UNCHANGED <<funds, cast, nodeVars, boundVars>>

\* set_coinbase_abandoned(false), after the row.
ReviveOutputs(t) ==
    /\ val.step = "revive" /\ t \notin val.todo /\ val.found[t] # NoBlock
    /\ funds' = [funds EXCEPT ![t] = "held"]
    /\ val' = Written(t)
    /\ UNCHANGED <<row, cast, nodeVars, boundVars>>

\* The unmined rows come after the mined ones.
UnminedTurn(t) ==
    /\ val.step = "apply" /\ t \in val.todo
    /\ \A u \in val.todo : val.found[u] = NoBlock

UpdateAsUnmined(t) ==
    /\ UnminedTurn(t) /\ t \in Normal /\ val.tip # NoBlock
    /\ row' = [row EXCEPT ![t] = SetAsUnmined(t, @)]
    /\ val' = Written(t)
    /\ UNCHANGED <<funds, cast, nodeVars, boundVars>>

\* A coinbase for a block that is not yet in the chain is left alone.
KeepUnmined(t) ==
    /\ UnminedTurn(t)
    /\ val.tip = NoBlock \/ (t \in Coinbases /\ CoinbaseHeight[t] > val.tip.height)
    /\ val' = Written(t)
    /\ UNCHANGED <<row, funds, cast, nodeVars, boundVars>>

\* Mutant: the row is cancelled before the output manager is told.
AbandonRowFirst(t) ==
    /\ UnminedTurn(t) /\ t \in Coinbases /\ CoinbaseHeight[t] <= val.tip.height
    /\ row' = [row EXCEPT ![t].cancelled = TRUE]
    /\ val' = [val EXCEPT !.step = "abandon", !.found[t] = val.tip]
    /\ UNCHANGED <<funds, cast, nodeVars, boundVars>>

\* update_coinbase_as_abandoned: the output manager; the row, which records the
\* tip so that a reorganisation of it brings the coinbase back; its cancellation.
AbandonOutputs(t) ==
    /\ UnminedTurn(t) /\ t \in Coinbases /\ CoinbaseHeight[t] <= val.tip.height
    /\ funds' = [funds EXCEPT ![t] = "abandoned"]
    /\ val' = [val EXCEPT !.step = "abandon", !.found[t] = val.tip]
    /\ UNCHANGED <<row, cast, nodeVars, boundVars>>

RecordAbandoned(t) ==
    /\ val.step = "abandon" /\ t \in val.todo /\ val.found[t] # NoBlock
    /\ row' = [row EXCEPT ![t] = UpdateMinedHeight(@, val.tip,
                    val.tip.height - CoinbaseHeight[t] >= NumConfirmations, FALSE)]
    /\ val' = [val EXCEPT !.step = "cancel"]
    /\ UNCHANGED <<funds, cast, nodeVars, boundVars>>

CancelCoinbase(t) ==
    /\ val.step = "cancel" /\ t \in val.todo /\ val.found[t] # NoBlock
    /\ row' = [row EXCEPT ![t].cancelled = TRUE]
    /\ val' = Written(t)
    /\ UNCHANGED <<funds, cast, nodeVars, boundVars>>

\* Mutant: broadcasts are not restarted.
CompleteWithoutRestart ==
    /\ val.step = "apply" /\ val.todo = {}
    /\ val' = NoValidation
    /\ UNCHANGED <<row, funds, cast, nodeVars, boundVars>>

\* The end of the task, and complete_transaction_validation_protocol, which
\* broadcasts what is not mined any more.
CompleteValidation ==
    /\ val.step = "apply" /\ val.todo = {}
    /\ val' = NoValidation
    /\ cast' = Started(ToBeBroadcast)
    /\ UNCHANGED <<row, funds, nodeVars, boundVars>>

\* An RPC error, or a change of the base node, which drops the task where it
\* waits for an answer of the base node or of the output manager.
ValidationFails ==
    /\ val.step \in {"reorg", "fetch", "revive", "abandon"}
    /\ val' = NoValidation
    /\ UNCHANGED <<row, funds, cast, nodeVars, boundVars>>

ValidationStep ==
    \/ CheckForReorgs \/ QueryTransactions \/ CompleteValidation
    \/ \E t \in Txs :
        \/ UnmineReorged(t) \/ UpdateAsMined(t) \/ ReviveOutputs(t) \/ UpdateAsUnmined(t)
        \/ KeepUnmined(t) \/ AbandonOutputs(t) \/ RecordAbandoned(t) \/ CancelCoinbase(t)

\* check_faux_transactions after a successful validation of the outputs: t is
\* looked at if it is not confirmed, or if no later row hides it, and written if
\* its output is unspent, that is mined and confirmed.
CheckFaux(t) ==
    /\ t \in Fauxes /\ Live(row[t])
    /\ \/ row[t].status \in {"Imported", "FauxUnconfirmed"}
       \/ row[t].status = "FauxConfirmed" /\ \A u \in LastMined : row[t].mined.height >= row[u].mined.height
    /\ InChain(t) /\ Confirmed(Location(t), Tip)
    /\ row' = [row EXCEPT ![t] = UpdateMinedHeight(@, Location(t), TRUE, TRUE)]
    /\ UNCHANGED <<funds, cast, val, nodeVars, boundVars>>

-----------------------------------------------------------------------------
(***************************************************************************)
(* The chain, the mempool, crashes.                                         *)
(***************************************************************************)
Mineable == {t \in relayed \cup Fauxes : ~ InChain(t)}
            \cup {t \in Coinbases : row[t].status # "absent" /\ CoinbaseHeight[t] = Len(chain) + 1}

Mine ==
    /\ Len(chain) < MaxHeight
    /\ \E S \in SUBSET Mineable :
        /\ chain' = Append(chain, [fork |-> reorgs, txs |-> S])
        /\ mempool' = mempool \ S
    /\ UNCHANGED <<walletVars, relayed, reorgs, boundVars>>

\* Blocks leave the chain; their transactions return to the mempool or do not.
Reorg ==
    /\ reorgs < MaxReorgs
    /\ ReorgWhileValidating \/ val.step = "none"
    /\ \E h \in 0..(Len(chain) - 1) :
        /\ chain' = SubSeq(chain, 1, h)
        /\ LET dropped == UNION {chain[i].txs : i \in (h + 1)..Len(chain)} \cap Normal IN
           \E S \in SUBSET dropped : mempool' = mempool \cup S
    /\ reorgs' = reorgs + 1
    /\ UNCHANGED <<walletVars, relayed, boundVars>>

Evict(t) ==
    /\ t \in mempool
    /\ mempool' = mempool \ {t}
    /\ UNCHANGED <<walletVars, chain, relayed, reorgs, boundVars>>

\* Tasks are gone; broadcasts start again with the next validation.
Crash ==
    /\ crashes < MaxCrashes
    /\ crashes' = crashes + 1
    /\ cast' = [t \in Txs |-> NoCast]
    /\ val' = NoValidation
    /\ UNCHANGED <<row, funds, nodeVars, revalidations>>

Next ==
    \/ \E t \in Normal : SubmitTransaction(t) \/ BroadcastStep(t) \/ SubmitAccepted(t) \/ SubmitRejected(t) \/ Evict(t)
    \/ \E t \in Coinbases : GenerateCoinbase(t)
    \/ \E t \in Fauxes : ImportUtxo(t) \/ CheckFaux(t)
    \/ StartValidation \/ StartRevalidation \/ ValidationStep \/ ValidationFails
    \/ Mine \/ Reorg \/ Crash

Spec == Init /\ [][Next]_vars

\* New blocks keep starting validations; the base node answers some of them and
\* some broadcasts; what only needs the wallet's own scheduler is done.
Fairness ==
    /\ WF_vars(StartValidation) /\ WF_vars(ValidationStep)
    /\ SF_vars(CheckForReorgs) /\ SF_vars(QueryTransactions)
    /\ SF_vars(\E t \in Coinbases : RecordAbandoned(t) \/ ReviveOutputs(t))
    /\ \A t \in Normal : WF_vars(BroadcastStep(t)) /\ WF_vars(SubmitAccepted(t) \/ SubmitRejected(t))
    /\ \A t \in Fauxes : WF_vars(CheckFaux(t))

FairSpec == Spec /\ Fairness

-----------------------------------------------------------------------------
(***************************************************************************)
(* Properties.                                                             *)
(***************************************************************************)
\* A transaction that is cancelled has given back its inputs: the output manager
\* comes first in cancel_transaction, so that neither a crash nor a validation in
\* between leaves a rejected transaction that still holds funds.
RejectedFundsReleased == \A t \in Normal : row[t].cancelled => funds[t] = "released"

\* A coinbase that the transaction service has given up is never one the output
\* manager still waits for (update_coinbase_as_abandoned), whatever fails half way.
CancelledCoinbaseAbandoned == \A t \in Coinbases : row[t].cancelled => funds[t] = "abandoned"

\* When a validation ends, what the rows of live transactions say is what the
\* chain it asked about says: a recorded block is the one that holds the
\* transaction, and a transaction in a block up to the tip is recorded.
ValidationAgrees ==
    val.step = "apply" /\ val.todo = {} =>
        \A t \in Normal \cup Coinbases : Live(row[t]) =>
            /\ row[t].mined # NoBlock => row[t].mined = Location(t)
            /\ Location(t).height \in 1..val.tip.height => row[t].mined = Location(t)

\* What a validation has called mined and confirmed is in the block the row
\* names: only a later reorganisation can change that.
ConfirmedIsMined ==
    \A t \in Normal \cup Coinbases :
        Live(row[t]) /\ row[t].status = "MinedConfirmed" /\ OnChain(row[t].mined) => row[t].mined = Location(t)

\* A transaction that is live holds its funds, except while its broadcast task is
\* about to reject it.
LiveFundsHeld ==
    \A t \in Normal : Live(row[t]) /\ cast[t].step # "reject" /\ crashes = 0 => funds[t] = "held"

\* A transaction with a mined height is not cancelled (update_mined_height).
MinedNotCancelled == \A t \in Normal : ~ (row[t].cancelled /\ row[t].mined # NoBlock)

\* A live transaction that the base node neither mined nor holds, because it was
\* never sent, was evicted, or left the chain in a reorganisation, is submitted
\* again or cancelled.
Resubmitted ==
    \A t \in Normal :
        Live(row[t]) /\ ~ InChain(t) /\ t \notin mempool ~> ~ Live(row[t]) \/ InChain(t) \/ t \in mempool

\* A row that calls a transaction mined and confirmed in a block that has left the
\* chain is corrected by some later validation.
Stale(t) == Live(row[t]) /\ row[t].status = "MinedConfirmed" /\ ~ OnChain(row[t].mined)
StaleRowsFound == \A t \in Normal : Stale(t) ~> ~ Stale(t)

\* A transaction that stays confirmed in the chain is recorded as confirmed in
\* its block for good.
Recorded(t) ==
    /\ row[t].status \in {"MinedConfirmed", "FauxConfirmed"}
    /\ row[t].mined = Location(t)
EventuallyConfirmed ==
    \A t \in Normal \cup Fauxes :
        <>[](Live(row[t]) /\ InChain(t) /\ Confirmed(Location(t), Tip)) => <>[]Recorded(t)
=============================================================================
