---------------------------- MODULE OutputManager ----------------------------
(***************************************************************************)
(* The output manager of a wallet (wallet/src/output_manager_service/):    *)
(* its requests, which one task serves one after the other, and the        *)
(* validation task that runs beside them and compares the outputs with     *)
(* what a base node says of the chain.                                     *)
(*                                                                         *)
(* The validation task reads rows, waits for the base node, and then       *)
(* writes row by row; requests run between any two of these steps.  The    *)
(* base node's chain grows and reorganises at any time.  A transaction the *)
(* wallet has finished may be mined by anyone from then on, also after the *)
(* wallet cancelled it.                                                    *)
(*                                                                         *)
(* Amounts are left out: select_utxos returns any non-empty set of         *)
(* spendable outputs.  One validation asks for all its rows in one batch.  *)
(***************************************************************************)
EXTENDS OutputTable, Sequences, SequencesExt

CONSTANTS Funded,           \* outputs of the wallet that block 1 creates
          Paid,             \* outputs other wallets pay to this one, one-sided
          Change,           \* change[t]: the output transaction t returns to the wallet
          NumConfirmations, \* num_confirmations_required
          Requests,         \* the requests the run makes
          ReorgWhileValidating,
          MaxHeight, MaxReorgs, MaxRestarts   \* bounds

VARIABLES rows,      \* the outputs table
          txs,       \* the transactions the output manager was asked about
          encumbering, \* the transaction whose change rows are still to be inserted
          task,      \* the validation task; it holds validation_in_progress
          chain,     \* the base node's blocks
          reorgs, restarts,
          undisturbed  \* history: nothing but the validation has run since it started

vars == <<rows, txs, encumbering, task, chain, reorgs, restarts, undisturbed>>

NoTxInfo == [state |-> "none", ins |-> {}, outs |-> {}]
Idle == [pc |-> "idle", fetched |-> << >>, writes |-> {}, header |-> NoBlock]

-----------------------------------------------------------------------------
(* The base node's answers.                                                 *)

Tip(ch) == Len(ch)
Ref(ch, h) == [height |-> h, id |-> ch[h].id]
InChain(ch, b) == b.height <= Len(ch) /\ b.height > 0 /\ ch[b.height].id = b.id
BlocksOf(ch) == {Ref(ch, h) : h \in 1 .. Len(ch)}

(* utxo_query: an output is found whether or not it was spent since.        *)
MinedIn(ch, o) ==
    IF \E h \in 1 .. Len(ch) : o \in ch[h].made
    THEN Ref(ch, CHOOSE h \in 1 .. Len(ch) : o \in ch[h].made)
    ELSE NoBlock
SpentIn(ch, o) ==
    IF \E h \in 1 .. Len(ch) : o \in ch[h].spent
    THEN Ref(ch, CHOOSE h \in 1 .. Len(ch) : o \in ch[h].spent)
    ELSE NoBlock

(* query_deleted: the wallet asks by position, and a position in a block    *)
(* that is gone may be anybody's output now.                                *)
DeletedAnswers(ch, row, o) ==
    IF InChain(ch, row.mined) THEN {SpentIn(ch, o)} ELSE {NoBlock} \cup BlocksOf(ch)

Confirmed(ch, b) == Len(ch) - b.height >= NumConfirmations

-----------------------------------------------------------------------------
Init ==
    /\ chain = <<[id |-> 0, made |-> Funded, spent |-> {}]>>
    /\ rows = [o \in Funded |-> [NewRow("Unspent", NoTx) EXCEPT !.mined = [height |-> 1, id |-> 0]]]
    /\ txs = [t \in TxIds |-> NoTxInfo]
    /\ encumbering = NoTx
    /\ task = Idle
    /\ reorgs = 0 /\ restarts = 0
    /\ undisturbed = FALSE

Request(name) == name \in Requests /\ encumbering = NoTx /\ undisturbed' = FALSE

Live(t) == txs[t].state \in {"prepared", "pending", "released"}

-----------------------------------------------------------------------------
(* Requests that build a transaction.                                       *)

(* prepare_transaction_to_send: the inputs are encumbered in one database   *)
(* transaction, the change is inserted after it has committed.              *)
PrepareTransactionToSend(t, ins) ==
    /\ Request("prepare")
    /\ txs[t].state = "none"
    /\ ins # {} /\ ins \subseteq Spendable(rows, Tip(chain))
    /\ CanEncumber(rows, ins)
    /\ rows' = EncumberInputs(rows, t, ins)
    /\ txs' = [txs EXCEPT ![t] = [state |-> "prepared", ins |-> ins, outs |-> Change[t]]]
    /\ encumbering' = IF Change[t] = {} THEN NoTx ELSE t
    /\ UNCHANGED <<task, chain, reorgs, restarts>>

InsertChange ==
    /\ encumbering # NoTx
    /\ rows' = Insert(rows, Change[encumbering], "ShortTermEncumberedToBeReceived", encumbering)
    /\ encumbering' = NoTx
    /\ undisturbed' = FALSE
    /\ UNCHANGED <<txs, task, chain, reorgs, restarts>>

(* confirm_pending_transaction, once the negotiation has begun.             *)
ConfirmEncumberance(t) ==
    /\ Request("prepare")
    /\ txs[t].state = "prepared"
    /\ rows' = ConfirmEncumbered(rows, t)
    /\ txs' = [txs EXCEPT ![t].state = "pending"]
    /\ UNCHANGED <<encumbering, task, chain, reorgs, restarts>>

(* The transaction service finishes the transaction and hands it out.       *)
Finalize(t) ==
    /\ txs[t].state = "pending"
    /\ txs' = [txs EXCEPT ![t].state = "released"]
    /\ UNCHANGED <<rows, encumbering, task, chain, reorgs, restarts, undisturbed>>

(* A transaction to the wallet itself is encumbered, confirmed and finished *)
(* in one request.                                                          *)
SpendToSelf(t, encumbered, spent) ==
    /\ txs[t].state = "none"
    /\ CanEncumber(rows, encumbered)
    /\ rows' = ConfirmEncumbered(Insert(EncumberInputs(rows, t, encumbered), Change[t],
                                        "ShortTermEncumberedToBeReceived", t), t)
    /\ txs' = [txs EXCEPT ![t] = [state |-> "released", ins |-> spent, outs |-> Change[t]]]
    /\ UNCHANGED <<encumbering, task, chain, reorgs, restarts>>

CreatePayToSelfTransaction(t, ins) ==
    /\ Request("self")
    /\ ins # {} /\ ins \subseteq Spendable(rows, Tip(chain))
    /\ SpendToSelf(t, ins, ins)

(* create_coin_join and create_coin_split, of the outputs the user names:   *)
(* these are looked up without a tip, so time-locked ones are accepted.     *)
CreateCoinJoin(t, ins) ==
    /\ Request("join")
    /\ ins # {} /\ ins \subseteq WithStatus(rows, "Unspent")
    /\ SpendToSelf(t, ins, ins)

(* The output of the other party that is claimed is not in the table.       *)
CreateClaimShaAtomicSwapTransaction(t) == Request("claim") /\ SpendToSelf(t, {}, {})

(* Spends an output of the wallet and encumbers none.                       *)
CreateHtlcRefundTransaction(t, o) ==
    /\ Request("refund")
    /\ o \in WithStatus(rows, "Unspent") /\ Locks[o] > 0 /\ Locks[o] <= Tip(chain)
    /\ SpendToSelf(t, {}, {o})

-----------------------------------------------------------------------------
(* Requests that add an output.                                             *)

(* import_onesided_outputs: found on the chain, offered before any          *)
(* validation has recorded where.                                           *)
ImportOneSided(o) ==
    /\ Request("import")
    /\ o \in Paid \ DOMAIN rows
    /\ MinedIn(chain, o) # NoBlock
    /\ rows' = Insert(rows, {o}, "Unspent", NoTx)
    /\ UNCHANGED <<txs, encumbering, task, chain, reorgs, restarts>>

(* get_recipient_transaction and add_unvalidated_output.                    *)
GetRecipientTransaction(t, o) ==
    /\ Request("receive")
    /\ txs[t].state = "none"
    /\ o \in Paid \ DOMAIN rows
    /\ MinedIn(chain, o) = NoBlock
    /\ rows' = Insert(rows, {o}, "EncumberedToBeReceived", t)
    /\ txs' = [txs EXCEPT ![t] = [state |-> "inbound", ins |-> {}, outs |-> {o}]]
    /\ UNCHANGED <<encumbering, task, chain, reorgs, restarts>>

(* get_coinbase_transaction, for the height of the next block.              *)
GetCoinbaseTransaction(t, o) ==
    /\ Request("coinbase")
    /\ txs[t].state = "none"
    /\ o \in Paid \ DOMAIN rows
    /\ MinedIn(chain, o) = NoBlock
    /\ rows' = ConfirmEncumbered(Insert(rows, {o}, "EncumberedToBeReceived", t), t)
    /\ txs' = [txs EXCEPT ![t] = [state |-> "coinbase", ins |-> {}, outs |-> {o}]]
    /\ UNCHANGED <<encumbering, task, chain, reorgs, restarts>>

AbandonCoinbase(t) ==
    /\ Request("coinbase")
    /\ txs[t].state = "coinbase"
    /\ \A o \in txs[t].outs : MinedIn(chain, o) = NoBlock
    /\ rows' = SetCoinbaseAbandoned(rows, t)
    /\ txs' = [txs EXCEPT ![t].state = "abandoned"]
    /\ UNCHANGED <<encumbering, task, chain, reorgs, restarts>>

ReviveCoinbase(t) ==
    /\ Request("coinbase")
    /\ txs[t].state = "abandoned"
    /\ \A o \in txs[t].outs : MinedIn(chain, o) # NoBlock
    /\ rows' = UnsetCoinbaseAbandoned(rows, t)
    /\ txs' = [txs EXCEPT ![t].state = "coinbase"]
    /\ UNCHANGED <<encumbering, task, chain, reorgs, restarts>>

-----------------------------------------------------------------------------
(* Requests about a pending transaction.                                    *)

CancelTransaction(t) ==
    /\ Request("cancel")
    /\ Live(t) \/ txs[t].state = "inbound"
    /\ rows' = CancelPending(rows, t)
    /\ txs' = [txs EXCEPT ![t].state = CASE @ = "inbound" -> "cancelled inbound"
                                             [] @ = "released" -> "cancelled"
                                             [] OTHER -> "dropped"]
    /\ UNCHANGED <<encumbering, task, chain, reorgs, restarts>>

ReinstateCancelledInboundTransaction(t) ==
    /\ Request("cancel")
    /\ txs[t].state = "cancelled inbound"
    /\ rows' = ReinstateCancelledInbound(rows, t)
    /\ txs' = [txs EXCEPT ![t].state = "inbound"]
    /\ UNCHANGED <<encumbering, task, chain, reorgs, restarts>>

StartTask == [Idle EXCEPT !.pc = "last spent"]

(* revalidate_outputs: forgets what every row says of the chain and starts  *)
(* a validation, if none runs.                                              *)
RevalidateOutputs ==
    /\ Request("revalidate")
    /\ rows' = SetToBeRevalidated(rows)
    /\ task' = IF task.pc = "idle" THEN StartTask ELSE task
    /\ UNCHANGED <<txs, encumbering, chain, reorgs, restarts>>

(* The wallet stops and starts again: a transaction that was not yet sent   *)
(* lives in memory only.                                                    *)
Restart ==
    /\ restarts < MaxRestarts
    /\ restarts' = restarts + 1
    /\ task' = Idle
    /\ encumbering' = NoTx
    /\ txs' = [t \in TxIds |-> IF txs[t].state = "prepared"
                               THEN [txs[t] EXCEPT !.state = "forgotten"] ELSE txs[t]]
    /\ undisturbed' = FALSE
    /\ UNCHANGED <<rows, chain, reorgs>>

-----------------------------------------------------------------------------
(* The validation task.  A write is an operation on one row; the writes of  *)
(* a phase are made one by one before its next phase begins.                *)

Write(op, o, b, c) == [op |-> op, output |-> o, block |-> b, confirmed |-> c]

Apply(w, r) ==
    CASE w.op = "mined" -> SetMined(r, w.output, w.block, w.confirmed)
      [] w.op = "invalid" -> SetUnminedAndInvalid(r, w.output)
      [] w.op = "spent" -> MarkSpent(r, w.output, w.block, w.confirmed)
      [] w.op = "unspent" -> MarkUnspent(r, w.output)

At(pc) == task.pc = pc /\ task.writes = {}

(* validate_outputs: on a new block or on request; ignored while one runs.  *)
ValidateOutputs ==
    /\ At("idle")
    /\ task' = StartTask
    /\ undisturbed' = TRUE
    /\ UNCHANGED <<rows, txs, encumbering, chain, reorgs, restarts>>

WriteRow ==
    /\ \E w \in task.writes :
          /\ rows' = Apply(w, rows)
          /\ task' = [task EXCEPT !.writes = @ \ {w}]
    /\ UNCHANGED <<txs, encumbering, chain, reorgs, restarts, undisturbed>>

Step(t) == /\ task' = t
           /\ UNCHANGED <<rows, txs, encumbering, chain, reorgs, restarts, undisturbed>>

CheckLastSpentSkipped == At("last spent") /\ Step([task EXCEPT !.pc = "last mined"])

(* check_for_reorgs, first loop: from the highest block an output was spent *)
(* in downwards, until one is still in the chain.                           *)
CheckLastSpent ==
    /\ At("last spent")
    /\ \/ /\ LastSpent(rows) = {}
          /\ Step([task EXCEPT !.pc = "last mined"])
       \/ \E o \in LastSpent(rows) :
            Step(IF InChain(chain, rows[o].deleted)
                 THEN [task EXCEPT !.pc = "last mined"]
                 ELSE [task EXCEPT !.writes = {Write("unspent", o, NoBlock, FALSE)}])

(* check_for_reorgs, second loop.                                           *)
CheckLastMined ==
    /\ At("last mined")
    /\ \/ /\ LastMined(rows) = {}
          /\ Step([task EXCEPT !.pc = "unconfirmed"])
       \/ \E o \in LastMined(rows) :
            Step(IF InChain(chain, rows[o].mined)
                 THEN [task EXCEPT !.pc = "unconfirmed", !.header = rows[o].mined]
                 ELSE [task EXCEPT !.writes = {Write("invalid", o, NoBlock, FALSE)}])

FoundMined(S) ==
    {Write("mined", o, MinedIn(chain, o), Confirmed(chain, MinedIn(chain, o))) :
        o \in {p \in S : MinedIn(chain, p) # NoBlock}}

Fetch(S, pc) == Step([task EXCEPT !.pc = pc, !.fetched = Restrict(rows, S)])

FetchUnconfirmedOutputs == At("unconfirmed") /\ Fetch(IndexUnconfirmed(rows), "query unconfirmed")
UpdateUnconfirmedOutputs ==
    /\ At("query unconfirmed")
    /\ Step([task EXCEPT !.pc = "deleted", !.writes = FoundMined(DOMAIN task.fetched), !.fetched = << >>])

FetchMinedUnspentOutputs == At("deleted") /\ Fetch(IndexMinedUnspent(rows), "query deleted")

(* update_spent_outputs: fails when the base node no longer has the header  *)
(* check_for_reorgs ended at.                                               *)
UpdateSpentOutputs ==
    /\ At("query deleted")
    /\ DOMAIN task.fetched # {} /\ task.header # NoBlock => InChain(chain, task.header)
    /\ \E answer \in [DOMAIN task.fetched -> {NoBlock} \cup BlocksOf(chain)] :
          /\ \A o \in DOMAIN answer : answer[o] \in DeletedAnswers(chain, task.fetched[o], o)
          /\ Step([task EXCEPT !.pc = "invalid", !.fetched = << >>,
                !.writes = {Write("spent", o, answer[o], Confirmed(chain, answer[o])) :
                                o \in {p \in DOMAIN answer : answer[p] # NoBlock}}
                      \cup {Write("unspent", o, NoBlock, FALSE) :
                                o \in {p \in DOMAIN answer : /\ answer[p] = NoBlock
                                                             /\ task.fetched[p].deleted # NoBlock}}])

HeaderReorgedOut ==
    /\ At("query deleted")
    /\ DOMAIN task.fetched # {} /\ task.header # NoBlock /\ ~ InChain(chain, task.header)
    /\ task' = Idle
    /\ undisturbed' = FALSE
    /\ UNCHANGED <<rows, txs, encumbering, chain, reorgs, restarts>>

(* Rows whose last_validation_timestamp is recent are left out: any may be. *)
FetchInvalidOutputs ==
    /\ At("invalid")
    /\ \E S \in SUBSET IndexInvalid(rows) : Fetch(S, "query invalid")
UpdateInvalidOutputs ==
    /\ At("query invalid")
    /\ Step([task EXCEPT !.pc = "done", !.writes = FoundMined(DOMAIN task.fetched), !.fetched = << >>])

ValidationSuccess == At("done") /\ Step(Idle)

(* The base node fails to answer or is replaced by another.                 *)
ValidationFails ==
    /\ task.pc # "idle"
    /\ task' = Idle
    /\ undisturbed' = FALSE
    /\ UNCHANGED <<rows, txs, encumbering, chain, reorgs, restarts>>

Validation ==
    \/ WriteRow \/ CheckLastSpent \/ CheckLastMined
    \/ FetchUnconfirmedOutputs \/ UpdateUnconfirmedOutputs
    \/ FetchMinedUnspentOutputs \/ UpdateSpentOutputs \/ HeaderReorgedOut
    \/ FetchInvalidOutputs \/ UpdateInvalidOutputs \/ ValidationSuccess

-----------------------------------------------------------------------------
(* The chain.  A block on top of the first k ones; when k is not the tip it *)
(* replaces the others, being the stronger chain.                           *)

Made(ch) == UNION {ch[h].made : h \in 1 .. Len(ch)}
Spent(ch) == UNION {ch[h].spent : h \in 1 .. Len(ch)}

Minable(t) == txs[t].state \in {"released", "inbound", "cancelled inbound", "coinbase", "abandoned", "cancelled"}

NewBlock(k, made, spent) ==
    /\ k + 1 <= MaxHeight
    /\ k < Len(chain) => /\ reorgs < MaxReorgs
                         /\ ReorgWhileValidating \/ task.pc = "idle"
    /\ LET below == SubSeq(chain, 1, k) IN
          /\ spent \subseteq Made(below) \ Spent(below)
          /\ made \cap Made(below) = {}
          /\ reorgs' = IF k < Len(chain) THEN reorgs + 1 ELSE reorgs
          /\ chain' = Append(below, [id |-> reorgs', made |-> made, spent |-> spent])
    /\ undisturbed' = FALSE
    /\ UNCHANGED <<rows, txs, encumbering, task, restarts>>

MineTransaction(t, k) ==
    /\ Minable(t)
    /\ \A o \in txs[t].ins : Locks[o] <= k + 1
    /\ NewBlock(k, txs[t].outs, txs[t].ins)
MineEmpty(k) == NewBlock(k, {}, {})
PayOneSided(o, k) ==
    /\ "import" \in Requests
    /\ o \in Paid \ DOMAIN rows
    /\ NewBlock(k, {o}, {})
(* The other party of an atomic swap claims the output.                     *)
ClaimHtlc(o, k) == Locks[o] > 0 /\ o \in DOMAIN rows /\ NewBlock(k, {}, {o})

Next ==
    \/ \E t \in TxIds :
          \/ \E ins \in SUBSET DOMAIN rows : \/ PrepareTransactionToSend(t, ins)
                                             \/ CreatePayToSelfTransaction(t, ins)
                                             \/ CreateCoinJoin(t, ins)
          \/ CreateClaimShaAtomicSwapTransaction(t)
          \/ ConfirmEncumberance(t) \/ Finalize(t) \/ CancelTransaction(t)
          \/ ReinstateCancelledInboundTransaction(t) \/ AbandonCoinbase(t) \/ ReviveCoinbase(t)
          \/ \E o \in Outputs : \/ CreateHtlcRefundTransaction(t, o)
                                \/ GetRecipientTransaction(t, o)
                                \/ GetCoinbaseTransaction(t, o)
    \/ InsertChange \/ RevalidateOutputs \/ Restart
    \/ \E o \in Outputs : ImportOneSided(o)
    \/ ValidateOutputs \/ Validation \/ ValidationFails
    \/ \E k \in 1 .. Len(chain) :
          \/ \E t \in TxIds : MineTransaction(t, k)
          \/ MineEmpty(k)
          \/ \E o \in Outputs : PayOneSided(o, k) \/ ClaimHtlc(o, k)

Spec == Init /\ [][Next]_vars
FairSpec == Spec /\ WF_vars(Validation)

-----------------------------------------------------------------------------
TypeOK ==
    /\ DOMAIN rows \subseteq Outputs
    /\ \A o \in DOMAIN rows : /\ rows[o].status \in OutputStatus
                              /\ {rows[o].received_in, rows[o].spent_in} \subseteq TxIds \cup {NoTx}
    /\ encumbering \in TxIds \cup {NoTx}
    /\ task.pc \in {"idle", "last spent", "last mined", "unconfirmed", "query unconfirmed",
                    "deleted", "query deleted", "invalid", "query invalid", "done"}
    /\ Len(chain) \in 1 .. MaxHeight

(* "This reserves these outputs until the transaction is confirmed or       *)
(* cancelled": while a confirmed transaction of the wallet is neither mined *)
(* nor cancelled, none of its inputs is offered to another transaction.     *)
ReservedUntilDone ==
    \A t \in TxIds : txs[t].state \in {"pending", "released"} =>
        \A o \in txs[t].ins : rows[o].status # "Unspent"

(* No two transactions the wallet still stands by spend the same output.    *)
NoSelfDoubleSpend ==
    \A t, u \in TxIds : t # u /\ Live(t) /\ Live(u) => txs[t].ins \cap txs[u].ins = {}

Validated == undisturbed /\ task.pc = "idle"

(* After a validation nothing interfered with, every row agrees with the    *)
(* chain on where its output was created and where it was spent.            *)
ValidationAgrees ==
    Validated => \A o \in DOMAIN rows :
        /\ rows[o].mined = MinedIn(chain, o)
        /\ rows[o].deleted = SpentIn(chain, o)
        /\ rows[o].status \in SpentStatus <=> SpentIn(chain, o) # NoBlock

(* After such a validation no unspent output of the wallet is missing from  *)
(* its balance, but for one that was cancelled and is not yet due for       *)
(* another look.                                                            *)
BalanceAgrees ==
    Validated => \A o \in DOMAIN rows \ WithStatus(rows, "CancelledInbound") :
        MinedIn(chain, o) # NoBlock /\ SpentIn(chain, o) = NoBlock =>
            o \in AvailableBalance(rows) \cup PendingIncomingBalance(rows) \cup PendingOutgoingBalance(rows)

(* "The amount of the available balance that is current time-locked".       *)
TimeLockedWithinAvailable == TimeLockedBalance(rows, Tip(chain)) \subseteq AvailableBalance(rows)

(* Short term encumberances "will be cleared on startup of the service".    *)
ShortTermClearedOnStartup ==
    [][restarts' # restarts => \A o \in DOMAIN rows' : rows'[o].status \notin ShortTerm]_vars

=============================================================================
