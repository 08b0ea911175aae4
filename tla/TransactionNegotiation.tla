----------------------- MODULE TransactionNegotiation -----------------------
(***************************************************************************)
(* The interactive negotiation of one transaction between a sender's and a *)
(* receiver's wallet.  Each wallet runs a transaction service (one event   *)
(* loop that handles messages, user requests and ended protocols one after *)
(* the other) and any number of protocol tasks (TransactionSendProtocol,    *)
(* TransactionReceiveProtocol) that run beside it and share its database    *)
(* and its output manager.  Messages travel directly or by store and        *)
(* forward; both may duplicate and reorder them, a direct one may be lost.  *)
(*                                                                         *)
(* A task reaches its service through two maps of channels keyed by the     *)
(* transaction id, always written together: here attached, the protocol     *)
(* whose channels the map holds, or Nobody.                                 *)
(***************************************************************************)
EXTENDS Naturals, TransactionTables

CONSTANTS
    SendTasks,        \* send protocols the sender may run at once: a bound
    ReceiveTasks,     \* receive protocols the receiver may run at once: a bound
    Routes,           \* transaction_routing_mechanism: subset of {"direct", "saf"}
    Cancellers,       \* wallets whose user may cancel
    Expiring,         \* wallets whose cancellation timeout may pass
    MaxCrashes,       \* wallet crashes in a behaviour
    MaxOutputs,       \* outputs a receiver may create for the transaction
    Nobody

RoutesAssumption == Routes # {} /\ Routes \subseteq {"direct", "saf"}
NobodyAssumption == Nobody \notin SendTasks \cup ReceiveTasks
BoundsAssumption == MaxCrashes \in Nat /\ MaxOutputs \in Nat

Wallets == {"sender", "receiver"}

Tasks(w) == IF w = "sender" THEN SendTasks ELSE ReceiveTasks

VARIABLES
    db,         \* db[w]: w's transaction tables
    funds,      \* the sender's inputs, as its output manager sees them
    output,     \* the receiver's output: [status, count]
    task,       \* task[w][p]: what protocol task p of wallet w does next
    inbox,      \* inbox[w]: tasks with a reply / finalized transaction waiting
    signal,     \* signal[w]: tasks with a cancellation signal waiting
    attached,   \* attached[w]
    service,    \* service[w]: "idle" or the rest of the handler it is in
    booting,    \* wallets that start up and have not restarted their protocols
    expired,    \* wallets whose timeout for the transaction has passed
    net,        \* messages in transit
    crashes

vars == <<db, funds, output, task, inbox, signal, attached, service, booting, expired, net, crashes>>

\* What the protocols and the service of a wallet do not share with the other one.
omsVars == <<funds, output>>
envVars == <<booting, expired, crashes>>

Message == [kind : {"sender", "reply", "finalized", "cancelled"}, via : {"direct", "saf"}]

SendSteps == {"prepare", "send", "confirm", "store_pending", "store_queued", "count", "load",
              "wait", "complete", "finalize", "expire", "release"}
ReceiveSteps == {"accept", "recipient", "insert", "reply", "count", "load", "wait", "complete",
                 "expire", "release"}
\* An ended task waits for its service to take its result: Ok, Ok(Queued) or Err.
Ended == {"ok", "queued", "err"}

TypeOK ==
    /\ db \in [Wallets -> Db]
    /\ funds \in {"free", "short", "encumbered", "released"}
    /\ output \in [status : {"none", "expected", "cancelled"}, count : 0..MaxOutputs]
    /\ DOMAIN task = Wallets
    /\ task["sender"] \in [SendTasks -> {"none"} \cup SendSteps \cup Ended]
    /\ task["receiver"] \in [ReceiveTasks -> {"none"} \cup ReceiveSteps \cup Ended]
    /\ inbox \in [Wallets -> SUBSET (SendTasks \cup ReceiveTasks)]
    /\ signal \in [Wallets -> SUBSET (SendTasks \cup ReceiveTasks)]
    /\ attached \in [Wallets -> SendTasks \cup ReceiveTasks \cup {Nobody}]
    /\ service \in [Wallets -> {"idle", "release", "signal", "reinstate"}]
    /\ booting \subseteq Wallets
    /\ expired \subseteq Wallets
    /\ net \subseteq Message
    /\ crashes \in 0..MaxCrashes

Init ==
    /\ db = [w \in Wallets |-> EmptyDb]
    /\ funds = "free"
    /\ output = [status |-> "none", count |-> 0]
    /\ task = [w \in Wallets |-> [p \in Tasks(w) |-> "none"]]
    /\ inbox = [w \in Wallets |-> {}]
    /\ signal = [w \in Wallets |-> {}]
    /\ attached = [w \in Wallets |-> Nobody]
    /\ service = [w \in Wallets |-> "idle"]
    /\ booting = {}
    /\ expired = {}
    /\ net = {}
    /\ crashes = 0

-----------------------------------------------------------------------------
(***************************************************************************)
(* Sending, and the steps of tasks.                                        *)
(***************************************************************************)
\* base: the messages in transit before.  A send succeeds when one of the routes
\* takes the message; one reported as failed may still arrive later.
Copies(kind, via) == {[kind |-> kind, via |-> r] : r \in via}

Transmit(base, kind, ok) ==
    \E via \in SUBSET Routes :
        /\ ok => via # {}
        /\ net' = base \cup Copies(kind, via)

\* send_transaction_cancelled_message: the direct copy.  The store-and-forward
\* copy is labelled SenderPartialTransaction; a receiver decodes it as a sender
\* message without content and refuses it, so it is not a message here.
CancelledRoutes == {"direct"}

NotifyCancelled(base) == net' = base \cup Copies("cancelled", CancelledRoutes)

At(w, p, step) == task[w][p] = step

Goto(w, p, step) == task' = [task EXCEPT ![w][p] = step]

Running(w, p) == task[w][p] \notin {"none"} \cup Ended

\* A new task, entered in the maps; first is what its channel holds already.
Spawn(w, step, first) ==
    \E p \in Tasks(w) :
        /\ At(w, p, "none")
        /\ Goto(w, p, step)
        /\ inbox' = [inbox EXCEPT ![w] = IF first THEN @ \cup {p} ELSE @ \ {p}]
        /\ signal' = [signal EXCEPT ![w] = @ \ {p}]
        /\ attached' = [attached EXCEPT ![w] = p]

\* What a step of a task that only works on the database leaves alone.
channelVars == <<inbox, signal, attached>>

-----------------------------------------------------------------------------
(***************************************************************************)
(* TransactionSendProtocol.                                                *)
(***************************************************************************)
\* prepare_transaction: the output manager encumbers the inputs or refuses.
PrepareTransaction(p) ==
    /\ At("sender", p, "prepare")
    /\ \/ funds' = "short" /\ Goto("sender", p, "send")
       \/ funds' = funds /\ Goto("sender", p, "err")
    /\ UNCHANGED <<db, output, channelVars, service, envVars, net>>

\* initial_send_transaction, up to the answer of the outbound message service.
InitialSend(p) ==
    /\ At("sender", p, "send")
    /\ \E ok \in BOOLEAN :
        /\ Transmit(net, "sender", ok)
        /\ Goto("sender", p, IF ok THEN "confirm" ELSE "store_queued")
    /\ UNCHANGED <<db, omsVars, channelVars, service, envVars>>

\* Mutant: the encumbrance is never confirmed.
ConfirmNothing(p) ==
    /\ At("sender", p, "confirm")
    /\ Goto("sender", p, "store_pending")
    /\ UNCHANGED <<db, omsVars, channelVars, service, envVars, net>>

\* confirm_pending_transaction changes short-term encumbered outputs only, and
\* finds no fault in there being none.
ConfirmPending(p) ==
    /\ At("sender", p, "confirm")
    /\ funds' = IF funds = "short" THEN "encumbered" ELSE funds
    /\ Goto("sender", p, "store_pending")
    /\ UNCHANGED <<db, output, channelVars, service, envVars, net>>

\* The row is stored unless it exists.  A cancelled row is not found by
\* transaction_exists, and makes the insertion fail.
StoreOutbound(p) ==
    /\ task["sender"][p] \in {"store_pending", "store_queued"}
    /\ LET after == IF At("sender", p, "store_pending") THEN "count" ELSE "queued" IN
       \/ /\ TransactionExists(db["sender"])
          /\ db' = db /\ Goto("sender", p, after)
       \/ /\ ~ TransactionExists(db["sender"]) /\ CanAddOutbound(db["sender"])
          /\ db' = [db EXCEPT !["sender"] = AddOutbound(@)] /\ Goto("sender", p, after)
       \/ /\ ~ TransactionExists(db["sender"]) /\ ~ CanAddOutbound(db["sender"])
          /\ db' = db /\ Goto("sender", p, "err")
    /\ UNCHANGED <<omsVars, channelVars, service, envVars, net>>

\* increment_send_count by a task: an error ends the task.
CountSend(w, p) ==
    /\ At(w, p, "count")
    /\ IF CanIncrementSendCount(db[w])
       THEN db' = [db EXCEPT ![w] = IncrementSendCount(@)] /\ Goto(w, p, "load")
       ELSE db' = db /\ Goto(w, p, "err")
    /\ UNCHANGED <<omsVars, channelVars, service, envVars, net>>

\* wait_for_reply, up to the select loop.  The resend that may be due on entry
\* is the first ResendTransaction.
LoadOutbound(p) ==
    /\ At("sender", p, "load")
    /\ IF db["sender"].outbound # "live" THEN Goto("sender", p, "err")
       ELSE "sender" \notin expired /\ Goto("sender", p, "wait")
    /\ UNCHANGED <<db, omsVars, channelVars, service, envVars, net>>

ResendTransaction(p) ==
    /\ At("sender", p, "wait")
    /\ \E ok \in BOOLEAN :
        /\ Transmit(net, "sender", ok)
        /\ db' = IF ok THEN [db EXCEPT !["sender"] = IncrementSendCount(@)] ELSE db
    /\ UNCHANGED <<omsVars, task, channelVars, service, envVars>>

TakeReply(p) ==
    /\ At("sender", p, "wait") /\ p \in inbox["sender"]
    /\ inbox' = [inbox EXCEPT !["sender"] = @ \ {p}]
    /\ Goto("sender", p, "complete")
    /\ UNCHANGED <<db, omsVars, signal, attached, service, envVars, net>>

\* The cancellation branch of the select loop.
CancelSend(p) ==
    /\ At("sender", p, "wait") /\ p \in signal["sender"]
    /\ NotifyCancelled(net)
    /\ db' = [db EXCEPT !["sender"] = IncrementSendCount(@)]
    /\ Goto("sender", p, "err")
    /\ UNCHANGED <<omsVars, channelVars, service, envVars>>

\* timeout_transaction, on entry or from the select loop: the message first, then
\* the database, then the output manager.
TimeoutSend(p) ==
    /\ "sender" \in expired
    /\ \/ At("sender", p, "load") /\ db["sender"].outbound = "live"
       \/ At("sender", p, "wait")
    /\ NotifyCancelled(net)
    /\ db' = [db EXCEPT !["sender"] = IncrementSendCount(@)]
    /\ Goto("sender", p, "expire")
    /\ UNCHANGED <<omsVars, channelVars, service, envVars>>

\* Mutant: the error of complete_outbound_transaction is ignored.
CompleteSendAnyway(p) ==
    /\ At("sender", p, "complete")
    /\ db' = IF CanCompleteOutbound(db["sender"])
             THEN [db EXCEPT !["sender"] = CompleteOutbound(@)] ELSE db
    /\ Goto("sender", p, "finalize")
    /\ UNCHANGED <<omsVars, channelVars, service, envVars, net>>

\* The reply completes the transaction: the database decides whether it was
\* cancelled in the meantime.
CompleteSend(p) ==
    /\ At("sender", p, "complete")
    /\ IF CanCompleteOutbound(db["sender"])
       THEN db' = [db EXCEPT !["sender"] = CompleteOutbound(@)] /\ Goto("sender", p, "finalize")
       ELSE db' = db /\ Goto("sender", p, "err")
    /\ UNCHANGED <<omsVars, channelVars, service, envVars, net>>

SendFinalized(p) ==
    /\ At("sender", p, "finalize")
    /\ \E ok \in BOOLEAN :
        /\ Transmit(net, "finalized", ok)
        /\ Goto("sender", p, IF ok THEN "ok" ELSE "err")
    /\ UNCHANGED <<db, omsVars, channelVars, service, envVars>>

-----------------------------------------------------------------------------
(***************************************************************************)
(* The cancellation that a timeout makes, in both protocols.               *)
(***************************************************************************)
\* cancel_transaction of the output manager: an error when it has no encumbered
\* output of the transaction.
CanRelease(w) ==
    IF w = "sender" THEN funds \in {"short", "encumbered"} ELSE output.status = "expected"

Release(w) ==
    IF w = "sender" THEN funds' = "released" /\ output' = output
    ELSE output' = [output EXCEPT !.status = "cancelled"] /\ funds' = funds

ExpireRow(w, p) ==
    /\ At(w, p, "expire")
    /\ IF CanSetCancelled(db[w])
       THEN db' = [db EXCEPT ![w] = SetCancelled(@, TRUE)] /\ Goto(w, p, "release")
       ELSE db' = db /\ Goto(w, p, "err")
    /\ UNCHANGED <<omsVars, channelVars, service, envVars, net>>

\* Mutant: the output manager is not told of the timeout.
ExpireRowOnly(w, p) ==
    /\ At(w, p, "release")
    /\ Goto(w, p, "err")
    /\ UNCHANGED <<db, omsVars, channelVars, service, envVars, net>>

ExpireOutputs(w, p) ==
    /\ At(w, p, "release")
    /\ IF CanRelease(w) THEN Release(w) ELSE UNCHANGED omsVars
    /\ Goto(w, p, "err")
    /\ UNCHANGED <<db, channelVars, service, envVars, net>>

-----------------------------------------------------------------------------
(***************************************************************************)
(* TransactionReceiveProtocol.                                             *)
(***************************************************************************)
\* accept_transaction: the check that the message is no repetition ...
CheckRepeated(p) ==
    /\ At("receiver", p, "accept")
    /\ Goto("receiver", p, IF TransactionExists(db["receiver"]) THEN "err" ELSE "recipient")
    /\ UNCHANGED <<db, omsVars, channelVars, service, envVars, net>>

\* ... get_recipient_transaction, which stores an output to be received ...
GetRecipientTransaction(p) ==
    /\ At("receiver", p, "recipient")
    /\ output.count < MaxOutputs
    /\ output' = [status |-> "expected", count |-> output.count + 1]
    /\ Goto("receiver", p, "insert")
    /\ UNCHANGED <<db, funds, channelVars, service, envVars, net>>

\* ... the row ...
StoreInbound(p) ==
    /\ At("receiver", p, "insert")
    /\ IF CanAddInbound(db["receiver"])
       THEN db' = [db EXCEPT !["receiver"] = AddInbound(@)] /\ Goto("receiver", p, "reply")
       ELSE db' = db /\ Goto("receiver", p, "err")
    /\ UNCHANGED <<omsVars, channelVars, service, envVars, net>>

\* ... and the reply, whose failure is only logged.
SendReply(p) ==
    /\ At("receiver", p, "reply")
    /\ Transmit(net, "reply", FALSE)
    /\ Goto("receiver", p, "count")
    /\ UNCHANGED <<db, omsVars, channelVars, service, envVars>>

\* wait_for_finalization, up to the select loop.
LoadInbound(p) ==
    /\ At("receiver", p, "load")
    /\ IF db["receiver"].inbound # "live" THEN Goto("receiver", p, "ok")
       ELSE "receiver" \notin expired /\ Goto("receiver", p, "wait")
    /\ UNCHANGED <<db, omsVars, channelVars, service, envVars, net>>

\* A reply that cannot be counted, its row being cancelled or completed, ends
\* the task.
ResendReply(p) ==
    /\ At("receiver", p, "wait")
    /\ Transmit(net, "reply", FALSE)
    /\ IF CanIncrementSendCount(db["receiver"]) THEN task' = task ELSE Goto("receiver", p, "err")
    /\ UNCHANGED <<db, omsVars, channelVars, service, envVars>>

TakeFinalized(p) ==
    /\ At("receiver", p, "wait") /\ p \in inbox["receiver"]
    /\ inbox' = [inbox EXCEPT !["receiver"] = @ \ {p}]
    /\ Goto("receiver", p, "complete")
    /\ UNCHANGED <<db, omsVars, signal, attached, service, envVars, net>>

CancelReceive(p) ==
    /\ At("receiver", p, "wait") /\ p \in signal["receiver"]
    /\ Goto("receiver", p, "err")
    /\ UNCHANGED <<db, omsVars, channelVars, service, envVars, net>>

\* timeout_transaction, which tells the sender nothing.
TimeoutReceive(p) ==
    /\ "receiver" \in expired
    /\ \/ At("receiver", p, "load") /\ db["receiver"].inbound = "live"
       \/ At("receiver", p, "wait")
    /\ Goto("receiver", p, "expire")
    /\ UNCHANGED <<db, omsVars, channelVars, service, envVars, net>>

CompleteReceive(p) ==
    /\ At("receiver", p, "complete")
    /\ IF CanCompleteInbound(db["receiver"])
       THEN db' = [db EXCEPT !["receiver"] = CompleteInbound(@)] /\ Goto("receiver", p, "ok")
       ELSE db' = db /\ Goto("receiver", p, "err")
    /\ UNCHANGED <<omsVars, channelVars, service, envVars, net>>

-----------------------------------------------------------------------------
(***************************************************************************)
(* The services.  A handler that awaits its output manager goes on in a     *)
(* later step; until then the service takes nothing else.                   *)
(***************************************************************************)
Idle(w) == service[w] = "idle"

\* send_transaction: this transaction is asked for once.
SendTransaction ==
    /\ Idle("sender") /\ funds = "free" /\ attached["sender"] = Nobody
    /\ \A p \in SendTasks : At("sender", p, "none")
    /\ Spawn("sender", "prepare", FALSE)
    /\ UNCHANGED <<db, omsVars, service, envVars, net>>

\* A message put into the channel of the attached task; the channel of a task
\* that has ended refuses it, and nobody sends it again.
Forward(w) ==
    inbox' = [inbox EXCEPT ![w] = @ \cup {p \in Tasks(w) : p = attached[w] /\ Running(w, p)}]

\* The messages left when m is received: m may arrive again.
Rest(m) == {net, net \ {m}}

\* accept_recipient_reply, of a completed, a cancelled and another transaction.
\* A reply within the cooldown is as good as lost.
ResendFinalized(m, ok) ==
    /\ m \in net /\ m.kind = "reply" /\ Idle("sender")
    /\ db["sender"].completed = "live"
    /\ \E rest \in Rest(m) : Transmit(rest, "finalized", ok)
    /\ UNCHANGED <<db, omsVars, task, channelVars, service, envVars>>

AnswerCancelled(m) ==
    /\ m \in net /\ m.kind = "reply" /\ Idle("sender")
    /\ db["sender"].completed = "absent" /\ db["sender"].outbound = "cancelled"
    /\ \E rest \in Rest(m) : NotifyCancelled(rest)
    /\ db' = [db EXCEPT !["sender"] = IncrementSendCount(@)]
    /\ UNCHANGED <<omsVars, task, channelVars, service, envVars>>

ForwardReply(m) ==
    /\ m \in net /\ m.kind = "reply" /\ Idle("sender")
    /\ db["sender"].completed = "absent" /\ db["sender"].outbound # "cancelled"
    /\ Forward("sender")
    /\ net' \in Rest(m)
    /\ UNCHANGED <<db, omsVars, task, signal, attached, service, envVars>>

AcceptReply(m) == ResendFinalized(m, FALSE) \/ AnswerCancelled(m) \/ ForwardReply(m)

\* Mutant: the maps are not looked at before a new protocol starts.
AcceptUnattached(m) ==
    /\ m \in net /\ m.kind = "sender" /\ Idle("receiver")
    /\ db["receiver"].inbound = "absent"
    /\ net' \in Rest(m)
    /\ Spawn("receiver", "accept", FALSE)
    /\ UNCHANGED <<db, omsVars, service, envVars>>

\* accept_transaction.  The answer to a message of a cancelled transaction goes
\* to a sender that has no inbound row to cancel: no message here.
AcceptTransaction(m) ==
    /\ m \in net /\ m.kind = "sender" /\ Idle("receiver")
    /\ \E rest \in Rest(m) :
        \/ /\ db["receiver"].inbound = "cancelled"
           /\ net' = rest
           /\ UNCHANGED <<task, channelVars>>
        \/ /\ db["receiver"].inbound = "live"
           /\ Transmit(rest, "reply", FALSE)
           /\ UNCHANGED <<task, channelVars>>
        \/ /\ db["receiver"].inbound = "absent" /\ attached["receiver"] # Nobody
           /\ net' = rest
           /\ UNCHANGED <<task, channelVars>>
        \/ /\ db["receiver"].inbound = "absent" /\ attached["receiver"] = Nobody
           /\ net' = rest
           /\ Spawn("receiver", "accept", FALSE)
    /\ UNCHANGED <<db, omsVars, service, envVars>>

\* accept_finalized_transaction: a transaction that was cancelled here is
\* reinstated, since its sender went on with it.
AcceptFinalized(m) ==
    /\ m \in net /\ m.kind = "finalized" /\ Idle("receiver")
    /\ net' \in Rest(m)
    /\ \/ /\ attached["receiver"] = Nobody /\ db["receiver"].inbound = "cancelled"
          /\ \E p \in ReceiveTasks : At("receiver", p, "none")
          /\ db' = [db EXCEPT !["receiver"] = SetCancelled(@, FALSE)]
          /\ service' = [service EXCEPT !["receiver"] = "reinstate"]
          /\ UNCHANGED inbox
       \/ /\ ~ (attached["receiver"] = Nobody /\ db["receiver"].inbound = "cancelled")
          /\ Forward("receiver")
          /\ UNCHANGED <<db, service>>
    /\ UNCHANGED <<omsVars, task, signal, attached, envVars>>

ServiceReinstate ==
    /\ service["receiver"] = "reinstate"
    /\ output' = IF output.status = "cancelled" THEN [output EXCEPT !.status = "expected"] ELSE output
    /\ Spawn("receiver", "load", TRUE)
    /\ service' = [service EXCEPT !["receiver"] = "idle"]
    /\ UNCHANGED <<db, funds, envVars, net>>

\* cancel_pending_transaction: the database, then the output manager, whose
\* error ends the handler, then the signal to the task.
StartCancel(w) ==
    /\ CanSetCancelled(db[w])
    /\ db' = [db EXCEPT ![w] = SetCancelled(@, TRUE)]
    /\ service' = [service EXCEPT ![w] = "release"]

CancelByUser(w) ==
    /\ w \in Cancellers /\ Idle(w)
    /\ StartCancel(w)
    /\ UNCHANGED <<omsVars, task, channelVars, envVars, net>>

\* handle_transaction_cancelled_message.
AcceptCancelled(m) ==
    /\ m \in net /\ m.kind = "cancelled" /\ Idle("receiver")
    /\ net' \in Rest(m)
    /\ IF db["receiver"].inbound = "live" THEN StartCancel("receiver") ELSE UNCHANGED <<db, service>>
    /\ UNCHANGED <<omsVars, task, channelVars, envVars>>

ServiceRelease(w) ==
    /\ service[w] = "release"
    /\ IF CanRelease(w)
       THEN Release(w) /\ service' = [service EXCEPT ![w] = "signal"]
       ELSE UNCHANGED omsVars /\ service' = [service EXCEPT ![w] = "idle"]
    /\ UNCHANGED <<db, task, channelVars, envVars, net>>

ServiceSignal(w) ==
    /\ service[w] = "signal"
    /\ signal' = [signal EXCEPT ![w] = @ \cup {p \in Tasks(w) : p = attached[w] /\ Running(w, p)}]
    /\ attached' = [attached EXCEPT ![w] = Nobody]
    /\ service' = [service EXCEPT ![w] = "idle"]
    /\ UNCHANGED <<db, omsVars, task, inbox, envVars, net>>

\* complete_send_transaction_protocol, complete_receive_transaction_protocol:
\* whatever task ended, the entries of the transaction leave the maps, unless it
\* ended queued.
TakeResult(w, p) ==
    /\ task[w][p] \in Ended /\ Idle(w)
    /\ Goto(w, p, "none")
    /\ attached' = IF At(w, p, "queued") THEN attached ELSE [attached EXCEPT ![w] = Nobody]
    /\ inbox' = [inbox EXCEPT ![w] = @ \ {p}]
    /\ signal' = [signal EXCEPT ![w] = @ \ {p}]
    /\ UNCHANGED <<db, omsVars, service, envVars, net>>

\* Mutant: only queued transactions are restarted.
RestartQueuedOnly ==
    /\ Idle("sender") /\ db["sender"].outbound = "live" /\ ~ db["sender"].sent
    /\ Spawn("sender", "send", FALSE)
    /\ booting' = booting \ {"sender"}
    /\ UNCHANGED <<db, omsVars, service, expired, crashes, net>>

\* restart_all_send_transaction_protocols: a transaction that was sent is waited
\* for unless a task is attached; one that was not is sent again in any case.
RestartSend ==
    /\ Idle("sender") /\ db["sender"].outbound = "live"
    /\ attached["sender"] = Nobody \/ ~ db["sender"].sent
    /\ Spawn("sender", IF db["sender"].sent THEN "load" ELSE "send", FALSE)
    /\ booting' = booting \ {"sender"}
    /\ UNCHANGED <<db, omsVars, service, expired, crashes, net>>

\* restart_receive_transaction_protocol looks the transaction up in the map of
\* the send protocols, where an inbound one never is: always a new task.
RestartReceive ==
    /\ Idle("receiver") /\ db["receiver"].inbound = "live"
    /\ Spawn("receiver", "load", FALSE)
    /\ booting' = booting \ {"receiver"}
    /\ UNCHANGED <<db, omsVars, service, expired, crashes, net>>

-----------------------------------------------------------------------------
(***************************************************************************)
(* Time, the network, crashes.                                             *)
(***************************************************************************)
\* pending_transaction_cancellation_timeout passes for a row.
Expire(w) ==
    /\ w \in Expiring \ expired /\ CanSetCancelled(db[w])
    /\ expired' = expired \cup {w}
    /\ UNCHANGED <<db, omsVars, task, channelVars, service, booting, crashes, net>>

Lose(m) ==
    /\ m \in net /\ m.via = "direct"
    /\ net' = net \ {m}
    /\ UNCHANGED <<db, omsVars, task, channelVars, service, envVars>>

\* Tasks, channels and the service are gone; the databases stay.  The wallet
\* restarts its protocols when it is up again.
Crash(w) ==
    /\ crashes < MaxCrashes
    /\ crashes' = crashes + 1
    /\ task' = [task EXCEPT ![w] = [p \in Tasks(w) |-> "none"]]
    /\ inbox' = [inbox EXCEPT ![w] = {}]
    /\ signal' = [signal EXCEPT ![w] = {}]
    /\ attached' = [attached EXCEPT ![w] = Nobody]
    /\ service' = [service EXCEPT ![w] = "idle"]
    /\ booting' = booting \cup {w}
    /\ UNCHANGED <<db, omsVars, expired, net>>

SendStep(p) ==
    \/ PrepareTransaction(p) \/ InitialSend(p) \/ ConfirmPending(p) \/ StoreOutbound(p)
    \/ CountSend("sender", p) \/ LoadOutbound(p) \/ TakeReply(p) \/ CancelSend(p) \/ TimeoutSend(p)
    \/ CompleteSend(p) \/ SendFinalized(p) \/ ExpireRow("sender", p) \/ ExpireOutputs("sender", p)

ReceiveStep(p) ==
    \/ CheckRepeated(p) \/ GetRecipientTransaction(p) \/ StoreInbound(p) \/ SendReply(p)
    \/ CountSend("receiver", p) \/ LoadInbound(p) \/ TakeFinalized(p) \/ CancelReceive(p)
    \/ TimeoutReceive(p) \/ CompleteReceive(p) \/ ExpireRow("receiver", p)
    \/ ExpireOutputs("receiver", p)

ServiceStep(w) ==
    \/ ServiceRelease(w) \/ ServiceSignal(w) \/ (\E p \in Tasks(w) : TakeResult(w, p))
    \/ (w = "receiver" /\ ServiceReinstate)

Deliver(m) == AcceptReply(m) \/ AcceptTransaction(m) \/ AcceptFinalized(m) \/ AcceptCancelled(m)

Next ==
    \/ \E p \in SendTasks : SendStep(p) \/ ResendTransaction(p)
    \/ \E p \in ReceiveTasks : ReceiveStep(p) \/ ResendReply(p)
    \/ \E w \in Wallets : ServiceStep(w) \/ CancelByUser(w) \/ Expire(w) \/ Crash(w)
    \/ SendTransaction \/ RestartSend \/ RestartReceive
    \/ \E m \in Message : Deliver(m) \/ Lose(m)

Spec == Init /\ [][Next]_vars

\* Tasks and services go on, their timers fire, and a wallet that starts up
\* restarts its protocols.
LocalFairness ==
    /\ \A p \in SendTasks : WF_vars(SendStep(p))
    /\ \A p \in ReceiveTasks : WF_vars(ReceiveStep(p))
    /\ \A w \in Wallets : WF_vars(ServiceStep(w))
    /\ WF_vars("sender" \in booting /\ RestartSend)
    /\ WF_vars("receiver" \in booting /\ RestartReceive)

\* Resend timers fire, a message that is sent again and again over some routes
\* arrives, and the sender does not fail for ever to send its answer.
NetworkFairness(via) ==
    /\ \A p \in SendTasks : WF_vars(ResendTransaction(p))
    /\ \A p \in ReceiveTasks : WF_vars(ResendReply(p))
    /\ \A r \in via : \A kind \in {"sender", "reply", "finalized", "cancelled"} :
        SF_vars(Deliver([kind |-> kind, via |-> r]))
    /\ \A r \in via : SF_vars(ResendFinalized([kind |-> "reply", via |-> r], TRUE))

FairSpec == Spec /\ LocalFairness /\ NetworkFairness(Routes)

-----------------------------------------------------------------------------
(***************************************************************************)
(* Properties.                                                             *)
(***************************************************************************)
\* The sender never completes a transaction (and so never sends a finalized one
\* or broadcasts it) whose inputs its output manager has given back: of a reply,
\* a user's cancellation and a timeout only one wins, in any interleaving of the
\* select loop of wait_for_reply, the service and other tasks of the transaction.
CompletedFundsKept == db["sender"].completed = "live" => funds = "encumbered"

\* The receiver completes only what the sender completed: a negotiation the
\* sender cancelled or gave up never becomes a completed inbound transaction.
ReceiverFollowsSender == db["receiver"].completed = "live" => db["sender"].completed = "live"

\* No task and no handler of w is between its two databases.
Settled(w) == Idle(w) /\ \A p \in Tasks(w) : ~ At(w, p, "release")

\* As long as no wallet has crashed the two databases of a wallet agree whenever
\* nothing is under way: the outputs of a cancelled negotiation are released,
\* those of a live or completed one are not.
SenderDatabasesAgree ==
    crashes = 0 /\ Settled("sender") =>
        /\ db["sender"].outbound = "cancelled" => funds = "released"
        /\ db["sender"].outbound = "live" => funds \in {"short", "encumbered"}

\* The receiver's agree too, unless its timeout has passed as well: a finalized
\* transaction may then be stored while the expired one is being released.
ReceiverDatabasesAgree ==
    crashes = 0 /\ "receiver" \notin expired /\ Settled("receiver") =>
        /\ db["receiver"].inbound = "cancelled" => output.status = "cancelled"
        /\ "live" \in {db["receiver"].inbound, db["receiver"].completed} => output.status = "expected"

\* As long as no wallet has crashed, a repeated sender message never makes the
\* receiver's output manager expect a second output for the transaction.
OneOutputExpected == crashes = 0 => output.count <= 1

\* A completed inbound transaction whose output was reinstated keeps it: the
\* output manager expects the output.
ReinstatedOutputKept == db["receiver"].completed = "live" => output.status = "expected"

Pending(w) == "live" \in {db[w].outbound, db[w].inbound}

\* "This is the timeout period that will be used to expire pending transactions"
\* (config.rs), with no exception for those that wait in the queue.
PendingExpires == \A w \in Wallets : (Pending(w) /\ w \in expired) ~> ~ Pending(w)

\* A receiver whose negotiation was reinstated because the finalized transaction
\* arrived completes it.
ReinstatedCompletes ==
    (service["receiver"] = "reinstate") ~> (db["receiver"].completed = "live")

\* A receiver that misses the direct copy of the cancellation hears of it by
\* store and forward: "Send both direct and SAF" (send_transaction_cancelled.rs).
CancellationReachesReceiver ==
    (db["sender"].outbound = "cancelled" /\ Pending("receiver")) ~> ~ Pending("receiver")
=============================================================================
