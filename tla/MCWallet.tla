------------------------------ MODULE MCWallet ------------------------------
(***************************************************************************)
(* The wallet for TLC: the output manager, the scanner of the chain, the     *)
(* negotiation of a transaction and the monitoring of completed ones.  A     *)
(* behaviour runs one component in one scenario, and the others stay in      *)
(* their initial state, so that the state graph is the union of the          *)
(* scenarios' graphs.  Scenarios names the ones a model checks.              *)
(***************************************************************************)
EXTENDS TransactionNegotiation, TLC

CONSTANTS
    Scenarios,
    a, c, p, htlc, t, u, NoTx,   \* outputs and transactions
    n1, n2, o1, o2, o3,          \* base nodes, outputs found by scanning
    s1, r1, r2,                  \* tasks
    t1, f1, c1, c2               \* completed transactions

VARIABLES scenario

VARIABLES rows, txs, encumbering, outputTask, outputChain, outputReorgs, restarts, undisturbed
VARIABLES nodeChain, height, nodeReorgs, scanned, outputs, recorded, key, round, scanner, faults, scannerCrashes,
          changes, shutdowns
VARIABLES row, held, cast, val, chain, mempool, relayed, reorgs, revalidations, monitorCrashes

outputVars == <<rows, txs, encumbering, outputTask, outputChain, outputReorgs, restarts, undisturbed>>
scannerVars ==
    <<nodeChain, height, nodeReorgs, scanned, outputs, recorded, key, round, scanner, faults, scannerCrashes,
      changes, shutdowns>>
monitoringVars == <<row, held, cast, val, chain, mempool, relayed, reorgs, revalidations, monitorCrashes>>
walletVars == <<scenario, outputVars, scannerVars, vars, monitoringVars>>

-----------------------------------------------------------------------------
(* The output manager.  a is the wallet's own, htlc is locked until height 2, *)
(* c is change, p is paid by others.  Reserved: two transactions of the       *)
(* wallet and a restart.  Reorgs: one that is sent and one that is received,  *)
(* and a reorganisation.  Htlc: imports, refunds of htlc, a validation that   *)
(* starts over, and a reorganisation.                                         *)
OneChange == t :> {c} @@ u :> {}
NoChange == t :> {} @@ u :> {}
Locks == a :> 0 @@ c :> 0 @@ p :> 0 @@ htlc :> 2

Reserved == INSTANCE OutputManager WITH
    Outputs <- {a, htlc, c}, TxIds <- {t, u}, Funded <- {a, htlc}, Paid <- {}, Change <- OneChange,
    NumConfirmations <- 1, Requests <- {"prepare", "self", "join", "claim"}, ReorgWhileValidating <- FALSE,
    MaxHeight <- 3, MaxReorgs <- 0, MaxRestarts <- 1,
    task <- outputTask, chain <- outputChain, reorgs <- outputReorgs
Reorgs == INSTANCE OutputManager WITH
    Outputs <- {a, p}, TxIds <- {t, u}, Funded <- {a}, Paid <- {p}, Change <- NoChange,
    NumConfirmations <- 1, Requests <- {"prepare", "cancel", "receive", "coinbase"}, ReorgWhileValidating <- FALSE,
    MaxHeight <- 2, MaxReorgs <- 1, MaxRestarts <- 0,
    task <- outputTask, chain <- outputChain, reorgs <- outputReorgs
Htlc == INSTANCE OutputManager WITH
    Outputs <- {htlc, p}, TxIds <- {t, u}, Funded <- {}, Paid <- {htlc, p}, Change <- NoChange,
    NumConfirmations <- 1, Requests <- {"import", "refund", "revalidate"},
    ReorgWhileValidating <- FALSE, MaxHeight <- 3, MaxReorgs <- 1, MaxRestarts <- 0,
    task <- outputTask, chain <- outputChain, reorgs <- outputReorgs
-----------------------------------------------------------------------------
(* The scanner.  o1 is mined on both chains at different heights, o2 comes in *)
(* the second message of its block, o3 only on chain b.  Overlap: rounds on   *)
(* two base nodes overlap.  Recovery: one base node, faults and a crash.      *)
Mine ==
    {[block |-> <<"a", 2>>, chunk |-> 1, output |-> o1], [block |-> <<"a", 2>>, chunk |-> 2, output |-> o2],
     [block |-> <<"b", 3>>, chunk |-> 1, output |-> o1], [block |-> <<"b", 2>>, chunk |-> 1, output |-> o3]}
Blank == {<<"a", 3>>}

Overlap == INSTANCE UtxoScanner WITH
    Nodes <- {n1, n2}, First <- n1, Second <- n2, Fork <- 1, MaxHeight <- 3, StartHeight <- 2, Spends <- {},
    CacheSize <- 1, RetryLimit <- 2, Rounds <- {1, 2}, Recovers <- FALSE, ReorgsInStream <- FALSE,
    CutsInBlock <- FALSE, Unreliable <- {}, MaxReorgs <- 0, MaxFaults <- 0, MaxCrashes <- 0, MaxChanges <- 1,
    MaxShutdowns <- 1,
    chain <- nodeChain, reorgs <- nodeReorgs, rows <- scanned, task <- round, service <- scanner,
    crashes <- scannerCrashes
Recovery == INSTANCE UtxoScanner WITH
    Nodes <- {n1}, First <- n1, Second <- n1, Fork <- 1, MaxHeight <- 2, StartHeight <- 2, Spends <- {},
    CacheSize <- 1, RetryLimit <- 1, Rounds <- {1}, Recovers <- TRUE, ReorgsInStream <- FALSE,
    CutsInBlock <- FALSE, Unreliable <- {}, MaxReorgs <- 1, MaxFaults <- 1, MaxCrashes <- 1, MaxChanges <- 0,
    MaxShutdowns <- 0,
    chain <- nodeChain, reorgs <- nodeReorgs, rows <- scanned, task <- round, service <- scanner,
    crashes <- scannerCrashes
-----------------------------------------------------------------------------
(* Negotiation.  The module itself, with the constants of the model, is the   *)
(* scenario races: a reply, both users and the sender's timeout.  Receiver:   *)
(* two receive protocols and the receiver's timeout.  Crashing: a crash, and  *)
(* the sender's user cancels.  Expiry: a timeout and a crash.  Completes: a   *)
(* crash only.                                                                *)
Receiver == INSTANCE TransactionNegotiation WITH
    SendTasks <- {s1}, ReceiveTasks <- {r1, r2}, Routes <- {"direct"}, Cancellers <- {},
    Expiring <- {"receiver"}, MaxCrashes <- 0, MaxOutputs <- 2
Crashing == INSTANCE TransactionNegotiation WITH
    SendTasks <- {s1}, ReceiveTasks <- {r1}, Routes <- {"direct"}, Cancellers <- {"sender"},
    Expiring <- {}, MaxCrashes <- 1, MaxOutputs <- 1
Expiry == INSTANCE TransactionNegotiation WITH
    SendTasks <- {s1}, ReceiveTasks <- {r1}, Routes <- {"direct"}, Cancellers <- {},
    Expiring <- {"sender"}, MaxCrashes <- 1, MaxOutputs <- 1
Completes == INSTANCE TransactionNegotiation WITH
    SendTasks <- {s1}, ReceiveTasks <- {r1}, Routes <- {"direct"}, Cancellers <- {},
    Expiring <- {}, MaxCrashes <- 1, MaxOutputs <- 2

-----------------------------------------------------------------------------
(* Monitoring.  c1 is the coinbase of the first block, c2 of the second.      *)
CoinbaseHeight == c1 :> 1 @@ c2 :> 2

Broadcasts == INSTANCE TransactionMonitoring WITH
    Normal <- {t1}, Coinbases <- {}, Fauxes <- {f1}, NumConfirmations <- 1, MaxHeight <- 2, MaxReorgs <- 0,
    MaxRevalidations <- 0, MaxCrashes <- 1, ReorgWhileValidating <- TRUE, funds <- held, crashes <- monitorCrashes
Coinbase == INSTANCE TransactionMonitoring WITH
    Normal <- {}, Coinbases <- {c1, c2}, Fauxes <- {}, NumConfirmations <- 1, MaxHeight <- 2, MaxReorgs <- 1,
    MaxRevalidations <- 1, MaxCrashes <- 1, ReorgWhileValidating <- TRUE, funds <- held, crashes <- monitorCrashes
Agrees == INSTANCE TransactionMonitoring WITH
    Normal <- {t1}, Coinbases <- {c1}, Fauxes <- {}, NumConfirmations <- 1, MaxHeight <- 2, MaxReorgs <- 1,
    MaxRevalidations <- 0, MaxCrashes <- 0, ReorgWhileValidating <- FALSE, funds <- held, crashes <- monitorCrashes
Resubmits == INSTANCE TransactionMonitoring WITH
    Normal <- {t1}, Coinbases <- {}, Fauxes <- {}, NumConfirmations <- 1, MaxHeight <- 2, MaxReorgs <- 1,
    MaxRevalidations <- 0, MaxCrashes <- 0, ReorgWhileValidating <- FALSE, funds <- held, crashes <- monitorCrashes
ASSUME WalletInstances ==
    /\ Reserved!NoTxAssumption
    /\ RoutesAssumption /\ BoundsAssumption /\ NobodyAssumption /\ Receiver!NobodyAssumption

-----------------------------------------------------------------------------
WalletInit ==
    /\ scenario \in Scenarios
    /\ CASE scenario = "reserved" -> Reserved!Init
         [] scenario = "htlc" -> Htlc!Init
         [] OTHER -> Reorgs!Init
    /\ IF scenario = "overlap" THEN Overlap!Init ELSE Recovery!Init
    /\ CASE scenario = "races" -> Init
         [] scenario = "receiver" -> Receiver!Init
         [] OTHER -> Crashing!Init
    /\ CASE scenario = "broadcasts" -> Broadcasts!Init
         [] scenario = "coinbase" -> Coinbase!Init
         [] scenario = "resubmits" -> Resubmits!Init
         [] OTHER -> Agrees!Init

OnlyOutputs == UNCHANGED <<scenario, scannerVars, vars, monitoringVars>>
OnlyScanner == UNCHANGED <<scenario, outputVars, vars, monitoringVars>>
OnlyNegotiation == UNCHANGED <<scenario, outputVars, scannerVars, monitoringVars>>
OnlyMonitoring == UNCHANGED <<scenario, outputVars, scannerVars, vars>>

WalletNext ==
    \/ scenario = "reserved" /\ Reserved!Next /\ OnlyOutputs
    \/ scenario = "reorgs" /\ Reorgs!Next /\ OnlyOutputs
    \/ scenario = "htlc" /\ Htlc!Next /\ OnlyOutputs
    \/ scenario = "overlap" /\ Overlap!Next /\ OnlyScanner
    \/ scenario = "recovery" /\ Recovery!Next /\ OnlyScanner
    \/ scenario = "races" /\ Next /\ OnlyNegotiation
    \/ scenario = "receiver" /\ Receiver!Next /\ OnlyNegotiation
    \/ scenario = "crashing" /\ Crashing!Next /\ OnlyNegotiation
    \/ scenario = "expiry" /\ Expiry!Next /\ OnlyNegotiation
    \/ scenario = "completes" /\ Completes!Next /\ OnlyNegotiation
    \/ scenario = "broadcasts" /\ Broadcasts!Next /\ OnlyMonitoring
    \/ scenario = "coinbase" /\ Coinbase!Next /\ OnlyMonitoring
    \/ scenario = "agrees" /\ Agrees!Next /\ OnlyMonitoring
    \/ scenario = "resubmits" /\ Resubmits!Next /\ OnlyMonitoring

WalletSpec == WalletInit /\ [][WalletNext]_walletVars

(* The fairness of each component, in the scenarios that check liveness.  A   *)
(* behaviour stays in one scenario, so that one condition can stand for a     *)
(* step of each.                                                              *)
Expires(A) == scenario = "expiry" /\ A /\ OnlyNegotiation
Negotiates(A) == scenario = "completes" /\ A /\ OnlyNegotiation
Submits(A) == scenario = "resubmits" /\ A /\ OnlyMonitoring

(* What the wallet's own scheduler and timers do.                             *)
WalletFairness ==
    /\ WF_walletVars(\/ Expires(Expiry!ServiceStep("sender")) \/ Negotiates(Completes!ServiceStep("sender"))
               \/ Submits(Resubmits!StartValidation))
    /\ WF_walletVars(\/ Expires(Expiry!ServiceStep("receiver")) \/ Negotiates(Completes!ServiceStep("receiver"))
               \/ Submits(Resubmits!ValidationStep))
    /\ WF_walletVars(\/ Expires(Expiry!SendStep(s1)) \/ Negotiates(Completes!SendStep(s1))
               \/ Submits(Resubmits!BroadcastStep(t1)))
    /\ WF_walletVars(\/ Expires(Expiry!ReceiveStep(r1)) \/ Negotiates(Completes!ReceiveStep(r1))
               \/ Submits(Resubmits!SubmitAccepted(t1) \/ Resubmits!SubmitRejected(t1)))
    /\ WF_walletVars("sender" \in booting /\ (Expires(Expiry!RestartSend) \/ Negotiates(Completes!RestartSend)))
    /\ WF_walletVars("receiver" \in booting /\ (Expires(Expiry!RestartReceive) \/ Negotiates(Completes!RestartReceive)))
    /\ WF_walletVars(Negotiates(Completes!ResendTransaction(s1)))
    /\ WF_walletVars(Negotiates(Completes!ResendReply(r1)))

(* The base node answers some of the questions it is asked; a message that is *)
(* sent again and again arrives, and is not always answered in vain.          *)
Delivers(kind) == Negotiates(Completes!Deliver([kind |-> kind, via |-> "direct"]))
PeerFairness ==
    /\ SF_walletVars(Delivers("sender") \/ Submits(Resubmits!CheckForReorgs))
    /\ SF_walletVars(Delivers("reply") \/ Submits(Resubmits!QueryTransactions))
    /\ SF_walletVars(Delivers("finalized"))
    /\ SF_walletVars(Delivers("cancelled"))
    /\ SF_walletVars(Negotiates(Completes!ResendFinalized([kind |-> "reply", via |-> "direct"], TRUE)))

WalletFairSpec == WalletSpec /\ WalletFairness /\ PeerFairness

-----------------------------------------------------------------------------
(* While a confirmed transaction of the wallet is neither mined nor           *)
(* cancelled, none of its inputs is offered to another (encumber_outputs,     *)
(* confirm_encumbered_outputs, the validation's updates), as long as the      *)
(* block of an input was recorded before it was spent and stays in the chain. *)
ReservedUntilDone == scenario = "reserved" => Reserved!ReservedUntilDone

(* After an undisturbed validation every row agrees with the chain on where   *)
(* its output was created and spent, and no unspent output is missing from    *)
(* the balance (txo_validation_task), or on the block its transaction is in   *)
(* (transaction_validation_protocol).                                         *)
ValidationAgrees ==
    /\ scenario = "reorgs" => Reorgs!ValidationAgrees /\ Reorgs!BalanceAgrees
    /\ scenario = "htlc" => Htlc!ValidationAgrees /\ Htlc!BalanceAgrees
    /\ scenario = "agrees" => Agrees!ValidationAgrees

(* A scanned block stands for its whole chain: every own output up to it is   *)
(* known, whatever rounds overlapped, failed or were stopped                  *)
(* (get_last_scanned_block never looks below it).                             *)
RowsCovered ==
    /\ scenario = "overlap" => Overlap!RowsCovered
    /\ scenario = "recovery" => Recovery!RowsCovered

(* A transaction that is cancelled has given back its inputs, and a coinbase  *)
(* that was given up is not one the output manager still waits for, whatever  *)
(* fails half way (cancel_transaction, update_coinbase_as_abandoned).         *)
RejectedFundsReleased ==
    /\ scenario = "broadcasts" => Broadcasts!RejectedFundsReleased
    /\ scenario = "coinbase" => Coinbase!CancelledCoinbaseAbandoned

-----------------------------------------------------------------------------
During(s, P) == scenario = s /\ P

(* A negotiation that reached the counterparty does not stay pending.  Once   *)
(* its timeout has passed it is completed or cancelled, across restarts too   *)
(* (wait_for_reply); two wallets that neither cancel nor time out complete    *)
(* it, whatever is lost, duplicated or reordered and whichever crashes.       *)
NegotiationsEnd ==
    (\/ During("expiry", Expiry!Pending("sender") /\ "sender" \in expired /\ db["sender"].sent)
     \/ During("completes", db["sender"].outbound = "live" /\ db["sender"].sent)) ~>
    (\/ During("expiry", ~ Expiry!Pending("sender"))
     \/ During("completes", db["sender"].completed = "live" /\ db["receiver"].completed = "live"))

(* A live transaction that the base node neither mined nor holds is submitted *)
(* again or cancelled (restart_broadcast_protocols).                          *)
Resubmitted ==
    During("resubmits", Resubmits!Live(row[t1]) /\ ~ Resubmits!InChain(t1) /\ t1 \notin mempool) ~>
    During("resubmits", ~ Resubmits!Live(row[t1]) \/ Resubmits!InChain(t1) \/ t1 \in mempool)

=============================================================================
