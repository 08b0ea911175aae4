-------------------- MODULE TransactionNegotiationProofs --------------------
(***************************************************************************)
(* The safety properties of the negotiation, proved for any sets of tasks, *)
(* routes, cancelling and expiring wallets and any number of crashes.       *)
(***************************************************************************)
EXTENDS TransactionNegotiation, TLAPS


\* Steps of a send task between the confirmation of the encumbrance and the
\* completion of the transaction: its inputs are encumbered, or given back.
Confirmed == {"store_pending", "count", "load", "wait", "complete", "expire"}

\* The sender's tables, its output manager, its tasks and its service.  The inputs
\* are given back only after the pending row is cancelled, and a cancelled row
\* never becomes live again: that is what makes completion and release exclude
\* each other.
SenderInv ==
    /\ db["sender"].inbound = "absent"
    /\ db["sender"].completed # "cancelled"
    /\ db["sender"].completed = "live" => db["sender"].outbound = "absent" /\ funds = "encumbered"
    /\ funds = "released" => db["sender"].outbound = "cancelled"
    /\ service["sender"] = "release" => db["sender"].outbound = "cancelled"
    /\ db["sender"].outbound # "absent" => funds # "free"
    /\ db["sender"].outbound = "live" /\ db["sender"].sent => funds = "encumbered"
    /\ \A p \in SendTasks :
        /\ At("sender", p, "release") => db["sender"].outbound = "cancelled"
        /\ task["sender"][p] \in Confirmed => funds \in {"encumbered", "released"}
        /\ At("sender", p, "prepare") => funds = "free"
        /\ funds = "free" => task["sender"][p] \in {"none", "prepare"} \cup Ended
        /\ At("sender", p, "prepare") => \A q \in SendTasks \ {p} : task["sender"][q] \in {"none"} \cup Ended

\* As long as the sender has not crashed, a cancelled row whose inputs are still
\* encumbered has a handler or a task that is about to give them back.
SenderReleases ==
    crashes = 0 /\ db["sender"].outbound = "cancelled" =>
        \/ funds = "released"
        \/ service["sender"] = "release"
        \/ \E p \in SendTasks : At("sender", p, "release")

\* Every trace of a finalized transaction follows the sender's completion.
FinalizedInv ==
    \/ db["sender"].completed = "live"
    \/ /\ \A m \in net : m.kind # "finalized"
       /\ \A p \in SendTasks : ~ At("sender", p, "finalize")
       /\ inbox["receiver"] = {}
       /\ \A p \in ReceiveTasks : ~ At("receiver", p, "complete")
       /\ service["receiver"] # "reinstate"
       /\ db["receiver"].completed # "live"

\* The receiver has no row of the transaction yet.
Fresh == db["receiver"].inbound = "absent" /\ db["receiver"].completed = "absent"

\* Only the one task the map holds gets past the check for repetitions before
\* there is a row; a message that is repeated later finds the row, the map's entry
\* or the completed transaction.  As long as no wallet has crashed, that task has
\* the output manager expect the only output.
ReceiverInv ==
    /\ db["receiver"].outbound = "absent"
    /\ db["receiver"].completed # "cancelled"
    /\ db["receiver"].completed = "live" => db["receiver"].inbound = "absent"
    /\ Fresh =>
        /\ service["receiver"] = "idle"
        /\ \A p \in ReceiveTasks : ~ At("receiver", p, "none") =>
            p = attached["receiver"] /\ task["receiver"][p] \in {"accept", "recipient", "insert"}
    /\ ~ Fresh => \A p \in ReceiveTasks :
        /\ task["receiver"][p] \notin {"recipient", "insert"}
        /\ At("receiver", p, "accept") => db["receiver"].completed = "live"
    /\ crashes = 0 /\ Fresh =>
        \/ output.count = 0 /\ \A p \in ReceiveTasks : ~ At("receiver", p, "insert")
        \/ /\ output.count = 1 /\ output.status = "expected"
           /\ \E p \in ReceiveTasks : At("receiver", p, "insert")
    /\ crashes = 0 /\ ~ Fresh => output.count = 1 /\ output.status # "none"

\* As long as no wallet has crashed and the receiver has not timed out, its output
\* manager lags behind its tables by the rest of one handler.
ReceiverReleases ==
    crashes = 0 /\ "receiver" \notin expired =>
        /\ \A p \in ReceiveTasks : task["receiver"][p] \notin {"expire", "release"}
        /\ service["receiver"] = "release" => db["receiver"].inbound = "cancelled"
        /\ db["receiver"].inbound = "cancelled" =>
            output.status = "cancelled" \/ service["receiver"] = "release"
        /\ "live" \in {db["receiver"].inbound, db["receiver"].completed} =>
            output.status = "expected" \/ service["receiver"] = "reinstate"
        /\ service["receiver"] = "reinstate" => "live" \in {db["receiver"].inbound, db["receiver"].completed}

-----------------------------------------------------------------------------
(***************************************************************************)
(* The tables, and what a step of one wallet's task leaves to the other.   *)
(***************************************************************************)
\* What an insertion and the two completions leave in the tables.
LEMMA AddOutboundFields ==
    ASSUME NEW d \in Db
    PROVE  /\ AddOutbound(d).outbound = "live" /\ AddOutbound(d).inbound = d.inbound
           /\ AddOutbound(d).completed = d.completed /\ ~ AddOutbound(d).sent
  BY DEF AddOutbound, Db

\* complete_outbound_transaction moves the pending outbound row to the completed ones.
LEMMA CompleteOutboundFields ==
    ASSUME NEW d \in Db
    PROVE  /\ CompleteOutbound(d).outbound = "absent" /\ CompleteOutbound(d).inbound = d.inbound
           /\ CompleteOutbound(d).completed = "live"
  BY DEF CompleteOutbound, Db

\* complete_inbound_transaction does the same with the pending inbound row.
LEMMA CompleteInboundFields ==
    ASSUME NEW d \in Db
    PROVE  /\ CompleteInbound(d).outbound = d.outbound /\ CompleteInbound(d).inbound = "absent"
           /\ CompleteInbound(d).completed = "live"
  BY DEF CompleteInbound, Db

\* The operations on the tables keep their types.
LEMMA TablesTyped ==
    ASSUME NEW d \in Db
    PROVE  /\ AddOutbound(d) \in Db /\ AddInbound(d) \in Db
           /\ CompleteOutbound(d) \in Db /\ CompleteInbound(d) \in Db
           /\ IncrementSendCount(d) \in Db
  BY ZenonT(30) DEF Db, RowState, AddOutbound, AddInbound, CompleteOutbound, CompleteInbound, IncrementSendCount

\* A step of a send task leaves the receiver alone.
LEMMA SendStepKeeps ==
    ASSUME TypeOK, NEW p \in SendTasks, SendStep(p) \/ ResendTransaction(p)
    PROVE  /\ db'["receiver"] = db["receiver"] /\ output' = output /\ task'["receiver"] = task["receiver"]
           /\ service' = service /\ attached' = attached /\ expired' = expired /\ crashes' = crashes
  <1> USE DEF TypeOK, Wallets, Tasks, Goto, omsVars, channelVars, envVars
  <1>1. CASE PrepareTransaction(p)
    BY <1>1, SMT DEF PrepareTransaction
  <1>2. CASE InitialSend(p)
    BY <1>2, SMT DEF InitialSend
  <1>3. CASE ConfirmPending(p)
    BY <1>3, SMT DEF ConfirmPending
  <1>4. CASE StoreOutbound(p)
    BY <1>4, SMT DEF StoreOutbound
  <1>5. CASE CountSend("sender", p)
    BY <1>5, SMT DEF CountSend
  <1>6. CASE LoadOutbound(p)
    BY <1>6, SMT DEF LoadOutbound
  <1>7. CASE TakeReply(p)
    BY <1>7, SMT DEF TakeReply
  <1>8. CASE CancelSend(p)
    BY <1>8, SMT DEF CancelSend
  <1>9. CASE TimeoutSend(p)
    BY <1>9, SMT DEF TimeoutSend
  <1>10. CASE CompleteSend(p)
    BY <1>10, SMT DEF CompleteSend
  <1>11. CASE SendFinalized(p)
    BY <1>11, SMT DEF SendFinalized
  <1>12. CASE ExpireRow("sender", p)
    BY <1>12, SMT DEF ExpireRow, SetCancelled
  <1>13. CASE ExpireOutputs("sender", p)
    BY <1>13, SMT DEF ExpireOutputs, CanRelease, Release
  <1>14. CASE ResendTransaction(p)
    BY <1>14, SMT DEF ResendTransaction
  <1> QED
    BY <1>1, <1>2, <1>3, <1>4, <1>5, <1>6, <1>7, <1>8, <1>9, <1>10, <1>11, <1>12, <1>13, <1>14 DEF SendStep

\* A step of a receive task leaves the sender alone.
LEMMA ReceiveStepKeeps ==
    ASSUME TypeOK, NEW p \in ReceiveTasks, ReceiveStep(p) \/ ResendReply(p)
    PROVE  /\ db'["sender"] = db["sender"] /\ funds' = funds /\ task'["sender"] = task["sender"]
           /\ service' = service /\ crashes' = crashes
  <1> USE DEF TypeOK, Wallets, Tasks, Goto, omsVars, channelVars, envVars
  <1>1. CASE CheckRepeated(p)
    BY <1>1, SMT DEF CheckRepeated
  <1>2. CASE GetRecipientTransaction(p)
    BY <1>2, SMT DEF GetRecipientTransaction
  <1>3. CASE StoreInbound(p)
    BY <1>3, SMT DEF StoreInbound
  <1>4. CASE SendReply(p)
    BY <1>4, SMT DEF SendReply
  <1>5. CASE CountSend("receiver", p)
    BY <1>5, SMT DEF CountSend
  <1>6. CASE LoadInbound(p)
    BY <1>6, SMT DEF LoadInbound
  <1>7. CASE TakeFinalized(p)
    BY <1>7, SMT DEF TakeFinalized
  <1>8. CASE CancelReceive(p)
    BY <1>8, SMT DEF CancelReceive
  <1>9. CASE TimeoutReceive(p)
    BY <1>9, SMT DEF TimeoutReceive
  <1>10. CASE CompleteReceive(p)
    BY <1>10, SMT DEF CompleteReceive
  <1>11. CASE ExpireRow("receiver", p)
    BY <1>11, SMT DEF ExpireRow, SetCancelled
  <1>12. CASE ExpireOutputs("receiver", p)
    BY <1>12, SMT DEF ExpireOutputs, CanRelease, Release
  <1>13. CASE ResendReply(p)
    BY <1>13, SMT DEF ResendReply
  <1> QED
    BY <1>1, <1>2, <1>3, <1>4, <1>5, <1>6, <1>7, <1>8, <1>9, <1>10, <1>11, <1>12, <1>13 DEF ReceiveStep

-----------------------------------------------------------------------------
(***************************************************************************)
(* One step, action by action.                                             *)
(***************************************************************************)
\* One step preserves the types.
LEMMA TypeStep ==
    ASSUME BoundsAssumption, RoutesAssumption, TypeOK, [Next]_vars
    PROVE  TypeOK'
  <1> USE DEF TypeOK, Wallets, Tasks, Goto, SendSteps, ReceiveSteps, Ended
  <1> USE DEF omsVars, channelVars, envVars
  <1>1. ASSUME NEW p \in SendTasks, PrepareTransaction(p) PROVE TypeOK'
    BY <1>1, SMT DEF PrepareTransaction
  <1>2. ASSUME NEW p \in SendTasks, InitialSend(p) PROVE TypeOK'
    BY <1>2, SMT DEF InitialSend, Transmit, Copies, Message, RoutesAssumption
  <1>3. ASSUME NEW p \in SendTasks, ConfirmPending(p) PROVE TypeOK'
    BY <1>3, SMT DEF ConfirmPending
  <1>4. ASSUME NEW p \in SendTasks, StoreOutbound(p) PROVE TypeOK'
    BY <1>4, TablesTyped, SMT DEF StoreOutbound
  <1>5. ASSUME NEW p \in SendTasks, CountSend("sender", p) PROVE TypeOK'
    BY <1>5, TablesTyped, SMT DEF CountSend
  <1>6. ASSUME NEW p \in SendTasks, LoadOutbound(p) PROVE TypeOK'
    BY <1>6, SMT DEF LoadOutbound
  <1>7. ASSUME NEW p \in SendTasks, TakeReply(p) PROVE TypeOK'
    BY <1>7, SMT DEF TakeReply
  <1>8. ASSUME NEW p \in SendTasks, CancelSend(p) PROVE TypeOK'
    BY <1>8, TablesTyped, SMT DEF CancelSend, NotifyCancelled, Copies, CancelledRoutes, Message
  <1>9. ASSUME NEW p \in SendTasks, TimeoutSend(p) PROVE TypeOK'
    BY <1>9, TablesTyped, SMT DEF TimeoutSend, NotifyCancelled, Copies, CancelledRoutes, Message
  <1>10. ASSUME NEW p \in SendTasks, CompleteSend(p) PROVE TypeOK'
    BY <1>10, TablesTyped, SMT DEF CompleteSend
  <1>11. ASSUME NEW p \in SendTasks, SendFinalized(p) PROVE TypeOK'
    BY <1>11, SMT DEF SendFinalized, Transmit, Copies, Message, RoutesAssumption
  <1>12. ASSUME NEW p \in SendTasks, ExpireRow("sender", p) PROVE TypeOK'
    BY <1>12, SMT DEF ExpireRow, Db, RowState, CanSetCancelled, SetCancelled
  <1>13. ASSUME NEW p \in SendTasks, ExpireOutputs("sender", p) PROVE TypeOK'
    BY <1>13, SMT DEF ExpireOutputs, CanRelease, Release
  <1>14. ASSUME NEW p \in SendTasks, ResendTransaction(p) PROVE TypeOK'
    BY <1>14, TablesTyped, SMT DEF ResendTransaction, Transmit, Copies, Message, RoutesAssumption
  <1>15. ASSUME NEW p \in ReceiveTasks, CheckRepeated(p) PROVE TypeOK'
    BY <1>15, SMT DEF CheckRepeated
  <1>16. ASSUME NEW p \in ReceiveTasks, GetRecipientTransaction(p) PROVE TypeOK'
    BY <1>16, SMT DEF GetRecipientTransaction, BoundsAssumption
  <1>17. ASSUME NEW p \in ReceiveTasks, StoreInbound(p) PROVE TypeOK'
    BY <1>17, TablesTyped, SMT DEF StoreInbound
  <1>18. ASSUME NEW p \in ReceiveTasks, SendReply(p) PROVE TypeOK'
    BY <1>18, SMT DEF SendReply, Transmit, Copies, Message, RoutesAssumption
  <1>19. ASSUME NEW p \in ReceiveTasks, CountSend("receiver", p) PROVE TypeOK'
    BY <1>19, TablesTyped, SMT DEF CountSend
  <1>20. ASSUME NEW p \in ReceiveTasks, LoadInbound(p) PROVE TypeOK'
    BY <1>20, SMT DEF LoadInbound
  <1>21. ASSUME NEW p \in ReceiveTasks, TakeFinalized(p) PROVE TypeOK'
    BY <1>21, SMT DEF TakeFinalized
  <1>22. ASSUME NEW p \in ReceiveTasks, CancelReceive(p) PROVE TypeOK'
    BY <1>22, SMT DEF CancelReceive
  <1>23. ASSUME NEW p \in ReceiveTasks, TimeoutReceive(p) PROVE TypeOK'
    BY <1>23, SMT DEF TimeoutReceive
  <1>24. ASSUME NEW p \in ReceiveTasks, CompleteReceive(p) PROVE TypeOK'
    BY <1>24, TablesTyped, SMT DEF CompleteReceive
  <1>25. ASSUME NEW p \in ReceiveTasks, ExpireRow("receiver", p) PROVE TypeOK'
    BY <1>25, SMT DEF ExpireRow, Db, RowState, CanSetCancelled, SetCancelled
  <1>26. ASSUME NEW p \in ReceiveTasks, ExpireOutputs("receiver", p) PROVE TypeOK'
    BY <1>26, SMT DEF ExpireOutputs, CanRelease, Release
  <1>27. ASSUME NEW p \in ReceiveTasks, ResendReply(p) PROVE TypeOK'
    BY <1>27, SMT DEF ResendReply, Transmit, Copies, Message, RoutesAssumption
  <1>28. ASSUME NEW w \in Wallets, ServiceRelease(w) PROVE TypeOK'
    BY <1>28, SMT DEF ServiceRelease, CanRelease, Release
  <1>29. ASSUME NEW w \in Wallets, ServiceSignal(w) PROVE TypeOK'
    BY <1>29, SMT DEF ServiceSignal
  <1>30. ASSUME NEW w \in Wallets, CancelByUser(w) PROVE TypeOK'
    BY <1>30, SMT DEF CancelByUser, StartCancel, Db, RowState, CanSetCancelled, SetCancelled
  <1>31. ASSUME NEW w \in Wallets, Expire(w) PROVE TypeOK'
    BY <1>31, SMT DEF Expire
  <1>32. ASSUME NEW w \in Wallets, Crash(w) PROVE TypeOK'
    BY <1>32, SMT DEF Crash, BoundsAssumption
  <1>33. ASSUME NEW w \in Wallets, NEW p \in Tasks(w), TakeResult(w, p) PROVE TypeOK'
    BY <1>33, SMT DEF TakeResult
  <1>34. ASSUME ServiceReinstate PROVE TypeOK'
    BY <1>34, SMT DEF ServiceReinstate, Spawn
  <1>35. ASSUME SendTransaction PROVE TypeOK'
    BY <1>35, SMT DEF SendTransaction, Spawn
  <1>36. ASSUME RestartSend PROVE TypeOK'
    BY <1>36, SMT DEF RestartSend, Spawn
  <1>37. ASSUME RestartReceive PROVE TypeOK'
    BY <1>37, SMT DEF RestartReceive, Spawn
  <1>38. ASSUME NEW m \in Message, ResendFinalized(m, FALSE) PROVE TypeOK'
    BY <1>38, SMT DEF ResendFinalized, Transmit, Copies, Message, RoutesAssumption, Rest
  <1>39. ASSUME NEW m \in Message, AnswerCancelled(m) PROVE TypeOK'
    BY <1>39, TablesTyped, SMT DEF AnswerCancelled, NotifyCancelled, Copies, CancelledRoutes, Message, Rest
  <1>40. ASSUME NEW m \in Message, ForwardReply(m) PROVE TypeOK'
    BY <1>40, SMT DEF ForwardReply, Forward, Rest
  <1>41. ASSUME NEW m \in Message, AcceptTransaction(m) PROVE TypeOK'
    BY <1>41, SMT DEF AcceptTransaction, Spawn, Transmit, Copies, Message, RoutesAssumption, Rest
  <1>42. ASSUME NEW m \in Message, AcceptFinalized(m) PROVE TypeOK'
    BY <1>42, SMT DEF AcceptFinalized, Forward, Rest, Db, RowState, CanSetCancelled, SetCancelled
  <1>43. ASSUME NEW m \in Message, AcceptCancelled(m) PROVE TypeOK'
    BY <1>43, SMT DEF AcceptCancelled, StartCancel, Rest, Db, RowState, CanSetCancelled, SetCancelled
  <1>44. ASSUME NEW m \in Message, Lose(m) PROVE TypeOK'
    BY <1>44, SMT DEF Lose
  <1>45. CASE UNCHANGED vars
    BY <1>45 DEF vars
  <1> HIDE DEF TypeOK, Wallets, Tasks, Goto, SendSteps, ReceiveSteps, Ended
  <1> HIDE DEF omsVars, channelVars, envVars
  <1> QED
    BY <1>1, <1>2, <1>3, <1>4, <1>5, <1>6, <1>7, <1>8, <1>9, <1>10, <1>11, <1>12, <1>13, <1>14, <1>15,
       <1>16, <1>17, <1>18, <1>19, <1>20, <1>21, <1>22, <1>23, <1>24, <1>25, <1>26, <1>27, <1>28, <1>29,
       <1>30, <1>31, <1>32, <1>33, <1>34, <1>35, <1>36, <1>37, <1>38, <1>39, <1>40, <1>41, <1>42, <1>43,
       <1>44, <1>45, ZenonT(30)
       DEF Next, SendStep, ReceiveStep, ServiceStep, Deliver, AcceptReply, Wallets

\* One step preserves SenderInv.
LEMMA SenderStep ==
    ASSUME TypeOK, SenderInv, [Next]_vars
    PROVE  SenderInv'
  <1> USE DEF TypeOK, Wallets, Tasks, Goto, At, Running, Idle, Ended
  <1> USE DEF Db, RowState, TransactionExists, CanAddOutbound, CanAddInbound, CanCompleteOutbound,
    CanCompleteInbound, CanSetCancelled, CanIncrementSendCount
  <1> USE DEF omsVars, channelVars, envVars, SenderInv, Confirmed
  <1>1. ASSUME NEW p \in SendTasks, PrepareTransaction(p) PROVE SenderInv'
    BY <1>1, SMT DEF PrepareTransaction
  <1>2. ASSUME NEW p \in SendTasks, InitialSend(p) PROVE SenderInv'
    BY <1>2, SMT DEF InitialSend, Transmit, Copies
  <1>3. ASSUME NEW p \in SendTasks, ConfirmPending(p) PROVE SenderInv'
    BY <1>3, SMT DEF ConfirmPending
  <1>4. ASSUME NEW p \in SendTasks, StoreOutbound(p) PROVE SenderInv'
    <2>1. CASE db' = db
      BY <1>4, <2>1, SMT DEF StoreOutbound
    <2>2. CASE ~ TransactionExists(db["sender"]) /\ CanAddOutbound(db["sender"])
      <3>1. /\ db'["sender"].outbound = "live" /\ db'["sender"].inbound = db["sender"].inbound
            /\ db'["sender"].completed = db["sender"].completed /\ ~ db'["sender"].sent
        BY <1>4, <2>2, AddOutboundFields, SMT DEF StoreOutbound
      <3> QED
        BY <1>4, <2>2, <3>1, SMT DEF StoreOutbound
    <2> QED
      BY <1>4, <2>1, <2>2 DEF StoreOutbound
  <1>5. ASSUME NEW p \in SendTasks, CountSend("sender", p) PROVE SenderInv'
    BY <1>5, SMT DEF CountSend, IncrementSendCount
  <1>6. ASSUME NEW p \in SendTasks, LoadOutbound(p) PROVE SenderInv'
    BY <1>6, SMT DEF LoadOutbound
  <1>7. ASSUME NEW p \in SendTasks, TakeReply(p) PROVE SenderInv'
    BY <1>7, SMT DEF TakeReply
  <1>8. ASSUME NEW p \in SendTasks, CancelSend(p) PROVE SenderInv'
    BY <1>8, SMT DEF CancelSend, NotifyCancelled, Copies, CancelledRoutes, IncrementSendCount
  <1>9. ASSUME NEW p \in SendTasks, TimeoutSend(p) PROVE SenderInv'
    BY <1>9, SMT DEF TimeoutSend, NotifyCancelled, Copies, CancelledRoutes, IncrementSendCount
  <1>10. ASSUME NEW p \in SendTasks, CompleteSend(p) PROVE SenderInv'
    <2>1. CASE ~ CanCompleteOutbound(db["sender"])
      BY <1>10, <2>1, SMT DEF CompleteSend
    <2>2. CASE CanCompleteOutbound(db["sender"])
      <3>1. /\ db'["sender"].outbound = "absent" /\ db'["sender"].inbound = db["sender"].inbound
            /\ db'["sender"].completed = "live"
        BY <1>10, <2>2, CompleteOutboundFields, SMT DEF CompleteSend
      <3> QED
        BY <1>10, <2>2, <3>1, SMT DEF CompleteSend
    <2> QED
      BY <2>1, <2>2
  <1>11. ASSUME NEW p \in SendTasks, SendFinalized(p) PROVE SenderInv'
    BY <1>11, SMT DEF SendFinalized, Transmit, Copies
  <1>12. ASSUME NEW p \in SendTasks, ExpireRow("sender", p) PROVE SenderInv'
    BY <1>12, SMT DEF ExpireRow, SetCancelled
  <1>13. ASSUME NEW p \in SendTasks, ExpireOutputs("sender", p) PROVE SenderInv'
    BY <1>13, SMT DEF ExpireOutputs, CanRelease, Release
  <1>14. ASSUME NEW p \in SendTasks, ResendTransaction(p) PROVE SenderInv'
    BY <1>14, SMT DEF ResendTransaction, Transmit, Copies, IncrementSendCount
  <1>15. ASSUME NEW w \in Wallets, ServiceRelease(w) PROVE SenderInv'
    BY <1>15, SMT DEF ServiceRelease, CanRelease, Release
  <1>16. ASSUME NEW w \in Wallets, ServiceSignal(w) PROVE SenderInv'
    BY <1>16, SMT DEF ServiceSignal
  <1>17. ASSUME NEW w \in Wallets, CancelByUser(w) PROVE SenderInv'
    BY <1>17, SMT DEF CancelByUser, StartCancel, SetCancelled
  <1>18. ASSUME NEW w \in Wallets, Expire(w) PROVE SenderInv'
    BY <1>18, SMT DEF Expire
  <1>19. ASSUME NEW w \in Wallets, Crash(w) PROVE SenderInv'
    BY <1>19, SMT DEF Crash
  <1>20. ASSUME NEW w \in Wallets, NEW p \in Tasks(w), TakeResult(w, p) PROVE SenderInv'
    BY <1>20, SMT DEF TakeResult
  <1>21. ASSUME ServiceReinstate PROVE SenderInv'
    BY <1>21, SMT DEF ServiceReinstate, Spawn
  <1>22. ASSUME SendTransaction PROVE SenderInv'
    BY <1>22, SMT DEF SendTransaction, Spawn
  <1>23. ASSUME RestartSend PROVE SenderInv'
    BY <1>23, SMT DEF RestartSend, Spawn
  <1>24. ASSUME RestartReceive PROVE SenderInv'
    BY <1>24, SMT DEF RestartReceive, Spawn
  <1>25. ASSUME NEW m \in Message, ResendFinalized(m, FALSE) PROVE SenderInv'
    BY <1>25, SMT DEF ResendFinalized, Transmit, Copies, Rest
  <1>26. ASSUME NEW m \in Message, AnswerCancelled(m) PROVE SenderInv'
    BY <1>26, SMT DEF AnswerCancelled, NotifyCancelled, Copies, CancelledRoutes, Rest, IncrementSendCount
  <1>27. ASSUME NEW m \in Message, ForwardReply(m) PROVE SenderInv'
    BY <1>27, SMT DEF ForwardReply, Forward, Rest
  <1>28. ASSUME NEW m \in Message, AcceptTransaction(m) PROVE SenderInv'
    BY <1>28, SMT DEF AcceptTransaction, Spawn, Transmit, Copies, Rest
  <1>29. ASSUME NEW m \in Message, AcceptFinalized(m) PROVE SenderInv'
    BY <1>29, SMT DEF AcceptFinalized, Forward, Rest, SetCancelled
  <1>30. ASSUME NEW m \in Message, AcceptCancelled(m) PROVE SenderInv'
    BY <1>30, SMT DEF AcceptCancelled, StartCancel, Rest, SetCancelled
  <1>31. ASSUME NEW m \in Message, Lose(m) PROVE SenderInv'
    BY <1>31, SMT DEF Lose
  <1>32. ASSUME NEW p \in ReceiveTasks, ReceiveStep(p) \/ ResendReply(p) PROVE SenderInv'
    BY <1>32, ReceiveStepKeeps, SMT
  <1>33. CASE UNCHANGED vars
    BY <1>33 DEF vars
  <1> HIDE DEF TypeOK, Wallets, Tasks, Goto, At, Running, Idle, Ended
  <1> HIDE DEF Db, RowState, TransactionExists, CanAddOutbound, CanAddInbound, CanCompleteOutbound,
    CanCompleteInbound, CanSetCancelled, CanIncrementSendCount
  <1> HIDE DEF omsVars, channelVars, envVars, SenderInv, Confirmed
  <1> QED
    BY <1>1, <1>2, <1>3, <1>4, <1>5, <1>6, <1>7, <1>8, <1>9, <1>10, <1>11, <1>12, <1>13, <1>14, <1>15,
       <1>16, <1>17, <1>18, <1>19, <1>20, <1>21, <1>22, <1>23, <1>24, <1>25, <1>26, <1>27, <1>28, <1>29,
       <1>30, <1>31, <1>32, <1>33, ZenonT(30)
       DEF Next, SendStep, ServiceStep, Deliver, AcceptReply, Wallets

\* One step preserves SenderReleases.
LEMMA SenderReleasesStep ==
    ASSUME TypeOK, SenderInv, SenderReleases, [Next]_vars
    PROVE  SenderReleases'
  <1> USE DEF TypeOK, Wallets, Tasks, Goto, At, Running, Idle, Ended
  <1> USE DEF Db, RowState, TransactionExists, CanAddOutbound, CanAddInbound, CanCompleteOutbound,
    CanCompleteInbound, CanSetCancelled, CanIncrementSendCount
  <1> USE DEF omsVars, channelVars, envVars, SenderInv, SenderReleases, Confirmed
  <1>1. ASSUME NEW p \in SendTasks, PrepareTransaction(p) PROVE SenderReleases'
    BY <1>1, SMT DEF PrepareTransaction
  <1>2. ASSUME NEW p \in SendTasks, InitialSend(p) PROVE SenderReleases'
    BY <1>2, SMT DEF InitialSend, Transmit, Copies
  <1>3. ASSUME NEW p \in SendTasks, ConfirmPending(p) PROVE SenderReleases'
    BY <1>3, SMT DEF ConfirmPending
  <1>4. ASSUME NEW p \in SendTasks, StoreOutbound(p) PROVE SenderReleases'
    <2>1. CASE db' = db
      BY <1>4, <2>1, SMT DEF StoreOutbound
    <2>2. CASE ~ TransactionExists(db["sender"]) /\ CanAddOutbound(db["sender"])
      <3>1. /\ db'["sender"].outbound = "live" /\ db'["sender"].inbound = db["sender"].inbound
            /\ db'["sender"].completed = db["sender"].completed /\ ~ db'["sender"].sent
        BY <1>4, <2>2, AddOutboundFields, SMT DEF StoreOutbound
      <3> QED
        BY <1>4, <2>2, <3>1, SMT DEF StoreOutbound
    <2> QED
      BY <1>4, <2>1, <2>2 DEF StoreOutbound
  <1>5. ASSUME NEW p \in SendTasks, CountSend("sender", p) PROVE SenderReleases'
    BY <1>5, SMT DEF CountSend, IncrementSendCount
  <1>6. ASSUME NEW p \in SendTasks, LoadOutbound(p) PROVE SenderReleases'
    BY <1>6, SMT DEF LoadOutbound
  <1>7. ASSUME NEW p \in SendTasks, TakeReply(p) PROVE SenderReleases'
    BY <1>7, SMT DEF TakeReply
  <1>8. ASSUME NEW p \in SendTasks, CancelSend(p) PROVE SenderReleases'
    BY <1>8, SMT DEF CancelSend, NotifyCancelled, Copies, CancelledRoutes, IncrementSendCount
  <1>9. ASSUME NEW p \in SendTasks, TimeoutSend(p) PROVE SenderReleases'
    BY <1>9, SMT DEF TimeoutSend, NotifyCancelled, Copies, CancelledRoutes, IncrementSendCount
  <1>10. ASSUME NEW p \in SendTasks, CompleteSend(p) PROVE SenderReleases'
    <2>1. CASE ~ CanCompleteOutbound(db["sender"])
      BY <1>10, <2>1, SMT DEF CompleteSend
    <2>2. CASE CanCompleteOutbound(db["sender"])
      <3>1. /\ db'["sender"].outbound = "absent" /\ db'["sender"].inbound = db["sender"].inbound
            /\ db'["sender"].completed = "live"
        BY <1>10, <2>2, CompleteOutboundFields, SMT DEF CompleteSend
      <3> QED
        BY <1>10, <2>2, <3>1, SMT DEF CompleteSend
    <2> QED
      BY <2>1, <2>2
  <1>11. ASSUME NEW p \in SendTasks, SendFinalized(p) PROVE SenderReleases'
    BY <1>11, SMT DEF SendFinalized, Transmit, Copies
  <1>12. ASSUME NEW p \in SendTasks, ExpireRow("sender", p) PROVE SenderReleases'
    BY <1>12, SMT DEF ExpireRow, SetCancelled
  <1>13. ASSUME NEW p \in SendTasks, ExpireOutputs("sender", p) PROVE SenderReleases'
    BY <1>13, SMT DEF ExpireOutputs, CanRelease, Release
  <1>14. ASSUME NEW p \in SendTasks, ResendTransaction(p) PROVE SenderReleases'
    BY <1>14, SMT DEF ResendTransaction, Transmit, Copies, IncrementSendCount
  <1>15. ASSUME NEW w \in Wallets, ServiceRelease(w) PROVE SenderReleases'
    BY <1>15, SMT DEF ServiceRelease, CanRelease, Release
  <1>16. ASSUME NEW w \in Wallets, ServiceSignal(w) PROVE SenderReleases'
    BY <1>16, SMT DEF ServiceSignal
  <1>17. ASSUME NEW w \in Wallets, CancelByUser(w) PROVE SenderReleases'
    BY <1>17, SMT DEF CancelByUser, StartCancel, SetCancelled
  <1>18. ASSUME NEW w \in Wallets, Expire(w) PROVE SenderReleases'
    BY <1>18, SMT DEF Expire
  <1>19. ASSUME NEW w \in Wallets, Crash(w) PROVE SenderReleases'
    BY <1>19, SMT DEF Crash
  <1>20. ASSUME NEW w \in Wallets, NEW p \in Tasks(w), TakeResult(w, p) PROVE SenderReleases'
    BY <1>20, SMT DEF TakeResult
  <1>21. ASSUME ServiceReinstate PROVE SenderReleases'
    BY <1>21, SMT DEF ServiceReinstate, Spawn
  <1>22. ASSUME SendTransaction PROVE SenderReleases'
    BY <1>22, SMT DEF SendTransaction, Spawn
  <1>23. ASSUME RestartSend PROVE SenderReleases'
    BY <1>23, SMT DEF RestartSend, Spawn
  <1>24. ASSUME RestartReceive PROVE SenderReleases'
    BY <1>24, SMT DEF RestartReceive, Spawn
  <1>25. ASSUME NEW m \in Message, ResendFinalized(m, FALSE) PROVE SenderReleases'
    BY <1>25, SMT DEF ResendFinalized, Transmit, Copies, Rest
  <1>26. ASSUME NEW m \in Message, AnswerCancelled(m) PROVE SenderReleases'
    BY <1>26, SMT DEF AnswerCancelled, NotifyCancelled, Copies, CancelledRoutes, Rest, IncrementSendCount
  <1>27. ASSUME NEW m \in Message, ForwardReply(m) PROVE SenderReleases'
    BY <1>27, SMT DEF ForwardReply, Forward, Rest
  <1>28. ASSUME NEW m \in Message, AcceptTransaction(m) PROVE SenderReleases'
    BY <1>28, SMT DEF AcceptTransaction, Spawn, Transmit, Copies, Rest
  <1>29. ASSUME NEW m \in Message, AcceptFinalized(m) PROVE SenderReleases'
    BY <1>29, SMT DEF AcceptFinalized, Forward, Rest, SetCancelled
  <1>30. ASSUME NEW m \in Message, AcceptCancelled(m) PROVE SenderReleases'
    BY <1>30, SMT DEF AcceptCancelled, StartCancel, Rest, SetCancelled
  <1>31. ASSUME NEW m \in Message, Lose(m) PROVE SenderReleases'
    BY <1>31, SMT DEF Lose
  <1>32. ASSUME NEW p \in ReceiveTasks, ReceiveStep(p) \/ ResendReply(p) PROVE SenderReleases'
    BY <1>32, ReceiveStepKeeps, SMT
  <1>33. CASE UNCHANGED vars
    BY <1>33 DEF vars
  <1> HIDE DEF TypeOK, Wallets, Tasks, Goto, At, Running, Idle, Ended
  <1> HIDE DEF Db, RowState, TransactionExists, CanAddOutbound, CanAddInbound, CanCompleteOutbound,
    CanCompleteInbound, CanSetCancelled, CanIncrementSendCount
  <1> HIDE DEF omsVars, channelVars, envVars, SenderInv, SenderReleases, Confirmed
  <1> QED
    BY <1>1, <1>2, <1>3, <1>4, <1>5, <1>6, <1>7, <1>8, <1>9, <1>10, <1>11, <1>12, <1>13, <1>14, <1>15,
       <1>16, <1>17, <1>18, <1>19, <1>20, <1>21, <1>22, <1>23, <1>24, <1>25, <1>26, <1>27, <1>28, <1>29,
       <1>30, <1>31, <1>32, <1>33, ZenonT(30)
       DEF Next, SendStep, ServiceStep, Deliver, AcceptReply, Wallets

\* One step preserves FinalizedInv.
LEMMA FinalizedStep ==
    ASSUME TypeOK, SenderInv, FinalizedInv, [Next]_vars
    PROVE  FinalizedInv'
  <1> USE DEF TypeOK, Wallets, Tasks, Goto, At, Running, Idle, Ended
  <1> USE DEF Db, RowState, TransactionExists, CanAddOutbound, CanAddInbound, CanCompleteOutbound,
    CanCompleteInbound, CanSetCancelled, CanIncrementSendCount
  <1> USE DEF omsVars, channelVars, envVars, FinalizedInv, SenderInv
  <1>1. ASSUME NEW p \in SendTasks, PrepareTransaction(p) PROVE FinalizedInv'
    BY <1>1, SMT DEF PrepareTransaction
  <1>2. ASSUME NEW p \in SendTasks, InitialSend(p) PROVE FinalizedInv'
    BY <1>2, SMT DEF InitialSend, Transmit, Copies
  <1>3. ASSUME NEW p \in SendTasks, ConfirmPending(p) PROVE FinalizedInv'
    BY <1>3, SMT DEF ConfirmPending
  <1>4. ASSUME NEW p \in SendTasks, StoreOutbound(p) PROVE FinalizedInv'
    <2>1. CASE db' = db
      BY <1>4, <2>1, SMT DEF StoreOutbound
    <2>2. CASE ~ TransactionExists(db["sender"]) /\ CanAddOutbound(db["sender"])
      <3>1. /\ db'["sender"].outbound = "live" /\ db'["sender"].inbound = db["sender"].inbound
            /\ db'["sender"].completed = db["sender"].completed /\ ~ db'["sender"].sent
        BY <1>4, <2>2, AddOutboundFields, SMT DEF StoreOutbound
      <3> QED
        BY <1>4, <2>2, <3>1, SMT DEF StoreOutbound
    <2> QED
      BY <1>4, <2>1, <2>2 DEF StoreOutbound
  <1>5. ASSUME NEW p \in SendTasks, CountSend("sender", p) PROVE FinalizedInv'
    BY <1>5, SMT DEF CountSend, IncrementSendCount
  <1>6. ASSUME NEW p \in SendTasks, LoadOutbound(p) PROVE FinalizedInv'
    BY <1>6, SMT DEF LoadOutbound
  <1>7. ASSUME NEW p \in SendTasks, TakeReply(p) PROVE FinalizedInv'
    BY <1>7, SMT DEF TakeReply
  <1>8. ASSUME NEW p \in SendTasks, CancelSend(p) PROVE FinalizedInv'
    BY <1>8, SMT DEF CancelSend, NotifyCancelled, Copies, CancelledRoutes, IncrementSendCount
  <1>9. ASSUME NEW p \in SendTasks, TimeoutSend(p) PROVE FinalizedInv'
    BY <1>9, SMT DEF TimeoutSend, NotifyCancelled, Copies, CancelledRoutes, IncrementSendCount
  <1>10. ASSUME NEW p \in SendTasks, CompleteSend(p) PROVE FinalizedInv'
    <2>1. CASE ~ CanCompleteOutbound(db["sender"])
      BY <1>10, <2>1, SMT DEF CompleteSend
    <2>2. CASE CanCompleteOutbound(db["sender"])
      <3>1. /\ db'["sender"].outbound = "absent" /\ db'["sender"].inbound = db["sender"].inbound
            /\ db'["sender"].completed = "live"
        BY <1>10, <2>2, CompleteOutboundFields, SMT DEF CompleteSend
      <3> QED
        BY <1>10, <2>2, <3>1, SMT DEF CompleteSend
    <2> QED
      BY <2>1, <2>2
  <1>11. ASSUME NEW p \in SendTasks, SendFinalized(p) PROVE FinalizedInv'
    BY <1>11, SMT DEF SendFinalized, Transmit, Copies
  <1>12. ASSUME NEW p \in SendTasks, ExpireRow("sender", p) PROVE FinalizedInv'
    BY <1>12, SMT DEF ExpireRow, SetCancelled
  <1>13. ASSUME NEW p \in SendTasks, ExpireOutputs("sender", p) PROVE FinalizedInv'
    BY <1>13, SMT DEF ExpireOutputs, CanRelease, Release
  <1>14. ASSUME NEW p \in SendTasks, ResendTransaction(p) PROVE FinalizedInv'
    BY <1>14, SMT DEF ResendTransaction, Transmit, Copies, IncrementSendCount
  <1>15. ASSUME NEW p \in ReceiveTasks, CheckRepeated(p) PROVE FinalizedInv'
    BY <1>15, SMT DEF CheckRepeated
  <1>16. ASSUME NEW p \in ReceiveTasks, GetRecipientTransaction(p) PROVE FinalizedInv'
    BY <1>16, SMT DEF GetRecipientTransaction
  <1>17. ASSUME NEW p \in ReceiveTasks, StoreInbound(p) PROVE FinalizedInv'
    BY <1>17, SMT DEF StoreInbound, AddInbound
  <1>18. ASSUME NEW p \in ReceiveTasks, SendReply(p) PROVE FinalizedInv'
    BY <1>18, SMT DEF SendReply, Transmit, Copies
  <1>19. ASSUME NEW p \in ReceiveTasks, CountSend("receiver", p) PROVE FinalizedInv'
    BY <1>19, SMT DEF CountSend, IncrementSendCount
  <1>20. ASSUME NEW p \in ReceiveTasks, LoadInbound(p) PROVE FinalizedInv'
    BY <1>20, SMT DEF LoadInbound
  <1>21. ASSUME NEW p \in ReceiveTasks, TakeFinalized(p) PROVE FinalizedInv'
    BY <1>21, SMT DEF TakeFinalized
  <1>22. ASSUME NEW p \in ReceiveTasks, CancelReceive(p) PROVE FinalizedInv'
    BY <1>22, SMT DEF CancelReceive
  <1>23. ASSUME NEW p \in ReceiveTasks, TimeoutReceive(p) PROVE FinalizedInv'
    BY <1>23, SMT DEF TimeoutReceive
  <1>24. ASSUME NEW p \in ReceiveTasks, CompleteReceive(p) PROVE FinalizedInv'
    <2>1. CASE ~ CanCompleteInbound(db["receiver"])
      BY <1>24, <2>1, SMT DEF CompleteReceive
    <2>2. CASE CanCompleteInbound(db["receiver"])
      <3>1. /\ db'["receiver"].outbound = db["receiver"].outbound /\ db'["receiver"].inbound = "absent"
            /\ db'["receiver"].completed = "live"
        BY <1>24, <2>2, CompleteInboundFields, SMT DEF CompleteReceive
      <3> QED
        BY <1>24, <2>2, <3>1, SMT DEF CompleteReceive
    <2> QED
      BY <2>1, <2>2
  <1>25. ASSUME NEW p \in ReceiveTasks, ExpireRow("receiver", p) PROVE FinalizedInv'
    BY <1>25, SMT DEF ExpireRow, SetCancelled
  <1>26. ASSUME NEW p \in ReceiveTasks, ExpireOutputs("receiver", p) PROVE FinalizedInv'
    BY <1>26, SMT DEF ExpireOutputs, CanRelease, Release
  <1>27. ASSUME NEW p \in ReceiveTasks, ResendReply(p) PROVE FinalizedInv'
    BY <1>27, SMT DEF ResendReply, Transmit, Copies
  <1>28. ASSUME NEW w \in Wallets, ServiceRelease(w) PROVE FinalizedInv'
    BY <1>28, SMT DEF ServiceRelease, CanRelease, Release
  <1>29. ASSUME NEW w \in Wallets, ServiceSignal(w) PROVE FinalizedInv'
    BY <1>29, SMT DEF ServiceSignal
  <1>30. ASSUME NEW w \in Wallets, CancelByUser(w) PROVE FinalizedInv'
    BY <1>30, SMT DEF CancelByUser, StartCancel, SetCancelled
  <1>31. ASSUME NEW w \in Wallets, Expire(w) PROVE FinalizedInv'
    BY <1>31, SMT DEF Expire
  <1>32. ASSUME NEW w \in Wallets, Crash(w) PROVE FinalizedInv'
    BY <1>32, SMT DEF Crash
  <1>33. ASSUME NEW w \in Wallets, NEW p \in Tasks(w), TakeResult(w, p) PROVE FinalizedInv'
    BY <1>33, SMT DEF TakeResult
  <1>34. ASSUME ServiceReinstate PROVE FinalizedInv'
    BY <1>34, SMT DEF ServiceReinstate, Spawn
  <1>35. ASSUME SendTransaction PROVE FinalizedInv'
    BY <1>35, SMT DEF SendTransaction, Spawn
  <1>36. ASSUME RestartSend PROVE FinalizedInv'
    BY <1>36, SMT DEF RestartSend, Spawn
  <1>37. ASSUME RestartReceive PROVE FinalizedInv'
    BY <1>37, SMT DEF RestartReceive, Spawn
  <1>38. ASSUME NEW m \in Message, ResendFinalized(m, FALSE) PROVE FinalizedInv'
    BY <1>38, SMT DEF ResendFinalized, Transmit, Copies, Rest
  <1>39. ASSUME NEW m \in Message, AnswerCancelled(m) PROVE FinalizedInv'
    BY <1>39, SMT DEF AnswerCancelled, NotifyCancelled, Copies, CancelledRoutes, Rest, IncrementSendCount
  <1>40. ASSUME NEW m \in Message, ForwardReply(m) PROVE FinalizedInv'
    BY <1>40, SMT DEF ForwardReply, Forward, Rest
  <1>41. ASSUME NEW m \in Message, AcceptTransaction(m) PROVE FinalizedInv'
    BY <1>41, SMT DEF AcceptTransaction, Spawn, Transmit, Copies, Rest
  <1>42. ASSUME NEW m \in Message, AcceptFinalized(m) PROVE FinalizedInv'
    BY <1>42, SMT DEF AcceptFinalized, Forward, Rest, SetCancelled
  <1>43. ASSUME NEW m \in Message, AcceptCancelled(m) PROVE FinalizedInv'
    BY <1>43, SMT DEF AcceptCancelled, StartCancel, Rest, SetCancelled
  <1>44. ASSUME NEW m \in Message, Lose(m) PROVE FinalizedInv'
    BY <1>44, SMT DEF Lose
  <1>45. CASE UNCHANGED vars
    BY <1>45 DEF vars
  <1> HIDE DEF TypeOK, Wallets, Tasks, Goto, At, Running, Idle, Ended
  <1> HIDE DEF Db, RowState, TransactionExists, CanAddOutbound, CanAddInbound, CanCompleteOutbound,
    CanCompleteInbound, CanSetCancelled, CanIncrementSendCount
  <1> HIDE DEF omsVars, channelVars, envVars, FinalizedInv, SenderInv
  <1> QED
    BY <1>1, <1>2, <1>3, <1>4, <1>5, <1>6, <1>7, <1>8, <1>9, <1>10, <1>11, <1>12, <1>13, <1>14, <1>15,
       <1>16, <1>17, <1>18, <1>19, <1>20, <1>21, <1>22, <1>23, <1>24, <1>25, <1>26, <1>27, <1>28, <1>29,
       <1>30, <1>31, <1>32, <1>33, <1>34, <1>35, <1>36, <1>37, <1>38, <1>39, <1>40, <1>41, <1>42, <1>43,
       <1>44, <1>45, ZenonT(30)
       DEF Next, SendStep, ReceiveStep, ServiceStep, Deliver, AcceptReply, Wallets

\* One step preserves ReceiverInv.
LEMMA ReceiverStep ==
    ASSUME NobodyAssumption, TypeOK, ReceiverInv, [Next]_vars
    PROVE  ReceiverInv'
  <1> USE DEF TypeOK, Wallets, Tasks, Goto, At, Running, Idle, Ended
  <1> USE DEF Db, RowState, TransactionExists, CanAddOutbound, CanAddInbound, CanCompleteOutbound,
    CanCompleteInbound, CanSetCancelled, CanIncrementSendCount
  <1> USE DEF omsVars, channelVars, envVars, ReceiverInv, Fresh, NobodyAssumption
  <1>1. ASSUME NEW p \in ReceiveTasks, CheckRepeated(p) PROVE ReceiverInv'
    BY <1>1, SMT DEF CheckRepeated
  <1>2. ASSUME NEW p \in ReceiveTasks, GetRecipientTransaction(p) PROVE ReceiverInv'
    BY <1>2, SMT DEF GetRecipientTransaction
  <1>3. ASSUME NEW p \in ReceiveTasks, StoreInbound(p) PROVE ReceiverInv'
    BY <1>3, SMT DEF StoreInbound, AddInbound
  <1>4. ASSUME NEW p \in ReceiveTasks, SendReply(p) PROVE ReceiverInv'
    BY <1>4, SMT DEF SendReply, Transmit, Copies
  <1>5. ASSUME NEW p \in ReceiveTasks, CountSend("receiver", p) PROVE ReceiverInv'
    BY <1>5, SMT DEF CountSend, IncrementSendCount
  <1>6. ASSUME NEW p \in ReceiveTasks, LoadInbound(p) PROVE ReceiverInv'
    BY <1>6, SMT DEF LoadInbound
  <1>7. ASSUME NEW p \in ReceiveTasks, TakeFinalized(p) PROVE ReceiverInv'
    BY <1>7, SMT DEF TakeFinalized
  <1>8. ASSUME NEW p \in ReceiveTasks, CancelReceive(p) PROVE ReceiverInv'
    BY <1>8, SMT DEF CancelReceive
  <1>9. ASSUME NEW p \in ReceiveTasks, TimeoutReceive(p) PROVE ReceiverInv'
    BY <1>9, SMT DEF TimeoutReceive
  <1>10. ASSUME NEW p \in ReceiveTasks, CompleteReceive(p) PROVE ReceiverInv'
    <2>1. CASE ~ CanCompleteInbound(db["receiver"])
      BY <1>10, <2>1, SMT DEF CompleteReceive
    <2>2. CASE CanCompleteInbound(db["receiver"])
      <3>1. /\ db'["receiver"].outbound = db["receiver"].outbound /\ db'["receiver"].inbound = "absent"
            /\ db'["receiver"].completed = "live"
        BY <1>10, <2>2, CompleteInboundFields, SMT DEF CompleteReceive
      <3> QED
        BY <1>10, <2>2, <3>1, SMT DEF CompleteReceive
    <2> QED
      BY <2>1, <2>2
  <1>11. ASSUME NEW p \in ReceiveTasks, ExpireRow("receiver", p) PROVE ReceiverInv'
    BY <1>11, SMT DEF ExpireRow, SetCancelled
  <1>12. ASSUME NEW p \in ReceiveTasks, ExpireOutputs("receiver", p) PROVE ReceiverInv'
    BY <1>12, SMT DEF ExpireOutputs, CanRelease, Release
  <1>13. ASSUME NEW p \in ReceiveTasks, ResendReply(p) PROVE ReceiverInv'
    BY <1>13, SMT DEF ResendReply, Transmit, Copies
  <1>14. ASSUME NEW w \in Wallets, ServiceRelease(w) PROVE ReceiverInv'
    BY <1>14, SMT DEF ServiceRelease, CanRelease, Release
  <1>15. ASSUME NEW w \in Wallets, ServiceSignal(w) PROVE ReceiverInv'
    BY <1>15, SMT DEF ServiceSignal
  <1>16. ASSUME NEW w \in Wallets, CancelByUser(w) PROVE ReceiverInv'
    BY <1>16, SMT DEF CancelByUser, StartCancel, SetCancelled
  <1>17. ASSUME NEW w \in Wallets, Expire(w) PROVE ReceiverInv'
    BY <1>17, SMT DEF Expire
  <1>18. ASSUME NEW w \in Wallets, Crash(w) PROVE ReceiverInv'
    BY <1>18, SMT DEF Crash
  <1>19. ASSUME NEW w \in Wallets, NEW p \in Tasks(w), TakeResult(w, p) PROVE ReceiverInv'
    BY <1>19, SMT DEF TakeResult
  <1>20. ASSUME ServiceReinstate PROVE ReceiverInv'
    BY <1>20, SMT DEF ServiceReinstate, Spawn
  <1>21. ASSUME SendTransaction PROVE ReceiverInv'
    BY <1>21, SMT DEF SendTransaction, Spawn
  <1>22. ASSUME RestartSend PROVE ReceiverInv'
    BY <1>22, SMT DEF RestartSend, Spawn
  <1>23. ASSUME RestartReceive PROVE ReceiverInv'
    BY <1>23, SMT DEF RestartReceive, Spawn
  <1>24. ASSUME NEW m \in Message, ResendFinalized(m, FALSE) PROVE ReceiverInv'
    BY <1>24, SMT DEF ResendFinalized, Transmit, Copies, Rest
  <1>25. ASSUME NEW m \in Message, AnswerCancelled(m) PROVE ReceiverInv'
    BY <1>25, SMT DEF AnswerCancelled, NotifyCancelled, Copies, CancelledRoutes, Rest, IncrementSendCount
  <1>26. ASSUME NEW m \in Message, ForwardReply(m) PROVE ReceiverInv'
    BY <1>26, SMT DEF ForwardReply, Forward, Rest
  <1>27. ASSUME NEW m \in Message, AcceptTransaction(m) PROVE ReceiverInv'
    BY <1>27, SMT DEF AcceptTransaction, Spawn, Transmit, Copies, Rest
  <1>28. ASSUME NEW m \in Message, AcceptFinalized(m) PROVE ReceiverInv'
    BY <1>28, SMT DEF AcceptFinalized, Forward, Rest, SetCancelled
  <1>29. ASSUME NEW m \in Message, AcceptCancelled(m) PROVE ReceiverInv'
    BY <1>29, SMT DEF AcceptCancelled, StartCancel, Rest, SetCancelled
  <1>30. ASSUME NEW m \in Message, Lose(m) PROVE ReceiverInv'
    BY <1>30, SMT DEF Lose
  <1>31. ASSUME NEW p \in SendTasks, SendStep(p) \/ ResendTransaction(p) PROVE ReceiverInv'
    BY <1>31, SendStepKeeps, SMT
  <1>32. CASE UNCHANGED vars
    BY <1>32 DEF vars
  <1> HIDE DEF TypeOK, Wallets, Tasks, Goto, At, Running, Idle, Ended
  <1> HIDE DEF Db, RowState, TransactionExists, CanAddOutbound, CanAddInbound, CanCompleteOutbound,
    CanCompleteInbound, CanSetCancelled, CanIncrementSendCount
  <1> HIDE DEF omsVars, channelVars, envVars, ReceiverInv, Fresh, NobodyAssumption
  <1> QED
    BY <1>1, <1>2, <1>3, <1>4, <1>5, <1>6, <1>7, <1>8, <1>9, <1>10, <1>11, <1>12, <1>13, <1>14, <1>15,
       <1>16, <1>17, <1>18, <1>19, <1>20, <1>21, <1>22, <1>23, <1>24, <1>25, <1>26, <1>27, <1>28, <1>29,
       <1>30, <1>31, <1>32, ZenonT(30)
       DEF Next, ReceiveStep, ServiceStep, Deliver, AcceptReply, Wallets

\* One step preserves ReceiverReleases.
LEMMA ReceiverReleasesStep ==
    ASSUME TypeOK, ReceiverInv, ReceiverReleases, [Next]_vars
    PROVE  ReceiverReleases'
  <1> USE DEF TypeOK, Wallets, Tasks, Goto, At, Running, Idle, Ended
  <1> USE DEF Db, RowState, TransactionExists, CanAddOutbound, CanAddInbound, CanCompleteOutbound,
    CanCompleteInbound, CanSetCancelled, CanIncrementSendCount
  <1> USE DEF omsVars, channelVars, envVars, ReceiverInv, ReceiverReleases, Fresh
  <1>1. ASSUME NEW p \in ReceiveTasks, CheckRepeated(p) PROVE ReceiverReleases'
    BY <1>1, SMT DEF CheckRepeated
  <1>2. ASSUME NEW p \in ReceiveTasks, GetRecipientTransaction(p) PROVE ReceiverReleases'
    BY <1>2, SMT DEF GetRecipientTransaction
  <1>3. ASSUME NEW p \in ReceiveTasks, StoreInbound(p) PROVE ReceiverReleases'
    BY <1>3, SMT DEF StoreInbound, AddInbound
  <1>4. ASSUME NEW p \in ReceiveTasks, SendReply(p) PROVE ReceiverReleases'
    BY <1>4, SMT DEF SendReply, Transmit, Copies
  <1>5. ASSUME NEW p \in ReceiveTasks, CountSend("receiver", p) PROVE ReceiverReleases'
    BY <1>5, SMT DEF CountSend, IncrementSendCount
  <1>6. ASSUME NEW p \in ReceiveTasks, LoadInbound(p) PROVE ReceiverReleases'
    BY <1>6, SMT DEF LoadInbound
  <1>7. ASSUME NEW p \in ReceiveTasks, TakeFinalized(p) PROVE ReceiverReleases'
    BY <1>7, SMT DEF TakeFinalized
  <1>8. ASSUME NEW p \in ReceiveTasks, CancelReceive(p) PROVE ReceiverReleases'
    BY <1>8, SMT DEF CancelReceive
  <1>9. ASSUME NEW p \in ReceiveTasks, TimeoutReceive(p) PROVE ReceiverReleases'
    BY <1>9, SMT DEF TimeoutReceive
  <1>10. ASSUME NEW p \in ReceiveTasks, CompleteReceive(p) PROVE ReceiverReleases'
    <2>1. CASE ~ CanCompleteInbound(db["receiver"])
      BY <1>10, <2>1, SMT DEF CompleteReceive
    <2>2. CASE CanCompleteInbound(db["receiver"])
      <3>1. /\ db'["receiver"].outbound = db["receiver"].outbound /\ db'["receiver"].inbound = "absent"
            /\ db'["receiver"].completed = "live"
        BY <1>10, <2>2, CompleteInboundFields, SMT DEF CompleteReceive
      <3> QED
        BY <1>10, <2>2, <3>1, SMT DEF CompleteReceive
    <2> QED
      BY <2>1, <2>2
  <1>11. ASSUME NEW p \in ReceiveTasks, ExpireRow("receiver", p) PROVE ReceiverReleases'
    BY <1>11, SMT DEF ExpireRow, SetCancelled
  <1>12. ASSUME NEW p \in ReceiveTasks, ExpireOutputs("receiver", p) PROVE ReceiverReleases'
    BY <1>12, SMT DEF ExpireOutputs, CanRelease, Release
  <1>13. ASSUME NEW p \in ReceiveTasks, ResendReply(p) PROVE ReceiverReleases'
    BY <1>13, SMT DEF ResendReply, Transmit, Copies
  <1>14. ASSUME NEW w \in Wallets, ServiceRelease(w) PROVE ReceiverReleases'
    BY <1>14, SMT DEF ServiceRelease, CanRelease, Release
  <1>15. ASSUME NEW w \in Wallets, ServiceSignal(w) PROVE ReceiverReleases'
    BY <1>15, SMT DEF ServiceSignal
  <1>16. ASSUME NEW w \in Wallets, CancelByUser(w) PROVE ReceiverReleases'
    BY <1>16, SMT DEF CancelByUser, StartCancel, SetCancelled
  <1>17. ASSUME NEW w \in Wallets, Expire(w) PROVE ReceiverReleases'
    BY <1>17, SMT DEF Expire
  <1>18. ASSUME NEW w \in Wallets, Crash(w) PROVE ReceiverReleases'
    BY <1>18, SMT DEF Crash
  <1>19. ASSUME NEW w \in Wallets, NEW p \in Tasks(w), TakeResult(w, p) PROVE ReceiverReleases'
    BY <1>19, SMT DEF TakeResult
  <1>20. ASSUME ServiceReinstate PROVE ReceiverReleases'
    BY <1>20, SMT DEF ServiceReinstate, Spawn
  <1>21. ASSUME SendTransaction PROVE ReceiverReleases'
    BY <1>21, SMT DEF SendTransaction, Spawn
  <1>22. ASSUME RestartSend PROVE ReceiverReleases'
    BY <1>22, SMT DEF RestartSend, Spawn
  <1>23. ASSUME RestartReceive PROVE ReceiverReleases'
    BY <1>23, SMT DEF RestartReceive, Spawn
  <1>24. ASSUME NEW m \in Message, ResendFinalized(m, FALSE) PROVE ReceiverReleases'
    BY <1>24, SMT DEF ResendFinalized, Transmit, Copies, Rest
  <1>25. ASSUME NEW m \in Message, AnswerCancelled(m) PROVE ReceiverReleases'
    BY <1>25, SMT DEF AnswerCancelled, NotifyCancelled, Copies, CancelledRoutes, Rest, IncrementSendCount
  <1>26. ASSUME NEW m \in Message, ForwardReply(m) PROVE ReceiverReleases'
    BY <1>26, SMT DEF ForwardReply, Forward, Rest
  <1>27. ASSUME NEW m \in Message, AcceptTransaction(m) PROVE ReceiverReleases'
    BY <1>27, SMT DEF AcceptTransaction, Spawn, Transmit, Copies, Rest
  <1>28. ASSUME NEW m \in Message, AcceptFinalized(m) PROVE ReceiverReleases'
    BY <1>28, SMT DEF AcceptFinalized, Forward, Rest, SetCancelled
  <1>29. ASSUME NEW m \in Message, AcceptCancelled(m) PROVE ReceiverReleases'
    BY <1>29, SMT DEF AcceptCancelled, StartCancel, Rest, SetCancelled
  <1>30. ASSUME NEW m \in Message, Lose(m) PROVE ReceiverReleases'
    BY <1>30, SMT DEF Lose
  <1>31. ASSUME NEW p \in SendTasks, SendStep(p) \/ ResendTransaction(p) PROVE ReceiverReleases'
    BY <1>31, SendStepKeeps, SMT
  <1>32. CASE UNCHANGED vars
    BY <1>32 DEF vars
  <1> HIDE DEF TypeOK, Wallets, Tasks, Goto, At, Running, Idle, Ended
  <1> HIDE DEF Db, RowState, TransactionExists, CanAddOutbound, CanAddInbound, CanCompleteOutbound,
    CanCompleteInbound, CanSetCancelled, CanIncrementSendCount
  <1> HIDE DEF omsVars, channelVars, envVars, ReceiverInv, ReceiverReleases, Fresh
  <1> QED
    BY <1>1, <1>2, <1>3, <1>4, <1>5, <1>6, <1>7, <1>8, <1>9, <1>10, <1>11, <1>12, <1>13, <1>14, <1>15,
       <1>16, <1>17, <1>18, <1>19, <1>20, <1>21, <1>22, <1>23, <1>24, <1>25, <1>26, <1>27, <1>28, <1>29,
       <1>30, <1>31, <1>32, ZenonT(30)
       DEF Next, ReceiveStep, ServiceStep, Deliver, AcceptReply, Wallets

-----------------------------------------------------------------------------
(***************************************************************************)
(* The inductive invariant and what follows from it.                       *)
(***************************************************************************)
Assumptions == BoundsAssumption /\ RoutesAssumption /\ NobodyAssumption

Inv == TypeOK /\ SenderInv /\ SenderReleases /\ FinalizedInv /\ ReceiverInv /\ ReceiverReleases

\* The invariant holds at first.
LEMMA InvInit ==
    ASSUME BoundsAssumption, Init
    PROVE  Inv
  <1> USE DEF Init, Wallets, Tasks, EmptyDb
  <1>1. TypeOK
    BY SMT DEF BoundsAssumption, TypeOK, Db, RowState
  <1>2. SenderInv /\ SenderReleases
    BY SMT DEF SenderInv, SenderReleases, At, Confirmed
  <1>3. FinalizedInv
    BY SMT DEF FinalizedInv, At
  <1>4. ReceiverInv /\ ReceiverReleases
    BY SMT DEF ReceiverInv, ReceiverReleases, Fresh, At
  <1> QED
    BY <1>1, <1>2, <1>3, <1>4 DEF Inv

\* The invariant of every behaviour of the two wallets.
LEMMA Invariant == Assumptions /\ Spec => []Inv
  <1> SUFFICES ASSUME Assumptions PROVE Spec => []Inv
    OBVIOUS
  <1>1. Init => Inv
    BY InvInit DEF Assumptions
  <1>2. Inv /\ [Next]_vars => Inv'
    BY TypeStep, SenderStep, SenderReleasesStep, FinalizedStep, ReceiverStep, ReceiverReleasesStep
       DEF Assumptions, Inv
  <1> QED
    BY <1>1, <1>2, PTL DEF Spec

\* Whatever tasks run beside each other, whatever the network loses, repeats or
\* reorders, and however often a wallet crashes, a sender that completed the
\* transaction has not given its inputs back (complete_outbound_transaction against
\* cancel_pending_transaction and timeout_transaction).
THEOREM CompletedKeepsFunds == Assumptions /\ Spec => []CompletedFundsKept
  <1>1. Inv => CompletedFundsKept
    BY DEF Inv, SenderInv, CompletedFundsKept
  <1> QED
    BY <1>1, Invariant, PTL

\* A receiver completes only what the sender completed, in the same generality: a
\* finalized message, its copy in a task's channel and the reinstated negotiation
\* all follow the sender's database (accept_finalized_transaction).
THEOREM FollowsSender == Assumptions /\ Spec => []ReceiverFollowsSender
  <1>1. Inv => ReceiverFollowsSender
    BY DEF Inv, FinalizedInv, ReceiverFollowsSender
  <1> QED
    BY <1>1, Invariant, PTL

\* Unless a wallet crashes, the sender's output manager agrees with its tables
\* whenever no handler and no task is between the two (cancel_pending_transaction,
\* timeout_transaction).
THEOREM SenderAgrees == Assumptions /\ Spec => []SenderDatabasesAgree
  <1>1. Inv => SenderDatabasesAgree
    BY SMT DEF Inv, TypeOK, SenderInv, SenderReleases, SenderDatabasesAgree, Settled, Idle, Tasks
  <1> QED
    BY <1>1, Invariant, PTL

\* Unless a wallet crashes, the receiver's output manager is asked for one output
\* only, however often the sender's message is repeated (accept_transaction).
THEOREM OneOutput == Assumptions /\ Spec => []OneOutputExpected
  <1>1. Inv => OneOutputExpected
    BY SMT DEF Inv, TypeOK, ReceiverInv, OneOutputExpected
  <1> QED
    BY <1>1, Invariant, PTL

\* Unless a wallet crashes or the receiver's timeout passes, the receiver's output
\* manager agrees with its tables whenever no handler and no task is between the
\* two, the reinstatement of a cancelled negotiation included
\* (accept_finalized_transaction).
THEOREM ReceiverAgrees ==
    Assumptions /\ Spec => []ReceiverDatabasesAgree
  <1>1. Inv => ReceiverDatabasesAgree
    BY SMT DEF Inv, ReceiverReleases, ReceiverDatabasesAgree, Settled, Idle, Tasks
  <1> QED
    BY <1>1, Invariant, PTL
=============================================================================
