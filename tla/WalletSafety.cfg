SPECIFICATION WalletSpec
CONSTANTS
  Scenarios = {"reserved", "reorgs", "htlc", "overlap", "recovery", "races", "receiver", "crashing", "broadcasts", "coinbase", "agrees"}
  a = a c = c p = p htlc = htlc t = t u = u NoTx = NoTx n1 = n1 n2 = n2 o1 = o1 o2 = o2 o3 = o3
  SendTasks = {s1} ReceiveTasks = {r1} Routes = {"direct"} Cancellers = {"sender", "receiver"} Expiring = {"sender"}
  MaxCrashes = 0 MaxOutputs = 1
  s1 = s1 r1 = r1 r2 = r2 Nobody = Nobody t1 = t1 f1 = f1 c1 = c1 c2 = c2
INVARIANTS
  
  ValidationAgrees
  
  CompletedFundsKept
  SenderDatabasesAgree
  OneOutputExpected
  ReceiverFollowsSender
  
CHECK_DEADLOCK FALSE
