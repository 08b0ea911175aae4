---------------------------- MODULE BaseNodeSync ----------------------------
(***************************************************************************)
(* How a base node follows the network: the state machine of               *)
(* base_node/state_machine_service, the header synchroniser and the block  *)
(* synchroniser it runs, the RPC service of the peer they read from, and   *)
(* the blocks that other tasks add in the meantime.                        *)
(*                                                                         *)
(* The database is reduced to what these parts read of it.  A header chain *)
(* and a block chain are named by their last block; `orphans` are the full *)
(* blocks that are in neither.  An operation that holds the write lock is  *)
(* one step here; module BlockchainDatabase has its steps.  The network    *)
(* awaits of the synchronisers are steps of their own, and the local reads *)
(* on either side of one belong to the step they precede.                  *)
(***************************************************************************)
EXTENDS ChainTree, Sequences, FiniteSets

CONSTANTS
    Peer,               \* the nodes this node receives chain metadata from
    FirstTip,           \* the best block of each peer at the start
    StartTip,           \* the best block of this node at the start
    Difficulty,         \* total_accumulated_difficulty of a header
    ForcedSyncPeers,    \* config.forced_sync_peers
    PeerPrunedHeight,   \* pruned_height of each peer's chain metadata
    PruningHorizon,     \* this node's pruning horizon, 0 for an archival node
    BlocksBehind,       \* config.blocks_behind_before_considered_lagging
    InitialHeaders,     \* NUM_INITIAL_HEADERS_TO_REQUEST
    CommitEvery,        \* COMMIT_EVERY_N_HEADERS
    MaxSplitSearch,     \* MAX_CHAIN_SPLIT_ITERS * NUM_CHAIN_SPLIT_HEADERS
    Propagated,         \* bound: the valid blocks that reach add_block
    PeerBlocks,         \* bound: the valid blocks that may become a peer's best block
    MaxRequests,        \* bound: add_block calls waiting for the lock
    MaxFailures         \* bound: network failures

(* What an instance must satisfy: the chain strength comparer looks at the
   accumulated difficulty first. *)
SyncAssumption ==
    /\ Difficulty \in [Block -> Nat \ {0}]
    /\ \A a, b \in Block : Difficulty[a] < Difficulty[b] => Strength[a] < Strength[b]
    /\ FirstTip \in [Peer -> HeaderValid]
    /\ StartTip \in HeaderValid \cap BodyValid
    /\ Propagated \cup PeerBlocks \subseteq HeaderValid \cap BodyValid
    /\ ForcedSyncPeers \subseteq Peer
    /\ PeerPrunedHeight \in [Peer -> Nat]
    /\ {PruningHorizon, BlocksBehind, MaxRequests, MaxFailures} \subseteq Nat
    /\ {InitialHeaders, CommitEvery, MaxSplitSearch} \subseteq Nat \ {0}

VARIABLES
    lastHeader, best, prunedHeight, orphans, badBlocks,     \* the database
    addBlockDisabled, requests,                             \* disable_add_block_flag; calls past it
    offered,        \* the blocks that have reached add_block, each once
    state,          \* BaseNodeState
    isSynced,       \* Listening::is_synced
    betterBlock,    \* time_since_better_block: none, some, or some that has elapsed
    peerTip, claim, \* each peer's best block, and the one in its last ping or pong
    banned,
    failures

VARIABLES
    step,           \* where the synchroniser is
    syncPeers,      \* sync_peers: Lagging names one peer
    claimed,        \* claimed_chain_metadata of that peer
    localMeta,      \* local_metadata when the node fell behind
    localTip,       \* attempt_sync: local_tip_header
    split,          \* ChainSplitInfo: chain_split_hash
    stepsBack,      \* ChainSplitInfo: reorg_steps_back
    pending,        \* header_validator.valid_headers
    validated,      \* header_validator.previous_header
    full,           \* the peer sent as many headers as were asked for
    switched,       \* has_switched_to_new_chain
    received,       \* last_total_accumulated_difficulty
    cursor, end,    \* the next and the last height of the peer's stream
    prevBlock,      \* synchronize_blocks: prev_hash
    endBlock,       \* synchronize_blocks: tip_hash
    return          \* commit_pending_headers: where to continue

VARIABLES
    peak,           \* history: the strongest block that was ever best
    raced           \* history: a block was added while the node was syncing

db == <<lastHeader, best, prunedHeight, orphans, badBlocks>>
headerLocals == <<localTip, split, stepsBack, pending, validated, full, switched, received, return>>
streamLocals == <<cursor, end, prevBlock, endBlock>>
syncLocals == <<step, syncPeers, claimed, localMeta, headerLocals, streamLocals>>
machine == <<state, isSynced, betterBlock, addBlockDisabled>>
network == <<peerTip, claim, banned, failures>>
queue == <<requests, offered>>
history == <<peak, raced>>
vars == <<db, machine, queue, network, syncLocals, history>>

-----------------------------------------------------------------------------
(* Chains.  ChainOf[b] is AncestorsOf[b] with b itself, as a recursive function:
   TLC evaluates it in every instance, and least closed sets would be slow. *)

ChainOf[b \in Block] == {b} \cup (IF Linked(b) THEN ChainOf[Parent[b]] ELSE {})
At(b, h) == CHOOSE a \in ChainOf[b] : Height[a] = h
Segment(b, from, to) == [i \in 1 .. to - from + 1 |-> At(b, from + i - 1)]
Least(a, b) == IF a < b THEN a ELSE b
MinusSat(a, b) == IF a > b THEN a - b ELSE 0
Strongest(B) == CHOOSE b \in B : \A c \in B : Strength[c] <= Strength[b]

(* Mutant: only the headers are rewound. *)
RewindHeadersOnly(b) ==
    /\ lastHeader' = b
    /\ best' = best
    /\ orphans' = orphans

(* rewind_to_hash: the headers above the block go, and the blocks above it
   become orphans. *)
RewindTo(b) ==
    /\ lastHeader' = b
    /\ best' = IF Height[best] > Height[b] THEN b ELSE best
    /\ orphans' = orphans \cup (ChainOf[best] \ ChainOf[b])

(* swap_to_highest_pow_chain over the orphans of pool *)
SwapToHighestPow(pool) ==
    LET forks == {t \in pool : ChainOf[t] \subseteq pool \cup ChainOf[best]}
        tip == Strongest(forks \cup {best})
        new == IF Strength[tip] > Strength[best] THEN tip ELSE best
    IN /\ best' = new
       /\ lastHeader' = new
       /\ orphans' = (pool \cup ChainOf[best]) \ ChainOf[new]

Syncing == state \in {"HeaderSync", "DecideNextSync", "HorizonStateSync", "BlockSync"}

Remember == peak' = Strongest({peak, best'})

-----------------------------------------------------------------------------
(* add_block, on another task.  The flag is read before the lock is taken.
   Blocks that fail validation leave the chain alone and are left out. *)

AddBlockCall(b) ==
    /\ ~addBlockDisabled
    /\ b \notin offered
    /\ Cardinality(requests) < MaxRequests
    /\ requests' = requests \cup {b}
    /\ offered' = offered \cup {b}
    /\ UNCHANGED <<db, machine, network, syncLocals, history>>

AddBlock(b) ==
    /\ b \in requests
    /\ requests' = requests \ {b}
    /\ IF b \in ChainOf[lastHeader]
       THEN UNCHANGED <<lastHeader, best, orphans>>
       ELSE SwapToHighestPow(orphans \cup {b})
    /\ raced' = (raced \/ Syncing)
    /\ Remember
    /\ UNCHANGED <<offered, prunedHeight, badBlocks, machine, network, syncLocals>>

-----------------------------------------------------------------------------
(* The peers and their pings *)

(* A peer's own chain only changes for a stronger one. *)
PeerAdvances(p, b) ==
    /\ Strength[b] > Strength[peerTip[p]]
    /\ peerTip' = [peerTip EXCEPT ![p] = b]
    /\ UNCHANGED <<db, machine, queue, claim, banned, failures, syncLocals, history>>

(* update_liveness_chain_metadata on the peer, and its next ping or pong *)
PeerPings(p) ==
    /\ claim[p] # peerTip[p]
    /\ claim' = [claim EXCEPT ![p] = peerTip[p]]
    /\ UNCHANGED <<db, machine, queue, peerTip, banned, failures, syncLocals, history>>

BanExpires(p) ==
    /\ p \in banned
    /\ banned' = banned \ {p}
    /\ UNCHANGED <<db, machine, queue, peerTip, claim, failures, syncLocals, history>>

-----------------------------------------------------------------------------
(* Transitions of the state machine *)

DropLocals ==
    /\ step' = "none" /\ syncPeers' = {} /\ claimed' = Genesis /\ localMeta' = Genesis
    /\ localTip' = Genesis /\ split' = Genesis /\ stepsBack' = 0
    /\ pending' = <<>> /\ validated' = Genesis /\ full' = FALSE /\ switched' = FALSE
    /\ received' = 0 /\ return' = "none"
    /\ cursor' = 0 /\ end' = 0 /\ prevBlock' = Genesis /\ endBlock' = Genesis

(* Every way out of a sync clears disable_add_block_flag. *)
ToListening(synced) ==
    /\ state' = "Listening"
    /\ isSynced' = synced
    /\ betterBlock' = "none"
    /\ addBlockDisabled' = FALSE
    /\ DropLocals

ToWaiting ==
    /\ state' = "Waiting"
    /\ isSynced' = FALSE
    /\ addBlockDisabled' = FALSE
    /\ DropLocals
    /\ UNCHANGED betterBlock

Initialized ==
    /\ state = "Starting"
    /\ ToListening(FALSE)
    /\ UNCHANGED <<db, queue, network, history>>

WaitingOver ==
    /\ state = "Waiting"
    /\ state' = "Listening"
    /\ betterBlock' = "none"
    /\ UNCHANGED <<db, queue, isSynced, addBlockDisabled, network, syncLocals, history>>

(* The interrupt signal, or a FatalError *)
ToShutdown ==
    /\ state # "Shutdown"
    /\ state' = "Shutdown"
    /\ DropLocals
    /\ UNCHANGED <<db, queue, isSynced, betterBlock, addBlockDisabled, network, history>>

-----------------------------------------------------------------------------
(* Listening *)

(* Three ping rounds in which no peer was left to ping *)
NetworkSilence ==
    /\ state = "Listening"
    /\ ~isSynced
    /\ isSynced' = TRUE
    /\ UNCHANGED <<db, queue, state, betterBlock, addBlockDisabled, network, syncLocals, history>>

Lagging(c) ==
    /\ Difficulty[best] < Difficulty[c]
    /\ ~ (/\ Height[best] + BlocksBehind > Height[c]
          /\ Height[best] < Height[c] + BlocksBehind)

Heard(p) ==
    /\ state = "Listening"
    /\ p \notin banned
    /\ ForcedSyncPeers # {} => p \in ForcedSyncPeers

OneBlockBehind(p) ==
    /\ isSynced
    /\ Height[claim[p]] = Height[best] + 1
    /\ betterBlock # "elapsed"

WaitForPropagation(p) ==
    /\ Heard(p)
    /\ OneBlockBehind(p)
    /\ betterBlock = "none"
    /\ betterBlock' = "some"
    /\ UNCHANGED <<db, queue, state, isSynced, addBlockDisabled, network, syncLocals, history>>

WaitPeriodElapses ==
    /\ state = "Listening"
    /\ betterBlock = "some"
    /\ betterBlock' = "elapsed"
    /\ UNCHANGED <<db, queue, state, isSynced, addBlockDisabled, network, syncLocals, history>>

UpToDate(p) ==
    /\ Heard(p)
    /\ ~OneBlockBehind(p)
    /\ ~Lagging(claim[p])
    /\ isSynced' = TRUE
    /\ betterBlock' = "none"
    /\ UNCHANGED <<db, queue, state, addBlockDisabled, network, syncLocals, history>>

FallenBehind(p) ==
    /\ Heard(p)
    /\ ~OneBlockBehind(p)
    /\ Lagging(claim[p])
    /\ state' = "HeaderSync"
    /\ addBlockDisabled' = TRUE
    /\ isSynced' = FALSE
    /\ betterBlock' = "none"
    /\ step' = "connect"
    /\ syncPeers' = {p}
    /\ claimed' = claim[p]
    /\ localMeta' = best
    /\ UNCHANGED <<db, queue, network, headerLocals, streamLocals, history>>

-----------------------------------------------------------------------------
(* HeaderSync.  There is one sync peer, so a failure with it is a failure
   with all of them: SyncFailedAllPeers continues to Listening, a latency
   that is too high waits. *)

HeaderSync(s) == state = "HeaderSync" /\ step = s
SyncPeer == CHOOSE p \in syncPeers : TRUE
SyncPeerTip == peerTip[SyncPeer]

HeaderSyncContinues ==
    /\ ToListening(FALSE)
    /\ UNCHANGED <<db, queue, peerTip, claim, history>>

NetworkFailure ==
    /\ failures < MaxFailures
    /\ failures' = failures + 1

(* A dial, a handshake, a request or a stream that fails; a header that
   cannot be decoded. *)
HeaderSyncBreaks ==
    /\ state = "HeaderSync"
    /\ step \in {"connect", "split", "request", "stream"}
    /\ NetworkFailure
    /\ HeaderSyncContinues
    /\ UNCHANGED banned

(* MaxLatencyExceeded and ReplyTimeout *)
HeaderSyncTooSlow ==
    /\ state = "HeaderSync"
    /\ step \in {"connect", "split", "request", "stream"}
    /\ NetworkFailure
    /\ ToWaiting
    /\ UNCHANGED <<db, queue, peerTip, claim, banned, history>>

(* ban_peer_long and ban_peer_short: forced sync peers are exempt. *)
Ban == banned' = banned \cup (syncPeers \ ForcedSyncPeers)

HeaderSyncBans ==
    /\ Ban
    /\ HeaderSyncContinues
    /\ UNCHANGED failures

HandshakeTimesOut ==
    /\ HeaderSync("connect")
    /\ NetworkFailure
    /\ Ban
    /\ HeaderSyncContinues

HeadersSynchronized ==
    /\ state' = "DecideNextSync"
    /\ step' = "none"
    /\ UNCHANGED <<isSynced, betterBlock, addBlockDisabled, syncPeers, claimed, localMeta>>

(* attempt_sync reads the local tip once, before the peer is asked. *)
Connect ==
    /\ HeaderSync("connect")
    /\ step' = "split"
    /\ localTip' = lastHeader
    /\ UNCHANGED <<db, machine, queue, network, syncPeers, claimed, localMeta, streamLocals, history>>
    /\ UNCHANGED <<split, stepsBack, pending, validated, full, switched, received, return>>

(* find_chain_split: the hashes of the header chain, tip first, until one
   is on the peer's chain; and the headers the peer has after it. *)
ChainSplit == At(lastHeader, CHOOSE h \in 0 .. Height[lastHeader] :
                  /\ At(lastHeader, h) \in ChainOf[SyncPeerTip]
                  /\ \A a \in ChainOf[lastHeader] \cap ChainOf[SyncPeerTip] : Height[a] <= h)
StepsBack == Height[lastHeader] - Height[ChainSplit]
(* Mutant: the split header is sent again. *)
HeadersFrom(b) ==
    Segment(SyncPeerTip, Height[b], Least(Height[b] + InitialHeaders, Height[SyncPeerTip]))
HeadersAfter(b) ==
    Segment(SyncPeerTip, Height[b] + 1, Least(Height[b] + InitialHeaders, Height[SyncPeerTip]))

Validates(h, previous) == h \in HeaderValid \ badBlocks /\ Parent[h] = previous
Elements(s) == {s[i] : i \in DOMAIN s}
Final(s) == s[Len(s)]

(* ChainSplitNotFound, or a first header that fails validation *)
SplitRejected ==
    /\ HeaderSync("split")
    /\ \/ StepsBack >= MaxSplitSearch
       \/ ~ Elements(HeadersAfter(ChainSplit)) \subseteq HeaderValid \ badBlocks
    /\ HeaderSyncBans

(* SyncStatus::InSync and WereAhead.  The node entered header sync because
   its difficulty was below the claimed one. *)
AlreadyInSync ==
    /\ HeaderSync("split")
    /\ StepsBack < MaxSplitSearch
    /\ HeadersAfter(ChainSplit) = <<>>
    /\ \/ Height[best] < Height[localTip]
       \/ Difficulty[localMeta] <= Difficulty[claimed]
    /\ HeadersSynchronized
    /\ UNCHANGED <<db, queue, network, headerLocals, streamLocals, history>>

(* SyncStatus::Lagging *)
SplitFound ==
    /\ HeaderSync("split")
    /\ StepsBack < MaxSplitSearch
    /\ LET headers == HeadersAfter(ChainSplit)
       IN /\ headers # <<>>
          /\ Elements(headers) \subseteq HeaderValid \ badBlocks
          /\ pending' = headers
          /\ validated' = Final(headers)
          /\ full' = (Len(headers) = InitialHeaders)
    /\ split' = ChainSplit
    /\ stepsBack' = StepsBack
    /\ step' = "begin"
    /\ UNCHANGED <<db, machine, queue, network, syncPeers, claimed, localMeta, streamLocals, history>>
    /\ UNCHANGED <<localTip, switched, received, return>>

(* pending_chain_has_higher_pow, on the tip read by attempt_sync *)
HigherPow(h) == Strength[h] >= Strength[localTip]

Goto(s) ==
    /\ step' = s
    /\ UNCHANGED <<db, machine, queue, network, syncPeers, claimed, localMeta, history>>

(* switch_to_pending_chain rewinds first when the chains have diverged. *)
SwitchStep == IF stepsBack > 0 THEN "rewind" ELSE "commit"

BeginSwitch ==
    /\ HeaderSync("begin")
    /\ HigherPow(Final(pending))
    /\ Goto(SwitchStep)
    /\ return' = "begin"
    /\ UNCHANGED <<localTip, split, stepsBack, pending, validated, full, switched, received, streamLocals>>

(* The peer has no more headers and those it has are weaker. *)
BeginTooWeak ==
    /\ HeaderSync("begin")
    /\ ~HigherPow(Final(pending))
    /\ ~full
    /\ HeaderSyncBans

BeginStream ==
    /\ HeaderSync("begin")
    /\ ~HigherPow(Final(pending))
    /\ full
    /\ Goto("request")
    /\ UNCHANGED <<headerLocals, streamLocals>>

(* rewind_blockchain fails when the split is no longer on the main chain. *)
Rewind ==
    /\ HeaderSync("rewind")
    /\ split \in ChainOf[lastHeader]
    /\ RewindTo(split)
    /\ step' = "commit"
    /\ UNCHANGED <<prunedHeight, badBlocks, machine, queue, network, syncPeers, claimed, localMeta>>
    /\ UNCHANGED <<headerLocals, streamLocals, history>>

RewindFails ==
    /\ HeaderSync("rewind")
    /\ split \notin ChainOf[lastHeader]
    /\ HeaderSyncContinues
    /\ UNCHANGED <<banned, failures>>

(* insert_header succeeds on top of the last header only. *)
CommitsOn(h) == Parent[h] = lastHeader

(* The step after commit_pending_headers: the first switch is over when the
   peer sent fewer headers than asked for. *)
AfterCommit ==
    \/ return = "begin" /\ full /\ step' = "request" /\ UNCHANGED <<machine, syncPeers, claimed, localMeta>>
    \/ return = "begin" /\ ~full /\ HeadersSynchronized
    \/ return # "begin" /\ step' = "stream" /\ UNCHANGED <<machine, syncPeers, claimed, localMeta>>

CommitPendingHeaders ==
    /\ HeaderSync("commit")
    /\ CommitsOn(pending[1])
    /\ lastHeader' = Final(pending)
    /\ pending' = <<>>
    /\ switched' = TRUE
    /\ return' = "none"
    /\ AfterCommit
    /\ UNCHANGED <<best, prunedHeight, orphans, badBlocks, queue, network, history, streamLocals>>
    /\ UNCHANGED <<localTip, split, stepsBack, validated, full, received>>

CommitFails ==
    /\ HeaderSync("commit")
    /\ ~CommitsOn(pending[1])
    /\ HeaderSyncContinues
    /\ UNCHANGED <<banned, failures>>

(* sync_headers on the peer: the last height is fixed when it is asked. *)
RequestHeaders ==
    /\ HeaderSync("request")
    /\ validated \in ChainOf[SyncPeerTip]
    /\ Goto("stream")
    /\ cursor' = Height[validated] + 1
    /\ end' = Height[SyncPeerTip]
    /\ UNCHANGED <<headerLocals, prevBlock, endBlock>>

(* The peer no longer has the start header: RpcStatus::not_found *)
StartHeaderNotFound ==
    /\ HeaderSync("request")
    /\ validated \notin ChainOf[SyncPeerTip]
    /\ HeaderSyncContinues
    /\ UNCHANGED <<banned, failures>>

Streams == cursor <= Least(end, Height[SyncPeerTip])
Streamed == At(SyncPeerTip, cursor)

SkipKnownHeader ==
    /\ HeaderSync("stream")
    /\ Streams
    /\ Streamed \in ChainOf[lastHeader]
    /\ cursor' = cursor + 1
    /\ UNCHANGED <<db, machine, queue, network, history, step, syncPeers, claimed, localMeta>>
    /\ UNCHANGED <<headerLocals, end, prevBlock, endBlock>>

StreamHeader ==
    /\ HeaderSync("stream")
    /\ Streams
    /\ Streamed \notin ChainOf[lastHeader]
    /\ Validates(Streamed, validated)
    /\ pending' = Append(pending, Streamed)
    /\ validated' = Streamed
    /\ received' = Difficulty[Streamed]
    /\ cursor' = cursor + 1
    /\ LET commit == IF switched THEN Len(pending) + 1 >= CommitEvery ELSE HigherPow(Streamed)
       IN /\ Goto(IF ~commit THEN "stream" ELSE IF switched THEN "commit" ELSE SwitchStep)
          /\ return' = IF commit THEN "stream" ELSE "none"
    /\ UNCHANGED <<localTip, split, stepsBack, full, switched, end, prevBlock, endBlock>>

StreamRejected ==
    /\ HeaderSync("stream")
    /\ Streams
    /\ Streamed \notin ChainOf[lastHeader]
    /\ ~Validates(Streamed, validated)
    /\ HeaderSyncBans

(* The stream is over and the peer's chain never became stronger. *)
StreamEndsWeaker ==
    /\ HeaderSync("stream")
    /\ ~Streams
    /\ ~switched
    /\ Difficulty[claimed] >= Difficulty[validated]
    /\ HeadersSynchronized
    /\ UNCHANGED <<db, queue, network, headerLocals, streamLocals, history>>

StreamEndsUnclaimed ==
    /\ HeaderSync("stream")
    /\ ~Streams
    /\ ~switched
    /\ Difficulty[claimed] < Difficulty[validated]
    /\ HeaderSyncBans

CommitLastHeaders ==
    /\ HeaderSync("stream")
    /\ ~Streams
    /\ switched
    /\ pending # <<>>
    /\ Goto("commit")
    /\ return' = "end"
    /\ UNCHANGED <<localTip, split, stepsBack, pending, validated, full, switched, received, streamLocals>>

(* "if the peer advertised a higher PoW than they were able to provide" *)
ClaimMet == received >= Difficulty[claimed]

StreamEnds ==
    /\ HeaderSync("stream")
    /\ ~Streams
    /\ switched
    /\ pending = <<>>
    /\ ClaimMet
    /\ HeadersSynchronized
    /\ UNCHANGED <<db, queue, network, headerLocals, streamLocals, history>>

StreamEndsShort ==
    /\ HeaderSync("stream")
    /\ ~Streams
    /\ switched
    /\ pending = <<>>
    /\ ~ClaimMet
    /\ HeaderSyncBans

-----------------------------------------------------------------------------
(* DecideNextSync and HorizonStateSync *)

HorizonHeight == IF PruningHorizon = 0 THEN 0 ELSE MinusSat(Height[lastHeader], PruningHorizon)

(* The peers that can serve what is missing *)
SuitablePeers ==
    {p \in syncPeers : IF PruningHorizon > 0
                       THEN Height[claimed] >= HorizonHeight
                       ELSE PeerPrunedHeight[p] <= Height[best]}

Proceed(next) ==
    /\ state' = next
    /\ step' = "start"
    /\ UNCHANGED <<queue, isSynced, betterBlock, addBlockDisabled, network>>
    /\ UNCHANGED <<claimed, localMeta, headerLocals, streamLocals>>

DecideNextSync ==
    /\ state = "DecideNextSync"
    /\ SuitablePeers # {}
    /\ syncPeers' = SuitablePeers
    /\ Proceed(IF PruningHorizon > 0 THEN "HorizonStateSync" ELSE "BlockSync")
    /\ UNCHANGED <<db, history>>

NoSuitablePeer ==
    /\ state = "DecideNextSync"
    /\ SuitablePeers = {}
    /\ ToListening(FALSE)
    /\ UNCHANGED <<db, queue, network, history>>

HorizonReached == prunedHeight >= HorizonHeight \/ Height[best] >= HorizonHeight

HorizonAlreadySynchronized ==
    /\ state = "HorizonStateSync"
    /\ HorizonReached
    /\ Proceed("BlockSync")
    /\ UNCHANGED <<db, syncPeers, history>>

(* The kernels and outputs up to the horizon arrive; sync_peers has been
   taken out of the state by then. *)
HorizonStateSynchronized ==
    /\ state = "HorizonStateSync"
    /\ ~HorizonReached
    /\ best' = At(lastHeader, HorizonHeight)
    /\ prunedHeight' = HorizonHeight
    /\ Remember
    /\ syncPeers' = {}
    /\ Proceed("BlockSync")
    /\ UNCHANGED <<lastHeader, orphans, badBlocks, raced>>

HorizonStateSyncFailure ==
    /\ state = "HorizonStateSync"
    /\ ~HorizonReached
    /\ NetworkFailure
    /\ ToWaiting
    /\ UNCHANGED <<db, queue, peerTip, claim, banned, history>>

-----------------------------------------------------------------------------
(* BlockSync *)

BlockSync(s) == state = "BlockSync" /\ step = s

(* The synchroniser returned an error: the chain is reset next. *)
BlockSyncFails ==
    /\ step' = "swap"
    /\ UNCHANGED <<machine, queue, peerTip, claim, history>>
    /\ UNCHANGED <<syncPeers, claimed, localMeta, headerLocals, streamLocals>>

(* ban_peer of the block synchroniser: the peer is taken off the list first,
   and when it was the last one the error is returned before the ban. *)
BanFromBlockSync ==
    banned' = IF Cardinality(syncPeers) > 1 THEN banned \cup (syncPeers \ ForcedSyncPeers) ELSE banned

BlocksSynchronized ==
    /\ ToListening(TRUE)
    /\ UNCHANGED <<db, queue, network, history>>

NoSyncPeers ==
    /\ BlockSync("start")
    /\ syncPeers = {}
    /\ BlockSyncFails
    /\ UNCHANGED <<db, banned, failures>>

BlockSyncBreaks ==
    /\ state = "BlockSync"
    /\ step \in {"start", "blocks"}
    /\ syncPeers # {}
    /\ NetworkFailure
    /\ BlockSyncFails
    /\ UNCHANGED <<db, banned>>

BlocksAlreadySynchronized ==
    /\ BlockSync("start")
    /\ syncPeers # {}
    /\ Height[lastHeader] <= Height[best]
    /\ BlocksSynchronized

(* sync_blocks on the peer: the best block must be one of its blocks, and
   the one above it not pruned.  With no block above it the stream is empty,
   otherwise the last header must be one of its blocks too. *)
PeerHasBlocks ==
    /\ best \in ChainOf[SyncPeerTip]
    /\ Height[best] + 1 >= PeerPrunedHeight[SyncPeer]
    /\ Height[best] < Height[SyncPeerTip] => lastHeader \in ChainOf[SyncPeerTip]

RequestBlocks ==
    /\ BlockSync("start")
    /\ syncPeers # {}
    /\ Height[lastHeader] > Height[best]
    /\ PeerHasBlocks
    /\ Goto("blocks")
    /\ prevBlock' = best
    /\ endBlock' = lastHeader
    /\ UNCHANGED <<headerLocals, cursor, end>>

BlocksNotFound ==
    /\ BlockSync("start")
    /\ syncPeers # {}
    /\ Height[lastHeader] > Height[best]
    /\ ~PeerHasBlocks
    /\ BlockSyncFails
    /\ UNCHANGED <<db, banned, failures>>

(* The next block of the peer's chain.  A reorg on the peer ends the stream
   at the next batch: the status that should say so is never sent. *)
NextBlockHeight == Height[prevBlock] + 1
BlocksRemain == NextBlockHeight <= Least(Height[endBlock], Height[SyncPeerTip])
NextBlock == At(SyncPeerTip, NextBlockHeight)

StreamBlock ==
    /\ BlockSync("blocks")
    /\ BlocksRemain
    /\ NextBlock \in ChainOf[lastHeader] \cap BodyValid
    /\ Parent[NextBlock] = prevBlock
    /\ best = prevBlock
    /\ best' = NextBlock
    /\ orphans' = orphans \ {NextBlock}
    /\ prevBlock' = NextBlock
    /\ Remember
    /\ UNCHANGED <<lastHeader, prunedHeight, badBlocks, machine, queue, network, raced>>
    /\ UNCHANGED <<step, syncPeers, claimed, localMeta, headerLocals, cursor, end, endBlock>>

(* A block that does not follow the last one, or whose previous block is no
   longer the best block *)
BlockOutOfPlace ==
    /\ BlockSync("blocks")
    /\ BlocksRemain
    /\ NextBlock \in ChainOf[lastHeader]
    /\ \/ Parent[NextBlock] # prevBlock
       \/ NextBlock \in BodyValid /\ best # prevBlock
    /\ BlockSyncFails
    /\ UNCHANGED <<db, banned, failures>>

(* ProtocolViolation: "block header we do not have" *)
UnknownBlock ==
    /\ BlockSync("blocks")
    /\ BlocksRemain
    /\ NextBlock \notin ChainOf[lastHeader]
    /\ BanFromBlockSync
    /\ BlockSyncFails
    /\ UNCHANGED <<db, failures>>

(* A body that fails validation is remembered; when its merkle roots or
   sizes do not match, clear_all_pending_headers runs too. *)
InvalidBody ==
    /\ BlockSync("blocks")
    /\ BlocksRemain
    /\ NextBlock \in ChainOf[lastHeader] \ BodyValid
    /\ Parent[NextBlock] = prevBlock
    /\ badBlocks' = badBlocks \cup {NextBlock}
    /\ orphans' = orphans \ {NextBlock}
    /\ lastHeader' \in {lastHeader, best}
    /\ BanFromBlockSync
    /\ BlockSyncFails
    /\ UNCHANGED <<best, prunedHeight, failures>>

BlockStreamEnds ==
    /\ BlockSync("blocks")
    /\ ~BlocksRemain \/ endBlock \notin ChainOf[SyncPeerTip]
    /\ BlocksSynchronized

(* Mutant: the headers are cleared and the blocks not reset. *)
FailWithoutReset ==
    /\ BlockSync("swap")
    /\ lastHeader' = best
    /\ ToWaiting
    /\ UNCHANGED <<best, orphans, prunedHeight, badBlocks, queue, network, history>>

(* The chain is reset to the highest proof of work, and the node waits. *)
BlockSyncFailed ==
    /\ BlockSync("swap")
    /\ SwapToHighestPow(orphans)
    /\ Remember
    /\ ToWaiting
    /\ UNCHANGED <<prunedHeight, badBlocks, queue, network, raced>>

-----------------------------------------------------------------------------
(* The process stops and starts again; what is committed stays. *)
Restart ==
    /\ state # "Shutdown"
    /\ NetworkFailure
    /\ state' = "Starting"
    /\ isSynced' = FALSE
    /\ betterBlock' = "none"
    /\ addBlockDisabled' = FALSE
    /\ requests' = {}
    /\ DropLocals
    /\ raced' = TRUE
    /\ UNCHANGED <<db, offered, peerTip, claim, banned, peak>>

-----------------------------------------------------------------------------
Init ==
    /\ lastHeader = StartTip /\ best = StartTip /\ prunedHeight = 0
    /\ orphans = {} /\ badBlocks = {}
    /\ addBlockDisabled = FALSE /\ requests = {} /\ offered = {}
    /\ state = "Starting" /\ isSynced = FALSE /\ betterBlock = "none"
    /\ peerTip = FirstTip /\ claim = [p \in Peer |-> Genesis] /\ banned = {} /\ failures = 0
    /\ step = "none" /\ syncPeers = {} /\ claimed = Genesis /\ localMeta = Genesis
    /\ localTip = Genesis /\ split = Genesis /\ stepsBack = 0 /\ pending = <<>>
    /\ validated = Genesis /\ full = FALSE /\ switched = FALSE /\ received = 0 /\ return = "none"
    /\ cursor = 0 /\ end = 0 /\ prevBlock = Genesis /\ endBlock = Genesis
    /\ peak = StartTip /\ raced = FALSE

HeaderSyncStep ==
    \/ HandshakeTimesOut \/ HeaderSyncBreaks \/ HeaderSyncTooSlow
    \/ Connect \/ SplitRejected \/ AlreadyInSync \/ SplitFound
    \/ BeginSwitch \/ BeginTooWeak \/ BeginStream
    \/ Rewind \/ RewindFails \/ CommitPendingHeaders \/ CommitFails
    \/ RequestHeaders \/ StartHeaderNotFound
    \/ SkipKnownHeader \/ StreamHeader \/ StreamRejected
    \/ StreamEndsWeaker \/ StreamEndsUnclaimed \/ CommitLastHeaders \/ StreamEnds \/ StreamEndsShort

BlockSyncStep ==
    \/ NoSyncPeers \/ BlockSyncBreaks \/ BlocksAlreadySynchronized
    \/ RequestBlocks \/ BlocksNotFound
    \/ StreamBlock \/ BlockOutOfPlace \/ UnknownBlock \/ InvalidBody \/ BlockStreamEnds
    \/ BlockSyncFailed

DecideStep ==
    \/ DecideNextSync \/ NoSuitablePeer
    \/ HorizonAlreadySynchronized \/ HorizonStateSynchronized \/ HorizonStateSyncFailure

(* The steps of the state machine that wait for nothing *)
MachineStep == Initialized \/ WaitingOver \/ HeaderSyncStep \/ DecideStep \/ BlockSyncStep

Hears(p) == WaitForPropagation(p) \/ UpToDate(p) \/ FallenBehind(p)

NodeNext ==
    \/ MachineStep
    \/ NetworkSilence \/ WaitPeriodElapses
    \/ \E p \in Peer : Hears(p)
    \/ \E b \in Propagated : AddBlockCall(b) \/ AddBlock(b)

NetworkNext ==
    \E p \in Peer : PeerPings(p) \/ BanExpires(p) \/ \E b \in PeerBlocks : PeerAdvances(p, b)

Next == NodeNext \/ NetworkNext
FaultyNext == Next \/ Restart \/ ToShutdown

Spec == Init /\ [][Next]_vars
-----------------------------------------------------------------------------
(* Fairness.  The state machine is one task whose loop always continues:
   network calls have deadlines and the waiting state a timer.  Pings go out
   in rounds, and the events wait in a channel while a sync runs, so that every
   peer is heard again and again; bans are for a time;
   the operations that wait for the write lock get it. *)
Fairness ==
    /\ WF_vars(MachineStep)
    /\ WF_vars(WaitPeriodElapses)
    /\ \A p \in Peer : SF_vars(Hears(p)) /\ WF_vars(PeerPings(p)) /\ WF_vars(BanExpires(p))
    /\ \A b \in Block : WF_vars(AddBlock(b))

FairSpec == Spec /\ Fairness

-----------------------------------------------------------------------------
TypeOK ==
    /\ {lastHeader, best, claimed, localMeta, localTip, split, validated, prevBlock, endBlock, peak} \subseteq Block
    /\ orphans \subseteq Block /\ badBlocks \subseteq Block /\ requests \subseteq offered /\ offered \subseteq Block
    /\ prunedHeight \in Nat /\ stepsBack \in Nat /\ received \in Nat /\ cursor \in Nat /\ end \in Nat
    /\ state \in {"Starting", "Listening", "HeaderSync", "DecideNextSync", "HorizonStateSync",
                  "BlockSync", "Waiting", "Shutdown"}
    /\ step \in {"none", "connect", "split", "begin", "rewind", "commit", "request", "stream",
                 "start", "blocks", "swap"}
    /\ return \in {"none", "begin", "stream", "end"}
    /\ betterBlock \in {"none", "some", "elapsed"}
    /\ {addBlockDisabled, isSynced, full, switched, raced} \subseteq BOOLEAN
    /\ peerTip \in [Peer -> Block] /\ claim \in [Peer -> Block]
    /\ banned \subseteq Peer /\ syncPeers \subseteq Peer
    /\ pending \in Seq(Block)
    /\ failures \in 0 .. MaxFailures

(* Blocks from the network are refused exactly while a sync runs: every way
   into a sync sets disable_add_block_flag and every way out of it (done,
   failed, too slow, no peer, nothing to do) clears it.  state_machine.rs
   does both in `transition`, one match arm at a time. *)
AddBlockDisabledWhileSyncing ==
    state # "Shutdown" => (addBlockDisabled <=> Syncing)

(* The best block is always on the stored header chain, whatever add_block
   calls that passed the flag in time do between two steps of a sync. *)
BestOnHeaderChain == best \in ChainOf[lastHeader]

(* When no sync runs, a node whose best block is weaker than one it had
   holds headers of a chain that is at least as strong as that one: header
   sync rewinds the blocks only to follow such headers, and a block sync
   that fails resets the chain.  Blocks added during the sync, and restarts,
   are excepted. *)
WeakerOnlyBelowStrongerHeaders ==
    ~Syncing /\ ~raced /\ Strength[best] < Strength[peak] => Strength[lastHeader] >= Strength[peak]

(* A node that hears from its peers ends on a chain that is no weaker than
   theirs, or one block behind, and stays there: network failures, bans and
   blocks added during the sync notwithstanding. *)
CaughtUpOrOneBehind ==
    \A p \in Peer : \/ Difficulty[best] >= Difficulty[peerTip[p]]
                    \/ Height[peerTip[p]] = Height[best] + 1
CatchesUpOrOneBehind == <>[]CaughtUpOrOneBehind

(* "The length of time to wait for a propagated block when one block behind
   before proceeding to sync" (listening.rs:58): a node that is one block
   behind and does not receive the block syncs after the wait. *)
CatchesUp == <>[](\A p \in Peer : Difficulty[best] >= Difficulty[peerTip[p]])

(* "if the peer advertised a higher PoW than they were able to provide ...
   we detect the and ban the peer" (header_sync/synchronizer.rs:743): after
   the switch a peer is banned only when the headers it provided fall short
   of the difficulty it claimed. *)
BansOnlyOverclaims ==
    [][HeaderSync("stream") /\ switched /\ ~Streams /\ banned' # banned
        => Difficulty[validated] < Difficulty[claimed]]_vars

(* "Check that the remote tip is stronger than the local tip"
   (header_sync/synchronizer.rs:789), before the local chain is rewound for
   it. *)
RewindsForStronger ==
    [][HeaderSync("rewind") /\ step' = "commit" => Strength[Final(pending)] > Strength[localTip]]_vars

(* "The forked chain has a higher PoW than the local chain"
   (header_sync/synchronizer.rs:811): the local chain is the one that is
   there when it is rewound.  An equally strong chain is let pass. *)
RewindsNoStrongerChain ==
    [][HeaderSync("rewind") /\ step' = "commit" => Strength[Final(pending)] >= Strength[lastHeader]]_vars

(* "If the reorg happens before the end height of sync we let the peer know
   that the chain they are syncing with has changed" (sync/rpc/service.rs:186):
   a block sync whose peer reorganised below the end of the request does not
   report that the blocks are synchronised. *)
ReorgEndsBlockSyncWithError ==
    [][BlockSync("blocks") /\ state' = "Listening" => endBlock \in ChainOf[SyncPeerTip]]_vars

(* "Longer ban period for potentially malicious infractions (protocol
   violations etc.)" (sync/config.rs:40), and "Banning peer because provided
   block failed validation" (block_sync/synchronizer.rs:177): the peer that
   sent an invalid body is banned unless it is a forced sync peer. *)
InvalidBodyBansPeer ==
    [][badBlocks' # badBlocks => syncPeers \subseteq banned' \cup ForcedSyncPeers]_vars
=============================================================================
