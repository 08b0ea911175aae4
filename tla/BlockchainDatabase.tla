------------------------- MODULE BlockchainDatabase -------------------------
(***************************************************************************)
(* The write side of base_layer/core/src/chain_storage: BlockchainDatabase *)
(* over its LMDB backend.                                                  *)
(*                                                                         *)
(* Every operation holds the RwLock's write half from its first to its     *)
(* last step, so at most one runs; `pc` names the point it has reached.    *)
(* A step is one committed LMDB transaction (DbTransaction) or a read-only *)
(* decision.  The process may stop between any two steps: what is          *)
(* committed stays, everything else is lost.                               *)
(***************************************************************************)
EXTENDS ChainTree, Sequences, FiniteSets

CONSTANTS
    OrphanStorageCapacity,  \* config.orphan_storage_capacity
    PruningHorizon,         \* config.pruning_horizon, 0 for an archival node
    PruningInterval,        \* config.pruning_interval
    PruneBatch,             \* heights pruned by one transaction of prune_to_height
    CleanupOrphansAtStartup,\* config.cleanup_orphans_at_startup
    LookBack,               \* ancestors read for the median timestamp and the difficulty window
    BadBlockKeep,           \* CLEAN_BAD_BLOCKS_BEFORE_REL_HEIGHT
    MaxRequests             \* bound: add_block calls waiting for the lock

ASSUME ConfigAssumption ==
    /\ OrphanStorageCapacity \in Nat
    /\ PruningHorizon \in Nat
    /\ PruningInterval \in Nat
    /\ PruneBatch \in Nat \ {0}
    /\ CleanupOrphansAtStartup \in BOOLEAN
    /\ LookBack \in Nat
    /\ BadBlockKeep \in Nat
    /\ MaxRequests \in Nat

VARIABLES
    headers,        \* headers_db and block_hashes_db: the stored headers
    lastHeader,     \* the row of headers_db with the highest key
    bestBlock,      \* metadata BestBlock and ChainHeight
    bodies,         \* headers whose height has a row in block_accumulated_data_db
    prunedHeight,   \* metadata PrunedHeight
    orphans,        \* orphans_db and orphan_parent_map_index
    accumulated,    \* keys of orphan_header_accumulated_data_db
    tips,           \* orphan_chain_tips_db
    badBlocks       \* bad_blocks

VARIABLES
    addBlockDisabled,   \* disable_add_block_flag
    requests,           \* add_block calls past the flag check that wait for the lock
    pc,                 \* the step the lock holder is at, "idle" when the lock is free
    caller,             \* the public operation that holds the lock
    candidate,          \* add_block: the block being added
    frontier,           \* find_orphan_descendant_tips_of: orphans still to visit
    newTips,            \* find_orphan_descendant_tips_of: its result so far
    target,             \* rewind_to_height: height
    pastHorizon,        \* rewind_to_height: prune_past_horizon
    purgeAt,            \* rewind_to_height: next height whose body is purged
    return,             \* rewind_to_height: where to continue
    rewound,            \* rewind_to_height: removed_blocks, tip first
    linkAt,             \* get_orphan_link_main_chain: curr_hash
    chain,              \* swap_to_highest_pow_chain: reorg_chain, lowest first
    applied,            \* reorganize_chain: how many blocks of chain are in place
    removed,            \* reorganize_chain: removed_blocks, tip first
    result,             \* outcome of the last operation
    start               \* history: the best block when the lock was taken

mainChain == <<headers, lastHeader, bestBlock, bodies>>
orphanPool == <<orphans, accumulated, tips>>
durable == <<mainChain, prunedHeight, orphanPool, badBlocks>>
insertLocals == <<candidate, frontier, newTips>>
rewindLocals == <<target, pastHorizon, purgeAt, return, rewound>>
reorgLocals == <<linkAt, chain, applied, removed>>
locals == <<insertLocals, rewindLocals, reorgLocals>>
vars == <<durable, addBlockDisabled, requests, pc, caller, locals, result, start>>

-----------------------------------------------------------------------------
(* Reading the database *)

BestHeight == Height[bestBlock]
MinusSat(a, b) == IF a > b THEN a - b ELSE 0
Elements(s) == {s[i] : i \in DOMAIN s}

(* fetch_chain_header_by_height *)
HeaderAt(h) == CHOOSE b \in headers : Height[b] = h

(* fetch_orphan_chain_block: the orphan together with its accumulated data. *)
OrphanChainBlock(b) == b \in orphans \cap accumulated

(* fetch_chain_header_in_all_chains: a stored header, with or without its
   body, or an orphan whose accumulated data is known. *)
InAllChains(b) == b \in headers \/ OrphanChainBlock(b)

(* The ancestors header validation walks over, for the median timestamp and
   for the target difficulty. *)
LookBackFound(b) ==
    \A a \in AncestorsOf[b] : Height[a] + LookBack >= Height[b] => InAllChains(a)

(* Mutant: only the list of bad blocks is consulted. *)
NotBad(b) == b \notin badBlocks

HeaderValidates(b) == b \in HeaderValid /\ b \notin badBlocks

(* fetch_all_orphan_chain_tips fails when a tip has no block or no data. *)
TipsReadable == \A t \in tips : OrphanChainBlock(t)

(* Mutant: the longest chain wins. *)
HigherThanBest(t) == Height[t] > BestHeight

(* chain_strength_comparer.compare(best_fork_header, tip_header) is Greater *)
StrongerThanBest(t) == Strength[t] > Strength[bestBlock]

StrongestTips == {t \in tips : \A u \in tips : Strength[u] <= Strength[t]}

(* ChainMetadata::horizon_block at the current tip *)
HorizonBlock == IF PruningHorizon = 0 THEN 0 ELSE MinusSat(BestHeight, PruningHorizon)

-----------------------------------------------------------------------------
(* LMDB operations.  An Ok operator is the condition under which all the
   operations of a transaction succeed; otherwise it is rolled back. *)

(* Mutant: the previous hash is not compared. *)
HasNextHeight(b) == Height[b] = Height[lastHeader] + 1

(* insert_header succeeds on top of the last header only. *)
ExtendsHeaders(b) == Height[b] = Height[lastHeader] + 1 /\ Parent[b] = lastHeader

(* insert_block_body needs the accumulated data of the previous block, and
   SetBestBlock the expected previous best block. *)
ExtendsBest(b) == Parent[b] = bestBlock /\ bestBlock \in bodies

(* insert_best_block: insert_header, insert_block_body and SetBestBlock *)
InsertBestOk(b) == ExtendsHeaders(b) /\ ExtendsBest(b)

InsertBest(B, top) ==
    /\ headers' = headers \cup B
    /\ bodies' = bodies \cup B
    /\ lastHeader' = top
    /\ bestBlock' = top

(* delete_header of the last header *)
DeleteLastHeader ==
    /\ headers' = headers \ {lastHeader}
    /\ lastHeader' = HeaderAt(Height[lastHeader] - 1)

(* delete_orphan of each block of D, lowest first.  A deleted tip hands its
   place to its parent when the parent is an orphan that stays. *)
HeirsOf(D) == {p \in orphans \ D : \E d \in D \cap orphans \cap tips : Parent[d] = p}
DeleteOrphansOk(D) ==
    /\ HeirsOf(D) \cap tips = {}
    /\ \A d, e \in D \cap orphans \cap tips : Parent[d] = Parent[e] /\ Parent[d] \in HeirsOf(D) => d = e

(* Mutants: only a tip is deleted from orphans_db; a deleted orphan stays a
   chain tip. *)
OrphansKept(D) == orphans \ (D \cap tips)
TipsKept(D) == tips

OrphansWithout(D) == orphans \ D
DataWithout(D) == accumulated \ (D \cap orphans)
TipsWithout(D) == (tips \ (D \cap orphans)) \cup HeirsOf(D)
DeleteOrphans(D) == orphans' = OrphansWithout(D) /\ accumulated' = DataWithout(D) /\ tips' = TipsWithout(D)

-----------------------------------------------------------------------------
(* Taking and releasing the write lock *)

(* Leaving rewind_to_height, and leaving the operation *)
DropRewindLocals ==
    target' = 0 /\ pastHorizon' = FALSE /\ purgeAt' = 0 /\ return' = "idle" /\ rewound' = <<>>

DropLocals ==
    /\ candidate' = Genesis /\ frontier' = {} /\ newTips' = {}
    /\ DropRewindLocals
    /\ linkAt' = Genesis /\ chain' = <<>> /\ applied' = 0 /\ removed' = <<>>

Unlock == pc' = "idle" /\ caller' = "none" /\ start' = Genesis /\ DropLocals

Acquire(operation, first) ==
    /\ pc = "idle"
    /\ caller' = operation
    /\ pc' = first
    /\ start' = bestBlock
    /\ result' = "none"

Goto(step) == pc' = step /\ UNCHANGED <<caller, result, start, addBlockDisabled, requests>>

Release(outcome) ==
    /\ Unlock
    /\ result' = outcome
    /\ UNCHANGED <<addBlockDisabled, requests>>

(* `?` and return Err(..): the lock is dropped with the guard.  A block that
   fails validation is told from the errors of the storage layer
   (ValueNotFound, KeyExists, InvalidOperation, InvalidQuery). *)
Reject == Release("ValidationError")
Fail == Release("StorageError")

-----------------------------------------------------------------------------
(* add_block *)

(* The flag is read before the lock is asked for. *)
AddBlockCall(b) ==
    /\ ~addBlockDisabled
    /\ b \notin requests
    /\ Cardinality(requests) < MaxRequests
    /\ requests' = requests \cup {b}
    /\ UNCHANGED <<durable, addBlockDisabled, pc, caller, locals, result, start>>

(* DbKey::BlockHash is found for pending headers too. *)
AddBlockReturnsEarly(b) ==
    /\ pc = "idle"
    /\ b \in requests
    /\ b \in headers \/ b \notin InternalValid
    /\ requests' = requests \ {b}
    /\ result' = IF b \in headers THEN "BlockExists" ELSE "ValidationError"
    /\ UNCHANGED <<durable, addBlockDisabled, pc, caller, locals, start>>

AddBlock(b) ==
    /\ b \in requests
    /\ b \in InternalValid \ headers
    /\ Acquire("add_block", "insert")
    /\ requests' = requests \ {b}
    /\ candidate' = b
    /\ UNCHANGED <<durable, addBlockDisabled, frontier, newTips, rewindLocals, reorgLocals>>

(* insert_orphan_and_find_new_tips, up to the header validation.  A parent
   that is a chain tip stops being one in a transaction of its own. *)
InsertSeenOrphan ==
    /\ pc = "insert"
    /\ candidate \in orphans
    /\ Goto("swap")
    /\ UNCHANGED <<durable, locals>>

ParentTipUnreadable ==
    /\ pc = "insert"
    /\ candidate \notin orphans
    /\ Parent[candidate] \in tips
    /\ ~OrphanChainBlock(Parent[candidate])
    /\ Fail
    /\ UNCHANGED durable

RemoveParentTip ==
    /\ pc = "insert"
    /\ candidate \notin orphans
    /\ Parent[candidate] \in tips
    /\ OrphanChainBlock(Parent[candidate])
    /\ tips' = tips \ {Parent[candidate]}
    /\ Goto("header")
    /\ UNCHANGED <<mainChain, prunedHeight, orphans, accumulated, badBlocks, locals>>

ParentInAllChains ==
    /\ pc = "insert"
    /\ candidate \notin orphans
    /\ Parent[candidate] \notin tips
    /\ InAllChains(Parent[candidate])
    /\ Goto("header")
    /\ UNCHANGED <<durable, locals>>

InsertTrueOrphan ==
    /\ pc = "insert"
    /\ candidate \notin orphans
    /\ Parent[candidate] \notin tips
    /\ ~InAllChains(Parent[candidate])
    /\ orphans' = orphans \cup {candidate}
    /\ Goto("swap")
    /\ UNCHANGED <<mainChain, prunedHeight, accumulated, tips, badBlocks, locals>>

(* Mutant: only the new block itself is returned as a tip. *)
OnlyCandidate(b) == IF b = candidate /\ Children(b) \cap orphans = {} THEN {b} ELSE {}

(* The end of the recursion of find_orphan_descendant_tips_of *)
LeafTip(b) == IF Children(b) \cap orphans = {} THEN {b} ELSE {}

InsertOrphan ==
    /\ pc = "header"
    /\ LookBackFound(candidate)
    /\ HeaderValidates(candidate)
    /\ candidate \notin accumulated
    /\ orphans' = orphans \cup {candidate}
    /\ accumulated' = accumulated \cup {candidate}
    /\ frontier' = Children(candidate) \cap orphans
    /\ newTips' = LeafTip(candidate)
    /\ Goto("find")
    /\ UNCHANGED <<mainChain, prunedHeight, tips, badBlocks, candidate, rewindLocals, reorgLocals>>

RejectHeader ==
    /\ pc = "header"
    /\ LookBackFound(candidate)
    /\ ~HeaderValidates(candidate)
    /\ Reject
    /\ UNCHANGED durable

InsertOrphanFails ==
    /\ pc = "header"
    /\ LookBackFound(candidate) => HeaderValidates(candidate) /\ candidate \in accumulated
    /\ Fail
    /\ UNCHANGED durable

(* find_orphan_descendant_tips_of.  The recursion visits the orphans below
   the new block; siblings are taken in any order. *)
VisitValidOrphan(c) ==
    /\ pc = "find"
    /\ c \in frontier
    /\ HeaderValidates(c)
    /\ c \notin accumulated
    /\ accumulated' = accumulated \cup {c}
    /\ frontier' = (frontier \ {c}) \cup (Children(c) \cap orphans)
    /\ newTips' = newTips \cup LeafTip(c)
    /\ Goto("find")
    /\ UNCHANGED <<mainChain, prunedHeight, orphans, tips, badBlocks, candidate, rewindLocals, reorgLocals>>

(* set_accumulated_data_for_orphan inserts with NOOVERWRITE. *)
VisitAccumulatedOrphan(c) ==
    /\ pc = "find"
    /\ c \in frontier
    /\ HeaderValidates(c)
    /\ c \in accumulated
    /\ Fail
    /\ UNCHANGED durable

DiscardInvalidOrphan(c) ==
    /\ pc = "find"
    /\ c \in frontier
    /\ ~HeaderValidates(c)
    /\ IF DeleteOrphansOk({c})
       THEN /\ DeleteOrphans({c})
            /\ frontier' = frontier \ {c}
            /\ Goto("find")
            /\ UNCHANGED <<candidate, newTips, rewindLocals, reorgLocals>>
       ELSE Fail /\ UNCHANGED orphanPool
    /\ UNCHANGED <<mainChain, prunedHeight, badBlocks>>

InsertNewTips ==
    /\ pc = "find"
    /\ frontier = {}
    /\ IF newTips \cap tips = {}
       THEN tips' = tips \cup newTips /\ Goto("swap") /\ UNCHANGED locals
       ELSE Fail /\ UNCHANGED tips
    /\ UNCHANGED <<mainChain, prunedHeight, orphans, accumulated, badBlocks>>

-----------------------------------------------------------------------------
(* rewind_to_height: the headers above both the best block and the target
   first, one transaction each, then whole blocks. *)

CallRewind(height, next) ==
    /\ pc' = "trim"
    /\ target' = height
    /\ return' = next
    /\ UNCHANGED <<pastHorizon, purgeAt, rewound, caller, start, addBlockDisabled, requests>>

ReturnRewind(blocks) ==
    IF return = "idle" THEN Release("Ok") ELSE
    /\ Goto(return)
    /\ DropRewindLocals
    /\ removed' = IF return = "apply" THEN blocks ELSE removed
    /\ UNCHANGED <<insertLocals, linkAt, chain, applied>>

TrimTo == IF BestHeight > target THEN BestHeight ELSE target

TrimHeader ==
    /\ pc = "trim"
    /\ Height[lastHeader] > TrimTo
    /\ lastHeader \notin bodies
    /\ DeleteLastHeader
    /\ Goto("trim")
    /\ UNCHANGED <<bestBlock, bodies, prunedHeight, orphanPool, badBlocks, locals>>

(* The height is in the future, or delete_header finds block accumulated data. *)
TrimFails ==
    /\ pc = "trim"
    /\ \/ Height[lastHeader] < TrimTo
       \/ Height[lastHeader] > TrimTo /\ lastHeader \in bodies
    /\ Fail
    /\ UNCHANGED durable

NoBlocksToRewind ==
    /\ pc = "trim"
    /\ Height[lastHeader] = TrimTo
    /\ BestHeight <= target
    /\ ReturnRewind(<<>>)
    /\ UNCHANGED durable

(* With nothing left above the pruned height the loop over whole blocks, which
   would move the best block, is skipped. *)
RewindBlocks ==
    /\ pc = "trim"
    /\ Height[lastHeader] = TrimTo
    /\ BestHeight > target
    /\ BestHeight >= prunedHeight
    /\ pastHorizon' = (PruningHorizon # 0 /\ BestHeight - target > BestHeight - prunedHeight)
    /\ purgeAt' = IF pastHorizon' THEN prunedHeight ELSE 0
    /\ Goto("rewind")
    /\ UNCHANGED <<durable, insertLocals, target, return, rewound, reorgLocals>>

RewindStop == IF pastHorizon THEN purgeAt ELSE target

(* delete_block, delete_header, insert_chained_orphan, set_best_block and, for
   the old tip, insert_orphan_chain_tip in one transaction *)
RewindBlockOk(b) ==
    /\ b \in bodies
    /\ rewound = <<>> => b \notin tips
    /\ ~pastHorizon /\ b \notin orphans => b \notin accumulated

RewoundBest ==
    IF pastHorizon /\ Height[lastHeader] = RewindStop + 1 THEN Genesis ELSE HeaderAt(Height[lastHeader] - 1)
RewoundOrphans == IF pastHorizon THEN orphans ELSE orphans \cup {lastHeader}
RewoundTips == IF rewound = <<>> THEN tips \cup {lastHeader} ELSE tips

RewindBlock ==
    /\ pc = "rewind"
    /\ Height[lastHeader] > RewindStop
    /\ RewindBlockOk(lastHeader)
    /\ DeleteLastHeader
    /\ bodies' = bodies \ {lastHeader}
    /\ bestBlock' = RewoundBest
    /\ orphans' = RewoundOrphans
    /\ accumulated' = IF pastHorizon \/ lastHeader \in orphans THEN accumulated ELSE accumulated \cup {lastHeader}
    /\ tips' = RewoundTips
    /\ rewound' = Append(rewound, lastHeader)
    /\ Goto("rewind")
    /\ UNCHANGED <<prunedHeight, badBlocks, insertLocals, target, pastHorizon, purgeAt, return, reorgLocals>>

RewindBlockFails ==
    /\ pc = "rewind"
    /\ Height[lastHeader] > RewindStop
    /\ ~RewindBlockOk(lastHeader)
    /\ Fail
    /\ UNCHANGED durable

RewindDone ==
    /\ pc = "rewind"
    /\ Height[lastHeader] <= RewindStop
    /\ IF pastHorizon THEN Goto("purge") /\ UNCHANGED locals ELSE ReturnRewind(rewound)
    /\ UNCHANGED durable

MoreToPurge == purgeAt > 0

(* The bodies at and below the pruned height go, one transaction each; their
   headers stay. *)
PurgeBody ==
    /\ pc = "purge"
    /\ MoreToPurge
    /\ HeaderAt(purgeAt) \in bodies
    /\ bodies' = bodies \ {HeaderAt(purgeAt)}
    /\ purgeAt' = purgeAt - 1
    /\ Goto("purge")
    /\ UNCHANGED <<headers, lastHeader, bestBlock, prunedHeight, orphanPool, badBlocks, insertLocals,
                   target, pastHorizon, return, rewound, reorgLocals>>

PurgeFails ==
    /\ pc = "purge"
    /\ MoreToPurge
    /\ HeaderAt(purgeAt) \notin bodies
    /\ Fail
    /\ UNCHANGED durable

PurgeDone ==
    /\ pc = "purge"
    /\ ~MoreToPurge
    /\ ReturnRewind(rewound)
    /\ UNCHANGED durable

-----------------------------------------------------------------------------
(* swap_to_highest_pow_chain and reorganize_chain *)

(* Pending headers are trimmed before the tips are compared. *)
SwapBegin ==
    /\ pc = "swap"
    /\ CallRewind(BestHeight, "select")
    /\ UNCHANGED <<durable, insertLocals, reorgLocals, result>>

(* The result of the swap: add_block prunes when the chain was modified, and
   always tidies the orphan pool; the public swap does neither. *)
SwapReturns(outcome) ==
    IF caller = "swap" THEN Release(outcome) ELSE
    /\ pc' = IF outcome = "OrphanBlock" THEN "cleanup" ELSE "prune"
    /\ result' = outcome
    /\ DropLocals
    /\ UNCHANGED <<caller, start, addBlockDisabled, requests>>

SelectUnreadable ==
    /\ pc = "select"
    /\ ~TipsReadable
    /\ Fail
    /\ UNCHANGED durable

SelectNone ==
    /\ pc = "select"
    /\ TipsReadable
    /\ \A t \in tips : ~StrongerThanBest(t)
    /\ SwapReturns("OrphanBlock")
    /\ UNCHANGED durable

SelectTip(t) ==
    /\ pc = "select"
    /\ TipsReadable
    /\ t \in StrongestTips
    /\ StrongerThanBest(t)
    /\ linkAt' = t
    /\ Goto("link")
    /\ UNCHANGED <<durable, insertLocals, rewindLocals, chain, applied, removed>>

(* get_orphan_link_main_chain, and rewind_to_hash of the fork block *)
LinkBlock ==
    /\ pc = "link"
    /\ OrphanChainBlock(linkAt)
    /\ chain' = <<linkAt>> \o chain
    /\ linkAt' = Parent[linkAt]
    /\ IF linkAt' \in headers
       THEN CallRewind(Height[linkAt'], "apply") /\ UNCHANGED result
       ELSE Goto("link") /\ UNCHANGED rewindLocals
    /\ UNCHANGED <<durable, insertLocals, applied, removed>>

LinkMissing ==
    /\ pc = "link"
    /\ ~OrphanChainBlock(linkAt)
    /\ Fail
    /\ UNCHANGED durable

(* Mutant: only the metadata of the block is validated. *)
BodyUnchecked(b) == Parent[b] = bestBlock /\ Height[b] = BestHeight + 1

(* validate_body_with_metadata *)
BodyValidates(b) == b \in BodyValid /\ Parent[b] = bestBlock /\ Height[b] = BestHeight + 1

(* The transaction of one block: delete_orphan and insert_best_block *)
ApplyOk(b) == InsertBestOk(b) /\ DeleteOrphansOk({b})

ApplyBlock ==
    /\ pc = "apply"
    /\ applied < Len(chain)
    /\ LET b == chain[applied + 1] IN
       /\ BodyValidates(b)
       /\ ApplyOk(b)
       /\ DeleteOrphans({b})
       /\ InsertBest({b}, b)
    /\ applied' = applied + 1
    /\ Goto("apply")
    /\ UNCHANGED <<prunedHeight, badBlocks, insertLocals, rewindLocals, linkAt, chain, removed>>

(* restore_reorged_chain rewinds to the fork again; the error is returned
   once the previous chain is back. *)
RestoreAfter(error) ==
    /\ CallRewind(Height[linkAt], "restore")
    /\ result' = error
    /\ UNCHANGED <<insertLocals, reorgLocals>>

ApplyWriteFails ==
    /\ pc = "apply"
    /\ applied < Len(chain)
    /\ BodyValidates(chain[applied + 1])
    /\ ~ApplyOk(chain[applied + 1])
    /\ RestoreAfter("StorageError")
    /\ UNCHANGED durable

(* Only the block that fails leaves the orphan pool. *)
ApplyInvalid ==
    /\ pc = "apply"
    /\ applied < Len(chain)
    /\ LET b == chain[applied + 1] IN
       /\ ~BodyValidates(b)
       /\ IF DeleteOrphansOk({b})
          THEN DeleteOrphans({b}) /\ RestoreAfter("ValidationError")
          ELSE Fail /\ UNCHANGED orphanPool
    /\ UNCHANGED <<mainChain, prunedHeight, badBlocks>>

ApplyDone ==
    /\ pc = "apply"
    /\ applied = Len(chain)
    /\ SwapReturns(IF removed = <<>> /\ Len(chain) = 1 THEN "Ok" ELSE "ChainReorg")
    /\ UNCHANGED durable

(* restore_reorged_chain: one transaction for all the removed blocks *)
RestoreOk ==
    /\ InsertBestOk(removed[Len(removed)])
    /\ DeleteOrphansOk(Elements(removed))

Restore ==
    /\ pc = "restore"
    /\ removed # <<>> => RestoreOk
    /\ IF removed = <<>>
       THEN UNCHANGED <<mainChain, orphanPool>>
       ELSE DeleteOrphans(Elements(removed)) /\ InsertBest(Elements(removed), removed[1])
    /\ Release(result)
    /\ UNCHANGED <<prunedHeight, badBlocks>>

RestoreFails ==
    /\ pc = "restore"
    /\ removed # <<>>
    /\ ~RestoreOk
    /\ Fail
    /\ UNCHANGED durable

-----------------------------------------------------------------------------
(* The end of add_block: prune_database_if_needed and cleanup_orphans *)

(* Mutant: one block of the horizon is pruned. *)
PruneIntoHorizon == MinusSat(BestHeight, PruningHorizon) + 1

PruneTarget == MinusSat(BestHeight, PruningHorizon)
PruneNeeded == PruningHorizon # 0 /\ prunedHeight < MinusSat(PruneTarget, PruningInterval)

PruneNotNeeded ==
    /\ pc = "prune"
    /\ ~PruneNeeded
    /\ Goto("cleanup")
    /\ UNCHANGED <<durable, locals>>

PruneStart ==
    /\ pc = "prune"
    /\ PruneNeeded
    /\ target' = PruneTarget
    /\ Goto("pruning")
    /\ UNCHANGED <<durable, insertLocals, pastHorizon, purgeAt, return, rewound, reorgLocals>>

(* The heights of the next transaction of prune_to_height, the last pruned
   one included: its deleted bitmap is where the differences start. *)
PruneUpTo == IF prunedHeight + PruneBatch < target THEN prunedHeight + PruneBatch ELSE target
PruneReadable == \A h \in prunedHeight .. PruneUpTo : HeaderAt(h) \in bodies

PruneBlocks ==
    /\ pc = "pruning"
    /\ IF PruneReadable
       THEN /\ prunedHeight' = PruneUpTo
            /\ target' = IF PruneUpTo = target THEN 0 ELSE target
            /\ Goto(IF PruneUpTo = target THEN "cleanup" ELSE "pruning")
            /\ UNCHANGED <<insertLocals, pastHorizon, purgeAt, return, rewound, reorgLocals>>
       ELSE Fail /\ UNCHANGED prunedHeight
    /\ UNCHANGED <<mainChain, orphanPool, badBlocks>>

(* delete_oldest_orphans: nothing while the pool is within its capacity,
   otherwise the lowest orphans, the excess or everything at or below the
   horizon, whichever is more.  Orphans of one height come in hash order. *)
OldestOrphans(capacity) ==
    LET excess == MinusSat(Cardinality(orphans), capacity)
        belowHorizon == Cardinality({o \in orphans : Height[o] <= HorizonBlock})
        size == IF belowHorizon > excess THEN belowHorizon ELSE excess
    IN IF excess = 0 THEN {{}}
       ELSE {D \in SUBSET orphans :
                Cardinality(D) = size /\ \A d \in D, o \in orphans \ D : Height[d] <= Height[o]}

CleanupOrphans(D) ==
    IF DeleteOrphansOk(D) THEN DeleteOrphans(D) ELSE UNCHANGED orphanPool

Cleanup ==
    /\ pc = "cleanup"
    /\ \E D \in OldestOrphans(OrphanStorageCapacity) : CleanupOrphans(D)
    /\ Release(result)
    /\ UNCHANGED <<mainChain, prunedHeight, badBlocks>>

-----------------------------------------------------------------------------
(* The process stops, and BlockchainDatabase::new runs again. *)

Restart ==
    /\ Unlock
    /\ result' = "none"
    /\ requests' = {}
    /\ addBlockDisabled' = FALSE
    /\ IF CleanupOrphansAtStartup
       THEN \E D \in OldestOrphans(0) : CleanupOrphans(D)
       ELSE UNCHANGED orphanPool
    /\ UNCHANGED <<mainChain, prunedHeight, badBlocks>>

Crash == Restart

(* metadata.height_of_longest_chain() - metadata.pruned_height() underflows:
   the release profile has overflow-checks = true and panic = "abort". *)
RewindUnderflows ==
    /\ pc = "trim"
    /\ Height[lastHeader] = TrimTo
    /\ BestHeight > target
    /\ BestHeight < prunedHeight
    /\ Restart

-----------------------------------------------------------------------------
(* What the synchronisers and the node's commands do to the database, each
   under the lock for one transaction unless it rewinds or swaps *)

SetDisableAddBlock(flag) ==
    /\ addBlockDisabled # flag
    /\ addBlockDisabled' = flag
    /\ UNCHANGED <<durable, requests, pc, caller, locals, result, start>>

(* One transaction of a synchroniser leaves the lock free. *)
Committed == pc = "idle" /\ UNCHANGED <<addBlockDisabled, requests, pc, caller, locals, result, start>>

(* insert_headers of one header of a validated batch *)
InsertHeader(b) ==
    /\ Committed
    /\ ExtendsHeaders(b)
    /\ HeaderValidates(b)
    /\ headers' = headers \cup {b}
    /\ lastHeader' = b
    /\ UNCHANGED <<bestBlock, bodies, prunedHeight, orphanPool, badBlocks>>

(* synchronize_blocks, a block that validates: delete_orphan,
   insert_block_body and set_best_block *)
InsertSyncedBlock(b) ==
    /\ Committed
    /\ b \in headers \ bodies
    /\ ExtendsBest(b)
    /\ b \in BodyValid
    /\ DeleteOrphansOk({b})
    /\ DeleteOrphans({b})
    /\ bodies' = bodies \cup {b}
    /\ bestBlock' = b
    /\ UNCHANGED <<headers, lastHeader, prunedHeight, badBlocks>>

(* insert_bad_block_and_cleanup *)
BadBlocksKept(bad) ==
    LET before == MinusSat(BestHeight, BadBlockKeep)
    IN {b \in bad : Height[b] >= before}

(* synchronize_blocks, a block that does not validate *)
InsertBadBlock(b) ==
    /\ Committed
    /\ b \in headers \ bodies
    /\ Parent[b] = bestBlock
    /\ b \notin BodyValid
    /\ DeleteOrphansOk({b})
    /\ DeleteOrphans({b})
    /\ badBlocks' = BadBlocksKept(badBlocks \cup {b})
    /\ UNCHANGED <<mainChain, prunedHeight>>

(* One transaction, so nothing happens when a header cannot be deleted. *)
PendingHeaders == {h \in headers : Height[h] > BestHeight}

ClearAllPendingHeaders ==
    /\ Committed
    /\ PendingHeaders # {}
    /\ PendingHeaders \cap bodies = {}
    /\ headers' = headers \ PendingHeaders
    /\ lastHeader' = HeaderAt(BestHeight)
    /\ UNCHANGED <<bestBlock, bodies, prunedHeight, orphanPool, badBlocks>>

StartRewind(operation, h) ==
    /\ Acquire(operation, "trim")
    /\ target' = h
    /\ UNCHANGED <<durable, addBlockDisabled, requests, insertLocals, pastHorizon, purgeAt, return, rewound, reorgLocals>>

RewindToHeight(h) == StartRewind("rewind_to_height", h)
RewindToHash(b) == b \in headers /\ StartRewind("rewind_to_hash", Height[b])

SwapToHighestPowChain ==
    /\ Acquire("swap", "swap")
    /\ UNCHANGED <<durable, addBlockDisabled, requests, locals>>

CleanupOrphanPool ==
    /\ Committed
    /\ \E D \in OldestOrphans(OrphanStorageCapacity) : D # {} /\ CleanupOrphans(D)
    /\ UNCHANGED <<mainChain, prunedHeight, badBlocks>>

-----------------------------------------------------------------------------
Init ==
    /\ headers = {Genesis} /\ lastHeader = Genesis /\ bestBlock = Genesis /\ bodies = {Genesis}
    /\ prunedHeight = 0
    /\ orphans = {} /\ accumulated = {} /\ tips = {}
    /\ badBlocks = {}
    /\ addBlockDisabled = FALSE
    /\ requests = {}
    /\ pc = "idle" /\ caller = "none" /\ start = Genesis
    /\ candidate = Genesis /\ frontier = {} /\ newTips = {}
    /\ target = 0 /\ pastHorizon = FALSE /\ purgeAt = 0 /\ return = "idle" /\ rewound = <<>>
    /\ linkAt = Genesis /\ chain = <<>> /\ applied = 0 /\ removed = <<>>
    /\ result = "none"

InsertStep ==
    \/ InsertSeenOrphan \/ ParentTipUnreadable \/ RemoveParentTip \/ ParentInAllChains \/ InsertTrueOrphan
    \/ InsertOrphan \/ RejectHeader \/ InsertOrphanFails
    \/ \E c \in Block : VisitValidOrphan(c) \/ VisitAccumulatedOrphan(c) \/ DiscardInvalidOrphan(c)
    \/ InsertNewTips

RewindStep ==
    \/ TrimHeader \/ TrimFails \/ NoBlocksToRewind \/ RewindBlocks \/ RewindUnderflows
    \/ RewindBlock \/ RewindBlockFails \/ RewindDone
    \/ PurgeBody \/ PurgeFails \/ PurgeDone

SwapStep ==
    \/ SwapBegin \/ SelectUnreadable \/ SelectNone \/ \E t \in Block : SelectTip(t)
    \/ LinkBlock \/ LinkMissing
    \/ ApplyBlock \/ ApplyWriteFails \/ ApplyInvalid \/ ApplyDone \/ Restore \/ RestoreFails

FinishStep == PruneNotNeeded \/ PruneStart \/ PruneBlocks \/ Cleanup

(* One step of the operation that holds the lock *)
Step == InsertStep \/ RewindStep \/ SwapStep \/ FinishStep

(* A node that only adds blocks *)
AddBlockNext ==
    \/ \E b \in Block : AddBlockCall(b) \/ AddBlockReturnsEarly(b) \/ AddBlock(b)
    \/ Step

(* ... and that may stop at any point and start again *)
CrashNext == AddBlockNext \/ Crash

(* What the synchronisers and the node's commands start or commit *)
SyncStep ==
    \/ \E flag \in BOOLEAN : SetDisableAddBlock(flag)
    \/ \E b \in Block : InsertHeader(b) \/ InsertSyncedBlock(b) \/ InsertBadBlock(b) \/ RewindToHash(b)
    \/ \E h \in {Height[b] : b \in Block} : RewindToHeight(h)
    \/ ClearAllPendingHeaders
    \/ SwapToHighestPowChain
    \/ CleanupOrphanPool

(* Blocks are added, synchronised and rewound, in any order. *)
Next == CrashNext \/ SyncStep

AddBlockSpec == Init /\ [][AddBlockNext]_vars
CrashSpec == Init /\ [][CrashNext]_vars
Spec == Init /\ [][Next]_vars

(* An operation that holds the lock runs to its end, a waiting call gets the
   lock, and every block is offered to the node again and again. *)
LiveSpec ==
    /\ AddBlockSpec
    /\ WF_vars(Step)
    /\ WF_vars(\E b \in Block : AddBlock(b) \/ AddBlockReturnsEarly(b))
    /\ \A b \in Block \ {Genesis} : SF_vars(AddBlockCall(b))

-----------------------------------------------------------------------------
(* Readers wait for the lock, so they see the best block as it is between two
   operations. *)
VisibleBest == IF pc = "idle" THEN bestBlock ELSE start
Selection == INSTANCE ChainSelection WITH best <- VisibleBest

Results == {"none", "BlockExists", "OrphanBlock", "Ok", "ChainReorg", "ValidationError", "StorageError"}
Operations == {"none", "add_block", "swap", "rewind_to_height", "rewind_to_hash"}
Steps == {"idle", "insert", "header", "find", "swap", "trim", "rewind", "purge", "select", "link", "apply",
          "restore", "prune", "pruning", "cleanup"}

TablesTyped ==
    /\ headers \in SUBSET Block /\ lastHeader \in Block /\ bestBlock \in Block /\ bodies \in SUBSET Block
    /\ prunedHeight \in Nat
    /\ orphans \in SUBSET Block /\ accumulated \in SUBSET Block /\ tips \in SUBSET Block
    /\ badBlocks \in SUBSET Block

ControlTyped ==
    /\ requests \in SUBSET Block
    /\ pc \in Steps /\ caller \in Operations /\ start \in Block
    /\ result \in Results

LocalsTyped ==
    /\ candidate \in Block /\ frontier \in SUBSET Block /\ newTips \in SUBSET Block
    /\ target \in Nat /\ purgeAt \in Nat
    /\ return \in {"idle", "select", "apply", "restore"} /\ rewound \in Seq(Block)
    /\ linkAt \in Block \cup {Parent[b] : b \in Block} /\ chain \in Seq(Block)
    /\ applied \in Nat /\ removed \in Seq(Block)

FlagsTyped == addBlockDisabled \in BOOLEAN /\ pastHorizon \in BOOLEAN

(* Type invariant: the rows of every table are blocks, and every local
   variable of the lock holder has its type. *)
TypeOK == TablesTyped /\ ControlTyped /\ LocalsTyped /\ FlagsTyped

(* The stored headers are one chain from the genesis block to lastHeader, and
   the best block is on it, after every committed transaction: insert_header,
   delete_header, rewinds, reorgs, restores and restarts never leave a gap, a
   fork or a best block without a header. *)
HeadersFormChain ==
    /\ Genesis \in headers
    /\ lastHeader \in headers
    /\ bestBlock \in headers
    /\ \A h \in headers : h = Genesis \/ Parent[h] \in headers
    /\ \A h \in headers : Height[h] <= Height[lastHeader]
    /\ \A h, k \in headers : Height[h] = Height[k] => h = k

(* An archival node's block bodies are exactly those of the chain up to the
   best block, and each passed body validation on its parent: a reorg to an
   invalid fork, a crash inside a reorg or a rewind, or headers pending from a
   failed sync never leave an unvalidated block below the best block, a hole,
   or a body above it. *)
BestChainValid ==
    /\ bodies = {h \in headers : Height[h] <= BestHeight}
    /\ bodies \subseteq BodyValid

(* A block is on the main chain or in the orphan pool, never in both: each
   transaction of rewind_to_height, reorganize_chain, restore_reorged_chain
   and block sync that moves a block deletes it from where it was. *)
OrphansOffChain == orphans \cap bodies = {}

(* The orphan pool's tables agree: a chain tip has accumulated data and a
   block, so that fetch_all_orphan_chain_tips, which every add_block depends
   on, can read all the tips. *)
OrphanTablesAgree == tips \subseteq accumulated /\ accumulated \subseteq orphans

(* add_block and swap_to_highest_pow_chain leave the node on a chain at least
   as strong as before, strictly stronger when they say the chain changed, and
   on the same block when they return an error. *)
NeverWeakerStep ==
    caller \in {"add_block", "swap"} /\ pc' = "idle" /\ result' # "none" =>
        /\ result' \in {"Ok", "ChainReorg"} => Strength[bestBlock'] > Strength[start]
        /\ result' \in {"OrphanBlock", "ValidationError", "StorageError"} => bestBlock' = start
NeverWeaker == [][NeverWeakerStep]_vars

(* The best block readers see changes as ChainSelection allows: to a stronger
   valid chain, or, when the process stops during a reorg, to a valid block on
   the way from the old chain to the new one. *)
SelectsChain == Selection!Spec

(* On a process that does not stop, it only ever changes to a stronger valid
   chain. *)
OnlyAdopts == Selection!AdoptSpec

(* At every point of add_block at which the process may stop, the chain the
   operation started from can be found again: each of its blocks is on the
   main chain or in the orphan pool with its accumulated data, and its last
   block is on the main chain or a chain tip. *)
StartChainKept ==
    pc # "idle" =>
        /\ start \in bodies \cup tips
        /\ \A a \in AncestorsOf[start] \cup {start} : a \in bodies \/ OrphanChainBlock(a)

(* add_block of a block that is valid, as are its ancestors, never fails for a
   reason of the storage layer: the documented errors are a problem accessing
   the database and a failed validation.  None of the tables it reads or
   inserts into has been left by an earlier call in a state that makes it fail. *)
ValidBlocksAccepted ==
    [][caller = "add_block" /\ Selection!ValidChain(candidate) => result' # "StorageError"]_vars

(* A node to which all the blocks are offered ends up on a strongest chain and
   stays there, whatever the order in which they arrive. *)
Convergence == <>[](\A b \in Block : Strength[b] <= Strength[bestBlock])

(* prune_to_height only moves the pruned height up, and never to within the
   pruning horizon of the best block. *)
PrunesOnlyBelowHorizon ==
    [][prunedHeight' # prunedHeight =>
        prunedHeight' > prunedHeight /\ prunedHeight' + PruningHorizon <= Height[bestBlock']]_vars

-----------------------------------------------------------------------------
(* What comments and documentation say of the code, and the code does not do *)

(* "all changes are reverted before returning" *)
ErrorsRevert ==
    [][caller = "add_block" /\ pc' = "idle" /\ result' \in {"ValidationError", "StorageError"} => bestBlock' = start]_vars

(* "Set/overwrite accumulated data for this orphan block": data that is
   already there is not an obstacle. *)
AccumulatedDataOverwritten ==
    [][pc = "find" => result' # "StorageError"]_vars

(* "There cannot be any _new_ tips if we've seen this orphan block before": a
   known orphan whose parent is connected already leads to a tip. *)
SeenOrphansLeadToTips ==
    pc = "insert" /\ candidate \in orphans /\ InAllChains(Parent[candidate]) =>
        \E t \in tips : t = candidate \/ candidate \in AncestorsOf[t]

(* "The operation will fail if ... The block hash is before the horizon block
   height determined by the pruning horizon" *)
RewindToHashStopsAtHorizon ==
    [][caller = "rewind_to_hash" /\ target < prunedHeight => bestBlock' = bestBlock]_vars
=============================================================================
