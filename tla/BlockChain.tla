------------------------------ MODULE BlockChain ------------------------------
(* The canonical chain of one node (core/blockchain.go): blocks, execution    *)
(* markers, state, canonical numbers, head and gap snapshots, written in      *)
(* several batches by the import, reorg and rewind paths. The node may crash  *)
(* between any two of them, and its own database may refuse a write.          *)
(*                                                                            *)
(* Every block has difficulty 1, as the v2 engine prepares it, so its total   *)
(* difficulty is its number. A state is named by its block; trading and       *)
(* lending states and the ancient store are left out.                         *)
EXTENDS Integers, FiniteSets

CONSTANTS Blocks,         \* the blocks that may be delivered
          Genesis,
          Parent,         \* ParentHash
          Number,         \* header.Number
          Path,           \* a block and its ancestors
          Tip,            \* the block other nodes have at their head
          GapNumbers,     \* numbers of the gap blocks
          TriesInMemory,
          Archive,        \* cacheConfig.TrieDirtyDisabled
          MaxCommitted,   \* highest number the engine commits
          MaxFaults       \* bound on crashes, refused writes and rewinds

VARIABLES stored,     \* blocks on disk with body and total difficulty
          executed,   \* execution markers on disk
          flushed,    \* states on disk
          canon,      \* canonical number -> block
          head,       \* currentBlock and its marker
          header,     \* the header chain's head and its marker
          snaps,      \* gap blocks with their snapshot on disk
          live,       \* bc.triegc: states referenced in memory
          results,    \* bc.resultProcess: blocks calculated outside the lock
          committed,  \* the engine's highestCommitBlock
          op,         \* what the holder of chainmu is doing
          faults

vars == <<stored, executed, flushed, canon, head, header, snaps, live, results,
          committed, op, faults>>

disk == <<stored, executed, flushed, canon, head, header, snaps>>

All == Blocks \cup {Genesis}

(* verifyHeader takes a block only with the number after its parent's.        *)
ASSUME ChainAssumption ==
  /\ Genesis \notin Blocks
  /\ Parent \in [Blocks -> All]
  /\ Number \in [All -> Nat]
  /\ Number[Genesis] = 0
  /\ \A b \in Blocks : Number[b] = Number[Parent[b]] + 1

(* Sets that hold the parent of each of their blocks.                         *)
Closed == {S \in SUBSET All : \A b \in S \ {Genesis} : Parent[b] \in S}

(* The parent hashes of a block lead to its ancestors and to nothing else.    *)
ASSUME PathAssumption ==
  /\ Path \in [All -> Closed]
  /\ \A b \in All : b \in Path[b] /\ \A S \in Closed : b \in S => Path[b] \subseteq S

(* isNextEpochGapBlock asks that Gap be smaller than Epoch, so the genesis    *)
(* block is no gap block.                                                     *)
ASSUME GapAssumption == GapNumbers \subseteq Nat \ {0}

ASSUME TipAssumption == Tip \in All

(* TriesInMemory is 128. *)
ASSUME WindowAssumption == TriesInMemory \in Nat \ {0}

None == Genesis   \* no canonical block, no committed block

(* A task of the holder of chainmu: its block, the blocks to promote or to    *)
(* delete, the rest of the segment, where a rewind goes, and what the engine  *)
(* had committed when reorg asked.                                            *)
Task(pc, b, queue) ==
  [pc |-> pc, block |-> b, todo |-> {}, queue |-> queue, target |-> 0, seen |-> None]

Idle == Task("idle", Genesis, {})

IsLowest(b, S) == b \in S /\ \A x \in S : Number[b] <= Number[x]

HasState(b) == b = Genesis \/ b \in flushed \cup live

(* HasExecutedBlock: the marker and the state. *)
HasExecutedBlock(b) == b \in executed \cap stored /\ HasState(b)

(* forkChoiceBeatsHead *)
BeatsHead(b) == Number[b] > Number[head]

(* Plausible mistake: reorg promotes whatever the database holds. *)
ReorgAnyway(b) == TRUE

(* reorg below the block the engine committed is refused. *)
ReorgAllowed(b) ==
  ~(/\ committed # None
    /\ committed \in Path[head]
    /\ committed \notin Path[b])

NeedsSnapshot(b) == Number[b] \in GapNumbers

-----------------------------------------------------------------------------

Init ==
  /\ stored = {Genesis} /\ executed = {} /\ flushed = {} /\ snaps = {}
  /\ canon = [n \in {Number[b] : b \in Blocks} |-> None]
  /\ head = Genesis /\ header = Genesis
  /\ live = {} /\ results = {} /\ committed = None
  /\ op = Idle /\ faults = 0

(* The next block of a segment that is imported again, or any delivered one.  *)
Turn(b) ==
  \/ op.pc = "idle"
  \/ op.pc = "next" /\ IsLowest(b, op.queue)

Rest(b) == op.queue \ {b}

(* insertChain, insertBlock: a known block that wins fork choice is adopted.  *)
ImportKnown(b) ==
  /\ Turn(b)
  /\ HasExecutedBlock(b) /\ BeatsHead(b)
  /\ op' = Task("adopt", b, Rest(b))
  /\ UNCHANGED <<disk, live, results, committed, faults>>

(* A known block of the segment that loses fork choice is skipped.            *)
SkipKnown(b) ==
  /\ op.pc = "next" /\ IsLowest(b, op.queue)
  /\ HasExecutedBlock(b) /\ ~BeatsHead(b)
  /\ op' = IF Rest(b) = {} THEN Idle ELSE Task("next", Genesis, Rest(b))
  /\ UNCHANGED <<disk, live, results, committed, faults>>

(* Plausible mistake: a block on disk is not executed again. *)
ImportMissing(b) ==
  /\ Turn(b)
  /\ b \notin stored
  /\ Parent[b] \in stored /\ HasState(Parent[b])
  /\ stored' = stored \cup {b}
  /\ op' = Task("commit", b, Rest(b))
  /\ UNCHANGED <<executed, flushed, canon, head, header, snaps, live, results,
                 committed, faults>>

(* processBlock and writeBlockWithState up to the block batch.                *)
ImportBlock(b) ==
  /\ Turn(b)
  /\ ~HasExecutedBlock(b)
  /\ Parent[b] \in stored /\ HasState(Parent[b])
  /\ stored' = stored \cup {b}
  /\ op' = Task("commit", b, Rest(b))
  /\ UNCHANGED <<executed, flushed, canon, head, header, snaps, live, results,
                 committed, faults>>

(* reimportPrunedAncestors: b and its ancestors down to the first with state. *)
Pruned(b) ==
  {x \in Path[b] : \A y \in Path[b] : Number[y] >= Number[x] => ~HasState(y)}

Segment(b) == IF Pruned(b) = {} THEN Idle
              ELSE Task("next", Genesis, Pruned(b))

(* insertSideChain: the parent's state is pruned; the block is stored without *)
(* state, and the segment is imported again when it outweighs the head.       *)
ImportSide(b) ==
  /\ op.pc = "idle"
  /\ ~HasExecutedBlock(b)
  /\ ~(Number[b] <= Number[head] /\ canon[Number[b]] = b)
  /\ Parent[b] \in stored /\ ~HasState(Parent[b])
  /\ stored' = stored \cup {b}
  /\ op' = IF Number[b] >= Number[head] THEN Segment(b) ELSE Idle
  /\ UNCHANGED <<executed, flushed, canon, head, header, snaps, live, results,
                 committed, faults>>

(* getResultBlock: a block from the fetcher is executed without chainmu, ...  *)
Calculate(b) ==
  /\ b \notin results
  /\ HasExecutedBlock(b) => BeatsHead(b)
  /\ Parent[b] \in stored /\ HasState(Parent[b])
  /\ results' = results \cup {b}
  /\ UNCHANGED <<disk, live, committed, op, faults>>

(* ... after the pruned ancestors it stands on were imported again, ...       *)
Reimport(b) ==
  /\ op.pc = "idle"
  /\ ~HasExecutedBlock(b)
  /\ Parent[b] \in stored /\ ~HasState(Parent[b])
  /\ Number[b] >= Number[head]
  /\ op' = Segment(Parent[b])
  /\ UNCHANGED <<disk, live, results, committed, faults>>

(* ... and insertBlock writes the result under it: the parent may be gone and *)
(* somebody else may have written the block meanwhile.                        *)
InsertResult(b) ==
  /\ op.pc = "idle" /\ b \in results
  /\ results' = results \ {b}
  /\ IF HasExecutedBlock(b)
     THEN /\ op' = IF BeatsHead(b) THEN Task("adopt", b, {}) ELSE Idle
          /\ UNCHANGED stored
     ELSE IF Parent[b] \in stored
     THEN /\ op' = Task("commit", b, {})
          /\ stored' = stored \cup {b}
     ELSE UNCHANGED <<op, stored>>
  /\ UNCHANGED <<executed, flushed, canon, head, header, snaps, live, committed,
                 faults>>

-----------------------------------------------------------------------------

(* state.Commit and, on an archive node, the flush of the trie. *)
CommitState ==
  /\ op.pc = "commit"
  /\ live' = IF Archive THEN live ELSE live \cup {op.block}
  /\ flushed' = IF Archive THEN flushed \cup {op.block} ELSE flushed
  /\ op' = [op EXCEPT !.pc = IF Archive THEN "mark" ELSE "collect"]
  /\ UNCHANGED <<stored, executed, canon, head, header, snaps, results, committed,
                 faults>>

(* The node's database refuses the commit, or later the marker. *)
WriteRefused ==
  /\ op.pc \in {"commit", "mark"}
  /\ faults < MaxFaults /\ faults' = faults + 1
  /\ op' = Idle
  /\ UNCHANGED <<disk, live, results, committed>>

(* Plausible mistake: the window of recent states is one block short. *)
ChosenEarly(n) == n - (TriesInMemory - 1)

(* The newest height whose states leave memory with a block of number n. *)
Chosen(n) == n - TriesInMemory

(* Garbage collection of states below the window: one canonical state may be  *)
(* flushed first, and a marker goes with the last copy of its state.          *)
Collect(flush) ==
  LET chosen == Chosen(Number[op.block])
      old == {x \in live : Number[x] <= chosen}
  IN /\ op.pc = "collect"
     /\ flushed' = IF flush /\ chosen > 0
                   THEN flushed \cup ({canon[chosen]} \cap live)
                   ELSE flushed
     /\ live' = live \ old
     /\ executed' = executed \ (old \ flushed')
     /\ op' = [op EXCEPT !.pc = "mark"]
     /\ UNCHANGED <<stored, canon, head, header, snaps, results, committed, faults>>

(* Done with a block: the next one of the segment, if any. *)
NextTask == IF op.queue = {} THEN Idle ELSE Task("next", Genesis, op.queue)

(* The marker is written last; then the block is adopted or a side block.     *)
WriteMarker ==
  /\ op.pc = "mark"
  /\ executed' = executed \cup {op.block}
  /\ op' = IF BeatsHead(op.block) THEN [op EXCEPT !.pc = "adopt"] ELSE NextTask
  /\ UNCHANGED <<stored, flushed, canon, head, header, snaps, live, results,
                 committed, faults>>

(* adoptHead: directly on the head, or reorg first. reorg fails before any    *)
(* write when it would drop the committed block, when a block of the new      *)
(* chain is missing, or when a set of a gap block cannot be derived.          *)
Adopt ==
  LET b == op.block
      between == (Path[b] \ Path[head]) \ {b}
  IN /\ op.pc = "adopt"
     /\ op' = IF Parent[b] = head
              THEN [op EXCEPT !.pc = "head"]
              ELSE IF /\ ReorgAllowed(b)
                      /\ between \subseteq stored
                      /\ \A x \in between :
                           NeedsSnapshot(x) => x \in snaps \/ HasState(x)
              THEN [op EXCEPT !.pc = "promote", !.todo = between, !.seen = committed]
              ELSE Idle
     /\ UNCHANGED <<disk, live, results, committed, faults>>

(* Plausible mistake: the set of a gap block is left to its own write. *)
WriteHeadBlockAlone(b) ==
  /\ canon' = [canon EXCEPT ![Number[b]] = b]
  /\ head' = b /\ header' = b
  /\ UNCHANGED snaps

(* writeHeadBlock: markers and the set of a gap block in one batch. *)
WriteHeadBlock(b) ==
  /\ canon' = [canon EXCEPT ![Number[b]] = b]
  /\ head' = b /\ header' = b
  /\ snaps' = IF NeedsSnapshot(b) THEN snaps \cup {b} ELSE snaps

(* The forward loop of reorg. *)
Promote(b) ==
  /\ op.pc = "promote" /\ IsLowest(b, op.todo)
  /\ WriteHeadBlock(b)
  /\ op' = [op EXCEPT !.todo = @ \ {b}]
  /\ UNCHANGED <<stored, executed, flushed, live, results, committed, faults>>

(* Plausible mistake: the markers are deleted from the last promoted block on.*)
TrimFrom(n) == n - 1

(* The first number whose marker reorg deletes, for a new head of number n.   *)
FirstStale(n) == n

(* The end of reorg deletes the contiguous markers above the promoted blocks. *)
Trim ==
  LET from == FirstStale(Number[op.block])
      stale(n) == \A k \in from .. n : canon[k] # None
  IN /\ op.pc = "promote" /\ op.todo = {}
     /\ canon' = [n \in DOMAIN canon |->
                   IF n >= from /\ stale(n) THEN None ELSE canon[n]]
     /\ op' = [op EXCEPT !.pc = "head"]
     /\ UNCHANGED <<stored, executed, flushed, head, header, snaps, live, results,
                    committed, faults>>

WriteHead ==
  /\ op.pc = "head"
  /\ WriteHeadBlock(op.block)
  /\ op' = NextTask
  /\ UNCHANGED <<stored, executed, flushed, live, results, committed, faults>>

-----------------------------------------------------------------------------

(* SetHead(n) starts. *)
Rewind(n) ==
  /\ op.pc = "idle" /\ n < Number[header]
  /\ faults < MaxFaults /\ faults' = faults + 1
  /\ op' = [Idle EXCEPT !.pc = "rewind", !.target = n]
  /\ UNCHANGED <<disk, live, results, committed>>

Delete(S) ==
  /\ stored' = stored \ S
  /\ executed' = executed \ S
  /\ snaps' = snaps \ S
  /\ canon' = [n \in DOMAIN canon |->
                IF \E x \in S : Number[x] = n THEN None ELSE canon[n]]

(* One height of HeaderChain.SetHead: the markers are lowered first, to the   *)
(* genesis block when the state is missing; deletions are batched.            *)
Lower ==
  LET p == Parent[header]
  IN /\ op.pc = "rewind" /\ Number[header] > op.target
     /\ header' = p
     /\ head' = IF Number[p] >= Number[head] THEN head
                ELSE IF p \in stored /\ HasState(p) THEN p ELSE Genesis
     /\ op' = [op EXCEPT !.todo =
                 @ \cup {x \in stored : Number[x] = Number[header]}]
     /\ UNCHANGED <<stored, executed, flushed, canon, snaps, live, results,
                    committed, faults>>

(* The batch is written when it is large, and after the last height. *)
FlushDeletions ==
  /\ op.pc = "rewind" /\ op.todo # {}
  /\ Delete(op.todo)
  /\ op' = [op EXCEPT !.todo = {}]
  /\ UNCHANGED <<flushed, head, header, live, results, committed, faults>>

(* DeleteDanglingHashes above the target ends the rewind. *)
Sweep ==
  /\ op.pc = "rewind" /\ Number[header] <= op.target /\ op.todo = {}
  /\ Delete({x \in stored : Number[x] > op.target})
  /\ op' = Idle
  /\ UNCHANGED <<flushed, head, header, live, results, committed, faults>>

(* A new process: loadLastState, and repair back to a block whose state is on *)
(* disk.                                                                      *)
Open(onDisk) ==
  LET has == {x \in Path[head] : x = Genesis \/ x \in onDisk}
      to == CHOOSE x \in has : \A y \in has : Number[y] <= Number[x]
  IN /\ head' = to
     /\ header' = IF to = head THEN header ELSE to
     /\ live' = {} /\ results' = {} /\ committed' = None /\ op' = Idle
     /\ UNCHANGED <<stored, canon, snaps>>

Crash ==
  /\ faults < MaxFaults /\ faults' = faults + 1
  /\ Open(flushed)
  /\ UNCHANGED <<executed, flushed>>

(* Stop and saveData: three recent states are flushed, the queue is drained.  *)
Stop ==
  LET n == Number[head]
      recent == {canon[n - k] : k \in {k \in {0, 1, TriesInMemory - 1} : k < n}}
  IN /\ op.pc = "idle"
     /\ faults < MaxFaults /\ faults' = faults + 1
     /\ flushed' = flushed \cup (recent \cap live)
     /\ executed' = executed \ {x \in live : Number[x] <= Chosen(n)}
     /\ Open(flushed')

(* The engine commits a higher block, without chainmu: at any step of what    *)
(* its holder does, and on whichever chain its certificate is.                *)
Commit(b) ==
  /\ b \in stored /\ Number[b] > Number[committed]
  /\ Number[b] <= MaxCommitted
  /\ committed' = b
  /\ UNCHANGED <<disk, live, results, op, faults>>

-----------------------------------------------------------------------------

Deliver(b) == \/ ImportKnown(b) \/ ImportBlock(b) \/ ImportSide(b)

Fetch(b) == \/ Calculate(b) \/ Reimport(b) \/ InsertResult(b)

Step == \/ CommitState \/ Collect(FALSE) \/ Collect(TRUE) \/ WriteMarker \/ Adopt
        \/ Trim \/ WriteHead
        \/ Lower \/ FlushDeletions \/ Sweep
        \/ /\ op.pc = "next"
           /\ \E b \in Blocks : ImportKnown(b) \/ SkipKnown(b) \/ ImportBlock(b)
        \/ \E b \in Blocks : Promote(b)

Next ==
  \/ Step \/ WriteRefused \/ Crash \/ Stop
  \/ \E b \in Blocks : Deliver(b) \/ Fetch(b) \/ Commit(b)
  \/ \E n \in 0 .. Number[Tip] : Rewind(n)

Spec == Init /\ [][Next]_vars

-----------------------------------------------------------------------------

(* The types of disk and memory. *)
TypeOK ==
  /\ Genesis \in stored /\ stored \subseteq All
  /\ executed \subseteq Blocks /\ flushed \subseteq Blocks /\ live \subseteq Blocks
  /\ head \in All /\ header \in All /\ committed \in All
  /\ results \subseteq Blocks /\ snaps \subseteq Blocks
  /\ \A n \in DOMAIN canon : canon[n] = None \/ Number[canon[n]] = n

(* The markers never point at a block that is not on disk: not while a reorg  *)
(* promotes, not in the middle of a rewind, not after a crash ("the head must *)
(* never point at a block whose body is not on disk yet").                    *)
HeadIsStored == Path[head] \subseteq stored /\ Path[header] \subseteq stored

(* Up to the head the canonical numbers name the ancestors of the head, at    *)
(* every step of a reorg and of a rewind, and after a crash in either.        *)
CanonIsPath ==
  \A b \in Path[head] \ {Genesis} : canon[Number[b]] = b

(* "A gap block must never become canonical without the snapshot its epoch    *)
(* switch reads": not through an import, a reorg, the adoption of a known     *)
(* block after a rewind, nor with a crash in between.                         *)
GapBlocksHaveSnapshots ==
  \A b \in Path[head] : NeedsSnapshot(b) => b \in snaps

(* Whenever chainmu is free the state of the head can be opened, so that the  *)
(* next block can be executed: whatever garbage collection, refused writes,   *)
(* rewinds and restarts left.                                                 *)
HeadHasState == op.pc = "idle" => HasState(head)

(* What every reader of the database counts on, at every step and after a     *)
(* crash between any two writes.                                              *)
DatabaseConsistent == TypeOK /\ HeadIsStored /\ CanonIsPath

(* The engine committed a block that the reorg under way drops, after the     *)
(* reorg had asked for the committed block.                                   *)
CommittedTooLate ==
  /\ op.pc \in {"promote", "head"}
  /\ committed # op.seen /\ committed \notin Path[op.block]

(* No import, reorg, refused write or crash drops a canonical block that the  *)
(* engine has committed; only an operator's rewind does, and a reorg that     *)
(* read latestCommittedBlock before the engine, which does not take chainmu,  *)
(* committed the block.                                                       *)
CommittedStays ==
  [][(committed \in Path[head] /\ committed' = committed /\ op.pc # "rewind" /\ ~CommittedTooLate)
       => committed \in Path[head'] ]_vars

(* The head reaches the height of the other nodes' chain and stays: blocks    *)
(* left on disk without marker, marked blocks without state, half promoted    *)
(* chains and rewinds do not stall the import ("the stall this adoption path  *)
(* exists to end"). Only a chain without the committed block is refused.      *)
CatchesUp == <>[](Number[head] >= Number[Tip] \/ committed \notin Path[Tip])

-----------------------------------------------------------------------------
(* The inductive invariant behind the theorems of BlockChainProofs.           *)

Numbers == {Number[b] : b \in Blocks}

Steps == {"idle", "next", "commit", "collect", "mark", "adopt", "promote", "head",
          "rewind"}

Tasks == [pc : Steps, block : All, todo : SUBSET Blocks, queue : SUBSET Blocks,
          target : Nat, seen : All]

(* Head and header point at stored chains, the one below the other, and the   *)
(* canonical numbers and snapshots follow the head.                           *)
DiskOK ==
  /\ Genesis \in stored /\ stored \subseteq All /\ snaps \subseteq Blocks
  /\ header \in All /\ head \in Path[header]
  /\ canon \in [Numbers -> All]
  /\ \A n \in Numbers : canon[n] = None \/ Number[canon[n]] = n
  /\ HeadIsStored /\ CanonIsPath /\ GapBlocksHaveSnapshots

MemoryOK ==
  /\ executed \subseteq Blocks /\ flushed \subseteq Blocks /\ live \subseteq Blocks
  /\ results \subseteq Blocks /\ committed \in All

(* What the holder of chainmu counts on at its next write. A reorg has        *)
(* promoted the ancestors of its block up to the head; the rest is still to   *)
(* do and on disk, and the block it saw committed is not on the side it       *)
(* drops. A rewind deletes above the header only.                             *)
TaskOK ==
  /\ op \in Tasks
  /\ op.pc \notin {"promote", "rewind"} => op.todo = {}
  /\ op.pc \in {"commit", "collect", "mark", "adopt", "promote", "head"} =>
       op.block \in stored \ {Genesis}
  /\ op.pc \in {"adopt", "promote", "head"} => Number[head] < Number[op.block]
  /\ op.pc \in {"promote", "head"} =>
       /\ op.todo \subseteq (stored \cap Path[op.block]) \ (Path[head] \cup {op.block})
       /\ Path[op.block] \subseteq Path[head] \cup op.todo \cup {op.block}
       /\ op.seen \in Path[head] => op.seen \in Path[op.block]
  /\ op.pc = "rewind" => \A x \in op.todo : Number[header] < Number[x]

ChainInv == DiskOK /\ MemoryOK /\ TaskOK

(* No block is executed a whole window or more above a head that is only in   *)
(* memory: forks whose reorg is refused, or whose adoption fails, are shorter *)
(* than TriesInMemory.                                                        *)
HeadInWindow ==
  op.pc = "collect" =>
    \/ head \in flushed \cup {Genesis}
    \/ Number[op.block] < Number[head] + TriesInMemory

(* The head has its state except while a reorg passes over side blocks, and a *)
(* block has its state from its commit until it is the head.                  *)
StateOK ==
  /\ op.pc \notin {"promote", "head"} => HasState(head)
  /\ op.pc \in {"collect", "mark", "adopt", "promote", "head"} => HasState(op.block)

=============================================================================
