--------------------------- MODULE BlockChainProofs ---------------------------
(* The theorems about BlockChain: for any tree of blocks, any window of       *)
(* states and any number of crashes, refused writes and rewinds, the markers  *)
(* on disk stay consistent after every single write, gap blocks have their    *)
(* snapshots, a reorg keeps what the engine has committed, and the head keeps *)
(* its state.                                                                 *)
EXTENDS BlockChain, TLAPS, WellFoundedInduction, NaturalsInduction

-----------------------------------------------------------------------------
(* Blocks and their ancestors.                                                *)

(* A nonempty set of natural numbers has a least member.                      *)
LEMMA LeastNumber ==
  ASSUME NEW S \in SUBSET Nat, S # {}
  PROVE  \E n \in S : \A m \in S : n <= m
<1> DEFINE R == OpToRel(<, Nat)
<1>1. IsWellFoundedOn(R, Nat)
  BY NatLessThanWellFounded, Zenon
<1>2. \A x, y \in Nat : y < x => <<y, x>> \in R
  BY DEF OpToRel
<1> HIDE DEF R
<1>3. PICK n \in S : \A y \in S : ~ (<<y, n>> \in R)
  BY <1>1, WFMin, Zenon
<1>4. ASSUME NEW m \in S
      PROVE  n <= m
  <2>1. ~ (m < n)
    BY <1>2, <1>3, Zenon
  <2> QED BY <2>1
<1> QED BY <1>4

(* Numbers and parents are what the header check makes them.                  *)
LEMMA BlockTypes ==
  /\ Genesis \in All /\ Genesis \notin Blocks /\ Number[Genesis] = 0
  /\ \A b \in All : Number[b] \in Nat /\ Path[b] \in SUBSET All /\ b \in Path[b]
  /\ \A b \in Blocks : /\ b \in All /\ Parent[b] \in All
                       /\ Number[b] = Number[Parent[b]] + 1 /\ Number[b] \in Numbers
BY ChainAssumption, PathAssumption DEF All, Closed, Numbers

(* The ancestors of an ancestor are ancestors.                                *)
LEMMA PathOfAncestor ==
  ASSUME NEW b \in All, NEW x \in Path[b]
  PROVE  Path[x] \subseteq Path[b]
BY PathAssumption DEF Closed

LEMMA ParentIsAncestor ==
  ASSUME NEW b \in All, NEW x \in Path[b], x # Genesis
  PROVE  x \in Blocks /\ Parent[x] \in Path[b]
BY PathAssumption DEF Closed, All

(* The path of a block is the block on top of its parent's path.              *)
LEMMA PathStep ==
  ASSUME NEW b \in Blocks
  PROVE  Path[b] = Path[Parent[b]] \cup {b}
<1> DEFINE S == Path[Parent[b]] \cup {b}
<1>1. S \in Closed
  BY BlockTypes, ParentIsAncestor DEF Closed
<1>2. Path[b] \subseteq S
  BY <1>1, BlockTypes, PathAssumption
<1>3. S \subseteq Path[b]
  BY BlockTypes, ParentIsAncestor, PathOfAncestor
<1> QED BY <1>2, <1>3

(* Ancestors have smaller numbers.                                            *)
LEMMA PathNumbers ==
  ASSUME NEW b \in All, NEW x \in Path[b]
  PROVE  x = b \/ Number[x] < Number[b]
<1> DEFINE S == {y \in All : y = b \/ Number[y] < Number[b]}
<1>1. ASSUME NEW y \in S \ {Genesis}
      PROVE  Parent[y] \in S
  <2>1. y \in Blocks /\ Number[y] <= Number[b]
    BY BlockTypes DEF All
  <2> QED BY <2>1, BlockTypes
<1>2. S \in Closed /\ b \in S
  BY <1>1 DEF Closed
<1> QED BY <1>2, PathAssumption

(* Two ancestors of a block are ancestors of each other.                      *)
LEMMA PathIsLinear ==
  ASSUME NEW b \in All, NEW x \in Path[b], NEW y \in Path[b]
  PROVE  x \in Path[y] \/ y \in Path[x]
<1> DEFINE S == {z \in Path[b] : z \in Path[y] \/ y \in Path[z]}
<1>1. ASSUME NEW z \in S \ {Genesis}
      PROVE  Parent[z] \in S
  <2>1. z \in Blocks /\ Parent[z] \in Path[b] /\ y \in All
    BY BlockTypes, ParentIsAncestor
  <2>2. z \in Path[y] => Parent[z] \in Path[y]
    BY <2>1, ParentIsAncestor
  <2>3. y \in Path[z] => y = z \/ y \in Path[Parent[z]]
    BY <2>1, PathStep
  <2>4. y = z => Parent[z] \in Path[y]
    BY <2>1, BlockTypes, ParentIsAncestor
  <2> QED BY <2>1, <2>2, <2>3, <2>4
<1>2. S \in Closed /\ b \in S
  BY <1>1, BlockTypes DEF Closed
<1> QED BY <1>2, PathAssumption

(* Every block descends from the genesis block.                               *)
LEMMA GenesisIsAncestor ==
  ASSUME NEW b \in All
  PROVE  Genesis \in Path[b]
<1> DEFINE S == {Number[x] : x \in Path[b]}
<1>1. S \in SUBSET Nat /\ S # {}
  BY BlockTypes
<1>2. PICK n \in S : \A m \in S : n <= m
  BY <1>1, LeastNumber, Zenon
<1>3. PICK x \in Path[b] : Number[x] = n
  BY <1>2
<1>4. ASSUME x # Genesis
      PROVE  FALSE
  <2>1. x \in Blocks /\ Parent[x] \in Path[b]
    BY <1>4, ParentIsAncestor
  <2>2. Number[x] <= Number[Parent[x]]
    BY <1>2, <1>3, <2>1
  <2> QED BY <2>1, <2>2, BlockTypes
<1> QED BY <1>4

(* Of a nonempty part of a path one block is the highest.                     *)
LEMMA HighestOnPath ==
  ASSUME NEW b \in All, NEW H \in SUBSET Path[b], H # {}
  PROVE  \E x \in H : \A y \in H : Number[y] <= Number[x]
<1> DEFINE S == {Number[b] - Number[x] : x \in H}
<1>1. \A x \in H : Number[x] \in Nat /\ Number[x] <= Number[b] /\ Number[b] \in Nat
  BY BlockTypes, PathNumbers
<1>2. S \in SUBSET Nat /\ S # {}
  BY <1>1
<1>3. PICK n \in S : \A m \in S : n <= m
  BY <1>2, LeastNumber, Zenon
<1>4. PICK x \in H : n = Number[b] - Number[x]
  BY <1>3
<1>5. ASSUME NEW y \in H
      PROVE  Number[y] <= Number[x]
  <2>1. Number[b] - Number[x] <= Number[b] - Number[y]
    BY <1>3, <1>4
  <2> QED BY <1>1, <2>1
<1> QED BY <1>5

-----------------------------------------------------------------------------
(* Tasks.                                                                     *)

(* A task that starts, or the end of one.                                     *)
LEMMA FreshTask ==
  ASSUME NEW pc \in {"idle", "next", "commit", "adopt"}, NEW b \in All,
         NEW q \in SUBSET Blocks, op' = Task(pc, b, q),
         pc \in {"commit", "adopt"} => b \in stored' \ {Genesis},
         pc = "adopt" => Number[head'] < Number[b]
  PROVE  TaskOK'
<1>1. Task(pc, b, q) \in Tasks
  BY BlockTypes DEF Task, Tasks, Steps, None
<1>2. /\ op'.pc = pc /\ op'.block = b /\ op'.todo = {}
  BY DEF Task
<1> QED BY <1>1, <1>2 DEF TaskOK

(* The end of a task.                                                         *)
LEMMA IdleTask ==
  ASSUME op' = Idle
  PROVE  TaskOK'
BY FreshTask, BlockTypes DEF Idle

LEMMA MovedTask ==
  ASSUME op \in Tasks, NEW pc \in Steps, op' = [op EXCEPT !.pc = pc]
  PROVE  /\ op' \in Tasks /\ op'.pc = pc /\ op'.block = op.block
         /\ op'.todo = op.todo /\ op'.queue = op.queue /\ op'.seen = op.seen
BY DEF Tasks

(* The rest of a segment.                                                     *)
LEMMA NextTaskOK ==
  ASSUME TaskOK, op' = NextTask
  PROVE  TaskOK'
<1>1. op.queue \in SUBSET Blocks
  BY DEF TaskOK, Tasks
<1> QED BY <1>1, FreshTask, IdleTask, BlockTypes DEF NextTask

(* A segment that is imported again.                                          *)
LEMMA SegmentOK ==
  ASSUME NEW b \in All, op' = Segment(b)
  PROVE  TaskOK'
<1>1. Pruned(b) \in SUBSET Blocks
  <2>1. \A x \in Pruned(b) : x \in Path[b] /\ x # Genesis
    BY BlockTypes DEF Pruned, HasState
  <2> QED BY <2>1, ParentIsAncestor
<1> QED BY <1>1, FreshTask, IdleTask, BlockTypes DEF Segment

(* A write that stores a block, or nothing, leaves the rest in order.         *)
LEMMA QuietDisk ==
  ASSUME DiskOK, UNCHANGED <<canon, head, header, snaps>>,
         stored \subseteq stored', stored' \subseteq All
  PROVE  DiskOK'
BY DEF DiskOK, HeadIsStored, CanonIsPath, GapBlocksHaveSnapshots, NeedsSnapshot

-----------------------------------------------------------------------------
(* Imports.                                                                   *)

LEMMA ImportKnownStep ==
  ASSUME ChainInv, NEW b \in Blocks, ImportKnown(b)
  PROVE  ChainInv'
<1>1. DiskOK'
  BY QuietDisk DEF ChainInv, ImportKnown, disk, DiskOK
<1>2. MemoryOK'
  BY DEF ChainInv, MemoryOK, ImportKnown, disk
<1>3. Rest(b) \in SUBSET Blocks
  BY DEF Rest, ChainInv, TaskOK, Tasks
<1>4. b \in stored' \ {Genesis} /\ Number[head'] < Number[b]
  BY BlockTypes DEF ImportKnown, disk, HasExecutedBlock, BeatsHead, ChainInv, DiskOK, HeadIsStored
<1>5. TaskOK'
  BY <1>3, <1>4, FreshTask, BlockTypes DEF ImportKnown
<1> QED BY <1>1, <1>2, <1>5 DEF ChainInv

LEMMA SkipKnownStep ==
  ASSUME ChainInv, NEW b \in Blocks, SkipKnown(b)
  PROVE  ChainInv'
<1>1. DiskOK'
  BY QuietDisk DEF ChainInv, SkipKnown, disk, DiskOK
<1>2. MemoryOK'
  BY DEF ChainInv, MemoryOK, SkipKnown, disk
<1>3. Rest(b) \in SUBSET Blocks
  BY DEF Rest, ChainInv, TaskOK, Tasks
<1>4. TaskOK'
  BY <1>3, FreshTask, IdleTask, BlockTypes DEF SkipKnown
<1> QED BY <1>1, <1>2, <1>4 DEF ChainInv

LEMMA ImportBlockStep ==
  ASSUME ChainInv, NEW b \in Blocks, ImportBlock(b)
  PROVE  ChainInv'
<1>1. DiskOK'
  BY QuietDisk, BlockTypes DEF ChainInv, ImportBlock, DiskOK
<1>2. MemoryOK'
  BY DEF ChainInv, MemoryOK, ImportBlock
<1>3. Rest(b) \in SUBSET Blocks
  BY DEF Rest, ChainInv, TaskOK, Tasks
<1>4. b \in stored' \ {Genesis}
  BY BlockTypes DEF ImportBlock
<1>5. TaskOK'
  BY <1>3, <1>4, FreshTask, BlockTypes DEF ImportBlock
<1> QED BY <1>1, <1>2, <1>5 DEF ChainInv

LEMMA ImportSideStep ==
  ASSUME ChainInv, NEW b \in Blocks, ImportSide(b)
  PROVE  ChainInv'
<1>1. DiskOK'
  BY QuietDisk, BlockTypes DEF ChainInv, ImportSide, DiskOK
<1>2. MemoryOK'
  BY DEF ChainInv, MemoryOK, ImportSide
<1>3. TaskOK'
  BY SegmentOK, IdleTask, BlockTypes DEF ImportSide
<1> QED BY <1>1, <1>2, <1>3 DEF ChainInv

LEMMA ReimportStep ==
  ASSUME ChainInv, NEW b \in Blocks, Reimport(b)
  PROVE  ChainInv'
<1>1. DiskOK'
  BY QuietDisk DEF ChainInv, Reimport, disk, DiskOK
<1>2. MemoryOK'
  BY DEF ChainInv, MemoryOK, Reimport, disk
<1>3. TaskOK'
  BY SegmentOK, BlockTypes DEF Reimport
<1> QED BY <1>1, <1>2, <1>3 DEF ChainInv

LEMMA CalculateStep ==
  ASSUME ChainInv, NEW b \in Blocks, Calculate(b)
  PROVE  ChainInv'
<1>1. DiskOK'
  BY QuietDisk DEF ChainInv, Calculate, disk, DiskOK
<1>2. MemoryOK'
  BY DEF ChainInv, MemoryOK, Calculate, disk
<1>3. TaskOK'
  BY DEF ChainInv, TaskOK, Calculate, disk
<1> QED BY <1>1, <1>2, <1>3 DEF ChainInv

LEMMA InsertResultStep ==
  ASSUME ChainInv, NEW b \in Blocks, InsertResult(b)
  PROVE  ChainInv'
<1>1. DiskOK'
  BY QuietDisk, BlockTypes DEF ChainInv, InsertResult, DiskOK
<1>2. MemoryOK'
  BY DEF ChainInv, MemoryOK, InsertResult
<1>3. head' = head /\ head \in All
  BY BlockTypes DEF InsertResult, ChainInv, DiskOK
<1>4. CASE HasExecutedBlock(b)
  <2>1. stored' = stored /\ b \in stored \ {Genesis}
    BY <1>4, BlockTypes DEF InsertResult, HasExecutedBlock
  <2>2. CASE BeatsHead(b)
    <3>1. op' = Task("adopt", b, {}) /\ Number[head] < Number[b]
      BY <1>3, <1>4, <2>2, BlockTypes DEF InsertResult, BeatsHead
    <3>2. TaskOK'
      BY <1>3, <2>1, <3>1, FreshTask, BlockTypes
    <3> QED BY <1>1, <1>2, <3>2 DEF ChainInv
  <2>3. CASE ~ BeatsHead(b)
    <3>1. TaskOK'
      BY <1>4, <2>3, IdleTask DEF InsertResult
    <3> QED BY <1>1, <1>2, <3>1 DEF ChainInv
  <2> QED BY <2>2, <2>3
<1>5. CASE ~ HasExecutedBlock(b) /\ Parent[b] \in stored
  <2>1. op' = Task("commit", b, {}) /\ b \in stored' \ {Genesis}
    BY <1>5, BlockTypes DEF InsertResult
  <2>2. TaskOK'
    BY <2>1, FreshTask, BlockTypes
  <2> QED BY <1>1, <1>2, <2>2 DEF ChainInv
<1>6. CASE ~ HasExecutedBlock(b) /\ Parent[b] \notin stored
  <2>1. TaskOK'
    BY <1>6 DEF ChainInv, TaskOK, InsertResult
  <2> QED BY <1>1, <1>2, <2>1 DEF ChainInv
<1> QED BY <1>4, <1>5, <1>6

-----------------------------------------------------------------------------
(* From the block batch to the marker.                                        *)

(* A step within the writing of a block.                                      *)
LEMMA WritingMove ==
  ASSUME TaskOK, op.pc \in {"commit", "collect"}, NEW pc \in {"collect", "mark"},
         op' = [op EXCEPT !.pc = pc], UNCHANGED stored
  PROVE  TaskOK'
<1>1. pc \in Steps
  BY DEF Steps
<1>2. /\ op' \in Tasks /\ op'.pc = pc /\ op'.block = op.block /\ op'.todo = op.todo
  BY <1>1, MovedTask DEF TaskOK
<1> QED BY <1>2 DEF TaskOK

LEMMA CommitStateStep ==
  ASSUME ChainInv, CommitState
  PROVE  ChainInv'
<1>1. DiskOK'
  BY QuietDisk DEF ChainInv, CommitState, DiskOK
<1>2. op.block \in Blocks
  BY DEF ChainInv, DiskOK, TaskOK, CommitState, All
<1>3. MemoryOK'
  BY <1>2 DEF ChainInv, MemoryOK, CommitState
<1>4. TaskOK'
  <2>1. \E pc \in {"collect", "mark"} : op' = [op EXCEPT !.pc = pc]
    BY DEF CommitState
  <2> QED BY <2>1, WritingMove DEF ChainInv, CommitState
<1> QED BY <1>1, <1>3, <1>4 DEF ChainInv

LEMMA CollectStep ==
  ASSUME ChainInv, NEW flush, Collect(flush)
  PROVE  ChainInv'
<1>1. DiskOK'
  BY QuietDisk DEF ChainInv, Collect, DiskOK
<1>2. MemoryOK'
  BY DEF ChainInv, MemoryOK, Collect
<1>3. TaskOK'
  BY WritingMove DEF ChainInv, Collect
<1> QED BY <1>1, <1>2, <1>3 DEF ChainInv

LEMMA WriteRefusedStep ==
  ASSUME ChainInv, WriteRefused
  PROVE  ChainInv'
<1>1. DiskOK'
  BY QuietDisk DEF ChainInv, WriteRefused, disk, DiskOK
<1>2. MemoryOK'
  BY DEF ChainInv, MemoryOK, WriteRefused, disk
<1>3. TaskOK'
  BY IdleTask DEF WriteRefused
<1> QED BY <1>1, <1>2, <1>3 DEF ChainInv

LEMMA WriteMarkerStep ==
  ASSUME ChainInv, WriteMarker
  PROVE  ChainInv'
<1>1. DiskOK'
  BY QuietDisk DEF ChainInv, WriteMarker, DiskOK
<1>2. op.block \in Blocks
  BY DEF ChainInv, DiskOK, TaskOK, WriteMarker, All
<1>3. MemoryOK'
  BY <1>2 DEF ChainInv, MemoryOK, WriteMarker
<1>4. CASE BeatsHead(op.block)
  <2>1. "adopt" \in Steps /\ op' = [op EXCEPT !.pc = "adopt"] /\ op \in Tasks
    BY <1>4 DEF WriteMarker, Steps, ChainInv, TaskOK
  <2>2. op' \in Tasks /\ op'.pc = "adopt" /\ op'.block = op.block /\ op'.todo = op.todo
    BY <2>1, MovedTask
  <2>3. Number[head'] < Number[op.block]
    BY <1>2, <1>4, BlockTypes DEF WriteMarker, BeatsHead, ChainInv, DiskOK
  <2>4. TaskOK'
    BY <2>2, <2>3 DEF ChainInv, TaskOK, WriteMarker
  <2> QED BY <1>1, <1>3, <2>4 DEF ChainInv
<1>5. CASE ~ BeatsHead(op.block)
  <2>1. TaskOK'
    BY <1>5, NextTaskOK DEF WriteMarker, ChainInv
  <2> QED BY <1>1, <1>3, <2>1 DEF ChainInv
<1> QED BY <1>4, <1>5

-----------------------------------------------------------------------------
(* Adoption.                                                                  *)

LEMMA AdoptStep ==
  ASSUME ChainInv, Adopt
  PROVE  ChainInv'
<1> DEFINE b == op.block
           between == (Path[b] \ Path[head]) \ {b}
<1>1. DiskOK'
  BY QuietDisk DEF ChainInv, Adopt, disk, DiskOK
<1>2. MemoryOK'
  BY DEF ChainInv, MemoryOK, Adopt, disk
<1>3. /\ op \in Tasks /\ op.pc = "adopt" /\ op.todo = {} /\ b \in stored \ {Genesis}
      /\ b \in Blocks /\ Number[head] < Number[b] /\ head \in All
      /\ UNCHANGED <<stored, head, committed>>
  BY BlockTypes DEF ChainInv, DiskOK, TaskOK, Adopt, All, disk
<1>4. CASE Parent[b] = head
  <2>1. "head" \in Steps /\ op' = [op EXCEPT !.pc = "head"]
    BY <1>4 DEF Adopt, Steps
  <2>2. op' \in Tasks /\ op'.pc = "head" /\ op'.block = b /\ op'.todo = {}
    BY <1>3, <2>1, MovedTask
  <2>3. Path[b] = Path[head] \cup {b}
    BY <1>3, <1>4, PathStep
  <2> HIDE DEF b
  <2>4. TaskOK'
    BY <1>3, <2>2, <2>3 DEF TaskOK
  <2> QED BY <1>1, <1>2, <2>4 DEF ChainInv
<1>5. CASE /\ Parent[b] # head
           /\ ReorgAllowed(b)
           /\ between \subseteq stored
           /\ \A x \in between : NeedsSnapshot(x) => x \in snaps \/ HasState(x)
  <2>1. op' = [op EXCEPT !.pc = "promote", !.todo = between, !.seen = committed]
    BY <1>5 DEF Adopt
  <2>2. between \in SUBSET Blocks
    BY <1>3, BlockTypes, ParentIsAncestor, GenesisIsAncestor
  <2> HIDE DEF between
  <2>3. /\ op' \in Tasks /\ op'.pc = "promote" /\ op'.block = b /\ op'.todo = between
        /\ op'.seen = committed
    BY <1>3, <2>1, <2>2, Zenon DEF Tasks, Steps, ChainInv, MemoryOK
  <2>4. committed \in Path[head] => committed \in Path[b]
    BY <1>3, <1>5, BlockTypes, GenesisIsAncestor DEF ReorgAllowed, None
  <2>5. /\ between \subseteq (stored \cap Path[b]) \ (Path[head] \cup {b})
        /\ Path[b] \subseteq Path[head] \cup between \cup {b}
    BY <1>5 DEF between
  <2> HIDE DEF b
  <2>6. TaskOK'
    BY <1>3, <2>3, <2>4, <2>5 DEF TaskOK
  <2> QED BY <1>1, <1>2, <2>6 DEF ChainInv
<1>6. CASE op' = Idle
  BY <1>1, <1>2, <1>6, IdleTask DEF ChainInv
<1> QED BY <1>4, <1>5, <1>6 DEF Adopt

(* A block on top of the head's path becomes the head.                        *)
LEMMA WriteHeadBlockKeeps ==
  ASSUME DiskOK, NEW b \in Blocks, WriteHeadBlock(b), UNCHANGED stored,
         b \in stored, Path[b] \subseteq Path[head] \cup {b}
  PROVE  DiskOK' /\ head' = b
<1>1. /\ head \in All /\ b \in All /\ Number[b] \in Numbers /\ Path[head] \subseteq stored
      /\ b \in Path[b] /\ b # Genesis
  BY BlockTypes DEF DiskOK, HeadIsStored
<1>2. /\ canon' = [canon EXCEPT ![Number[b]] = b] /\ head' = b /\ header' = b
      /\ snaps \subseteq snaps' /\ snaps' \subseteq Blocks
      /\ NeedsSnapshot(b) => b \in snaps'
  BY DEF WriteHeadBlock, DiskOK
<1>3. canon' \in [Numbers -> All] /\ canon'[Number[b]] = b
  BY <1>1, <1>2 DEF DiskOK
<1>4. \A n \in Numbers : canon'[n] = None \/ Number[canon'[n]] = n
  BY <1>1, <1>2 DEF DiskOK
<1>5. HeadIsStored'
  BY <1>1, <1>2 DEF HeadIsStored
<1>6. CanonIsPath'
  <2>1. SUFFICES ASSUME NEW x \in Path[b] \ {Genesis}
                 PROVE  canon'[Number[x]] = x
    BY <1>2 DEF CanonIsPath
  <2>2. CASE x = b
    BY <1>3, <2>2
  <2>3. CASE x # b
    <3>1. x \in Path[head] \ {Genesis} /\ x \in Blocks /\ Number[x] \in Numbers
      BY <1>1, <2>3, ParentIsAncestor, BlockTypes
    <3>2. Number[x] # Number[b]
      BY <1>1, <2>3, <3>1, PathNumbers, BlockTypes
    <3>3. canon[Number[x]] = x
      BY <3>1 DEF DiskOK, CanonIsPath
    <3> QED BY <1>2, <3>1, <3>2, <3>3 DEF DiskOK
  <2> QED BY <2>2, <2>3
<1>7. GapBlocksHaveSnapshots'
  BY <1>2 DEF DiskOK, GapBlocksHaveSnapshots, NeedsSnapshot
<1> QED BY <1>1, <1>2, <1>3, <1>4, <1>5, <1>6, <1>7 DEF DiskOK

LEMMA PromoteStep ==
  ASSUME ChainInv, NEW b \in Blocks, Promote(b)
  PROVE  ChainInv'
<1> DEFINE t == op.block
<1>1. /\ op \in Tasks /\ op.pc = "promote" /\ t \in stored \ {Genesis} /\ t \in All
      /\ op.todo \subseteq (stored \cap Path[t]) \ (Path[head] \cup {t})
      /\ Path[t] \subseteq Path[head] \cup op.todo \cup {t}
      /\ op.seen \in Path[head] => op.seen \in Path[t]
      /\ head \in All
  BY BlockTypes DEF ChainInv, DiskOK, TaskOK, Promote
<1>2. /\ b \in op.todo /\ \A x \in op.todo : Number[b] <= Number[x]
      /\ WriteHeadBlock(b) /\ op' = [op EXCEPT !.todo = @ \ {b}]
      /\ UNCHANGED <<stored, executed, flushed, live, results, committed>>
  BY DEF Promote, IsLowest
<1>3. /\ op' \in Tasks /\ op'.pc = "promote" /\ op'.block = t /\ op'.todo = op.todo \ {b}
      /\ op'.seen = op.seen
  BY <1>1, <1>2 DEF Tasks
<1> HIDE DEF t
<1>4. b \in Path[t] /\ b # t /\ b \notin Path[head] /\ b \in All /\ Path[b] \subseteq Path[t]
  BY <1>1, <1>2, PathOfAncestor, BlockTypes
<1>5. \A x \in Path[b] : x = b \/ Number[x] < Number[b]
  BY <1>4, PathNumbers
<1>6. \A x \in op.todo : x \notin Path[b] \/ x = b
  BY <1>1, <1>2, <1>4, <1>5, BlockTypes
<1>7. t \notin Path[b]
  BY <1>1, <1>4, <1>5, PathNumbers, BlockTypes
<1>8. Path[b] \subseteq Path[head] \cup {b}
  BY <1>1, <1>4, <1>6, <1>7
<1>9. DiskOK' /\ head' = b
  BY <1>1, <1>2, <1>8, WriteHeadBlockKeeps DEF ChainInv
<1>10. MemoryOK'
  BY <1>2 DEF ChainInv, MemoryOK
<1>11. ASSUME NEW x \in Path[head], x \in Path[t]
       PROVE  x \in Path[b]
  <2>1. x \in Path[b] \/ b \in Path[x]
    BY <1>1, <1>4, <1>11, PathIsLinear
  <2> QED BY <1>1, <1>4, <2>1, PathOfAncestor
<1>12. TaskOK'
  <2>1. Number[b] < Number[t]
    BY <1>1, <1>4, PathNumbers
  <2>2. op'.todo \subseteq (stored \cap Path[t]) \ (Path[b] \cup {t})
    BY <1>1, <1>3, <1>6
  <2>3. Path[t] \subseteq Path[b] \cup op'.todo \cup {t}
    BY <1>1, <1>3, <1>4, <1>11, BlockTypes
  <2> QED BY <1>1, <1>2, <1>3, <1>4, <1>9, <2>1, <2>2, <2>3 DEF TaskOK
<1> QED BY <1>9, <1>10, <1>12 DEF ChainInv

LEMMA TrimStep ==
  ASSUME ChainInv, Trim
  PROVE  ChainInv'
<1> DEFINE from == Number[op.block]
           stale(n) == \A k \in from .. n : canon[k] # None
<1>1. /\ op \in Tasks /\ op.pc = "promote" /\ op.todo = {} /\ Number[head] < from
      /\ from \in Nat /\ head \in All /\ op.block \in All
      /\ UNCHANGED <<stored, executed, flushed, head, header, snaps, live, results, committed>>
      /\ op' = [op EXCEPT !.pc = "head"]
  BY BlockTypes DEF ChainInv, DiskOK, TaskOK, Trim, Tasks
<1>2. canon' = [n \in DOMAIN canon |-> IF n >= from /\ stale(n) THEN None ELSE canon[n]]
  BY DEF Trim, FirstStale
<1>3. /\ DOMAIN canon = Numbers /\ canon \in [Numbers -> All] /\ None \in All
      /\ \A n \in Numbers : canon[n] = None \/ Number[canon[n]] = n
  BY BlockTypes DEF ChainInv, DiskOK, None
<1> HIDE DEF from, stale
<1>4. canon' \in [Numbers -> All]
  BY <1>2, <1>3
<1>5. \A n \in Numbers : canon'[n] = None \/ Number[canon'[n]] = n
  BY <1>2, <1>3
<1>6. CanonIsPath'
  <2>1. SUFFICES ASSUME NEW x \in Path[head] \ {Genesis}
                 PROVE  canon'[Number[x]] = x
    BY <1>1 DEF CanonIsPath
  <2>2. x \in Blocks /\ Number[x] \in Numbers /\ Number[x] \in Nat /\ Number[x] <= Number[head]
    BY <1>1, ParentIsAncestor, PathNumbers, BlockTypes
  <2>3. canon[Number[x]] = x
    BY DEF ChainInv, DiskOK, CanonIsPath
  <2>4. ~ (Number[x] >= from)
    BY <1>1, <2>2, BlockTypes
  <2> QED BY <1>2, <1>3, <2>2, <2>3, <2>4
<1>7. DiskOK'
  BY <1>1, <1>4, <1>5, <1>6
  DEF ChainInv, DiskOK, HeadIsStored, GapBlocksHaveSnapshots, NeedsSnapshot
<1>8. MemoryOK'
  BY <1>1 DEF ChainInv, MemoryOK
<1>9. TaskOK'
  <2>1. "head" \in Steps
    BY DEF Steps
  <2>2. op' \in Tasks /\ op'.pc = "head" /\ op'.block = op.block /\ op'.todo = op.todo
    BY <1>1, <2>1, MovedTask
  <2> QED BY <1>1, <2>2 DEF ChainInv, TaskOK
<1> QED BY <1>7, <1>8, <1>9 DEF ChainInv

LEMMA WriteHeadStep ==
  ASSUME ChainInv, WriteHead
  PROVE  ChainInv'
<1>1. /\ op.block \in stored /\ op.block \in Blocks /\ UNCHANGED stored
      /\ WriteHeadBlock(op.block) /\ Path[op.block] \subseteq Path[head] \cup {op.block}
  BY DEF ChainInv, DiskOK, TaskOK, WriteHead, All
<1>2. DiskOK'
  BY <1>1, WriteHeadBlockKeeps DEF ChainInv
<1>3. MemoryOK'
  BY DEF ChainInv, MemoryOK, WriteHead
<1>4. TaskOK'
  BY NextTaskOK DEF WriteHead, ChainInv
<1> QED BY <1>2, <1>3, <1>4 DEF ChainInv

-----------------------------------------------------------------------------
(* Rewind, restart and commit.                                                *)

LEMMA RewindStep ==
  ASSUME ChainInv, NEW n \in Nat, Rewind(n)
  PROVE  ChainInv'
<1>1. DiskOK'
  BY QuietDisk DEF ChainInv, Rewind, disk, DiskOK
<1>2. MemoryOK'
  BY DEF ChainInv, MemoryOK, Rewind, disk
<1>3. op' = [Idle EXCEPT !.pc = "rewind", !.target = n] /\ Idle \in Tasks /\ Idle.todo = {}
  BY BlockTypes DEF Rewind, Idle, Task, Tasks, Steps, None
<1> HIDE DEF Idle
<1>4. op' \in Tasks /\ op'.pc = "rewind" /\ op'.todo = {}
  BY <1>3, Zenon DEF Tasks, Steps, Idle, Task
<1>5. TaskOK'
  BY <1>4 DEF TaskOK
<1> QED BY <1>1, <1>2, <1>5 DEF ChainInv

(* The markers go down before anything is deleted.                            *)
LEMMA LowerStep ==
  ASSUME ChainInv, Lower
  PROVE  ChainInv'
<1> DEFINE p == Parent[header]
           D == {x \in stored : Number[x] = Number[header]}
<1>1. /\ op \in Tasks /\ op.pc = "rewind" /\ \A x \in op.todo : Number[header] < Number[x]
      /\ header \in All /\ head \in Path[header] /\ head \in All /\ stored \subseteq All
      /\ Number[header] > op.target /\ op.target \in Nat /\ op.todo \subseteq Blocks
  BY BlockTypes DEF ChainInv, DiskOK, TaskOK, Tasks, Lower
<1>2. /\ header' = p
      /\ head' = IF Number[p] >= Number[head] THEN head
                 ELSE IF p \in stored /\ HasState(p) THEN p ELSE Genesis
      /\ op' = [op EXCEPT !.todo = @ \cup D]
      /\ UNCHANGED <<stored, executed, flushed, canon, snaps, live, results, committed>>
  BY DEF Lower
<1>3. /\ header \in Blocks /\ p \in All /\ Number[header] = Number[p] + 1
      /\ Number[p] \in Nat /\ Path[header] = Path[p] \cup {header}
  BY <1>1, BlockTypes, PathStep DEF All
<1>4. D \in SUBSET Blocks
  BY <1>1, <1>3, BlockTypes DEF All
<1> HIDE DEF p, D
<1>5. op' \in Tasks /\ op'.pc = "rewind" /\ op'.todo = op.todo \cup D
  BY <1>1, <1>2, <1>4 DEF Tasks
<1>6. head' \in Path[p]
  <2>1. CASE Number[p] >= Number[head]
    BY <1>1, <1>2, <1>3, <2>1, BlockTypes
  <2>2. CASE ~ (Number[p] >= Number[head])
    BY <1>2, <1>3, <2>2, BlockTypes, GenesisIsAncestor
  <2> QED BY <2>1, <2>2
<1>7. head' \in Path[head]
  <2>1. CASE Number[p] >= Number[head]
    BY <1>1, <1>2, <2>1, BlockTypes
  <2>2. CASE ~ (Number[p] >= Number[head])
    <3>1. head = header
      BY <1>1, <1>3, <2>2, PathNumbers, BlockTypes
    <3> QED BY <1>3, <1>6, <3>1
  <2> QED BY <2>1, <2>2
<1>8. Path[head'] \subseteq Path[head] /\ Path[p] \subseteq Path[header]
  BY <1>1, <1>3, <1>7, PathOfAncestor
<1>9. DiskOK'
  BY <1>2, <1>3, <1>6, <1>8
  DEF ChainInv, DiskOK, HeadIsStored, CanonIsPath, GapBlocksHaveSnapshots, NeedsSnapshot
<1>10. MemoryOK'
  BY <1>2 DEF ChainInv, MemoryOK
<1>11. \A x \in op.todo \cup D : Number[p] < Number[x]
  BY <1>1, <1>3, <1>4, BlockTypes DEF D
<1>12. TaskOK'
  BY <1>2, <1>5, <1>11 DEF TaskOK
<1> QED BY <1>9, <1>10, <1>12 DEF ChainInv

(* A batch of deletions above the header leaves its path alone.               *)
LEMMA DeleteKeeps ==
  ASSUME DiskOK, MemoryOK, NEW D \in SUBSET Blocks, Delete(D),
         \A x \in D : Number[header] < Number[x],
         UNCHANGED <<flushed, head, header, live, results, committed>>
  PROVE  DiskOK' /\ MemoryOK'
<1>1. /\ header \in All /\ head \in Path[header] /\ head \in All
      /\ Path[head] \subseteq Path[header] /\ Path[header] \subseteq stored
      /\ DOMAIN canon = Numbers /\ canon \in [Numbers -> All] /\ None \in All
      /\ \A n \in Numbers : canon[n] = None \/ Number[canon[n]] = n
  BY BlockTypes, PathOfAncestor DEF DiskOK, HeadIsStored, None
<1>2. /\ stored' = stored \ D /\ executed' = executed \ D /\ snaps' = snaps \ D
      /\ canon' = [n \in DOMAIN canon |->
                    IF \E x \in D : Number[x] = n THEN None ELSE canon[n]]
  BY DEF Delete
<1>3. \A x \in Path[header] : x \notin D /\ ~ \E y \in D : Number[y] = Number[x]
  BY <1>1, PathNumbers, BlockTypes
<1>4. canon' \in [Numbers -> All]
  BY <1>1, <1>2
<1>5. \A n \in Numbers : canon'[n] = None \/ Number[canon'[n]] = n
  BY <1>1, <1>2
<1>6. CanonIsPath'
  <2>1. SUFFICES ASSUME NEW x \in Path[head] \ {Genesis}
                 PROVE  canon'[Number[x]] = x
    BY DEF CanonIsPath
  <2>2. x \in Path[header] /\ Number[x] \in Numbers
    BY <1>1, ParentIsAncestor, BlockTypes
  <2>3. canon[Number[x]] = x
    BY DEF DiskOK, CanonIsPath
  <2> QED BY <1>1, <1>2, <1>3, <2>2, <2>3
<1>7. HeadIsStored' /\ GapBlocksHaveSnapshots'
  BY <1>1, <1>2, <1>3 DEF DiskOK, HeadIsStored, GapBlocksHaveSnapshots, NeedsSnapshot
<1>8. MemoryOK'
  BY <1>2 DEF MemoryOK
<1>9. Genesis \in stored' /\ stored' \subseteq All /\ snaps' \subseteq Blocks
  BY <1>2, BlockTypes DEF DiskOK
<1> QED BY <1>1, <1>4, <1>5, <1>6, <1>7, <1>8, <1>9 DEF DiskOK

LEMMA FlushDeletionsStep ==
  ASSUME ChainInv, FlushDeletions
  PROVE  ChainInv'
<1>1. /\ op \in Tasks /\ op.todo \in SUBSET Blocks
      /\ \A x \in op.todo : Number[header] < Number[x]
  BY DEF ChainInv, TaskOK, Tasks, FlushDeletions
<1>2. DiskOK' /\ MemoryOK'
  BY <1>1, DeleteKeeps DEF ChainInv, FlushDeletions
<1>3. op.pc = "rewind" /\ op' = [op EXCEPT !.todo = {}]
  BY DEF FlushDeletions
<1>4. op' \in Tasks /\ op'.pc = "rewind" /\ op'.todo = {}
  BY <1>1, <1>3 DEF Tasks
<1>5. TaskOK'
  BY <1>4 DEF TaskOK
<1> QED BY <1>2, <1>5 DEF ChainInv

LEMMA SweepStep ==
  ASSUME ChainInv, Sweep
  PROVE  ChainInv'
<1> DEFINE D == {x \in stored : Number[x] > op.target}
<1>1. op.target \in Nat /\ header \in All /\ Number[header] <= op.target /\ stored \subseteq All
  BY DEF ChainInv, DiskOK, TaskOK, Tasks, Sweep
<1>2. D \in SUBSET Blocks /\ \A x \in D : Number[header] < Number[x]
  BY <1>1, BlockTypes DEF All
<1>3. Delete(D)
  BY DEF Sweep
<1> HIDE DEF D
<1>4. DiskOK' /\ MemoryOK'
  BY <1>2, <1>3, DeleteKeeps DEF ChainInv, Sweep
<1>5. TaskOK'
  BY IdleTask DEF Sweep
<1> QED BY <1>4, <1>5 DEF ChainInv

(* A new process finds its head on the path of the old one.                   *)
LEMMA OpenKeeps ==
  ASSUME DiskOK, NEW onDisk, Open(onDisk), executed' \subseteq Blocks, flushed' \subseteq Blocks
  PROVE  ChainInv'
<1> DEFINE has == {x \in Path[head] : x = Genesis \/ x \in onDisk}
           to == CHOOSE x \in has : \A y \in has : Number[y] <= Number[x]
<1>1. header \in All /\ head \in Path[header] /\ head \in All
  BY BlockTypes DEF DiskOK
<1>2. has \in SUBSET Path[head] /\ has # {}
  BY <1>1, GenesisIsAncestor
<1>3. /\ head' = to /\ header' = IF to = head THEN header ELSE to
      /\ live' = {} /\ results' = {} /\ committed' = None /\ op' = Idle
      /\ UNCHANGED <<stored, canon, snaps>>
  BY DEF Open
<1> HIDE DEF has
<1>4. to \in has
  <2>1. \E x \in has : \A y \in has : Number[y] <= Number[x]
    BY <1>1, <1>2, HighestOnPath
  <2> QED BY <2>1
<1> HIDE DEF to
<1>5. to \in Path[head] /\ to \in All /\ Path[to] \subseteq Path[head] /\ to \in Path[to]
  BY <1>1, <1>2, <1>4, PathOfAncestor, BlockTypes
<1>6. DiskOK'
  BY <1>1, <1>3, <1>5
  DEF DiskOK, HeadIsStored, CanonIsPath, GapBlocksHaveSnapshots, NeedsSnapshot
<1>7. MemoryOK'
  BY <1>3, BlockTypes DEF MemoryOK, None
<1>8. TaskOK'
  BY <1>3, IdleTask
<1> QED BY <1>6, <1>7, <1>8 DEF ChainInv

LEMMA CrashStep ==
  ASSUME ChainInv, Crash
  PROVE  ChainInv'
BY OpenKeeps DEF ChainInv, MemoryOK, Crash

LEMMA StopStep ==
  ASSUME ChainInv, Stop
  PROVE  ChainInv'
<1>1. executed' \subseteq Blocks /\ flushed' \subseteq Blocks /\ Open(flushed')
  BY DEF ChainInv, MemoryOK, Stop
<1> QED BY <1>1, OpenKeeps DEF ChainInv

LEMMA CommitStep ==
  ASSUME ChainInv, NEW b \in Blocks, Commit(b)
  PROVE  ChainInv'
<1>1. DiskOK'
  BY QuietDisk DEF ChainInv, Commit, disk, DiskOK
<1>2. MemoryOK'
  BY BlockTypes DEF ChainInv, MemoryOK, Commit, disk
<1>3. TaskOK'
  BY DEF ChainInv, TaskOK, Commit, disk
<1> QED BY <1>1, <1>2, <1>3 DEF ChainInv

-----------------------------------------------------------------------------

LEMMA InitEstablishesInv == Init => ChainInv
<1> SUFFICES ASSUME Init
             PROVE  ChainInv
  OBVIOUS
<1>1. Path[Genesis] = {Genesis}
  <2>1. {Genesis} \in Closed
    BY BlockTypes DEF Closed
  <2> QED BY <2>1, BlockTypes, PathAssumption
<1>2. DiskOK
  BY <1>1, BlockTypes, GapAssumption
  DEF Init, DiskOK, HeadIsStored, CanonIsPath, GapBlocksHaveSnapshots, NeedsSnapshot, Numbers, None
<1>3. MemoryOK
  BY BlockTypes DEF Init, MemoryOK, None
<1>4. TaskOK
  <2>1. Idle \in Tasks /\ Idle.pc = "idle" /\ Idle.todo = {}
    BY BlockTypes DEF Idle, Task, Tasks, Steps, None
  <2> QED BY <2>1 DEF Init, TaskOK
<1> QED BY <1>2, <1>3, <1>4 DEF ChainInv

LEMMA ChainInvStep == ChainInv /\ [Next]_vars => ChainInv'
<1> SUFFICES ASSUME ChainInv, [Next]_vars
             PROVE  ChainInv'
  OBVIOUS
<1>1. CASE UNCHANGED vars
  <2>1. DiskOK'
    BY <1>1, QuietDisk DEF ChainInv, DiskOK, vars
  <2> QED BY <1>1, <2>1, Zenon DEF ChainInv, MemoryOK, TaskOK, vars
<1>2. CASE Step
  BY Zenon, <1>2, CommitStateStep, CollectStep, WriteMarkerStep, AdoptStep, TrimStep, WriteHeadStep,
     LowerStep, FlushDeletionsStep, SweepStep, PromoteStep, ImportKnownStep, SkipKnownStep,
     ImportBlockStep
  DEF Step
<1>3. ASSUME NEW b \in Blocks, Deliver(b) \/ Fetch(b) \/ Commit(b)
      PROVE  ChainInv'
  BY <1>3, ImportKnownStep, ImportBlockStep, ImportSideStep, CalculateStep, ReimportStep,
     InsertResultStep, CommitStep
  DEF Deliver, Fetch
<1>4. ASSUME NEW n \in 0 .. Number[Tip], Rewind(n)
      PROVE  ChainInv'
  BY <1>4, RewindStep, TipAssumption, BlockTypes
<1> QED BY <1>1, <1>2, <1>3, <1>4, WriteRefusedStep, CrashStep, StopStep DEF Next

(* The markers, the canonical numbers and the snapshots on disk, and what the *)
(* holder of chainmu still has to write, fit together after every write of    *)
(* core/blockchain.go and core/headerchain.go, and after a crash.             *)
THEOREM ChainInvariant == Spec => []ChainInv
BY InitEstablishesInv, ChainInvStep, PTL DEF Spec

(* No sequence of imports, reorgs, rewinds, refused writes and crashes leaves *)
(* a marker on a block that is not stored, or a canonical number up to the    *)
(* head that names a block off the head's chain.                              *)
THEOREM DatabaseStaysConsistent == Spec => []DatabaseConsistent
<1>1. ChainInv => DatabaseConsistent
  <2> SUFFICES ASSUME ChainInv
               PROVE  DatabaseConsistent
    OBVIOUS
  <2>1. DOMAIN canon = Numbers /\ head \in All
    BY BlockTypes DEF ChainInv, DiskOK
  <2>2. TypeOK
    BY <2>1 DEF ChainInv, DiskOK, MemoryOK, TypeOK
  <2> QED BY <2>2 DEF ChainInv, DiskOK, DatabaseConsistent
<1> QED BY <1>1, ChainInvariant, PTL

(* writeHeadBlock and reorg never make a gap block canonical without the      *)
(* snapshot that the next epoch reads.                                        *)
THEOREM SnapshotsComplete == Spec => []GapBlocksHaveSnapshots
<1>1. ChainInv => GapBlocksHaveSnapshots
  BY DEF ChainInv, DiskOK
<1> QED BY <1>1, ChainInvariant, PTL

(* A step other than one of a rewind keeps the committed block canonical,     *)
(* unless it was committed behind the back of a reorg.                        *)
LEMMA CommittedKept ==
  ASSUME ChainInv, Next, committed \in Path[head], committed' = committed, op.pc # "rewind",
         ~CommittedTooLate
  PROVE  committed \in Path[head']
<1>1. head \in All
  BY BlockTypes DEF ChainInv, DiskOK
<1>2. CASE head' = head
  BY <1>2
<1>3. ASSUME NEW b \in Blocks, Promote(b)
      PROVE  committed \in Path[b] /\ head' = b
  <2>1. /\ b \in op.todo /\ op.todo \subseteq Path[op.block] \ Path[head] /\ op.block \in All
        /\ committed \in Path[op.block] /\ head' = b
    BY <1>3 DEF ChainInv, TaskOK, Tasks, Promote, IsLowest, WriteHeadBlock, CommittedTooLate
  <2>2. committed \in Path[b] \/ b \in Path[committed]
    BY <2>1, PathIsLinear
  <2>3. Path[committed] \subseteq Path[head]
    BY <1>1, PathOfAncestor
  <2> QED BY <2>1, <2>2, <2>3
<1>4. CASE WriteHead
  BY <1>4 DEF ChainInv, TaskOK, WriteHead, WriteHeadBlock, CommittedTooLate
<1>5. CASE Crash \/ Stop
  <2>1. committed = Genesis
    BY <1>5 DEF Crash, Stop, Open, None
  <2>2. ChainInv'
    BY <1>5, CrashStep, StopStep, Zenon
  <2>3. head' \in All
    BY <2>2, BlockTypes DEF ChainInv, DiskOK
  <2> QED BY <2>1, <2>3, GenesisIsAncestor, Zenon
<1>6. CASE \/ \E b \in Blocks : Deliver(b) \/ Fetch(b) \/ Commit(b) \/ SkipKnown(b)
           \/ \E n \in 0 .. Number[Tip] : Rewind(n)
           \/ WriteRefused \/ CommitState \/ Collect(FALSE) \/ Collect(TRUE) \/ WriteMarker
           \/ Adopt \/ Trim
  <2>1. head' = head
    BY <1>6, Zenon DEF Deliver, Fetch, Commit, SkipKnown, Rewind, WriteRefused, CommitState, Collect,
                WriteMarker, Adopt, Trim, ImportKnown, ImportBlock, ImportSide, Calculate,
                Reimport, InsertResult, disk
  <2> QED BY <2>1
<1> QED BY <1>3, <1>4, <1>5, <1>6, Zenon DEF Next, Step, Deliver, Lower, FlushDeletions, Sweep

(* reorg drops no block that the engine had committed when reorg asked, nor   *)
(* one of the chain that it promotes, however often the engine commits while  *)
(* it promotes its blocks.                                                    *)
THEOREM ReorgKeepsCommitted == Spec => CommittedStays
<1>1. ChainInv /\ [Next]_vars =>
        [(/\ committed \in Path[head] /\ committed' = committed /\ op.pc # "rewind"
          /\ ~CommittedTooLate)
           => (committed \in Path[head'])]_vars
  BY CommittedKept
<1> QED BY <1>1, ChainInvariant, PTL DEF Spec, CommittedStays

-----------------------------------------------------------------------------
(* States.                                                                    *)

(* A step that starts or ends a task and drops no state.                      *)
LEMMA QuietState ==
  ASSUME StateOK, op.pc \notin {"promote", "head"}, head' = head,
         live \subseteq live', flushed \subseteq flushed',
         op'.pc \in {"collect", "mark", "adopt", "promote", "head"} => HasState(op.block)'
  PROVE  StateOK'
BY DEF StateOK, HasState

(* A task that works on no block.                                             *)
LEMMA TaskPc ==
  /\ Idle.pc = "idle"
  /\ \A b, q : \A pc : Task(pc, b, q).pc = pc /\ Task(pc, b, q).block = b
BY DEF Idle, Task

LEMMA NextTaskPc == NextTask.pc \in {"idle", "next"}
BY TaskPc DEF NextTask

LEMMA SegmentPc == \A b : Segment(b).pc \in {"idle", "next"}
BY TaskPc DEF Segment

(* The steps that take up a block.                                            *)
LEMMA TakeUpState ==
  ASSUME StateOK, NEW b \in Blocks,
         \/ ImportKnown(b) \/ SkipKnown(b) \/ ImportBlock(b) \/ ImportSide(b)
         \/ Reimport(b) \/ InsertResult(b)
  PROVE  StateOK'
<1>1. /\ head' = head /\ live' = live /\ flushed' = flushed
      /\ op.pc \in {"idle", "next"}
  BY Zenon DEF ImportKnown, SkipKnown, ImportBlock, ImportSide, Reimport, InsertResult, Turn, disk
<1>2. CASE ImportKnown(b)
  <2>1. op'.pc = "adopt" /\ op'.block = b /\ HasState(b)
    BY <1>2, TaskPc DEF ImportKnown, HasExecutedBlock
  <2>2. HasState(op.block)'
    BY <1>1, <2>1 DEF HasState
  <2> QED BY <1>1, <2>2, QuietState
<1>3. CASE SkipKnown(b) \/ ImportBlock(b) \/ ImportSide(b) \/ Reimport(b)
  <2>1. op'.pc \in {"idle", "next", "commit"}
    <3>1. CASE SkipKnown(b) \/ ImportBlock(b)
      <4>1. \E pc \in {"idle", "next", "commit"} : \E x, q : op' = Task(pc, x, q)
        BY <3>1, Zenon DEF SkipKnown, ImportBlock, Idle
      <4> QED BY <4>1, TaskPc
    <3>2. CASE ImportSide(b)
      BY <3>2, SegmentPc, TaskPc, Zenon DEF ImportSide
    <3>3. CASE Reimport(b)
      BY <3>3, SegmentPc, Zenon DEF Reimport
    <3> QED BY <1>3, <3>1, <3>2, <3>3
  <2> QED BY <1>1, <2>1, QuietState
<1>4. CASE InsertResult(b)
  <2>1. CASE HasExecutedBlock(b) /\ BeatsHead(b)
    <3>1. op'.pc = "adopt" /\ op'.block = b /\ HasState(b)
      <4>1. op' = Task("adopt", b, {}) /\ HasState(b)
        BY <1>4, <2>1 DEF InsertResult, HasExecutedBlock
      <4> QED BY <4>1, TaskPc
    <3>2. HasState(op.block)'
      BY <1>1, <3>1 DEF HasState
    <3> QED BY <1>1, <3>2, QuietState
  <2>2. CASE ~(HasExecutedBlock(b) /\ BeatsHead(b))
    <3>1. op'.pc \in {"idle", "commit"}
      <4>1. op' = Idle \/ op' = Task("commit", b, {}) \/ (op' = op /\ op.pc = "idle")
        BY <1>4, <2>2 DEF InsertResult
      <4> QED BY <4>1, TaskPc
    <3> QED BY <1>1, <3>1, QuietState
  <2> QED BY <2>1, <2>2
<1> QED BY <1>2, <1>3, <1>4, Zenon

(* state.Commit puts the state of the block into memory or on disk.           *)
LEMMA CommitStateState ==
  ASSUME ChainInv, StateOK, CommitState
  PROVE  StateOK'
<1>1. /\ op'.block = op.block /\ head' = head
      /\ live \subseteq live' /\ flushed \subseteq flushed'
  BY DEF ChainInv, TaskOK, Tasks, CommitState
<1>2. HasState(op.block)'
  BY <1>1 DEF CommitState, HasState
<1>3. op.pc \notin {"promote", "head"}
  BY DEF CommitState
<1> QED BY <1>1, <1>2, <1>3, QuietState

(* Garbage collection keeps the states of the window: the one of the new      *)
(* block, and the head's unless that is on disk.                              *)
LEMMA CollectState ==
  ASSUME ChainInv, StateOK, HeadInWindow, Collect(FALSE) \/ Collect(TRUE)
  PROVE  StateOK'
<1>1. /\ op \in Tasks /\ op.block \in All /\ head \in All /\ op.pc = "collect"
      /\ op' = [op EXCEPT !.pc = "mark"] /\ head' = head
  BY BlockTypes DEF ChainInv, DiskOK, TaskOK, Tasks, Collect
<1>2. /\ Number[op.block] \in Nat /\ Number[head] \in Nat
      /\ Number[op.block] - TriesInMemory < Number[op.block]
      /\ \/ head \in flushed \cup {Genesis}
         \/ Number[op.block] - TriesInMemory < Number[head]
  BY <1>1, BlockTypes, WindowAssumption DEF HeadInWindow
<1>3. /\ flushed \subseteq flushed'
      /\ \A x \in live : Number[x] > Number[op.block] - TriesInMemory => x \in live'
  <2>1. flushed \subseteq flushed'
    BY DEF Collect
  <2>2. live' = live \ {x \in live : Number[x] <= Number[op.block] - TriesInMemory}
    BY DEF Collect, Chosen
  <2>3. \A x \in live : Number[x] \in Nat
    BY BlockTypes DEF ChainInv, MemoryOK
  <2> QED BY <1>2, <2>1, <2>2, <2>3, WindowAssumption
<1>4. HasState(head) /\ HasState(op.block)
  BY <1>1 DEF StateOK
<1>5. op'.pc = "mark" /\ op'.block = op.block
  BY <1>1 DEF Tasks
<1>6. HasState(head)' /\ HasState(op.block)'
  BY <1>1, <1>2, <1>3, <1>4, <1>5, WindowAssumption DEF HasState
<1> QED BY <1>5, <1>6 DEF StateOK

(* The marker, and the decision to adopt.                                     *)
LEMMA DecideState ==
  ASSUME ChainInv, StateOK, WriteMarker \/ Adopt
  PROVE  StateOK'
<1>1. /\ op \in Tasks /\ op.pc \in {"mark", "adopt"}
      /\ head' = head /\ live' = live /\ flushed' = flushed
  BY DEF ChainInv, TaskOK, WriteMarker, Adopt, disk
<1>2. op'.block = op.block \/ op'.pc \in {"idle", "next"}
  <2>1. CASE WriteMarker
    BY <1>1, <2>1, NextTaskPc DEF Tasks, WriteMarker
  <2>2. CASE Adopt
    BY <1>1, <2>2, TaskPc DEF Tasks, Adopt
  <2> QED BY <2>1, <2>2
<1>3. HasState(op.block)
  BY <1>1 DEF StateOK
<1>4. op'.pc \in {"collect", "mark", "adopt", "promote", "head"} => HasState(op.block)'
  BY <1>1, <1>2, <1>3 DEF HasState
<1> QED BY <1>1, <1>4, QuietState

(* The writes of a reorg and of the new head.                                 *)
LEMMA AdoptionState ==
  ASSUME ChainInv, StateOK, Trim \/ WriteHead \/ \E b \in Blocks : Promote(b)
  PROVE  StateOK'
<1>1. /\ op \in Tasks /\ op.pc \in {"promote", "head"}
      /\ live' = live /\ flushed' = flushed
  BY DEF ChainInv, TaskOK, Promote, Trim, WriteHead
<1>2. HasState(op.block)
  BY <1>1 DEF StateOK
<1>3. CASE Trim \/ \E b \in Blocks : Promote(b)
  <2>1. op'.block = op.block /\ op'.pc \in {"promote", "head"}
    BY <1>1, <1>3 DEF Tasks, Promote, Trim
  <2> QED BY <1>1, <1>2, <2>1 DEF StateOK, HasState
<1>4. CASE WriteHead
  <2>1. head' = op.block /\ op'.pc \in {"idle", "next"}
    BY <1>4, NextTaskPc DEF WriteHead, WriteHeadBlock
  <2> QED BY <1>1, <1>2, <2>1 DEF StateOK, HasState
<1> QED BY <1>3, <1>4

(* A rewind stops at a block with state, or at the genesis block.             *)
LEMMA RewindState ==
  ASSUME ChainInv, StateOK, Lower \/ FlushDeletions \/ Sweep
  PROVE  StateOK'
<1>1. op \in Tasks /\ op.pc = "rewind" /\ live' = live /\ flushed' = flushed
  BY DEF ChainInv, TaskOK, Lower, FlushDeletions, Sweep
<1>2. op'.pc \in {"rewind", "idle"}
  BY <1>1, TaskPc DEF Lower, FlushDeletions, Sweep, Tasks
<1>3. HasState(head)
  BY <1>1 DEF StateOK
<1>4. head' = head \/ HasState(head')
  BY <1>3 DEF Lower, FlushDeletions, Sweep, HasState
<1> QED BY <1>1, <1>2, <1>3, <1>4 DEF StateOK, HasState

(* A new process takes as its head a block whose state is on disk.            *)
LEMMA OpenState ==
  ASSUME DiskOK, NEW onDisk, Open(onDisk), onDisk \subseteq flushed'
  PROVE  StateOK'
<1> DEFINE has == {x \in Path[head] : x = Genesis \/ x \in onDisk}
           to == CHOOSE x \in has : \A y \in has : Number[y] <= Number[x]
<1>1. head \in All
  BY BlockTypes DEF DiskOK
<1>2. has \in SUBSET Path[head] /\ has # {}
  BY <1>1, GenesisIsAncestor
<1>3. head' = to /\ op' = Idle
  BY DEF Open
<1> HIDE DEF has
<1>4. \E x \in has : \A y \in has : Number[y] <= Number[x]
  BY <1>1, <1>2, HighestOnPath
<1>5. to \in has
  BY <1>4
<1> HIDE DEF to
<1>6. HasState(head)'
  BY <1>3, <1>5 DEF HasState, has
<1> QED BY <1>3, <1>6, TaskPc DEF StateOK

(* Every step keeps the states that the head and the task need.               *)
LEMMA StateStep == ChainInv /\ StateOK /\ HeadInWindow /\ [Next]_vars => StateOK'
<1> SUFFICES ASSUME ChainInv, StateOK, HeadInWindow, [Next]_vars
             PROVE  StateOK'
  OBVIOUS
<1>1. CASE UNCHANGED vars
  BY <1>1 DEF StateOK, HasState, vars
<1>2. CASE Step
  <2>1. CASE \E b \in Blocks : ImportKnown(b) \/ SkipKnown(b) \/ ImportBlock(b)
    BY <2>1, TakeUpState
  <2>2. CASE Collect(FALSE) \/ Collect(TRUE)
    BY <2>2, CollectState, Zenon
  <2>3. CASE Trim \/ WriteHead \/ \E b \in Blocks : Promote(b)
    BY <2>3, AdoptionState
  <2>4. CASE CommitState \/ WriteMarker \/ Adopt \/ Lower \/ FlushDeletions \/ Sweep
    BY <2>4, CommitStateState, DecideState, RewindState
  <2> QED BY <1>2, <2>1, <2>2, <2>3, <2>4, Zenon DEF Step
<1>3. ASSUME NEW b \in Blocks, Deliver(b) \/ Fetch(b) \/ Commit(b)
      PROVE  StateOK'
  <2>1. CASE Calculate(b) \/ Commit(b)
    <3>1. UNCHANGED <<head, live, flushed, op>>
      BY <2>1 DEF Calculate, Commit, disk
    <3> QED BY <3>1 DEF StateOK, HasState
  <2> QED BY <1>3, <2>1, TakeUpState DEF Deliver, Fetch
<1>4. ASSUME NEW n \in 0 .. Number[Tip], Rewind(n)
      PROVE  StateOK'
  <2>1. /\ op'.pc = "rewind" /\ op.pc = "idle"
        /\ UNCHANGED <<head, live, flushed>>
    BY <1>4 DEF Rewind, Idle, Task, disk
  <2> QED BY <2>1, QuietState
<1>5. CASE WriteRefused
  <2>1. op'.pc = "idle" /\ op.pc \in {"commit", "mark"} /\ UNCHANGED <<head, live, flushed>>
    BY <1>5, TaskPc DEF WriteRefused, disk
  <2> QED BY <2>1, QuietState
<1>6. CASE Crash \/ Stop
  <2>1. DiskOK
    BY DEF ChainInv
  <2>2. CASE Crash
    BY <2>1, <2>2, OpenState DEF Crash
  <2>3. CASE Stop
    <3>1. Open(flushed')
      BY <2>3 DEF Stop
    <3> QED BY <2>1, <3>1, OpenState
  <2> QED BY <1>6, <2>2, <2>3
<1> QED BY <1>1, <1>2, <1>3, <1>4, <1>5, <1>6 DEF Next

LEMMA InitHasState == Init => StateOK
BY TaskPc DEF Init, StateOK, HasState

(* While the forks that a node executes without adopting them are shorter     *)
(* than the window (TriesInMemory of core/blockchain.go), garbage collection, *)
(* refused writes, rewinds and restarts leave it a head whose state it opens. *)
THEOREM HeadKeepsState == Spec /\ []HeadInWindow => []HeadHasState
<1>1. StateOK => HeadHasState
  BY DEF StateOK, HeadHasState
<1> QED BY <1>1, InitHasState, StateStep, ChainInvariant, PTL DEF Spec

(* An archive node writes every state to disk and collects none.              *)
LEMMA ArchiveStep ==
  ASSUME Archive, op.pc # "collect", ChainInv, [Next]_vars
  PROVE  op'.pc # "collect"
<1>1. op \in Tasks
  BY DEF ChainInv, TaskOK
<1>2. CASE UNCHANGED vars
  BY <1>2 DEF vars
<1>3. CASE \/ CommitState \/ Trim \/ Lower \/ FlushDeletions
           \/ Collect(FALSE) \/ Collect(TRUE)
           \/ \E b \in Blocks : Promote(b)
  BY <1>1, <1>3 DEF CommitState, Collect, Trim, Lower, FlushDeletions, Promote, Tasks
<1>4. CASE \/ WriteMarker \/ Adopt \/ WriteHead \/ Sweep \/ WriteRefused
           \/ Crash \/ Stop
  <2>1. CASE WriteMarker
    BY <1>1, <2>1, NextTaskPc DEF WriteMarker, Tasks
  <2>2. CASE Adopt
    BY <1>1, <2>2, TaskPc DEF Adopt, Tasks
  <2>3. CASE WriteHead
    BY <2>3, NextTaskPc DEF WriteHead
  <2>4. CASE Sweep \/ WriteRefused \/ Crash \/ Stop
    BY <2>4, TaskPc DEF Sweep, WriteRefused, Crash, Stop, Open
  <2> QED BY <1>4, <2>1, <2>2, <2>3, <2>4
<1>5. ASSUME NEW b \in Blocks, Deliver(b) \/ Fetch(b) \/ Commit(b) \/ SkipKnown(b)
      PROVE  op'.pc # "collect"
  <2>1. CASE Calculate(b) \/ Commit(b)
    BY <2>1 DEF Calculate, Commit
  <2>2. CASE ImportKnown(b) \/ SkipKnown(b) \/ ImportBlock(b)
    <3>1. \E pc \in {"idle", "next", "commit", "adopt"} : \E x, q : op' = Task(pc, x, q)
      BY <2>2, Zenon DEF ImportKnown, SkipKnown, ImportBlock, Idle
    <3> QED BY <3>1, TaskPc
  <2>3. CASE ImportSide(b)
    BY <2>3, TaskPc, SegmentPc, Zenon DEF ImportSide
  <2>4. CASE Reimport(b)
    BY <2>4, SegmentPc DEF Reimport
  <2>5. CASE InsertResult(b)
    <3>1. \/ op' = Idle \/ op' = Task("commit", b, {}) \/ op' = Task("adopt", b, {})
          \/ op' = op
      BY <2>5 DEF InsertResult
    <3> QED BY <3>1, TaskPc
  <2> QED BY <1>5, <2>1, <2>2, <2>3, <2>4, <2>5, Zenon DEF Deliver, Fetch
<1>6. CASE \E n \in 0 .. Number[Tip] : Rewind(n)
  BY <1>6 DEF Rewind, Idle, Task
<1>7. CASE Step
  BY <1>3, <1>4, <1>5, <1>7, Zenon DEF Step, Deliver
<1> QED BY <1>2, <1>4, <1>5, <1>6, <1>7 DEF Next

(* An archive node flushes every state in writeBlockWithState: its head has   *)
(* its state whatever forks it executes.                                      *)
THEOREM ArchiveKeepsState == Archive => (Spec => []HeadHasState)
<1> SUFFICES ASSUME Archive
             PROVE  Spec => []HeadHasState
  OBVIOUS
<1>1. Init => op.pc # "collect"
  BY TaskPc DEF Init
<1>2. op.pc # "collect" /\ ChainInv /\ [Next]_vars => (op.pc # "collect")'
  BY ArchiveStep
<1>3. op.pc # "collect" => HeadInWindow
  BY DEF HeadInWindow
<1> QED BY <1>1, <1>2, <1>3, ChainInvariant, HeadKeepsState, PTL DEF Spec

=============================================================================
