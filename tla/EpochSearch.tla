----------------------------- MODULE EpochSearch -----------------------------
(* Epochs of the v2 engine: which block switches the epoch, and how the       *)
(* engine finds the switch block of an epoch, through a cache, a backward     *)
(* walk and a binary search (epochSwitch.go, utils.go, engine.go).            *)
(*                                                                            *)
(* chain holds the rounds of the canonical v2 blocks; the block at index i    *)
(* has number SwitchBlock + i, and its hash is the chain up to it.            *)
EXTENDS Integers, Sequences, FiniteSets, SequencesExt

CONSTANTS Epoch,        \* rounds of an epoch
          SwitchBlock,  \* number of the last v1 block, a multiple of Epoch
          MaxRound,     \* bound on rounds
          MaxLen,       \* bound on the number of v2 blocks
          Forks         \* are there rollbacks, and headers that stay headers?

VARIABLES chain, cache  \* cache: x.round2epochBlockInfo

vars == <<chain, cache>>

SwitchEpoch == SwitchBlock \div Epoch

NoBlock == [number |-> -1, hash |-> <<>>]

HeadNum == SwitchBlock + Len(chain)

RoundAt(n) == IF n = SwitchBlock THEN 0 ELSE chain[n - SwitchBlock]

Block(n) == [number |-> n, hash |-> SubSeq(chain, 1, n - SwitchBlock)]

EpochNum(n) == SwitchEpoch + RoundAt(n) \div Epoch

EpochStart(r) == r - (r % Epoch)

(* IsEpochSwitch: the last v1 block, the first v2 block and every block whose *)
(* parent's round is below the first round of the block's epoch.              *)
IsEpochSwitch(n) ==
  \/ n <= SwitchBlock + 1
  \/ RoundAt(n - 1) < EpochStart(RoundAt(n))

(* getEpochSwitchInfo walks back to the switch block of n's epoch. *)
EpochSwitchNumber[n \in SwitchBlock .. HeadNum] ==
  IF IsEpochSwitch(n) THEN n ELSE EpochSwitchNumber[n - 1]

-----------------------------------------------------------------------------

(* The loop of GetEpochSwitchInfoBetween: at is the block whose epoch is      *)
(* looked up, num the iterator's number.                                      *)
RECURSIVE WalkBack(_, _, _)
WalkBack(begin, at, num) ==
  IF num <= begin \/ EpochSwitchNumber[at] = SwitchBlock THEN <<>>
  ELSE LET sw == EpochSwitchNumber[at]
       IN WalkBack(begin, sw - 1, sw) \o (IF sw >= begin THEN <<sw>> ELSE <<>>)

GetEpochSwitchInfoBetween(begin, end) == WalkBack(begin, end, end)

(* binarySearchBlockByEpochNumber: the number found, or -1. *)
RECURSIVE BinarySearch(_, _, _)
BinarySearch(target, start, end) ==
  IF start >= end \/ (start + end) \div 2 > HeadNum THEN -1
  ELSE LET mid == (start + end) \div 2
           back == RoundAt(mid) % Epoch
           est == IF mid >= back THEN mid - back ELSE 0
       IN CASE EpochNum(mid) = target /\ IsEpochSwitch(mid) -> mid
            [] EpochNum(mid) = target /\ ~IsEpochSwitch(mid) ->
                 BinarySearch(target, IF start < est THEN est ELSE start, mid)
            [] EpochNum(mid) > target -> BinarySearch(target, start, mid)
            [] EpochNum(mid) < target ->
                 IF mid = start THEN -1 ELSE BinarySearch(target, mid, end)

(* getBlockByEpochNumberInCache: the only cached switch block of the epoch,   *)
(* or of several the first that is canonical.                                 *)
InCache(estRound) ==
  LET hits == {r \in DOMAIN cache : estRound <= r /\ r < estRound + Epoch}
      canonical == {r \in hits : /\ cache[r].number <= HeadNum
                                 /\ cache[r] = Block(cache[r].number)}
  IN CASE Cardinality(hits) = 1 -> cache[CHOOSE r \in hits : TRUE]
       [] Cardinality(hits) > 1 /\ canonical # {} ->
            cache[CHOOSE r \in canonical : \A s \in canonical : r <= s]
       [] OTHER -> NoBlock


EstBlockNum(target, sw) ==
  LET est == sw - Epoch * (EpochNum(sw) - target)
  IN IF est < SwitchBlock THEN SwitchBlock ELSE est

(* The part of GetBlockByEpochNumber behind the cache: a walk when the epoch  *)
(* is close, the binary search otherwise, or when the walk found nothing.     *)
Search(target, sw) ==
  LET est == EstBlockNum(target, sw)
      near == SelectSeq(GetEpochSwitchInfoBetween(est, HeadNum),
                        LAMBDA n : EpochNum(n) = target)
      found == IF EpochNum(sw) - target <= 2 /\ near # <<>>
               THEN near[1]
               ELSE BinarySearch(target, est, sw)
  IN IF found = -1 THEN NoBlock ELSE Block(found)

GetBlockByEpochNumber(target) ==
  LET sw == EpochSwitchNumber[HeadNum]
      cached == InCache((target - SwitchEpoch) * Epoch)
  IN CASE target = EpochNum(sw) -> Block(sw)
       [] target > EpochNum(sw) \/ target < SwitchEpoch -> NoBlock
       [] OTHER -> IF cached # NoBlock THEN cached ELSE Search(target, sw)

(* CalculateMissingRounds: for each block of the epoch up to the head, the    *)
(* rounds between its parent's and its own.                                   *)
RECURSIVE MissingRounds(_)
MissingRounds(n) ==
  IF n <= EpochSwitchNumber[HeadNum] THEN <<>>
  ELSE [i \in 1 .. RoundAt(n) - RoundAt(n - 1) - 1 |-> RoundAt(n - 1) + i]
         \o MissingRounds(n - 1)

-----------------------------------------------------------------------------

(* IsEpochSwitch of a header with parent number k and round r caches it when  *)
(* it switches the epoch, except for the first v2 block.                      *)
Remember(k, r) ==
  cache' = IF k # SwitchBlock /\ RoundAt(k) < EpochStart(r)
           THEN [s \in DOMAIN cache \cup {r} |->
                  IF s = r
                  THEN [number |-> k + 1,
                        hash |-> Append(SubSeq(chain, 1, k - SwitchBlock), r)]
                  ELSE cache[s]]
           ELSE cache

Init == chain = <<>> /\ cache = <<>>

(* A header is verified and its block becomes the head. *)
Insert(r) ==
  /\ Len(chain) < MaxLen
  /\ r > RoundAt(HeadNum)
  /\ chain' = Append(chain, r)
  /\ Remember(HeadNum, r)

(* A header on a canonical block is verified; its block is never inserted.    *)
VerifyOnly(k, r) ==
  /\ Forks
  /\ r > RoundAt(k)
  /\ Remember(k, r)
  /\ cache' # cache
  /\ UNCHANGED chain

(* SetHead drops the blocks above k; the engine's cache stays. *)
Rollback(k) ==
  /\ Forks
  /\ chain' = SubSeq(chain, 1, k - SwitchBlock)
  /\ chain' # chain
  /\ UNCHANGED cache

(* The cache is an LRU, and it is empty after a restart. *)
Evict(r) ==
  /\ cache' = [s \in DOMAIN cache \ {r} |-> cache[s]]
  /\ UNCHANGED chain

Next ==
  \/ \E r \in 1 .. MaxRound : Insert(r)
  \/ \E r \in DOMAIN cache : Evict(r)
  \/ \E k \in SwitchBlock .. HeadNum : Rollback(k)
  \/ \E k \in SwitchBlock .. HeadNum, r \in 1 .. MaxRound : VerifyOnly(k, r)

Spec == Init /\ [][Next]_vars

-----------------------------------------------------------------------------

(* A scan of the chain: the first v2 block of the epoch. *)
FirstOf(target) ==
  LET blocks == {n \in SwitchBlock + 1 .. HeadNum : EpochNum(n) = target}
  IN IF blocks = {} THEN NoBlock
     ELSE Block(CHOOSE n \in blocks : \A k \in blocks : n <= k)

Epochs == SwitchEpoch .. EpochNum(HeadNum)

OnMainChain(b) == b.number <= HeadNum /\ b = Block(b.number)

(* GetBlockByEpochNumber finds for every epoch what a scan finds, however     *)
(* rounds and whole epochs were skipped, whatever the cache forgot, and       *)
(* whatever forks and rollbacks left in it of other epochs. It differs from   *)
(* the scan in two cases only: the cache's only entry of the epoch is         *)
(* returned without a look at the main chain, which it may have left, and     *)
(* when the first v2 epoch has no block the search may end at the last v1     *)
(* block.                                                                     *)
EpochsAreFound ==
  HeadNum > SwitchBlock =>
    \A e \in Epochs :
      \/ \E r \in DOMAIN cache :
           /\ {q \in DOMAIN cache : SwitchEpoch + q \div Epoch = e} = {r}
           /\ ~OnMainChain(cache[r]) /\ GetBlockByEpochNumber(e) = cache[r]
      \/ GetBlockByEpochNumber(e) = FirstOf(e)
      \/ /\ e = SwitchEpoch /\ FirstOf(e) = NoBlock
         /\ GetBlockByEpochNumber(e) = Block(SwitchBlock)

(* CalculateMissingRounds reports every round between the switch block's and  *)
(* the head's that has no block, and each once.                               *)
MissingRoundsExact ==
  HeadNum > SwitchBlock =>
    LET sw == EpochSwitchNumber[HeadNum]
        missing == MissingRounds(HeadNum)
    IN /\ ToSet(missing) = (RoundAt(sw) + 1 .. RoundAt(HeadNum) - 1)
                             \ {RoundAt(n) : n \in sw .. HeadNum}
       /\ Len(missing) = Cardinality(ToSet(missing))

=============================================================================
