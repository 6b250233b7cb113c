------------------------------- MODULE MCLocal -------------------------------
(* Parts that share no state, checked side by side: the voting rules, the     *)
(* search for the switch block of an epoch, the timeout of a round, the       *)
(* account state of a block and the order book of a trading pair. part says   *)
(* which of them a behaviour is about, and on which instance; the others      *)
(* stand still.                                                               *)
EXTENDS SafeVoting, TimeoutDuration, TLC

ASSUME FewFaulty

(* Honest masternodes are interchangeable, and no other part knows them.      *)
Symmetry == Permutations(Honest)

(* Of StateDB. *)
CONSTANTS Addrs, Keys, Codes, Vals, MaxBalance, None, Unset,
          TwoAddrs, TwoKeys

(* Of Trading. *)
CONSTANTS ann, bob, mia, r1, r2,
          Users, Relayers, Relayer, Owner, Prices, Quantities, MaxOrders, FeeRate,
          BaseFee, DefaultFeeRate, RelayerFee, RelayerCancelFee, Locked, BaseDecimal,
          QuoteDecimal, QuotePrice, Funds, Deposit

VARIABLES part,
          chain, cache,                        \* of EpochSearch
          st, db, saved,                       \* of StateDB
          s, taker, before, sent, outcome      \* of Trading

epochVars == <<chain, cache>>
stateVars == <<st, db, saved>>
tradingVars == <<s, taker, before, sent, outcome>>

(* Long chains, and short ones with forks. *)
Growing == INSTANCE EpochSearch WITH Epoch <- 3, SwitchBlock <- 3, MaxRound <- 12,
                                     MaxLen <- 7, Forks <- FALSE
Forking == INSTANCE EpochSearch WITH Epoch <- 2, SwitchBlock <- 2, MaxRound <- 5,
                                     MaxLen <- 4, Forks <- TRUE

(* Parameter sets whose longest timeout fits into eight bits, or overflows,   *)
(* and invalid ones; bases that are whole, fractions and negative.            *)
MCParams ==
  {[duration |-> d, base |-> b, maxExponent |-> e] :
     d \in {5, 40},
     b \in {[num |-> 3, den |-> 1], [num |-> 3, den |-> 2], [num |-> -3, den |-> 2]},
     e \in {0, 2, 3, 4}}

(* The life of one account under nested snapshots and over two transactions;  *)
(* what else is journalled; three transactions a block, with its commit; and  *)
(* the access list that two accounts share.                                   *)
LifeOps == {"balance", "storage", "create", "contract", "destruct", "destruct6780", "delete"}
EffectOps == {"nonce", "code", "refund", "log", "transient", "access"}

Life == INSTANCE StateDB WITH Ops <- LifeOps, MaxEntries <- 3, MaxRevisions <- 2,
                              MaxTxs <- 1, MaxBlocks <- 0
Effects == INSTANCE StateDB WITH Ops <- EffectOps, MaxEntries <- 3, MaxRevisions <- 2,
                                 MaxTxs <- 1, MaxBlocks <- 0
Txs == INSTANCE StateDB WITH Ops <- LifeOps, MaxEntries <- 3, MaxRevisions <- 1,
                             MaxTxs <- 2, MaxBlocks <- 0
Whole == INSTANCE StateDB WITH Ops <- LifeOps \cup {"code"}, MaxEntries <- 2, MaxRevisions <- 0,
                               MaxTxs <- 3, MaxBlocks <- 1
Lists == INSTANCE StateDB WITH Addrs <- TwoAddrs, Keys <- TwoKeys, Ops <- {"access"},
                               MaxEntries <- 5, MaxRevisions <- 2, MaxTxs <- 1, MaxBlocks <- 0

(* Two users of two relayers; ann also owns the relayer of their own, and the *)
(* owner of the block's author owns the other. A pair quoted in XDC with one  *)
(* order to a block, and a pair quoted in a token with two.                   *)
MCRelayer == (ann :> r1) @@ (bob :> r2)
MCOwner == (r1 :> ann) @@ (r2 :> mia)
MCFeeRate == (r1 :> 1) @@ (r2 :> 2)
MCFunds == ("base" :> 5) @@ ("quote" :> 50) @@ ("xdc" :> 50)
MCDeposit == (r1 :> 8) @@ (r2 :> 4)

Coin == INSTANCE Trading WITH saved <- before, Masternode <- mia, Native <- TRUE, OrdersPerBlock <- 1
Token == INSTANCE Trading WITH saved <- before, Masternode <- mia, Native <- FALSE, OrdersPerBlock <- 2

-----------------------------------------------------------------------------

StateParts == {"life", "txs", "effects", "block"}

Init ==
  /\ part \in {"voting", "growing", "forking", "timeout", "lists", "coin", "token"} \cup StateParts
  /\ InitTree
  /\ Growing!Init
  /\ DurationInit
  /\ part # "timeout" => params = CHOOSE p \in Params : Valid(p)
  /\ IF part = "lists" THEN Lists!Init ELSE Life!Init
  /\ part \notin StateParts => \A a \in DOMAIN db.root : db.root[a] = None
  /\ IF part = "token" THEN Token!Init ELSE Coin!Init

Next ==
  \/ /\ part = "voting" /\ VotingNext
     /\ UNCHANGED <<part, epochVars, durationVars, stateVars, tradingVars>>
  \/ /\ \/ part = "growing" /\ Growing!Next
        \/ part = "forking" /\ Forking!Next
     /\ UNCHANGED <<part, VotingVars, durationVars, stateVars, tradingVars>>
  \/ /\ part = "timeout" /\ DurationNext
     /\ UNCHANGED <<part, VotingVars, epochVars, stateVars, tradingVars>>
  \/ /\ \/ part = "life" /\ Life!Next
        \/ part = "txs" /\ Txs!Next
        \/ part = "effects" /\ Effects!Next
        \/ part = "block" /\ Whole!Next
        \/ part = "lists" /\ Lists!Next
     /\ UNCHANGED <<part, VotingVars, epochVars, durationVars, tradingVars>>
  \/ /\ \/ part = "coin" /\ Coin!Next
        \/ part = "token" /\ Token!Next
     /\ UNCHANGED <<part, VotingVars, epochVars, durationVars, stateVars>>

Spec == Init /\ [][Next]_<<part, VotingVars, epochVars, durationVars, stateVars, tradingVars>>

-----------------------------------------------------------------------------


(* See StateDB: roots and commits hold what is read, reverts and finalisation *)
(* keep what must be kept, and the undo set of a block undoes it.             *)
StateConsistent ==
  part \in StateParts => Life!TypeOK /\ Life!CommittedIsComplete /\ Life!RootIsWhatIsRead
Copies == INSTANCE SnapshotStack WITH
            view <- IF part = "lists" THEN Lists!View(st) ELSE Life!View(st),
            tx <- <<db.block, st.tx>>
ViewsAreKept == Copies!Spec /\ Life!WritesSurvive
DiffUndoesBlock == Life!DiffUndoesBlock

(* See Trading. A level that was emptied earlier in a block is missing from   *)
(* the trie that the search walks, so prices and times take precedence with   *)
(* one order to a block only.                                                 *)
BookConsistent ==
  /\ part = "token" => Token!TypeOK /\ Token!BookConsistent
  /\ part = "coin" => Coin!TypeOK /\ Coin!BookConsistent /\ Coin!NotCrossed /\ Coin!Listed
Conserved ==
  /\ []Coin!Settles
  /\ [][/\ part = "token" => Token!Conserves
        /\ part = "coin" => Coin!Conserves]_tradingVars
FeesArrive == part = "coin" => Coin!FeesArrive
Priority == [][part = "coin" => Coin!InTurn]_tradingVars

=============================================================================
