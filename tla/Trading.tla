------------------------------ MODULE Trading ------------------------------
(***************************************************************************)
(* XDCx: the order book of one trading pair and the matching of orders in  *)
(* blocks (XDCx/order_processor.go, XDCx/tradingstate).                    *)
(*                                                                         *)
(* s is the trading state and the part of the account state that a trade   *)
(* touches.  A price level is a live object of the block's TradingStateDB  *)
(* (s.level) and, apart from that, a leaf of the asks or bids trie         *)
(* (s.tree), which is what the search for the best price walks.  Amounts   *)
(* are natural numbers; 256-bit overflow is out of reach of any supply.    *)
(* Order signatures and the relayer contract's storage layout are left     *)
(* out, and so are books other than the pair's own: the price of the quote *)
(* token in XDC is a constant.  Every token has its decimals and every     *)
(* relayer its owner, so the errors that say otherwise do not occur.       *)
(***************************************************************************)
EXTENDS Integers, Sequences, FiniteSets, SequencesExt

CONSTANTS Users, Relayers, Relayer, Owner, \* a user's relayer, a relayer's owner
          Masternode,                      \* the owner of the block's author
          Native,                          \* is the quote token XDC?
          Prices, Quantities, MaxOrders, OrdersPerBlock,
          FeeRate, BaseFee, DefaultFeeRate, RelayerFee, RelayerCancelFee, Locked,
          BaseDecimal, QuoteDecimal, QuotePrice,
          Funds, Deposit,                  \* balances at the start
          None

VARIABLES s,        \* the state
          taker,    \* the order that is being matched, None between orders
          saved,    \* the snapshot of s taken before it
          sent,     \* orders processed in the whole run, and in the block
          outcome   \* of the last order
vars == <<s, taker, saved, sent, outcome>>

Sides == {"bid", "ask"}
Tokens == {"base", "quote", "xdc"}
Quote == IF Native THEN "xdc" ELSE "quote"
Holders == Users \cup {Owner[r] : r \in Relayers} \cup {Masternode}
Ids == 1..MaxOrders

Other(side) == IF side = "bid" THEN "ask" ELSE "bid"

-----------------------------------------------------------------------------
(* The book *)

IdsOf(l) == {id \in Ids : l.amt[id] > 0}
Blank == [vol |-> 0, amt |-> [id \in Ids |-> 0]]

(* The best price of a side of the book, 0 if it has none. *)
BestPrice(b, side) ==
  IF b.tree[side] = {} THEN 0 ELSE IF side = "ask" THEN Min(b.tree[side]) ELSE Max(b.tree[side])

(* removeStateOrderList...: an empty level leaves the trie; the object stays. *)
Pruned(b, side, price) ==
  IF b.level[side][price].vol = 0 THEN [b EXCEPT !.tree[side] = @ \ {price}] ELSE b

(* InsertOrderItem.  Only a level without a live object is put in the trie. *)
InsertOrderItem(b, id, o) ==
  LET fresh == b.level[o.side][o.price] = None
      l == IF fresh THEN Blank ELSE b.level[o.side][o.price]
  IN [b EXCEPT !.orders[id] = o,
               !.level[o.side][o.price] = [vol |-> l.vol + o.qty, amt |-> [l.amt EXCEPT ![id] = o.qty]],
               !.tree[o.side] = IF fresh THEN @ \cup {o.price} ELSE @]

(* Plausible mistake: the level keeps the order's old amount. *)
SubVolumeOnly(b, side, price, id, n) ==
  LET l == b.level[side][price]
  IN Pruned([b EXCEPT !.orders[id].qty = l.amt[id] - n,
                      !.level[side][price] = [vol |-> l.vol - n,
                         amt |-> IF l.amt[id] = n THEN [l.amt EXCEPT ![id] = 0] ELSE l.amt]], side, price)

SubAmountOrderItem(b, side, price, id, n) ==
  LET l == b.level[side][price]
  IN Pruned([b EXCEPT !.orders[id].qty = l.amt[id] - n,
                      !.level[side][price] = [vol |-> l.vol - n, amt |-> [l.amt EXCEPT ![id] = @ - n]]],
            side, price)

(* CancelOrder, refused for an order that is filled or that is another user's. *)
Cancellable(b, id, u) == b.orders[id] # None /\ b.orders[id].qty > 0 /\ b.orders[id].user = u

CancelOrder(b, id) ==
  LET o == b.orders[id]
      l == b.level[o.side][o.price]
  IN Pruned([b EXCEPT !.orders[id].qty = 0,
                      !.level[o.side][o.price] = [vol |-> l.vol - l.amt[id], amt |-> [l.amt EXCEPT ![id] = 0]]],
            o.side, o.price)

(* The running average of the epoch's trades. *)
SetMediumPrice(b, price, n) ==
  [b EXCEPT !.last = price,
            !.medium = IF @ <= 0 \/ b.total <= 0 THEN price
                       ELSE (@ * b.total + price * n) \div (b.total + n),
            !.total = IF b.medium <= 0 \/ @ <= 0 THEN n ELSE @ + n]

-----------------------------------------------------------------------------
(* Settlement *)

QuoteOf(n, price) == (n * price) \div BaseDecimal
Fee(quote, rate) == (quote * rate) \div BaseFee

(* How much of the base token the given quote balance buys, fee included. *)
Affordable(balance, rate, price) ==
  ((balance * BaseDecimal * BaseFee) \div (BaseFee + rate)) \div price

(* GetTradeQuantity: the buyer pays quote tokens and a fee, the seller base
   tokens.  The one who cannot pay for all of it limits the trade; a maker
   who does is rejected. *)
GetTradeQuantity(buyer, seller, bidTaker, rate, price, n) ==
  LET out == QuoteOf(n, price) + Fee(QuoteOf(n, price), rate)
      can == Affordable(buyer, rate, price)
      buyerShort == buyer < out
      sellerShort == seller < n
  IN CASE ~buyerShort /\ ~sellerShort -> [qty |-> n, reject |-> FALSE]
       [] buyerShort /\ ~sellerShort  -> [qty |-> can, reject |-> ~bidTaker]
       [] ~buyerShort /\ sellerShort  -> [qty |-> seller, reject |-> bidTaker]
       [] OTHER -> IF can < seller \/ can = seller THEN [qty |-> can, reject |-> ~bidTaker]
                   ELSE [qty |-> seller, reject |-> bidTaker]

(* GetSettleBalance's refusal: the fees must be worth more than what the
   relayers pay for the match, and the quote more than the seller's fee. *)
TooSmall(quote, sellerRate, takerRate, makerRate) ==
  LET InXDC(x) == IF Native THEN x ELSE (x * QuotePrice) \div QuoteDecimal
      Short(x) == InXDC(x) <= RelayerFee /\ InXDC(x) > 0
      default == Fee(quote, DefaultFeeRate)
  IN \/ quote <= Fee(quote, sellerRate) \/ quote <= default
     \/ /\ Native \/ QuotePrice > 0
        /\ \/ Short(Fee(quote, makerRate)) \/ Short(Fee(quote, takerRate))
           \/ InXDC(default) <= RelayerFee

(* Plausible mistake: a relayer on both sides of the match is charged once. *)
ChargedOnce(deposit, takerEx, makerEx) ==
  [r \in Relayers |-> IF r \in {takerEx, makerEx} THEN deposit[r] - RelayerFee ELSE deposit[r]]

(* Both relayers pay for the match, one that is on both sides twice. *)
Charged(deposit, takerEx, makerEx) ==
  [r \in Relayers |-> deposit[r] - (IF r = takerEx THEN RelayerFee ELSE 0)
                                - (IF r = makerEx THEN RelayerFee ELSE 0)]

(* DoSettleBalance.  The new balances are computed in a row and written at the
   end, over what the masternode's owner has been credited with. *)
Settle(b, o, maker, n, price) ==
  LET quote == QuoteOf(n, price)
      takerFee == Fee(quote, FeeRate[o.ex])
      makerFee == Fee(quote, FeeRate[maker.ex])
      buys == o.side = "bid"
      moves == <<
        <<IF buys THEN "base" ELSE Quote, o.user, IF buys THEN n ELSE quote - takerFee>>,
        <<IF buys THEN Quote ELSE "base", o.user, IF buys THEN -(quote + takerFee) ELSE -n>>,
        <<IF buys THEN Quote ELSE "base", maker.user, IF buys THEN quote - makerFee ELSE n>>,
        <<IF buys THEN "base" ELSE Quote, maker.user, IF buys THEN -n ELSE -(quote + makerFee)>>,
        <<Quote, Owner[o.ex], takerFee>>,
        <<Quote, Owner[maker.ex], makerFee>> >>
      Move(x, v) == [bal |-> [x.bal EXCEPT ![v[1]][v[2]] = @ + v[3]],
                     ok |-> x.ok /\ x.bal[v[1]][v[2]] + v[3] >= 0]
      new == FoldLeft(Move, [bal |-> b.bal, ok |-> TRUE], moves)
      written == {<<moves[i][1], moves[i][2]>> : i \in 1..6}
      Paid(t, h) == b.bal[t][h] + IF t = "xdc" /\ h = Masternode THEN 2 * RelayerFee ELSE 0
      deposit == Charged(b.deposit, o.ex, maker.ex)
  IN [ok |-> new.ok /\ \A r \in Relayers : deposit[r] >= 0,
      s |-> [b EXCEPT !.deposit = deposit,
                      !.bal = [t \in Tokens |-> [h \in Holders |->
                                 IF <<t, h>> \in written THEN new.bal[t][h] ELSE Paid(t, h)]]]]

CheckRelayerFee(b, r, fee) == b.deposit[r] - fee >= Locked

(* getTradeQuantity, for the taker o: the quantity and who is to blame. *)
TradeQuantity(b, o, maker, n) ==
  LET bid == o.side = "bid"
      buyer == IF bid THEN o ELSE maker
      seller == IF bid THEN maker ELSE o
  IN IF o.ex = maker.ex
     THEN IF CheckRelayerFee(b, o.ex, 2 * RelayerFee)
          THEN GetTradeQuantity(b.bal[Quote][buyer.user], b.bal["base"][seller.user], bid, FeeRate[buyer.ex], maker.price, n)
          ELSE [qty |-> 0, reject |-> FALSE]
     ELSE IF ~CheckRelayerFee(b, o.ex, RelayerFee) THEN [qty |-> 0, reject |-> FALSE]
     ELSE IF ~CheckRelayerFee(b, maker.ex, RelayerFee) THEN [qty |-> 0, reject |-> TRUE]
     ELSE GetTradeQuantity(b.bal[Quote][buyer.user], b.bal["base"][seller.user], bid, FeeRate[buyer.ex], maker.price, n)

-----------------------------------------------------------------------------
(* Matching *)

(* ApplyOrder of a new order: the relayer must be in good standing. *)
NewOrder(u, side, type, price, n) ==
  /\ taker = None
  /\ sent.block < OrdersPerBlock /\ sent.total < MaxOrders
  /\ sent' = [total |-> sent.total + 1, block |-> sent.block + 1]
  /\ IF s.deposit[Relayer[u]] <= Locked
       THEN outcome' = "rejected" /\ UNCHANGED <<taker, saved>>
       ELSE /\ taker' = [user |-> u, ex |-> Relayer[u], side |-> side, type |-> type, price |-> price, q |-> n]
            /\ saved' = s
            /\ outcome' = None
  /\ UNCHANGED s

Meets(o, best) ==
  o.type = "market" \/ (IF o.side = "bid" THEN best <= o.price ELSE o.price <= best)

(* The condition of the loops of processMarketOrder and processLimitOrder. *)
Goes(b, o) == o.q > 0 /\ BestPrice(b, Other(o.side)) > 0 /\ Meets(o, BestPrice(b, Other(o.side)))

(* Plausible mistake: the newest order of a level is served first. *)
NewestOrderId(l) == Max(IdsOf(l))

(* GetBestOrderIdAndAmount. *)
BestOrderId(l) == Min(IdsOf(l))

(* RevertToSnapshot: the journal puts orders and amounts back in their levels,
   but no level that was emptied back in the trie. *)
Reverted == [saved EXCEPT !.tree = [side \in Sides |-> @[side] \cap s.tree[side]]]

(* One round of processOrderList: the taker meets the oldest order of the best
   price.  An error takes back what the order did. *)
MatchOne(price, id, amount, g) ==
  LET maker == s.orders[id]
      max == IF taker.q <= amount THEN taker.q ELSE amount
      buys == taker.side = "bid"
      small == g.qty > 0 /\ TooSmall(QuoteOf(g.qty, price), FeeRate[IF buys THEN maker.ex ELSE taker.ex],
                                     FeeRate[taker.ex], FeeRate[maker.ex])
      x == Settle(s, taker, maker, g.qty, price)
      traded == SetMediumPrice(SubAmountOrderItem(x.s, maker.side, price, id, g.qty), price, g.qty)
      stopped == [taker EXCEPT !.q = 0]
  IN \/ /\ small /\ g.qty = max /\ taker.q = amount
        /\ s' = CancelOrder(s, id) /\ taker' = stopped
     \/ /\ small /\ (IF g.qty = max THEN taker.q < amount ELSE ~g.reject)
        /\ UNCHANGED s /\ taker' = stopped
     \/ /\ small /\ (IF g.qty = max THEN taker.q > amount ELSE g.reject)
        /\ s' = CancelOrder(s, id) /\ UNCHANGED taker
     \/ /\ g.qty = 0
        /\ IF g.reject THEN s' = CancelOrder(s, id) /\ UNCHANGED taker ELSE UNCHANGED s /\ taker' = stopped
     \/ /\ g.qty > 0 /\ ~small
        /\ s' = IF ~x.ok THEN Reverted ELSE IF g.reject THEN CancelOrder(traded, id) ELSE traded
        /\ taker' = IF x.ok THEN [taker EXCEPT !.q = @ - g.qty] ELSE None

Match ==
  /\ taker # None /\ Goes(s, taker)
  /\ LET price == BestPrice(s, Other(taker.side))
         l == s.level[Other(taker.side)][price]
         id == BestOrderId(l)
         amount == l.amt[id]
     IN MatchOne(price, id, amount,
                 TradeQuantity(s, taker, s.orders[id], IF taker.q <= amount THEN taker.q ELSE amount))
  /\ outcome' = IF taker' = None THEN "error" ELSE None
  /\ saved' = IF taker' = None THEN None ELSE saved
  /\ UNCHANGED sent

(* The end of the order; the rest of a limit order becomes one of the book. *)
Finish ==
  /\ taker # None /\ ~Goes(s, taker)
  /\ s' = IF taker.q > 0 /\ taker.type = "limit"
             THEN InsertOrderItem([s EXCEPT !.nonce = @ + 1], s.nonce + 1,
                    [user |-> taker.user, ex |-> taker.ex, side |-> taker.side, price |-> taker.price, qty |-> taker.q])
             ELSE s
  /\ taker' = None /\ saved' = None
  /\ outcome' = "applied"
  /\ UNCHANGED sent

(* The cancellation fee in the token the order offers. *)
CancelFee(b, o) ==
  LET InToken(price, decimal) == IF price > 0 THEN (RelayerCancelFee * decimal) \div price ELSE 0
  IN IF FeeRate[o.ex] = 0 THEN 0
     ELSE IF o.side = "ask" THEN InToken(IF Native THEN b.before ELSE 0, BaseDecimal)
     ELSE IF Native THEN RelayerCancelFee ELSE InToken(QuotePrice, QuoteDecimal)

(* ProcessCancelOrder. *)
Cancel(u, id) ==
  LET o == s.orders[id]
      token == IF o.side = "ask" THEN "base" ELSE Quote
      fee == CancelFee(s, o)
      b == CancelOrder(s, id)
  IN /\ taker = None
     /\ sent.block < OrdersPerBlock /\ sent.total < MaxOrders
     /\ UNCHANGED <<taker, saved>>
     /\ sent' = [total |-> sent.total + 1, block |-> sent.block + 1]
     /\ IF /\ s.deposit[Relayer[u]] > Locked
           /\ CheckRelayerFee(s, Relayer[u], RelayerCancelFee)
           /\ o # None
           /\ s.bal[token][o.user] >= fee
           /\ Cancellable(s, id, u)
          THEN /\ outcome' = "cancelled"
               /\ s' = [b EXCEPT !.deposit[o.ex] = @ - RelayerCancelFee,
                                 !.bal["xdc"][Masternode] = @ + RelayerCancelFee,
                                 !.bal[token][o.user] = @ - fee,
                                 !.bal[token][Owner[o.ex]] = @ + fee]
          ELSE outcome' = "rejected" /\ UNCHANGED s

-----------------------------------------------------------------------------
(* Blocks *)

(* Commit, and the TradingStateDB of the next block: what is empty is gone, and
   every level is in its trie. *)
Committed(b) ==
  LET Full(side) == {p \in Prices : b.level[side][p] # None /\ b.level[side][p].vol > 0} IN
  [b EXCEPT !.level = [side \in Sides |-> [p \in Prices |-> IF p \in Full(side) THEN @[side][p] ELSE None]],
            !.tree = [side \in Sides |-> Full(side)],
            !.orders = [id \in Ids |-> IF @[id] # None /\ @[id].qty = 0 THEN None ELSE @[id]]]

NextBlock ==
  /\ sent.block > 0 /\ taker = None
  /\ s' = Committed(s)
  /\ sent' = [sent EXCEPT !.block = 0]
  /\ outcome' = None
  /\ UNCHANGED <<taker, saved>>

(* An epoch switch block: UpdateMediumPriceBeforeEpoch, and no orders. *)
EpochSwitch ==
  /\ sent.block = 0
  /\ s' = [s EXCEPT !.before = IF s.medium > 0 THEN s.medium ELSE @, !.medium = 0, !.total = 0]
  /\ outcome' = None
  /\ UNCHANGED <<taker, saved, sent>>

Init ==
  /\ s = [level |-> [side \in Sides |-> [p \in Prices |-> None]],
          tree |-> [side \in Sides |-> {}],
          orders |-> [id \in Ids |-> None], nonce |-> 0,
          last |-> 0, medium |-> 0, total |-> 0, before |-> 0,
          bal |-> [t \in Tokens |-> [h \in Holders |-> IF h \in Users /\ t \in {"base", Quote} THEN Funds[t] ELSE 0]],
          deposit |-> Deposit]
  /\ taker = None /\ saved = None
  /\ sent = [total |-> 0, block |-> 0]
  /\ outcome = None

Next ==
  \/ \E u \in Users, side \in Sides, n \in Quantities :
       \/ \E price \in Prices : NewOrder(u, side, "limit", price, n)
       \/ NewOrder(u, side, "market", 0, n)
  \/ Match \/ Finish
  \/ \E u \in Users, id \in Ids : Cancel(u, id)
  \/ NextBlock
  \/ EpochSwitch

Spec == Init /\ [][Next]_vars

-----------------------------------------------------------------------------
(* Properties *)

(* Types; balances are never negative, and the fees never touch the part of a
   relayer's deposit that is locked. *)
TypeOK ==
  /\ \A side \in Sides : s.tree[side] \subseteq {p \in Prices : s.level[side][p] # None}
  /\ \A t \in Tokens, h \in Holders : s.bal[t][h] \in Nat
  /\ \A r \in Relayers : s.deposit[r] \in Nat /\ s.deposit[r] >= Locked
  /\ s.nonce \in 0..MaxOrders

(* The levels and the orders tell the same: a level's volume is the sum of its
   orders' amounts, an order that is not filled stands in the level of its side
   and price with the quantity it has left, and the search over the trie never
   comes to an empty level. *)
BookConsistent ==
  /\ \A side \in Sides : \A p \in s.tree[side] : s.level[side][p].vol > 0
  /\ \A side \in Sides, p \in Prices : LET l == s.level[side][p] IN
       l # None => /\ l.vol = MapThenSumSet(LAMBDA id : l.amt[id], Ids)
                   /\ \A id \in IdsOf(l) : /\ s.orders[id] # None
                                          /\ s.orders[id].side = side /\ s.orders[id].price = p
  /\ \A id \in Ids : s.orders[id] # None /\ s.orders[id].qty > 0 =>
       LET l == s.level[s.orders[id].side][s.orders[id].price] IN l # None /\ l.amt[id] = s.orders[id].qty

(* All that is held of a token; the relayers' deposits are XDC. *)
Held(b, t) ==
  LET Sum(f, S) == MapThenSumSet(LAMBDA x : f[x], S)
  IN Sum(b.bal[t], Holders) + IF t = "xdc" THEN Sum(b.deposit, Relayers) ELSE 0

(* This step settles a match that changes the XDC balance of the masternode's
   owner, who takes part in it or owns one of its relayers. *)
OwnerTrades ==
  /\ Native /\ taker # None /\ s'.deposit # s.deposit
  /\ \E id \in Ids :
       /\ s'.orders[id] # s.orders[id]
       /\ Masternode \in {taker.user, Owner[taker.ex], s.orders[id].user, Owner[s.orders[id].ex]}

(* Orders, matches, cancellations and blocks move tokens and make none, and none
   is lost but the fee of a match that DoSettleBalance credits to the
   masternode's owner and then overwrites. *)
Conserves ==
  \A t \in Tokens :
    Held(s', t) = Held(s, t) - IF t = "xdc" /\ OwnerTrades THEN 2 * RelayerFee ELSE 0

Conserved == [][Conserves]_vars

(* What the relayers are charged is paid to the masternode's owner: the XDC of
   users, owners and deposits remain what they were at the start. *)
FeesArrive ==
  LET Sum(f, S) == MapThenSumSet(LAMBDA x : f[x], S)
  IN Held(s, "xdc") = Sum(Deposit, Relayers) + IF Native THEN Cardinality(Users) * Funds["xdc"] ELSE 0

(* The quantity that is traded is one both sides can pay for with their fees:
   no settlement runs into a balance that is too low, so no order that has been
   partly matched is taken back. *)
Settles == outcome # "error"

Open(b, side) == {id \in Ids : b.orders[id] # None /\ b.orders[id].qty > 0 /\ b.orders[id].side = side}

(* The search finds every open order: its price is in the trie.  In a block of
   several orders this fails, as a level that was emptied and is used again only
   comes back to the trie at the commit. *)
Listed == \A side \in Sides : \A id \in Open(s, side) : s.orders[id].price \in s.tree[side]

(* Between orders the book is never crossed: every open bid is below every open
   ask. *)
NotCrossed ==
  taker = None =>
  \A i \in Open(s, "bid"), j \in Open(s, "ask") : s.orders[i].price < s.orders[j].price

InTurn ==
  taker # None =>
    \A i, j \in Open(s, Other(taker.side)) :
      LET better == IF taker.side = "bid" THEN s.orders[i].price < s.orders[j].price
                                         ELSE s.orders[i].price > s.orders[j].price
          first == better \/ (s.orders[i].price = s.orders[j].price /\ i < j)
      IN first => s'.orders[j] = s.orders[j]

(* Price and time priority: while an order is matched, none of the book is
   touched as long as there is one on its side that is better priced, or as good
   and older. *)
Priority == [][InTurn]_vars
=============================================================================
