--------------------------- MODULE FlockKeeperProofs ---------------------------
(***************************************************************************)
(* What the keeper's plan is worth while the chain moves on under it: the  *)
(* sizes, the price limit and the edge of every bid, for every index, every *)
(* policy and every inventory.                                             *)
(*                                                                         *)
(* PlanKept is the inductive invariant: a planned bid stays inside the     *)
(* snapshot it was planned from, at the premium of every later moment.     *)
(***************************************************************************)
EXTENDS FlockKeeper, FlockClientProofs

-----------------------------------------------------------------------------
(* The invariant.                                                          *)

\* A bid as it was planned, whatever has happened since.
Kept(x) ==
  /\ Plan.active /\ Plan.startTs <= now
  /\ {x.sell, x.buy} \subseteq snapshot.account.components
  /\ x.sell # x.buy /\ x.sold # 0
  /\ x.sold <= Sellable(x.sell)
  /\ x.maxBuy <= Buyable(x.buy)
  /\ now <= Plan.endTs => BidCost(x.sell, x.buy, x.sold) <= x.maxBuy
  /\ touched = "no" => x.maxBuy <= wallet[x.buy]
  /\ MarketValue(x.buy, x.maxBuy) # 0
  /\ Edge(x.sell, x.buy, x.sold, x.maxBuy) >= MinEdge

PlanKept == stage = "submit" => \A x \in todo.bids : Kept(x)

-----------------------------------------------------------------------------
(* The chain and the snapshot under a pass.                                *)

\* A transaction of the keeper that counts as somebody's change to the fund.
KeeperTrades ==
  /\ \/ EndRebalance(KeeperKey)
     \/ \E x \in todo.bids : Bid(x.sell, x.buy, x.sold, x.maxBuy)
  /\ stage = "submit" /\ Touch /\ UNCHANGED clientVars

LEMMA KeeperSteps ==
  ASSUME [KeeperNext]_keeperVars
  PROVE  ClientMoves \/ KeeperTrades
<1>1. ASSUME NEW answer, PricesArrive(answer)
      PROVE  ClientMoves
  BY <1>1 DEF PricesArrive, ClientMoves, allVars
<1>2. PricesRetried \/ MakePlan \/ SubmitFails => ClientMoves
  BY DEF PricesRetried, MakePlan, SubmitFails, ClientMoves, allVars
<1>3. PassFails \/ PricesGivenUp \/ PassDone => ClientMoves
  BY DEF PassFails, PricesGivenUp, PassDone, EndOfPass, ClientMoves
<1>4. StartPass \/ PassReadsAccount \/ PassReadsLedger \/ OthersMove
        => ClientMoves
  BY DEF StartPass, PassReadsAccount, PassReadsLedger, OthersMove, ClientMoves
<1>5. SubmitAccrue => ClientMoves
  BY DEF SubmitAccrue, Submits, ClientMoves, ChainMoves, Next, FundNext
<1>6. SubmitEnd => KeeperTrades
  BY DEF SubmitEnd, Submits, KeeperTrades
<1>7. ASSUME NEW x \in todo.bids, SubmitBid(x)
      PROVE  KeeperTrades
  BY <1>7 DEF SubmitBid, Submits, KeeperTrades
<1>8. CASE UNCHANGED keeperVars
  BY <1>8 DEF keeperVars, ClientMoves, allVars
<1>. QED
  BY <1>1, <1>2, <1>3, <1>4, <1>5, <1>6, <1>7, <1>8 DEF KeeperNext

\* A bid that fills and an auction that closes change what a snapshot shows.
LEMMA TradesTouch ==
  ASSUME Grounded, KeeperTypeOK, KeeperTrades
  PROVE  touched' = "yes" /\ TypeOK' /\ now' = now
<1>1. reading = "held"
  BY DEF KeeperTrades, KeeperTypeOK
<1>2. CASE EndRebalance(KeeperKey)
  <2>1. rebalance' # rebalance
    BY <1>2 DEF EndRebalance, Closed
  <2>2. TypeOK'
    BY <1>2, TypeEnd DEF Grounded, Reliable
  <2>. QED
    BY <1>1, <1>2, <2>1, <2>2
    DEF KeeperTrades, Touch, NoFigure, OnlyFees, index, EndRebalance
<1>3. ASSUME NEW x \in todo.bids, Bid(x.sell, x.buy, x.sold, x.maxBuy)
      PROVE  touched' = "yes" /\ TypeOK' /\ now' = now
  <2>1. x \in BidType
    BY DEF KeeperTypeOK
  <2>2. x.sold \in Nat /\ x.sold # 0
    BY <1>3, <2>1, U64IsNat DEF BidType, Bid
  <2>3. TypeOK
    BY DEF Grounded, Reliable
  <2>4. /\ x.sell \in Mints /\ x.buy # x.sell
        /\ vault' = [vault EXCEPT
             ![x.sell] = @ - x.sold,
             ![x.buy] = @ + BuyAmount(x.sell, x.buy, x.sold)]
    BY <1>3, <2>2, <2>3, BidEffect DEF TypeOK
  <2>5. vault[x.sell] \in Nat
    BY <2>3, <2>4, U64IsNat DEF TypeOK
  <2>6. vault'[x.sell] = vault[x.sell] - x.sold
    BY <2>3, <2>4 DEF TypeOK
  <2>7. vault' # vault
    BY <2>2, <2>5, <2>6
  <2>8. TypeOK'
    BY <1>3, <2>2, <2>3, TypeBid
  <2>9. now' = now
    BY <1>3 DEF Bid
  <2>. QED
    BY <1>1, <2>7, <2>8, <2>9 DEF KeeperTrades, Touch, NoFigure, OnlyFees, ledger
<1>. QED
  BY <1>2, <1>3 DEF KeeperTrades

LEMMA GroundedStep ==
  ASSUME Grounded, KeeperTypeOK, [KeeperNext]_keeperVars
  PROVE  Grounded'
<1>1. CASE ClientMoves
  BY <1>1, GroundedMove
<1>2. CASE KeeperTrades
  <2>1. touched' = "yes" /\ TypeOK' /\ now' = now
    BY <1>2, TradesTouch
  <2>2. snapshot' = snapshot /\ reading' = reading
    BY <1>2 DEF KeeperTrades, clientVars
  <2>3. ClientTypeOK'
    BY <2>1, <2>2 DEF Grounded, Reliable, ClientTypeOK
  <2>4. Faithful'
    BY <2>1, <2>2
    DEF Grounded, Reliable, Faithful, AccountStands, LedgerStands
  <2>5. Lifecycle'
    <3>1. EndRebalance(KeeperKey) => Lifecycle'
      BY DEF EndRebalance, Closed, ledger, Grounded, Lifecycle, Sealed
    <3>2. ASSUME NEW x \in todo.bids, Bid(x.sell, x.buy, x.sold, x.maxBuy)
          PROVE  Lifecycle'
      BY <3>2 DEF Bid, Grounded, Lifecycle, Sealed
    <3>. QED
      BY <1>2, <3>1, <3>2 DEF KeeperTrades
  <2>6. SnapSound'
    BY <2>2 DEF Grounded, SnapSound, Plan
  <2>. QED
    BY <2>1, <2>3, <2>4, <2>5, <2>6 DEF Grounded, Reliable
<1>. QED
  BY <1>1, <1>2, KeeperSteps

-----------------------------------------------------------------------------
(* A plan as its snapshot gets older.                                      *)

LEMMA QuoteNow ==
  ASSUME NEW s, NEW b, NEW sold
  PROVE  BidCost(s, b, sold) = PlanQuote(s, b, sold, now)
BY DEF BidCost, PlanQuote, SnapPremium, Plan

\* A planned bid stays as good while its snapshot gets older.
LEMMA KeptLater ==
  ASSUME TypeOK, ClientTypeOK, SnapSound, NEW x \in BidType, Kept(x),
         UNCHANGED <<snapshot, market>>, now' \in Nat, now <= now',
         touched' = "no" => touched = "no" /\ wallet' = wallet
  PROVE  Kept(x)'
<1>1. /\ Plan.active /\ Plan.startTs <= now
      /\ x.sell \in snapshot.account.components
      /\ x.buy \in snapshot.account.components
      /\ now <= Plan.endTs => BidCost(x.sell, x.buy, x.sold) <= x.maxBuy
  BY DEF Kept
<1>2. x.sold \in Nat /\ x.maxBuy \in Nat /\ now \in Nat
  <2>1. x.sold \in U64 /\ x.maxBuy \in U64
    BY DEF BidType
  <2>2. now \in Nat
    BY IndexAssumption DEF TypeOK
  <2>. QED
    BY <2>1, <2>2, U64IsNat
<1>3. Plan.startTs \in Nat /\ Plan.endTs \in Nat
  BY <1>1, PlanFields
<1>4. BidCost(x.sell, x.buy, x.sold)' = PlanQuote(x.sell, x.buy, x.sold, now')
  BY DEF BidCost, PlanQuote, SnapPremium, SnapLeg, Plan
<1>5. now' <= Plan.endTs
        => PlanQuote(x.sell, x.buy, x.sold, now') <= x.maxBuy
  <2> SUFFICES ASSUME now' <= Plan.endTs
               PROVE  PlanQuote(x.sell, x.buy, x.sold, now') <= x.maxBuy
    OBVIOUS
  <2>1. now \in Plan.startTs .. Plan.endTs /\ now' \in Plan.startTs .. Plan.endTs
    BY <1>1, <1>2, <1>3
  <2>2. PlanQuote(x.sell, x.buy, x.sold, now')
          <= PlanQuote(x.sell, x.buy, x.sold, now)
    BY <1>1, <1>2, <2>1, QuoteFalls
  <2>3. /\ PlanQuote(x.sell, x.buy, x.sold, now') \in Nat
        /\ PlanQuote(x.sell, x.buy, x.sold, now) \in Nat
    BY <1>1, <1>2, <2>1, QuoteIsPrice
  <2>4. PlanQuote(x.sell, x.buy, x.sold, now) <= x.maxBuy
    BY <1>1, <1>3, <2>1, QuoteNow
  <2>. QED
    BY <1>2, <2>2, <2>3, <2>4
<1>6. Plan' = Plan /\ Plan.startTs <= now'
  BY <1>1, <1>2, <1>3 DEF Plan
<1>7. /\ Sellable(x.sell)' = Sellable(x.sell)
      /\ Buyable(x.buy)' = Buyable(x.buy)
      /\ MarketValue(x.buy, x.maxBuy)' = MarketValue(x.buy, x.maxBuy)
      /\ Edge(x.sell, x.buy, x.sold, x.maxBuy)'
           = Edge(x.sell, x.buy, x.sold, x.maxBuy)
  BY DEF Sellable, Buyable, TargetOf, CapOf, MarketValue, Edge
<1>. QED
  BY <1>1, <1>4, <1>5, <1>6, <1>7 DEF Kept

-----------------------------------------------------------------------------
(* Making the plan.                                                        *)

\* A bid is planned with the sizes and the limit an instruction can carry,
\* inside the legs, the inventory and the edge the policy wants.
LEMMA PlannedBid ==
  ASSUME TypeOK, ClientTypeOK, SnapSound, Open, wallet \in [Mints -> U64],
         NEW s \in snapshot.account.components,
         NEW b \in snapshot.account.components, WorthBidding(s, b),
         NEW x, x = [sell |-> s, buy |-> b, sold |-> BidSize(s, b),
                     maxBuy |-> MaxBuyOf(s, b)]
  PROVE  x \in BidType /\ Kept(x)
<1> DEFINE full == FullSize(s)
           size == BidSize(s, b)
<1>1. /\ s \in Mints /\ b \in Mints
      /\ snapshot.balances[s] \in U64 /\ snapshot.balances[b] \in U64
      /\ TargetOf(s) \in Nat /\ CapOf(b) \in Nat
  BY SnapFields
<1>2. Sellable(s) \in Nat /\ Sellable(s) <= snapshot.balances[s]
  <2>1. snapshot.balances[s] \in Nat
    BY <1>1, U64IsNat
  <2>2. Sellable(s) > 0
    BY DEF WorthBidding
  <2>. QED
    BY <1>1, <2>1, <2>2 DEF Sellable
<1>3. wallet[b] \in U64 /\ wallet[b] \in Nat /\ Buyable(b) \in Nat
  <2>1. snapshot.balances[b] \in Nat /\ wallet[b] \in U64 /\ wallet[b] \in Nat
    BY <1>1, U64IsNat
  <2>2. Buyable(b) > 0
    BY DEF WorthBidding
  <2>. QED
    BY <1>1, <2>1, <2>2 DEF Buyable
<1>4. /\ Budget(b) \in Nat
      /\ Budget(b) <= wallet[b] /\ Budget(b) <= Buyable(b)
  BY <1>3 DEF Budget
<1>5. full \in Nat /\ full <= Sellable(s)
  BY <1>2, ShareAtMostWhole, KeeperAssumption, MathAssumption DEF FullSize
<1>6. Plan.active /\ now \in Plan.startTs .. Plan.endTs
  BY DEF Open
<1>7. \A n \in Nat : BidCost(s, b, n) \in Nat
  BY <1>6, QuoteNow, QuoteIsPrice
<1>8. size \in Nat /\ size <= full
  <2>1. CASE BidCost(s, b, full) > Budget(b)
    <3>1. size = mulDivFloor(full, Budget(b), BidCost(s, b, full))
      BY <2>1 DEF BidSize
    <3>2. /\ BidCost(s, b, full) \in Nat \ {0}
          /\ Budget(b) \in 0 .. BidCost(s, b, full)
      BY <1>4, <1>5, <1>7, <2>1
    <3>. QED
      BY <1>5, <3>1, <3>2, ShareAtMostWhole
  <2>2. CASE ~(BidCost(s, b, full) > Budget(b))
    BY <1>5, <2>2 DEF BidSize
  <2>. QED
    BY <2>1, <2>2
<1> HIDE DEF full, size
<1>9. /\ x.sell = s /\ x.buy = b /\ x.sold = size
      /\ x.maxBuy = BidCost(s, b, size) /\ x.maxBuy \in Nat
      /\ x.maxBuy <= Budget(b)
  BY <1>7, <1>8 DEF MaxBuyOf, WorthBidding, size
<1>10. x.sold \in U64 /\ x.sold <= Sellable(x.sell)
  BY <1>1, <1>2, <1>5, <1>8, <1>9, MathAssumption DEF U64
<1>11. x.maxBuy \in U64 /\ x.maxBuy <= Buyable(x.buy) /\ x.maxBuy <= wallet[b]
  <2>1. wallet[b] \in 0 .. U64_MAX
    BY <1>3 DEF U64
  <2>. QED
    BY <1>3, <1>4, <1>9, <2>1, MathAssumption DEF U64
<1>12. x \in BidType
  BY <1>1, <1>9, <1>10, <1>11 DEF BidType
<1>13. /\ MarketValue(x.buy, x.maxBuy) # 0
       /\ Edge(x.sell, x.buy, x.sold, x.maxBuy) >= MinEdge
       /\ x.sell # x.buy /\ x.sold # 0
  BY <1>9 DEF WorthBidding, size
<1>14. BidCost(x.sell, x.buy, x.sold) <= x.maxBuy
  BY <1>9
<1>15. Plan.startTs <= now
  BY <1>6
<1>. QED
  BY <1>6, <1>9, <1>10, <1>11, <1>12, <1>13, <1>14, <1>15 DEF Kept

LEMMA PlannedKept ==
  ASSUME Grounded, KeeperTypeOK, MakePlan
  PROVE  /\ Planned \in [accrue : BOOLEAN, end : BOOLEAN, bids : SUBSET BidType]
         /\ PlanKept'
<1>1. TypeOK /\ ClientTypeOK /\ SnapSound
  BY DEF Grounded, Reliable
<1>2. ASSUME NEW x \in Planned.bids
      PROVE  x \in BidType /\ Kept(x)
  <2>1. Open
    BY DEF Planned
  <2>2. PICK p \in Pairs : x = [sell |-> p[1], buy |-> p[2],
                                sold |-> BidSize(p[1], p[2]),
                                maxBuy |-> MaxBuyOf(p[1], p[2])]
    BY <2>1 DEF Planned
  <2>3. /\ p[1] \in snapshot.account.components
        /\ p[2] \in snapshot.account.components /\ WorthBidding(p[1], p[2])
    BY DEF Pairs
  <2>4. wallet \in [Mints -> U64]
    BY DEF KeeperTypeOK
  <2>. QED
    BY <1>1, <2>1, <2>2, <2>3, <2>4, PlannedBid
<1>3. /\ Planned.accrue \in BOOLEAN /\ Planned.end \in BOOLEAN
      /\ Planned = [accrue |-> Planned.accrue, end |-> Planned.end,
                    bids |-> Planned.bids]
  BY DEF Planned, Expired, Plan, Grounded, Reliable, ClientTypeOK, SnapshotType
<1>4. Planned.bids \subseteq BidType
  BY <1>2
<1>5. ASSUME NEW x \in todo'.bids
      PROVE  Kept(x)'
  <2>1. x \in Planned.bids
    BY DEF MakePlan
  <2>2. UNCHANGED <<snapshot, market, wallet, now, touched>>
    BY DEF MakePlan, clientVars, priceVars, vars
  <2>3. now' \in Nat /\ now <= now'
    BY <1>1, <2>2, IndexAssumption DEF TypeOK
  <2>. QED
    BY <1>1, <1>2, <2>1, <2>2, <2>3, KeptLater
<1>. QED
  BY <1>3, <1>4, <1>5 DEF PlanKept

-----------------------------------------------------------------------------
(* The steps of a pass.                                                    *)

\* A bid of the keeper that fills costs it no more than it was limited to.
LEMMA BidOfKeeper ==
  ASSUME TypeOK, KeeperTypeOK, NEW x \in todo.bids, SubmitBid(x)
  PROVE  /\ x \in BidType /\ x.sell # x.buy /\ x.sold \in Nat \ {0}
         /\ \E paid \in Nat :
              /\ paid <= x.maxBuy /\ paid <= wallet[x.buy]
              /\ wallet[x.sell] + x.sold \in U64
              /\ wallet' = [wallet EXCEPT ![x.buy] = @ - paid,
                                          ![x.sell] = @ + x.sold]
<1> DEFINE paid == vault'[x.buy] - vault[x.buy]
<1>1. x \in BidType
  BY DEF KeeperTypeOK
<1>2. x.sold \in Nat /\ x.buy \in Mints
  BY <1>1, U64IsNat DEF BidType
<1>3. Bid(x.sell, x.buy, x.sold, x.maxBuy)
  BY DEF SubmitBid
<1>4. /\ x.sell # x.buy /\ x.sold # 0
      /\ BuyAmount(x.sell, x.buy, x.sold) <= x.maxBuy
  BY <1>3 DEF Bid
<1>5. /\ vault' = [vault EXCEPT
           ![x.sell] = @ - x.sold,
           ![x.buy] = @ + BuyAmount(x.sell, x.buy, x.sold)]
      /\ BuyAmount(x.sell, x.buy, x.sold) \in Nat
  BY <1>2, <1>3, BidEffect, U64IsNat
<1>6. vault[x.buy] \in Nat
  BY <1>2, U64IsNat DEF TypeOK
<1>7. vault'[x.buy] = vault[x.buy] + BuyAmount(x.sell, x.buy, x.sold)
  BY <1>2, <1>4, <1>5 DEF TypeOK
<1>8. paid = BuyAmount(x.sell, x.buy, x.sold)
  BY <1>5, <1>6, <1>7
<1>9. /\ paid <= wallet[x.buy] /\ wallet[x.sell] + x.sold \in U64
      /\ wallet' = [wallet EXCEPT ![x.buy] = @ - paid,
                                  ![x.sell] = @ + x.sold]
  BY DEF SubmitBid
<1> HIDE DEF paid
<1>10. paid \in Nat /\ paid <= x.maxBuy
  BY <1>4, <1>5, <1>8
<1>. QED
  BY <1>1, <1>2, <1>4, <1>9, <1>10

TodoType == [accrue : BOOLEAN, end : BOOLEAN, bids : SUBSET BidType]

\* What a submitted or a failed transaction leaves of a plan.
LEMMA TodoShrinks ==
  ASSUME KeeperTypeOK,
         NEW rest, \/ rest = [todo EXCEPT !.accrue = FALSE]
                   \/ rest = [todo EXCEPT !.end = FALSE]
                   \/ \E x \in todo.bids : rest = [todo EXCEPT !.bids = @ \ {x}]
  PROVE  rest \in TodoType /\ rest.bids \subseteq todo.bids
BY DEF KeeperTypeOK, TodoType

LEMMA KeeperTypeStep ==
  ASSUME Grounded, KeeperTypeOK, [KeeperNext]_keeperVars
  PROVE  KeeperTypeOK'
<1>1. /\ 0 \in 0 .. MAX_ATTEMPTS - 1 /\ NoPrices \in [Mints -> Nat]
      /\ Nothing \in TodoType
  BY PricesAssumption DEF NoPrices, Nothing, TodoType
<1>2. EndOfPass => KeeperTypeOK'
  BY <1>1 DEF EndOfPass, DropSnapshot, NothingFetched, TodoType, KeeperTypeOK
<1>3. OthersMove => KeeperTypeOK'
  BY DEF OthersMove, ChainMoves, clientVars, passVars, priceVars, KeeperTypeOK
<1>4. StartPass \/ PassReadsAccount \/ PassReadsLedger => KeeperTypeOK'
  BY DEF StartPass, StartSnapshot, PassReadsAccount, ReadAccount,
         PassReadsLedger, ReadLedger, passVars, priceVars, KeeperTypeOK
<1>5. ASSUME NEW answer \in MarketChoices, PricesArrive(answer)
      PROVE  KeeperTypeOK'
  BY <1>1, <1>5, PricesType
  DEF PricesArrive, FetchPrices, clientVars, KeeperTypeOK
<1>6. PricesRetried => KeeperTypeOK'
  <2> SUFFICES ASSUME PricesRetried PROVE KeeperTypeOK'
    OBVIOUS
  <2>1. attempt' \in 0 .. MAX_ATTEMPTS - 1
    BY PricesAssumption DEF PricesRetried, RetryRequest, KeeperTypeOK
  <2>. QED
    BY <2>1 DEF PricesRetried, RetryRequest, clientVars, KeeperTypeOK
<1>7. MakePlan => KeeperTypeOK'
  BY PlannedKept DEF MakePlan, clientVars, priceVars, KeeperTypeOK
<1>8. ASSUME todo' \in WithoutFirst \cup {[todo EXCEPT !.accrue = FALSE],
                                          [todo EXCEPT !.end = FALSE]},
             UNCHANGED <<clientVars, stage, priceVars, wallet>>
      PROVE  KeeperTypeOK'
  BY <1>8, TodoShrinks
  DEF WithoutFirst, clientVars, priceVars, TodoType, KeeperTypeOK
<1>9. SubmitAccrue \/ SubmitEnd \/ SubmitFails => KeeperTypeOK'
  BY <1>8 DEF SubmitAccrue, SubmitEnd, SubmitFails, Submits
<1>10. ASSUME NEW x \in todo.bids, SubmitBid(x)
       PROVE  KeeperTypeOK'
  <2>1. PICK paid \in Nat :
          /\ paid <= wallet[x.buy] /\ wallet[x.sell] + x.sold \in U64
          /\ wallet' = [wallet EXCEPT ![x.buy] = @ - paid,
                                      ![x.sell] = @ + x.sold]
    BY <1>10, BidOfKeeper DEF Grounded, Reliable
  <2>2. x.buy \in Mints /\ x.sell \in Mints /\ x.sell # x.buy
    BY <1>10, BidOfKeeper DEF BidType, Grounded, Reliable
  <2>3. wallet[x.buy] - paid \in U64
    <3>1. wallet[x.buy] \in U64
      BY <2>2 DEF KeeperTypeOK
    <3>. QED
      BY <2>1, <3>1, MathAssumption DEF U64
  <2>4. wallet' \in [Mints -> U64]
    BY <2>1, <2>2, <2>3 DEF KeeperTypeOK
  <2>5. todo' \in TodoType
    BY <1>10, TodoShrinks DEF SubmitBid
  <2>. QED
    BY <1>10, <2>4, <2>5
    DEF SubmitBid, Submits, clientVars, priceVars, TodoType, KeeperTypeOK
<1>11. UNCHANGED keeperVars => KeeperTypeOK'
  BY DEF keeperVars, passVars, priceVars, clientVars, KeeperTypeOK
<1>. QED
  BY <1>2, <1>3, <1>4, <1>5, <1>6, <1>7, <1>9, <1>10, <1>11
  DEF KeeperNext, PassFails, PricesGivenUp, PassDone

LEMMA PlanKeptStep ==
  ASSUME Grounded, KeeperTypeOK, PlanKept, [KeeperNext]_keeperVars
  PROVE  PlanKept'
<1>1. TypeOK /\ ClientTypeOK /\ SnapSound /\ now \in Nat
  BY IndexAssumption DEF Grounded, Reliable, TypeOK
<1>2. CASE stage' # "submit"
  BY <1>2 DEF PlanKept
<1>3. CASE MakePlan
  BY <1>3, PlannedKept
<1>4. ASSUME stage = "submit", todo'.bids \subseteq todo.bids,
             UNCHANGED <<snapshot, market>>, now' \in Nat, now <= now',
             touched' = "no" => touched = "no" /\ wallet' = wallet
      PROVE  PlanKept'
  <2> SUFFICES ASSUME NEW x \in todo'.bids PROVE Kept(x)'
    BY DEF PlanKept
  <2>1. x \in todo.bids /\ x \in BidType
    BY <1>4 DEF KeeperTypeOK
  <2>2. Kept(x)
    BY <1>4, <2>1 DEF PlanKept
  <2>. QED
    BY <1>1, <1>4, <2>1, <2>2, KeptLater
<1>5. Touch /\ touched' = "no" => touched = "no"
  BY DEF Touch
<1>6. CASE OthersMove /\ stage = "submit"
  <2>1. now <= now' /\ now' \in Nat
    <3>1. TypeOK'
      BY <1>1, <1>6, TypeStep DEF OthersMove, ChainMoves
    <3>. QED
      BY <1>1, <1>6, <3>1, ClockRuns, IndexAssumption
      DEF OthersMove, ChainMoves, TypeOK
  <2>. QED
    BY <1>4, <1>5, <1>6, <2>1
    DEF OthersMove, ChainMoves, clientVars, passVars, priceVars
<1>7. CASE SubmitFails
  <2>1. todo'.bids \subseteq todo.bids
    BY <1>7, TodoShrinks DEF SubmitFails, WithoutFirst
  <2>. QED
    BY <1>1, <1>4, <1>7, <2>1 DEF SubmitFails, clientVars, priceVars, vars
<1>8. CASE SubmitAccrue
  <2>1. todo'.bids \subseteq todo.bids
    BY <1>8, TodoShrinks DEF SubmitAccrue
  <2>2. now' = now
    BY <1>8 DEF SubmitAccrue, AccrueFees
  <2>. QED
    BY <1>1, <1>4, <1>5, <1>8, <2>1, <2>2
    DEF SubmitAccrue, Submits, clientVars, priceVars
<1>9. ASSUME SubmitEnd \/ \E x \in todo.bids : SubmitBid(x)
      PROVE  PlanKept'
  <2>1. KeeperTrades
    BY <1>9 DEF SubmitEnd, SubmitBid, Submits, KeeperTrades
  <2>2. touched' = "yes" /\ now' = now
    BY <2>1, TradesTouch
  <2>3. todo'.bids \subseteq todo.bids
    BY <1>9, TodoShrinks DEF SubmitEnd, SubmitBid
  <2>. QED
    BY <1>1, <1>4, <1>9, <2>2, <2>3
    DEF SubmitEnd, SubmitBid, Submits, clientVars, priceVars
<1>10. CASE UNCHANGED keeperVars /\ stage = "submit"
  <2>1. UNCHANGED <<todo, snapshot, market, now, touched, wallet>>
    BY <1>10 DEF keeperVars, passVars, priceVars, clientVars, vars
  <2>. QED
    BY <1>1, <1>4, <1>10, <2>1
<1>11. ASSUME stage # "submit", ~MakePlan
       PROVE  stage' # "submit"
  BY <1>11
  DEF KeeperNext, OthersMove, StartPass, PassReadsAccount, PassReadsLedger,
      PassFails, PricesArrive, PricesRetried, PricesGivenUp, EndOfPass,
      SubmitAccrue, SubmitEnd, SubmitBid, Submits, SubmitFails, PassDone,
      passVars, keeperVars
<1>12. ASSUME StartPass \/ PassReadsAccount \/ PassReadsLedger \/ PassFails
                \/ PricesRetried \/ PricesGivenUp \/ PassDone
                \/ \E answer \in MarketChoices : PricesArrive(answer),
              stage = "submit"
       PROVE  stage' # "submit"
  BY <1>12
  DEF StartPass, PassReadsAccount, PassReadsLedger, ReadAccount, ReadLedger,
      PassFails, PricesArrive, PricesRetried, PricesGivenUp, EndOfPass,
      PassDone, KeeperTypeOK
<1>. QED
  BY <1>2, <1>3, <1>6, <1>7, <1>8, <1>9, <1>10, <1>11, <1>12 DEF KeeperNext

Steady == Grounded /\ KeeperTypeOK /\ PlanKept

LEMMA SteadyAlways == KeeperSpec => []Steady
<1>1. KeeperInit => Steady
  <2> SUFFICES ASSUME KeeperInit PROVE Steady
    OBVIOUS
  <2>1. TypeOK /\ ClientTypeOK /\ Faithful
    BY TypeInit, NoSnapshotType, FaithfulInit
    DEF KeeperInit, ClientInit, ClientTypeOK
  <2>2. Lifecycle
    BY DEF KeeperInit, ClientInit, Init, Lifecycle, Roles, Closed
  <2>3. SnapSound
    BY DEF KeeperInit, ClientInit, NoSnapshot, NoAccount, Closed, SnapSound,
           Plan
  <2>4. KeeperTypeOK
    BY PricesAssumption, KeeperAssumption
    DEF KeeperInit, ClientInit, NoPrices, Nothing, KeeperTypeOK
  <2>5. PlanKept
    BY DEF KeeperInit, PlanKept
  <2>. QED
    BY <2>1, <2>2, <2>3, <2>4, <2>5 DEF Steady, Grounded, Reliable
<1>2. Steady /\ [KeeperNext]_keeperVars => Steady'
  BY GroundedStep, KeeperTypeStep, PlanKeptStep DEF Steady
<1>. QED
  BY <1>1, <1>2, PTL DEF KeeperSpec

-----------------------------------------------------------------------------
(* What a keeper may rely on.                                              *)

\* index.ts, runOnce: the pass keeps to its order and plans only bids that an
\* instruction can carry, whatever others do to the fund in the meantime.
THEOREM KeeperTypeCorrect == KeeperSpec => []KeeperTypeOK
<1>1. Steady => KeeperTypeOK
  BY DEF Steady
<1>. QED
  BY <1>1, SteadyAlways, PTL

\* planner.ts:113: while nobody else has touched the fund, every planned bid
\* is inside both legs, its price limit and the inventory, at the instant of
\* the plan and at every later one of the auction.
THEOREM BidsAlwaysInsideLegs == KeeperSpec => []BidsStayInsideLegs
<1>1. Steady => BidsStayInsideLegs
  <2> SUFFICES ASSUME Steady, AuctionOpen, stage = "submit", touched = "no",
                      NEW x \in todo.bids
               PROVE  InsideLegs(x)
    BY DEF BidsStayInsideLegs
  <2> DEFINE bought == BuyAmount(x.sell, x.buy, x.sold)
  <2>1. Reliable /\ SnapSound /\ reading = "held" /\ x \in BidType /\ Kept(x)
    BY DEF Steady, Grounded, KeeperTypeOK, PlanKept
  <2>2. /\ SameFigures /\ snapshot.account.components = components
        /\ Plan = rebalance /\ snapshot.account.refPrice = refPrice
    BY <2>1 DEF Reliable, Faithful, LedgerStands, SameFigures, Plan
  <2>3. /\ Plan.active /\ {x.sell, x.buy} \subseteq components
        /\ x.sold <= Sellable(x.sell) /\ x.maxBuy <= Buyable(x.buy)
        /\ now \in Plan.startTs .. Plan.endTs
        /\ x.maxBuy <= wallet[x.buy]
    BY <2>1, <2>2 DEF Kept, AuctionOpen
  <2>4. BidCost(x.sell, x.buy, x.sold) <= x.maxBuy
    <3>1. Plan.endTs \in Int /\ Plan.startTs \in Int
      BY <2>1, <2>3, PlanFields DEF Reliable
    <3>. QED
      BY <2>1, <2>3, <3>1 DEF Kept
  <2>5. x.sold \in Nat /\ x.maxBuy \in Nat
    BY <2>1, U64IsNat DEF BidType
  <2>6. /\ PlanQuote(x.sell, x.buy, x.sold, now)
             = PlanPrice(x.sell, x.buy, x.sold, now)
        /\ PlanQuote(x.sell, x.buy, x.sold, now) \in Nat
    BY <2>1, <2>2, <2>3, <2>5, QuoteIsPrice DEF Reliable
  <2>7. PlanPrice(x.sell, x.buy, x.sold, now) = bought
    BY <2>2
    DEF PlanPrice, Price, SnapLeg, BuyAmount, ValueIn, Premium
  <2>8. bought \in Nat /\ bought <= x.maxBuy
    BY <2>4, <2>6, <2>7, QuoteNow
  <2> HIDE DEF bought
  <2>9. x.sold <= vault[x.sell] - TargetBalance(x.sell)
    BY <2>1, <2>3, LimitsOfSnapshot DEF Sellable
  <2>10. x.maxBuy <= BuyCap(x.buy) - vault[x.buy]
    BY <2>1, <2>3, LimitsOfSnapshot DEF Buyable
  <2>11. BuyCap(x.buy) - vault[x.buy] \in Int /\ wallet[x.buy] \in Int
    <3>1. x.buy \in Mints
      BY <2>1 DEF BidType
    <3>2. wallet[x.buy] \in Nat
      BY <3>1, U64IsNat DEF Steady, KeeperTypeOK
    <3>3. BuyCap(x.buy) \in Nat /\ vault[x.buy] \in Nat
      BY <2>1, <2>3, LimitsOfSnapshot
    <3>. QED
      BY <3>2, <3>3
  <2>. QED
    BY <2>3, <2>5, <2>8, <2>9, <2>10, <2>11 DEF InsideLegs, bought
<1>. QED
  BY <1>1, SteadyAlways, PTL

LEMMA ValueType ==
  ASSUME market \in [Mints -> Nat], NEW c \in Mints, NEW n \in Nat
  PROVE  /\ MarketValue(c, n) \in Nat
         /\ \A k \in Nat : k <= n => MarketValue(c, k) <= MarketValue(c, n)
<1>1. market[c] \in Nat /\ DECIMALS_SCALE[c] \in Nat \ {0}
  BY IndexAssumption
<1>2. ASSUME NEW k \in Nat
      PROVE  /\ MarketValue(c, k) = MulDivFloor(market[c], k, DECIMALS_SCALE[c])
             /\ MarketValue(c, k) \in Nat
  <2>1. MarketValue(c, k) = MulDivFloor(k, market[c], DECIMALS_SCALE[c])
    BY <1>1, FloorParity DEF MarketValue, valueE9
  <2>2. k * market[c] = market[c] * k
    BY <1>1, SMT
  <2>. QED
    BY <1>1, <2>1, <2>2, FloorBounds DEF MulDivFloor
<1>3. ASSUME NEW k \in Nat, k <= n
      PROVE  MulDivFloor(market[c], k, DECIMALS_SCALE[c])
               <= MulDivFloor(market[c], n, DECIMALS_SCALE[c])
  BY <1>1, <1>3, FloorMonotone
<1>. QED
  BY <1>2, <1>3

\* A fill at no more than the limit has the edge of the limit, or more.
LEMMA EdgeOfFill ==
  ASSUME NEW out \in Nat, NEW limit \in Nat \ {0}, NEW in \in 0 .. limit,
         MinEdge # 0, quot((out - limit) * BPS, limit) >= MinEdge
  PROVE  (out - in) * BPS >= MinEdge * in
<1>1. BPS \in Nat \ {0} /\ MinEdge \in Nat \ {0}
  BY MathAssumption, KeeperAssumption
<1>2. (out - limit) * BPS \in Int
  BY <1>1
<1>3. (out - limit) * BPS >= MinEdge * limit
  BY <1>1, <1>2, QuotAtLeast
<1>4. MinEdge * limit >= MinEdge * in
  BY <1>1, SMT
<1>5. (out - in) * BPS >= (out - limit) * BPS
  BY <1>1, SMT
<1>6. /\ MinEdge * limit \in Int /\ MinEdge * in \in Int
      /\ (out - in) * BPS \in Int
  BY <1>1
<1>. QED
  BY <1>2, <1>3, <1>4, <1>5, <1>6

\* planner.ts:157-164: with a minimum edge of a basis point or more, every
\* fill the keeper gets is worth that edge at the prices it fetched.  With a
\* minimum of zero it need not be: a loss of less than a basis point truncates
\* to an edge of zero.
THEOREM EdgeAlwaysKept ==
  ASSUME MinEdge # 0
  PROVE  KeeperSpec => EdgeKept
<1> DEFINE FillHasEdge ==
      wallet' # wallet =>
        \E s, b \in Mints :
          LET out == MarketValue(s, wallet'[s] - wallet[s])
              in  == MarketValue(b, wallet[b] - wallet'[b])
          IN  /\ s # b /\ wallet'[s] > wallet[s]
              /\ (out - in) * BPS >= MinEdge * in
<1>1. Steady /\ [KeeperNext]_keeperVars => [FillHasEdge]_keeperVars
  <2> SUFFICES ASSUME Steady, KeeperNext, wallet' # wallet
               PROVE  FillHasEdge
    BY DEF keeperVars
  <2>1. PICK x \in todo.bids : SubmitBid(x)
    BY DEF KeeperNext, OthersMove, StartPass, PassReadsAccount,
           PassReadsLedger, PassFails, PricesArrive, PricesRetried,
           PricesGivenUp, EndOfPass, MakePlan, SubmitAccrue, SubmitEnd,
           SubmitFails, PassDone
  <2>2. /\ x \in BidType /\ x.sell # x.buy /\ x.sold \in Nat \ {0}
        /\ Kept(x)
    BY <2>1, BidOfKeeper
    DEF Steady, Grounded, Reliable, PlanKept, SubmitBid, Submits
  <2>3. PICK paid \in Nat :
          /\ paid <= x.maxBuy
          /\ wallet' = [wallet EXCEPT ![x.buy] = @ - paid,
                                      ![x.sell] = @ + x.sold]
    BY <2>1, BidOfKeeper DEF Steady, Grounded, Reliable
  <2>4. /\ x.sell \in Mints /\ x.buy \in Mints /\ x.maxBuy \in Nat
        /\ wallet[x.sell] \in Nat /\ wallet[x.buy] \in Nat
        /\ wallet \in [Mints -> U64] /\ market \in [Mints -> Nat]
    BY <2>2, U64IsNat DEF BidType, Steady, KeeperTypeOK
  <2>5. /\ wallet'[x.sell] = wallet[x.sell] + x.sold
        /\ wallet'[x.buy] = wallet[x.buy] - paid
    BY <2>2, <2>3, <2>4
  <2>6. /\ wallet'[x.sell] - wallet[x.sell] = x.sold
        /\ wallet[x.buy] - wallet'[x.buy] = paid
        /\ wallet'[x.sell] > wallet[x.sell]
    BY <2>2, <2>4, <2>5
  <2> DEFINE out   == MarketValue(x.sell, x.sold)
             limit == MarketValue(x.buy, x.maxBuy)
             in    == MarketValue(x.buy, paid)
  <2>7. out \in Nat /\ limit \in Nat \ {0} /\ in \in 0 .. limit
    BY <2>2, <2>3, <2>4, ValueType DEF Kept
  <2>8. quot((out - limit) * BPS, limit) >= MinEdge
    BY <2>2 DEF Kept, Edge
  <2> HIDE DEF out, limit, in
  <2>9. (out - in) * BPS >= MinEdge * in
    BY <2>7, <2>8, EdgeOfFill
  <2>. QED
    BY <2>2, <2>4, <2>6, <2>9 DEF out, in
<1>. QED
  BY <1>1, SteadyAlways, PTL DEF KeeperSpec, EdgeKept
==============================================================================
