----------------------------- MODULE FlockKeeper -----------------------------
(***************************************************************************)
(* The keeper (apps/keeper/src/index.ts, planner.ts) against the index     *)
(* program: each pass takes a snapshot, fetches market prices, reads its   *)
(* own inventory, plans, and submits the plan one transaction at a time,   *)
(* while everybody else goes on using the chain.                           *)
(*                                                                         *)
(* An exception anywhere before the plan ends the pass; a failed           *)
(* transaction is logged and the next one submitted.                       *)
(***************************************************************************)
EXTENDS FlockClient, FlockPrices

CONSTANTS
  KeeperKey,         \* the key it signs with
  MinAccrual, MinEdge, MaxLegShare,   \* KeeperPolicy
  Inventories,       \* what the keeper may hold of each component
  INTERFERENCE       \* bound: steps of others within one pass, time aside

ASSUME KeeperAssumption ==
  /\ KeeperKey \in Keys
  /\ {MinAccrual, MinEdge} \subseteq Nat
  /\ MaxLegShare \in 1 .. BPS
  /\ INTERFERENCE \in Nat
  /\ Inventories \subseteq U64

VARIABLES
  stage,             \* of the pass, once its snapshot is held
  todo,              \* what is left of the plan
  wallet,            \* the keeper's component balances, on chain
  others             \* counts the steps INTERFERENCE bounds

passVars   == <<stage, priceVars, todo>>
keeperVars == <<vars, clientVars, touched, passVars, wallet, others>>

Nothing    == [accrue |-> FALSE, end |-> FALSE, bids |-> {}]

-----------------------------------------------------------------------------
(* planner.ts: the plan, from a snapshot, prices and an inventory.         *)

Sellable(s) == snapshot.balances[s] - TargetOf(s)
Buyable(b)  == CapOf(b) - snapshot.balances[b]

\* What the program will ask for `sold' of s in b.
BidCost(s, b, sold) == bidCost(sold, SnapLeg(s), SnapLeg(b), SnapPremium)

\* The inventory is read last, and planned with at once.
Budget(b) == IF wallet[b] < Buyable(b) THEN wallet[b] ELSE Buyable(b)

\* The policy's share of what may still be sold.
WholeVaultSize(s) ==
  mulDivFloor(snapshot.balances[s], MaxLegShare, BPS)            \* mutant
FullSize(s) == mulDivFloor(Sellable(s), MaxLegShare, BPS)

\* The leg, scaled down in proportion when it costs more than the budget.
BidSize(s, b) ==
  LET cost == BidCost(s, b, FullSize(s))
  IN  IF cost > Budget(b) THEN mulDivFloor(FullSize(s), Budget(b), cost)
      ELSE FullSize(s)

MarketValue(c, amount) == valueE9(amount, DECIMALS_SCALE[c], market[c])
Edge(s, b, sold, paid) ==
  LET in == MarketValue(b, paid)
  IN  quot((MarketValue(s, sold) - in) * BPS, in)

\* What a bid may cost it at most.
BudgetAsMaxBuy(s, b) == Budget(b)                                \* mutant
MaxBuyOf(s, b) == BidCost(s, b, BidSize(s, b))

WorthBidding(s, b) ==
  /\ s # b
  /\ Sellable(s) > 0 /\ Buyable(b) > 0
  /\ FullSize(s) # 0
  /\ Budget(b) # 0
  /\ BidSize(s, b) # 0
  /\ BidCost(s, b, BidSize(s, b)) <= Budget(b)
  /\ market[s] # 0 /\ market[b] # 0
  /\ MarketValue(b, BidCost(s, b, BidSize(s, b))) # 0
  /\ Edge(s, b, BidSize(s, b), BidCost(s, b, BidSize(s, b))) >= MinEdge

Pairs == {p \in snapshot.account.components \X snapshot.account.components :
            WorthBidding(p[1], p[2])}

Expired == Plan.active /\ now > Plan.endTs
Open    == Plan.active /\ now \in Plan.startTs .. Plan.endTs

\* The bids of a pass are submitted in table order; here, in any order.
Planned ==
  [accrue |-> PendingFee >= MinAccrual,
   end    |-> Expired,
   bids   |-> IF Open
              THEN {[sell |-> p[1], buy |-> p[2],
                     sold |-> BidSize(p[1], p[2]),
                     maxBuy |-> MaxBuyOf(p[1], p[2])] : p \in Pairs}
              ELSE {}]

-----------------------------------------------------------------------------
(* A pass: index.ts, runOnce.                                              *)

StartPass ==
  stage = "none" /\ StartSnapshot /\ UNCHANGED <<passVars, wallet, others>>
PassReadsAccount ==
  ReadAccount /\ UNCHANGED <<passVars, wallet, others>>
PassReadsLedger ==
  /\ ReadLedger
  /\ stage' = "prices"
  /\ UNCHANGED <<priceVars, todo, wallet, others>>

EndOfPass ==
  /\ DropSnapshot
  /\ stage' = "none" /\ todo' = Nothing /\ others' = 0
  /\ NothingFetched
  /\ UNCHANGED wallet

\* pass.failed: an exception of one of the reads.
StageLeftBehind ==                                               \* mutant
  /\ stage \in {"none", "inventory"}
  /\ DropSnapshot
  /\ UNCHANGED <<passVars, wallet, others>>
PassFails == stage \in {"none", "inventory"} /\ EndOfPass

PricesArrive(answer) ==
  /\ stage = "prices"
  /\ FetchPrices(answer)
  /\ stage' = "inventory"
  /\ UNCHANGED <<vars, clientVars, touched, todo, wallet, others>>
PricesRetried ==
  /\ stage = "prices"
  /\ RetryRequest
  /\ UNCHANGED <<vars, clientVars, touched, stage, todo, wallet, others>>
PricesGivenUp == stage = "prices" /\ FetchThrows /\ EndOfPass

MakePlan ==
  /\ stage = "inventory"
  /\ stage' = "submit"
  /\ todo' = Planned
  /\ UNCHANGED <<vars, clientVars, touched, priceVars, wallet, others>>

\* A transaction lands as an instruction of the program.
Submits == /\ stage = "submit"
           /\ VaultsNamed
           /\ Touch
           /\ UNCHANGED <<clientVars, stage, priceVars, others>>

SubmitAccrue ==
  /\ todo.accrue
  /\ FeeAccountNamed(0)
  /\ AccrueFees
  /\ Submits
  /\ todo' = [todo EXCEPT !.accrue = FALSE]
  /\ UNCHANGED wallet

SubmitEnd ==
  /\ todo.end /\ ~todo.accrue
  /\ EndRebalance(KeeperKey)
  /\ Submits
  /\ todo' = [todo EXCEPT !.end = FALSE]
  /\ UNCHANGED wallet

SubmitBid(x) ==
  /\ x \in todo.bids /\ ~todo.accrue
  /\ Bid(x.sell, x.buy, x.sold, x.maxBuy)
  /\ LET paid == vault'[x.buy] - vault[x.buy]
     IN  /\ paid <= wallet[x.buy] /\ wallet[x.sell] + x.sold \in U64
         /\ wallet' = [wallet EXCEPT ![x.buy] = @ - paid,
                                     ![x.sell] = @ + x.sold]
  /\ Submits
  /\ todo' = [todo EXCEPT !.bids = @ \ {x}]

\* failed.<kind>: logged, and the loop goes on to the next action.
GiveUp == {Nothing}                                              \* mutant
WithoutFirst ==
  IF todo.accrue THEN {[todo EXCEPT !.accrue = FALSE]}
  ELSE IF todo.end THEN {[todo EXCEPT !.end = FALSE]}
  ELSE {[todo EXCEPT !.bids = @ \ {x}] : x \in todo.bids}
SubmitFails ==
  /\ stage = "submit" /\ todo # Nothing
  /\ todo' \in WithoutFirst
  /\ UNCHANGED <<vars, clientVars, touched, stage, priceVars, wallet,
                 others>>

PassDone == stage = "submit" /\ todo = Nothing /\ EndOfPass

\* Between passes, and a bounded number of times within one.
OthersMove ==
  /\ ChainMoves
  /\ others' = IF reading = "idle" \/ now' # now THEN others ELSE others + 1
  /\ others' <= INTERFERENCE
  /\ UNCHANGED <<passVars, wallet>>

KeeperInit ==
  /\ ClientInit
  /\ stage = "none" /\ attempt = 0
  /\ market = NoPrices /\ todo = Nothing /\ others = 0
  /\ wallet \in [Mints -> Inventories]

KeeperNext ==
  \/ OthersMove
  \/ StartPass
  \/ PassReadsAccount
  \/ PassReadsLedger
  \/ PassFails
  \/ \E answer \in MarketChoices : PricesArrive(answer)
  \/ PricesRetried
  \/ PricesGivenUp
  \/ MakePlan
  \/ SubmitAccrue
  \/ SubmitEnd
  \/ \E x \in todo.bids : SubmitBid(x)
  \/ SubmitFails
  \/ PassDone

KeeperSpec == KeeperInit /\ [][KeeperNext]_keeperVars

\* The loop never stops, and a transaction always ends one way or the other.
\* Each remote call can fail any number of times but not for ever.
KeeperFairness ==
  /\ WF_keeperVars(StartPass)
  /\ WF_keeperVars(PassDone)
  /\ WF_keeperVars(SubmitAccrue \/ SubmitFails)
  /\ SF_keeperVars(PassReadsAccount)
  /\ SF_keeperVars(PassReadsLedger)
  /\ SF_keeperVars(\E answer \in MarketChoices : PricesArrive(answer))
  /\ SF_keeperVars(MakePlan)
  /\ SF_keeperVars(SubmitEnd)

KeeperFairSpec == KeeperSpec /\ KeeperFairness

-----------------------------------------------------------------------------
(* Properties.                                                             *)

BidType == [sell : Mints, buy : Mints, sold : U64, maxBuy : U64]

\* The pass keeps to its order, holds its snapshot while it needs it, and
\* plans bids only of amounts an instruction can carry.
KeeperTypeOK ==
  /\ stage \in {"none", "prices", "inventory", "submit"}
  /\ (stage # "none") = (reading = "held")
  /\ attempt \in 0 .. MAX_ATTEMPTS - 1
  /\ market \in [Mints -> Nat]
  /\ todo \in [accrue : BOOLEAN, end : BOOLEAN, bids : SUBSET BidType]
  /\ wallet \in [Mints -> U64]

\* The auction can be filled now: nothing but the sizes can refuse a bid.
AuctionOpen == /\ state = "live" /\ rebalance.active
               /\ now \in rebalance.startTs .. rebalance.endTs

InsideLegs(x) ==
  /\ x.sold <= vault[x.sell] - TargetBalance(x.sell)
  /\ BuyAmount(x.sell, x.buy, x.sold) <= x.maxBuy
  /\ BuyAmount(x.sell, x.buy, x.sold) <= BuyCap(x.buy) - vault[x.buy]
  /\ BuyAmount(x.sell, x.buy, x.sold) <= wallet[x.buy]

\* planner.ts:113, "size the bid so that neither leg is pushed past what the
\* program will accept": while nobody else has touched the fund, a planned bid
\* is one the program takes and the keeper can pay, at the instant of the plan
\* and at every later one of the auction, whatever the premium has become.
BidsStayInsideLegs ==
  AuctionOpen /\ stage = "submit" /\ touched = "no" =>
    \A x \in todo.bids : InsideLegs(x)

\* planner.ts:26, "do not bid unless the market edge covers this": every fill
\* the keeper gets is worth MinEdge or more at the prices it fetched, even if
\* the auction it planned for is over and another has taken its place.
EdgeKept ==
  [][wallet' # wallet =>
       \E s, b \in Mints :
         LET out == MarketValue(s, wallet'[s] - wallet[s])
             in  == MarketValue(b, wallet[b] - wallet'[b])
         IN  /\ s # b /\ wallet'[s] > wallet[s]
             /\ (out - in) * BPS >= MinEdge * in]_keeperVars

\* index.ts:28, "closes auctions that have expired so the next one can be
\* proposed": it does, even if the fee accrual planned before it always fails
\* and even if the manager never comes back.
ExpiredCloses ==
  (rebalance.active /\ now > rebalance.endTs) ~> ~rebalance.active

-----------------------------------------------------------------------------
(* A claim of the source that the code does not meet.                      *)

\* planner.ts:113 again, for the whole plan: a bid still fits once the accrual
\* that the same plan submits before it has landed.
PlanFitsItself ==
  AuctionOpen /\ stage = "submit" /\ touched # "yes" =>
    \A x \in todo.bids : todo.accrue \/ InsideLegs(x)
=============================================================================
