--------------------------- MODULE FlockIndexProofs ---------------------------
(***************************************************************************)
(* The index program keeps its promises for every number of components,    *)
(* keys and holders, every scale, cap and fee, and every bound.            *)
(*                                                                         *)
(* Safe is the inductive invariant: types, the backing of the units, what  *)
(* the life cycle rules out (Lifecycle) and what the accrual clock may     *)
(* still bill (Billable).                                                  *)
(***************************************************************************)
EXTENDS FlockProperties, FlockMathTheorems

\* What holds in each stage: nobody governs an index that is not there,
\* nothing is minted before the index is sealed, and a plan is only
\* published, with its prices and with notice, by a sealed index.
Lifecycle ==
  /\ state = "absent" => components = {} /\ authority["governor"] = None
  /\ state # "absent" => /\ mint.authority = "index"
                         /\ params.rebalanceDelay >= MIN_REBALANCE_DELAY
  /\ state = "bootstrapping" => supply = 0
  /\ rebalance.active =>
       /\ Sealed
       /\ rebalance.startTs >= rebalance.proposedAt + MIN_REBALANCE_DELAY
       /\ rebalance.startTs < rebalance.endTs
       /\ rebalance.startPremium <= rebalance.endPremium
       /\ rebalance.endPremium <= MAX_PREMIUM_CEILING_BPS
       /\ \A c \in components : refPrice[c] # 0

\* The period the clock would bill at the present rate is covered by the
\* rates that were in force.
Billable == Sealed => params.streamingFee * FeePeriod <= feeDue

Safe == TypeOK /\ Lifecycle /\ Backed /\ Billable

-----------------------------------------------------------------------------
(* The shared helpers of the handlers.                                     *)

LEMMA U64IsNat == U64 \subseteq Nat /\ 0 \in U64
BY MathAssumption DEF U64

\* accrue never mints a negative amount, and leaves a u64.
LEMMA AccrueType ==
  ASSUME TypeOK, AccrueFits
  PROVE  FeePeriod \in Nat /\ Owed \in Nat /\ SupplyAfterFee \in U64
<1>1. FeePeriod \in Nat /\ supply \in Nat /\ params.streamingFee \in Nat
  BY U64IsNat, IndexAssumption DEF TypeOK, FeePeriod, WithinCaps
<1>2. Owed \in Nat
  BY <1>1, StreamingShare DEF Owed, AccrueFits
<1>. QED
  BY <1>1, <1>2 DEF AccrueFits

\* sync_units writes u64s that the balances it read cover.
LEMMA SyncedBacked ==
  ASSUME NEW u \in [Mints -> U64], NEW v \in [Mints -> U64], NEW s \in Nat,
         components \in SUBSET Mints, Fits(SyncedUnits(u, v, s))
  PROVE  /\ SyncedUnits(u, v, s) \in [Mints -> U64]
         /\ \A c \in components :
              SyncedUnits(u, v, s)[c] * s <= v[c] * UNIT_SCALE
<1>1. CASE s = 0
  <2>1. ASSUME NEW c \in components
        PROVE  u[c] * s <= v[c] * UNIT_SCALE
    <3>1. u[c] \in Nat /\ v[c] \in Nat /\ UNIT_SCALE \in Nat
      BY U64IsNat, MathAssumption
    <3>2. u[c] * s = 0 /\ v[c] * UNIT_SCALE \in Nat
      BY <1>1, <3>1, ProductIsNat
    <3>. QED
      BY <3>2
  <2>. QED
    BY <1>1, <2>1 DEF SyncedUnits
<1>2. CASE s # 0
  <2>1. ASSUME NEW c \in components
        PROVE  /\ SyncedUnits(u, v, s)[c] \in U64
               /\ SyncedUnits(u, v, s)[c] = UnitsFromBalance(v[c], s)
               /\ UnitsFromBalance(v[c], s) * s <= v[c] * UNIT_SCALE
    BY <1>2, U64IsNat, UnitsNeverOverstate DEF SyncedUnits, Fits
  <2>. QED
    BY <1>2, <2>1 DEF SyncedUnits
<1>. QED
  BY <1>1, <1>2

\* Balances stay naturals when one of them is credited.
LEMMA CreditType ==
  ASSUME NEW h \in [Keys -> Nat], NEW k, NEW amount \in Nat
  PROVE  Credit(h, k, amount) \in [Keys -> Nat]
<1>1. ASSUME NEW j \in Keys
      PROVE  Credit(h, k, amount)[j] \in Nat
  <2>1. CASE j = k
    BY <2>1 DEF Credit
  <2>2. CASE j # k
    BY <2>2 DEF Credit
  <2>. QED
    BY <2>1, <2>2
<1>2. /\ DOMAIN Credit(h, k, amount) = Keys
      /\ Credit(h, k, amount) = [j \in Keys |-> Credit(h, k, amount)[j]]
  BY DEF Credit
<1>. QED
  BY <1>1, <1>2

LEMMA InputTypes ==
  /\ Amounts \subseteq Nat /\ SeedUnits \subseteq U64
  /\ TargetChoices \subseteq U64 /\ PriceChoices \subseteq U64
  /\ SellAmounts \subseteq Nat /\ Donations \subseteq Nat
BY IndexAssumption, U64IsNat

\* What an accepted issue does to the vaults and the supply.
LEMMA IssueEffect ==
  ASSUME TypeOK, NEW open, NEW to, NEW amount \in Nat, NEW maxIn,
         IssueInto(open, to, amount, maxIn)
  PROVE  \E gross \in Nat :
           /\ amount <= gross
           /\ supply' = SupplyAfterFee + gross /\ supply' \in U64
           /\ QuotedUnits \in [Mints -> U64]
           /\ vault' \in [Mints -> U64]
           /\ \A c \in components :
                vault'[c] = vault[c] + UnitsIn(QuotedUnits[c], gross)
           /\ units' = SyncedUnits(QuotedUnits, vault', supply')
           /\ Fits(units')
           /\ holding' \in [Keys -> Nat]
<1> DEFINE fee   == IssueFee(amount)
           gross == amount + fee
<1>1. params.issueFee \in Nat /\ BPS \in Nat \ {0}
  BY MathAssumption, IndexAssumption DEF TypeOK, WithinCaps
<1>2. fee \in Nat /\ gross \in Nat /\ amount <= gross
  <2>1. fee \in Nat
    BY <1>1, CeilBounds DEF IssueFee
  <2> HIDE DEF fee
  <2>. QED
    BY <2>1
<1>3. AccrueFits
  BY DEF IssueInto, AccrueAcceptedIn
<1>4. Owed \in Nat /\ SupplyAfterFee \in Nat /\ SupplyAfterFee \in U64
  BY <1>3, AccrueType, U64IsNat
<1>5. QuotedUnits \in [Mints -> U64]
  <2>1. Fits(QuotedUnits)
    BY DEF IssueInto
  <2>. QED
    BY <1>4, <2>1, SyncedBacked DEF TypeOK, QuotedUnits
<1>6. /\ supply' = SupplyAfterFee + gross /\ supply' \in U64
      /\ vault' = [c \in Mints |->
                     IF c \in components
                     THEN vault[c] + [d \in components |->
                            UnitsIn(QuotedUnits[d], gross)][c]
                     ELSE vault[c]]
      /\ Fits(vault')
      /\ units' = SyncedUnits(QuotedUnits, vault', supply')
      /\ Fits(units')
      /\ holding' = PayFee(Credit(holding, to, amount), Owed + fee)
  BY DEF IssueInto
<1> HIDE DEF fee, gross
<1>7. vault' \in [Mints -> U64]
  BY <1>6 DEF TypeOK, Fits
<1>8. \A c \in components :
        vault'[c] = vault[c] + UnitsIn(QuotedUnits[c], gross)
  BY <1>6 DEF TypeOK
<1>9. holding' \in [Keys -> Nat]
  <2>1. Owed + fee \in Nat
    BY <1>2, <1>4
  <2>. QED
    BY <1>6, <2>1, CreditType DEF PayFee, TypeOK
<1>. QED
  BY <1>2, <1>5, <1>6, <1>7, <1>8, <1>9

\* What an accepted redemption does to them: `net' is what leaves the supply.
LEMMA RedeemEffect ==
  ASSUME TypeOK, NEW by, NEW amount \in Nat, NEW minOut,
         Redeem(by, amount, minOut)
  PROVE  /\ SupplyAfterFee \in Nat \ {0}
         /\ QuotedUnits \in [Mints -> U64]
         /\ vault' \in [Mints -> U64]
         /\ units' = SyncedUnits(QuotedUnits, vault', supply')
         /\ Fits(units')
         /\ holding' \in [Keys -> Nat]
         /\ \E net \in 0 .. SupplyAfterFee :
              /\ supply' = SupplyAfterFee - net /\ supply' \in U64
              /\ \A c \in components :
                   vault'[c] = vault[c] - UnitsOut(QuotedUnits[c], net)
<1> DEFINE fee == RedeemFee(amount)
           net == amount - fee
<1>1. RedeemAccepted(by, amount, minOut)
  BY DEF Redeem
<1>2. fee \in 0 .. amount
  <2>1. params.redeemFee \in 0 .. BPS
    BY MathAssumption, IndexAssumption DEF TypeOK, WithinCaps
  <2>. QED
    BY <2>1, FeeAtMostAmount DEF RedeemFee
<1>3. /\ Owed \in Nat /\ SupplyAfterFee \in Nat /\ SupplyAfterFee <= U64_MAX
      /\ U64_MAX \in Nat
  BY <1>1, AccrueType, U64IsNat, MathAssumption
  DEF RedeemAccepted, AccrueAccepted, AccrueAcceptedIn, U64
<1>4. amount # 0 /\ SupplyAfterFee >= amount /\ HoldingAfterFee[by] >= amount
  BY <1>1 DEF RedeemAccepted
<1>5. net \in 0 .. SupplyAfterFee /\ SupplyAfterFee # 0
  BY <1>2, <1>3, <1>4
<1>6. supply' = SupplyAfterFee - net /\ supply' \in U64
  <2>1. supply' = SupplyAfterFee - amount + fee
    BY DEF Redeem, SupplyAfterRedeem
  <2>. QED
    BY <1>2, <1>3, <1>5, <2>1 DEF U64
<1>7. QuotedUnits \in [Mints -> U64]
  <2>1. Fits(QuotedUnits)
    BY <1>1 DEF RedeemAccepted
  <2>. QED
    BY <1>3, <2>1, SyncedBacked DEF TypeOK, QuotedUnits
<1>8. ASSUME NEW c \in components
      PROVE  /\ vault'[c] = vault[c] - UnitsOut(QuotedUnits[c], net)
             /\ vault'[c] \in U64
  <2>1. c \in Mints /\ vault[c] \in U64 /\ vault[c] \in Nat
    BY U64IsNat DEF TypeOK
  <2>2. vault'[c] = vault[c] - UnitsOut(QuotedUnits[c], net)
    BY <2>1 DEF Redeem, VaultAfterRedeem, Payout
  <2>3. UnitsOut(QuotedUnits[c], net) <= vault[c]
    BY <1>1 DEF RedeemAccepted, Payout
  <2>4. UnitsOut(QuotedUnits[c], net) \in Nat
    <3>1. QuotedUnits[c] \in Nat
      BY <1>7, <2>1, U64IsNat
    <3> HIDE DEF net
    <3>2. net \in Nat
      BY <1>3, <1>5
    <3>. QED
      BY <3>1, <3>2, UnitsInOutBounds
  <2>. QED
    BY <2>1, <2>2, <2>3, <2>4, MathAssumption DEF U64
<1>9. vault' \in [Mints -> U64]
  <2>1. /\ vault' = [c \in Mints |-> IF c \in components
                                     THEN vault[c] - Payout(amount)[c]
                                     ELSE vault[c]]
    BY DEF Redeem, VaultAfterRedeem
  <2>. QED
    BY <1>8, <2>1 DEF TypeOK
<1>10. units' = SyncedUnits(QuotedUnits, vault', supply') /\ Fits(units')
  BY <1>1 DEF Redeem, RedeemAccepted, UnitsAfterRedeem
<1>11. holding' \in [Keys -> Nat]
  <2>1. HoldingAfterFee \in [Keys -> Nat]
    BY <1>3, CreditType DEF HoldingAfterFee, PayFee, TypeOK
  <2>2. [HoldingAfterFee EXCEPT ![by] = @ - amount] \in [Keys -> Nat]
    <3>1. by \in Keys
      BY <1>1 DEF RedeemAccepted, CanReceive, CanReceiveIn, TypeOK
    <3> DEFINE held == HoldingAfterFee
    <3>2. held \in [Keys -> Nat] /\ held[by] - amount \in Nat
      BY <1>4, <2>1, <3>1
    <3> HIDE DEF held
    <3>3. [held EXCEPT ![by] = @ - amount] \in [Keys -> Nat]
      BY <3>1, <3>2
    <3>. QED
      BY <3>3 DEF held
  <2>3. fee \in Nat
    BY <1>2
  <2>4. holding' = PayFee([HoldingAfterFee EXCEPT ![by] = @ - amount], fee)
    BY DEF Redeem
  <2>. QED
    BY <2>2, <2>3, <2>4, CreditType DEF PayFee
<1>. QED
  BY <1>3, <1>5, <1>6, <1>7, <1>8, <1>9, <1>10, <1>11

LEMMA AccrueFeesEffect ==
  ASSUME TypeOK, AccrueFees
  PROVE  /\ supply' = SupplyAfterFee /\ supply' \in U64
         /\ holding' \in [Keys -> Nat]
         /\ units' = SyncedUnits(units, vault, supply')
         /\ Fits(units')
<1>1. Owed \in Nat /\ SupplyAfterFee \in U64
  BY AccrueType DEF AccrueFees, AccrueAccepted, AccrueAcceptedIn
<1>. QED
  BY <1>1, CreditType
  DEF AccrueFees, QuotedUnits, HoldingAfterFee, PayFee, TypeOK

\* What a filled bid does: one vault down, one other up, both still u64s.
LEMMA BidEffect ==
  ASSUME TypeOK, NEW s, NEW b, NEW sold \in Nat, NEW maxBuy,
         Bid(s, b, sold, maxBuy)
  PROVE  /\ s \in components /\ b \in components /\ s # b
         /\ vault' = [vault EXCEPT ![s] = @ - sold,
                                   ![b] = @ + BuyAmount(s, b, sold)]
         /\ BuyAmount(s, b, sold) \in U64
         /\ vault' \in [Mints -> U64]
         /\ units' = SyncedUnits(units, vault', supply)
         /\ Fits(units')
<1> DEFINE bought == BuyAmount(s, b, sold)
<1>1. s \in components /\ b \in components /\ s # b
  BY DEF Bid
<1>2. /\ s \in Mints /\ b \in Mints
      /\ vault[s] \in U64 /\ vault[b] \in U64
  BY <1>1 DEF TypeOK
<1>3. bought \in U64 /\ TargetBalance(s) \in U64 /\ BuyCap(b) \in U64
  BY DEF Bid, BidArithmeticFits
<1>4. /\ sold <= vault[s] - TargetBalance(s)
      /\ bought <= BuyCap(b) - vault[b]
      /\ vault' = [vault EXCEPT ![s] = @ - sold, ![b] = @ + bought]
      /\ units' = SyncedUnits(units, vault', supply)
      /\ Fits(units')
  BY DEF Bid, UnitsAfterBid, SellRoom
<1> HIDE DEF bought
<1>5. vault[s] - sold \in U64 /\ vault[b] + bought \in U64
  BY <1>2, <1>3, <1>4, MathAssumption DEF U64
<1>6. vault' \in [Mints -> U64]
  BY <1>1, <1>2, <1>4, <1>5 DEF TypeOK
<1>. QED
  BY <1>1, <1>3, <1>4, <1>6 DEF bought

\* A proposal writes a window that opens after the notice, and a plan of u64s.
LEMMA ProposeEffect ==
  ASSUME TypeOK, NEW by, NEW target, Fits(target), NEW price, Fits(price),
         NEW p \in AuctionType, ProposeRebalance(by, target, price, p)
  PROVE  /\ refPrice' \in [Mints -> U64]
         /\ targetUnits' \in [Mints -> U64]
         /\ rebalance' \in RebalanceType
         /\ rebalance'.active /\ rebalance'.proposedAt = now
         /\ rebalance'.startTs = now + params.rebalanceDelay
         /\ \A c \in components : refPrice'[c] = price[c]
                                   /\ targetUnits'[c] = target[c]
<1> DEFINE priced == [c \in Mints |-> IF c \in components
                                      THEN price[c] ELSE refPrice[c]]
           nav    == NavE6(vault, priced)
           floor  == MulDivFloor(nav, BPS - p.maxNavLoss, BPS)
<1>1. now \in Nat
  BY IndexAssumption DEF TypeOK
<1>2. /\ refPrice' = priced /\ nav \in U64
      /\ targetUnits' = [c \in Mints |-> IF c \in components
                                         THEN target[c] ELSE targetUnits[c]]
      /\ p.maxNavLoss <= params.maxPremium
      /\ rebalance' =
           [active       |-> TRUE,
            proposedAt   |-> now,
            startTs      |-> now + params.rebalanceDelay,
            endTs        |-> now + params.rebalanceDelay + p.duration,
            startPremium |-> p.startPremium,
            endPremium   |-> p.endPremium,
            maxNavLoss   |-> p.maxNavLoss,
            navFloor     |-> floor]
  BY DEF ProposeRebalance, ValidAuction, AuctionStart
<1>3. priced \in [Mints -> U64] /\ targetUnits' \in [Mints -> U64]
  BY <1>2 DEF TypeOK, Fits
<1>4. /\ p.maxNavLoss \in Nat /\ p.duration \in Nat
      /\ p.startPremium \in Int /\ p.endPremium \in Int
  BY DEF AuctionType
<1>5. params.maxPremium \in 0 .. BPS /\ params.rebalanceDelay \in Nat
      /\ BPS \in Nat \ {0}
  BY IndexAssumption, MathAssumption DEF TypeOK, WithinCaps
<1> HIDE DEF priced, nav, floor
<1>6. BPS - p.maxNavLoss \in Nat /\ nav \in Nat
  BY <1>2, <1>4, <1>5, U64IsNat
<1>7. floor \in Nat
  BY <1>5, <1>6, FloorBounds DEF floor
<1>8. rebalance' \in RebalanceType
  BY <1>1, <1>2, <1>4, <1>5, <1>7 DEF RebalanceType
<1>9. \A c \in components : refPrice'[c] = price[c]
                               /\ targetUnits'[c] = target[c]
  BY <1>2 DEF TypeOK, priced
<1>. QED
  BY <1>2, <1>3, <1>8, <1>9

LEMMA PlanInputs ==
  ASSUME TypeOK, NEW target \in [components -> TargetChoices],
         NEW price \in [components -> PriceChoices], NEW p \in AuctionChoices
  PROVE  Fits(target) /\ Fits(price) /\ p \in AuctionType
BY InputTypes, IndexAssumption DEF Fits

-----------------------------------------------------------------------------
(* Type correctness.                                                       *)

LEMMA TypeInit == Init => TypeOK
<1> SUFFICES ASSUME Init PROVE TypeOK
  OBVIOUS
<1>1. /\ 0 \in U64 /\ HORIZON \in Nat /\ MAX_STREAMING_FEE_BPS \in Nat
      /\ MAX_MINT_REDEEM_FEE_BPS \in Nat /\ MAX_PREMIUM_CEILING_BPS \in Nat
  BY U64IsNat, IndexAssumption
<1>2. params \in WithinCaps /\ rebalance \in RebalanceType
  BY <1>1 DEF Init, NoParams, Closed, WithinCaps, RebalanceType
<1>3. InitialAccounts \subseteq Keys /\ MintChoices \subseteq MintType
  BY IndexAssumption
<1>. QED
  BY <1>1, <1>2, <1>3 DEF Init, TypeOK

LEMMA CappedType ==
  ASSUME NEW p \in ParamType, CheckFees(p)
  PROVE  p \in WithinCaps
BY IndexAssumption DEF ParamType, WithinCaps, CheckFees

\* Setting up, whoever signs and whatever is asked for.
LEMMA TypeSetupBy ==
  ASSUME TypeOK,
         \/ \E who \in [Roles -> Keys], p \in ParamType : InitIndex(who, p)
         \/ \E by : \E c \in Mints, u \in U64 : AddComponent(by, c, u)
         \/ \E by : SealIndex(by)
  PROVE  TypeOK'
<1>1. now \in Nat
  BY IndexAssumption DEF TypeOK
<1>2. ASSUME NEW who \in [Roles -> Keys], NEW p \in ParamType,
             InitIndex(who, p)
      PROVE  TypeOK'
  <2>1. p \in WithinCaps
    BY <1>2, CappedType DEF InitIndex
  <2>. QED
    BY <1>1, <1>2, <2>1 DEF InitIndex, Accrued, TypeOK, ledger
<1>3. ASSUME NEW by, NEW c \in Mints, NEW u \in U64, AddComponent(by, c, u)
      PROVE  TypeOK'
  BY <1>3 DEF AddComponent, TypeOK, ledger
<1>4. ASSUME NEW by, SealIndex(by)
      PROVE  TypeOK'
  BY <1>1, <1>4 DEF SealIndex, Accrued, TypeOK, index, ledger
<1>. QED
  BY <1>2, <1>3, <1>4

LEMMA TypeSetup == TypeOK /\ SetupNext => TypeOK'
<1>1. /\ AuthorityChoices \subseteq [Roles -> Keys]
      /\ ParamChoices \subseteq ParamType /\ SeedUnits \subseteq U64
  BY IndexAssumption, InputTypes
<1>2. SetupNext =>
        \/ \E who \in [Roles -> Keys], p \in ParamType : InitIndex(who, p)
        \/ \E by : \E c \in Mints, u \in U64 : AddComponent(by, c, u)
        \/ \E by : SealIndex(by)
  BY <1>1, Zenon DEF SetupNext
<1>. QED
  BY <1>2, TypeSetupBy

\* Whatever amount the caller asks for, and whatever bounds it sets.
LEMMA TypeIssue ==
  ASSUME TypeOK, NEW open \in SUBSET Keys, accounts \subseteq open, NEW to,
         NEW amount \in Nat, NEW maxIn, IssueInto(open, to, amount, maxIn)
  PROVE  TypeOK'
<1>1. now \in Nat
  BY IndexAssumption DEF TypeOK
<1>2. /\ supply' \in U64 /\ vault' \in [Mints -> U64]
      /\ holding' \in [Keys -> Nat]
      /\ units' \in [Mints -> U64]
  <2>1. /\ supply' \in U64 /\ vault' \in [Mints -> U64]
        /\ holding' \in [Keys -> Nat] /\ QuotedUnits \in [Mints -> U64]
        /\ units' = SyncedUnits(QuotedUnits, vault', supply')
        /\ Fits(units')
    BY IssueEffect
  <2>. QED
    BY <2>1, SyncedBacked, U64IsNat DEF TypeOK
<1>. QED
  BY <1>1, <1>2 DEF IssueInto, Accrued, TypeOK

LEMMA TypeRedeem ==
  ASSUME TypeOK, NEW by, NEW amount \in Nat, NEW minOut,
         Redeem(by, amount, minOut)
  PROVE  TypeOK'
<1>1. now \in Nat
  BY IndexAssumption DEF TypeOK
<1>2. /\ supply' \in U64 /\ vault' \in [Mints -> U64]
      /\ holding' \in [Keys -> Nat]
      /\ units' \in [Mints -> U64]
  <2>1. /\ supply' \in U64 /\ vault' \in [Mints -> U64]
        /\ holding' \in [Keys -> Nat] /\ QuotedUnits \in [Mints -> U64]
        /\ units' = SyncedUnits(QuotedUnits, vault', supply')
        /\ Fits(units')
    BY RedeemEffect
  <2>. QED
    BY <2>1, SyncedBacked, U64IsNat DEF TypeOK
<1>3. /\ lastFeeAccrual' = now /\ feeDue' = 0
      /\ UNCHANGED <<state, authority, params, components, targetUnits,
                     refPrice, rebalance, mint, accounts, frozen, now,
                     planSupply>>
  BY DEF Redeem, Accrued
<1>. QED
  BY <1>1, <1>2, <1>3 DEF TypeOK

LEMMA TypeFund == TypeOK /\ FundNext => TypeOK'
<1> SUFFICES ASSUME TypeOK, FundNext PROVE TypeOK'
  OBVIOUS
<1>1. now \in Nat
  BY IndexAssumption DEF TypeOK
<1>2. ASSUME AccrueFees
      PROVE  TypeOK'
  <2>1. supply' \in U64 /\ holding' \in [Keys -> Nat] /\ units' \in [Mints -> U64]
    BY <1>2, AccrueFeesEffect, SyncedBacked, U64IsNat DEF TypeOK
  <2>. QED
    BY <1>1, <1>2, <2>1 DEF AccrueFees, Accrued, TypeOK
<1>3. ASSUME NEW to, NEW amount \in Amounts, NEW maxIn, Issue(to, amount, maxIn)
      PROVE  TypeOK'
  <2>1. accounts \in SUBSET Keys /\ accounts \subseteq accounts
        /\ amount \in Nat
    BY InputTypes DEF TypeOK
  <2>. QED
    BY <1>3, <2>1, TypeIssue DEF Issue
<1>. QED
  BY <1>2, <1>3, TypeRedeem, InputTypes DEF FundNext

LEMMA TypeBid ==
  ASSUME TypeOK, NEW s, NEW b, NEW sold \in Nat, NEW maxBuy,
         Bid(s, b, sold, maxBuy)
  PROVE  TypeOK'
<1>1. /\ vault' \in [Mints -> U64]
      /\ units' = SyncedUnits(units, vault', supply) /\ Fits(units')
  BY BidEffect
<1>2. units' \in [Mints -> U64]
  BY <1>1, SyncedBacked, U64IsNat DEF TypeOK
<1>. QED
  BY <1>1, <1>2 DEF Bid, TypeOK

LEMMA TypeEnd ==
  ASSUME TypeOK, NEW by, EndRebalance(by)
  PROVE  TypeOK'
<1>1. /\ units' = SyncedUnits(units, vault, supply) /\ Fits(units')
      /\ targetUnits' = [c \in Mints |-> IF c \in components
                                         THEN units'[c] ELSE targetUnits[c]]
  BY DEF EndRebalance
<1>2. units' \in [Mints -> U64]
  BY <1>1, SyncedBacked, U64IsNat DEF TypeOK
<1>3. targetUnits' \in [Mints -> U64]
  BY <1>1, <1>2 DEF TypeOK
<1>4. rebalance' \in RebalanceType
  BY DEF EndRebalance, Closed, RebalanceType, TypeOK
<1>5. planSupply' \in U64
  BY U64IsNat DEF EndRebalance
<1>. QED
  BY <1>2, <1>3, <1>4, <1>5 DEF EndRebalance, TypeOK, ledger

LEMMA TypePropose ==
  ASSUME TypeOK, NEW by, NEW target, Fits(target), NEW price, Fits(price),
         NEW p \in AuctionType, ProposeRebalance(by, target, price, p)
  PROVE  TypeOK'
<1>1. /\ refPrice' \in [Mints -> U64] /\ targetUnits' \in [Mints -> U64]
      /\ rebalance' \in RebalanceType
  BY ProposeEffect
<1>. QED
  BY <1>1 DEF ProposeRebalance, TypeOK, ledger

LEMMA TypeAuction == TypeOK /\ AuctionNext => TypeOK'
<1> SUFFICES ASSUME TypeOK, AuctionNext PROVE TypeOK'
  OBVIOUS
<1>1. ASSUME NEW by \in Signers, NEW target \in [components -> TargetChoices],
             NEW price \in [components -> PriceChoices], NEW p \in AuctionChoices,
             ProposeRebalance(by, target, price, p)
      PROVE  TypeOK'
  BY <1>1, TypePropose, PlanInputs
<1>2. ASSUME NEW s \in Mints, NEW b \in Mints, NEW sold \in SellAmounts,
             NEW maxBuy \in Limits, Bid(s, b, sold, maxBuy)
      PROVE  TypeOK'
  BY <1>2, TypeBid, InputTypes
<1>3. ASSUME NEW by \in Signers, EndRebalance(by)
      PROVE  TypeOK'
  BY <1>3, TypeEnd
<1>. QED
  BY <1>1, <1>2, <1>3 DEF AuctionNext

LEMMA TypeGovernance == TypeOK /\ GovernanceNext => TypeOK'
<1> SUFFICES ASSUME TypeOK, GovernanceNext PROVE TypeOK'
  OBVIOUS
<1>1. ASSUME NEW by \in Signers, NEW p \in ParamChoices, SetParams(by, p)
      PROVE  TypeOK'
  <2>1. params' \in WithinCaps
    BY <1>1, CappedType, IndexAssumption DEF SetParams
  <2>2. lastFeeAccrual' \in 0 .. now
    BY <1>1, IndexAssumption DEF SetParams, ClockSettled, TypeOK
  <2>. QED
    BY <1>1, <2>1, <2>2 DEF SetParams, TypeOK, ledger
<1>2. ASSUME NEW by \in Signers, NEW role \in Roles, NEW new \in NewAuthorities,
             SetAuthority(by, role, new)
      PROVE  TypeOK'
  <2>1. authority' \in [Roles -> Keys \cup {None}]
    BY <1>2, IndexAssumption DEF SetAuthority, TypeOK
  <2>. QED
    BY <1>2, <2>1 DEF SetAuthority, TypeOK, ledger
<1>3. ASSUME NEW by \in Signers, NEW paused \in BOOLEAN, SetPaused(by, paused)
      PROVE  TypeOK'
  BY <1>3 DEF SetPaused, TypeOK, index, ledger
<1>. QED
  BY <1>1, <1>2, <1>3 DEF GovernanceNext

LEMMA TypeToken == TypeOK /\ TokenNext => TypeOK'
<1> SUFFICES ASSUME TypeOK, TokenNext PROVE TypeOK'
  OBVIOUS
<1> USE DEF index
<1>1. Holders \subseteq Keys /\ Amounts \subseteq Nat /\ Donations \subseteq Nat
  BY IndexAssumption, InputTypes
<1>2. ASSUME NEW k \in Holders, NEW amount \in Amounts, FounderMints(k, amount)
      PROVE  TypeOK'
  <2>1. holding' \in [Keys -> Nat]
    BY <1>1, <1>2, CreditType DEF FounderMints, TypeOK
  <2>. QED
    BY <1>2, <2>1 DEF FounderMints, TypeOK
<1>3. CASE HandOverMint
  BY <1>3 DEF HandOverMint, TypeOK, MintType
<1>4. CASE RevokeFreezer
  BY <1>4 DEF RevokeFreezer, TypeOK, MintType
<1>5. ASSUME NEW k \in Holders, Freeze(k)
      PROVE  TypeOK'
  BY <1>5 DEF Freeze, CanReceive, CanReceiveIn, TypeOK
<1>6. ASSUME NEW k \in Holders, OpenAccount(k)
      PROVE  TypeOK'
  BY <1>1, <1>6 DEF OpenAccount, TypeOK
<1>7. ASSUME NEW k \in Holders, CloseAccount(k)
      PROVE  TypeOK'
  BY <1>7 DEF CloseAccount, TypeOK
<1>8. ASSUME NEW from \in Holders, NEW to \in Keys, NEW amount \in Amounts,
             Transfer(from, to, amount)
      PROVE  TypeOK'
  <2>1. [holding EXCEPT ![from] = @ - amount] \in [Keys -> Nat]
    BY <1>1, <1>8 DEF Transfer, TypeOK
  <2>2. holding' \in [Keys -> Nat]
    BY <1>1, <1>8, <2>1, CreditType DEF Transfer
  <2>. QED
    BY <1>8, <2>2 DEF Transfer, TypeOK
<1>9. ASSUME NEW k \in Holders, NEW amount \in Amounts, Burn(k, amount)
      PROVE  TypeOK'
  <2>1. holding' \in [Keys -> Nat]
    BY <1>1, <1>9 DEF Burn, TypeOK
  <2>2. supply' \in U64
    BY <1>1, <1>9, MathAssumption DEF Burn, TypeOK, U64
  <2>. QED
    BY <1>9, <2>1, <2>2 DEF Burn, TypeOK
<1>10. ASSUME NEW c \in Mints, NEW amount \in Donations, Donate(c, amount)
       PROVE  TypeOK'
  BY <1>10 DEF Donate, TypeOK
<1>. QED
  BY <1>2, <1>3, <1>4, <1>5, <1>6, <1>7, <1>8, <1>9, <1>10 DEF TokenNext

LEMMA TypeTick == TypeOK /\ Tick => TypeOK'
<1> SUFFICES ASSUME TypeOK, Tick PROVE TypeOK'
  OBVIOUS
<1>1. feeDue' \in Nat
  BY IndexAssumption DEF Tick, TypeOK, WithinCaps
<1>2. now' \in 0 .. HORIZON /\ lastFeeAccrual \in 0 .. now'
  BY IndexAssumption DEF Tick, TypeOK
<1>. QED
  BY <1>1, <1>2 DEF Tick, TypeOK, index, ledger

LEMMA TypeStep == TypeOK /\ [Next]_vars => TypeOK'
<1>1. TypeOK /\ UNCHANGED vars => TypeOK'
  BY DEF TypeOK, vars, index, ledger
<1>. QED
  BY <1>1, TypeSetup, TypeFund, TypeAuction, TypeGovernance, TypeToken,
     TypeTick DEF Next

\* Every reachable state is well typed: all fee parameters are inside the
\* hard caps of state.rs and every balance and unit is a u64.
THEOREM TypeCorrect == Spec => []TypeOK
BY TypeInit, TypeStep, PTL DEF Spec

-----------------------------------------------------------------------------
(* The life cycle.                                                         *)

\* What a command on the program keeps, whoever signs it and whatever it asks.
LEMMA LifecycleSetup ==
  ASSUME Lifecycle,
         \/ \E who, p : InitIndex(who, p)
         \/ \E by, c, u : AddComponent(by, c, u)
         \/ \E by : SealIndex(by)
  PROVE  Lifecycle'
<1> USE DEF index, ledger
<1>1. ASSUME NEW who, NEW p, InitIndex(who, p)
      PROVE  Lifecycle'
  BY <1>1 DEF InitIndex, MintControlled, CheckFees, Lifecycle, Sealed
<1>2. ASSUME NEW by, NEW c, NEW u, AddComponent(by, c, u)
      PROVE  Lifecycle'
  BY <1>2 DEF AddComponent, Lifecycle, Sealed
<1>3. ASSUME NEW by, SealIndex(by)
      PROVE  Lifecycle'
  BY <1>3 DEF SealIndex, Lifecycle, Sealed
<1>. QED
  BY <1>1, <1>2, <1>3

LEMMA LifecycleFund ==
  ASSUME Lifecycle,
         \/ \E open, to, amount, maxIn : IssueInto(open, to, amount, maxIn)
         \/ \E by, amount, minOut : Redeem(by, amount, minOut)
         \/ AccrueFees
  PROVE  Lifecycle'
<1>1. ASSUME NEW open, NEW to, NEW amount, NEW maxIn,
             IssueInto(open, to, amount, maxIn)
      PROVE  Lifecycle'
  BY <1>1 DEF IssueInto, Lifecycle, Sealed
<1>2. ASSUME NEW by, NEW amount, NEW minOut, Redeem(by, amount, minOut)
      PROVE  Lifecycle'
  BY <1>2 DEF Redeem, RedeemAccepted, Lifecycle, Sealed
<1>3. CASE AccrueFees
  BY <1>3 DEF AccrueFees, Lifecycle, Sealed
<1>. QED
  BY <1>1, <1>2, <1>3

LEMMA LifecycleTrade ==
  ASSUME Lifecycle,
         \/ \E s, b, sold, maxBuy : Bid(s, b, sold, maxBuy)
         \/ \E by : EndRebalance(by)
  PROVE  Lifecycle'
<1>1. ASSUME NEW s, NEW b, NEW sold, NEW maxBuy, Bid(s, b, sold, maxBuy)
      PROVE  Lifecycle'
  BY <1>1 DEF Bid, Lifecycle, Sealed
<1>2. ASSUME NEW by, EndRebalance(by)
      PROVE  Lifecycle'
  BY <1>2 DEF EndRebalance, Closed, ledger, Lifecycle, Sealed
<1>. QED
  BY <1>1, <1>2

LEMMA LifecyclePropose ==
  ASSUME TypeOK, Lifecycle, NEW by, NEW target, Fits(target),
         NEW price, Fits(price), NEW p \in AuctionType,
         ProposeRebalance(by, target, price, p)
  PROVE  Lifecycle'
<1> USE DEF ledger
<1>1. rebalance'.startTs = now + params.rebalanceDelay /\ rebalance'.proposedAt = now
  BY ProposeEffect
<1>2. params.rebalanceDelay >= MIN_REBALANCE_DELAY
  BY DEF ProposeRebalance, Lifecycle
<1>3. {now, params.rebalanceDelay, MIN_REBALANCE_DELAY} \subseteq Int
  BY IndexAssumption DEF TypeOK, WithinCaps
<1>4. rebalance'.startTs >= rebalance'.proposedAt + MIN_REBALANCE_DELAY
  BY <1>1, <1>2, <1>3
<1>5. ASSUME NEW c \in components
      PROVE  refPrice'[c] # 0
  <2>1. refPrice'[c] = price[c]
    BY ProposeEffect
  <2>. QED
    BY <2>1 DEF ProposeRebalance
<1>6. /\ UNCHANGED <<state, authority, params, components, mint, supply>>
      /\ state = "live"
  BY DEF ProposeRebalance
<1>7. /\ rebalance'.startTs < rebalance'.endTs
      /\ rebalance'.startPremium <= rebalance'.endPremium
      /\ rebalance'.endPremium <= MAX_PREMIUM_CEILING_BPS
  <2>1. /\ p.duration \in Nat /\ p.startPremium \in Int
        /\ p.endPremium \in Int
    BY DEF AuctionType
  <2>2. params.maxPremium \in 0 .. MAX_PREMIUM_CEILING_BPS
    BY DEF TypeOK, WithinCaps
  <2>3. now + params.rebalanceDelay \in Int
    BY <1>3
  <2>4. /\ p.duration # 0 /\ p.startPremium <= p.endPremium
        /\ p.endPremium <= params.maxPremium
        /\ rebalance'.startTs = now + params.rebalanceDelay
        /\ rebalance'.endTs = now + params.rebalanceDelay + p.duration
        /\ rebalance'.startPremium = p.startPremium
        /\ rebalance'.endPremium = p.endPremium
    BY DEF ProposeRebalance, ValidAuction, AuctionStart
  <2>. QED
    BY <2>1, <2>2, <2>3, <2>4, IndexAssumption
<1>. QED
  BY <1>4, <1>5, <1>6, <1>7 DEF Lifecycle, Sealed

LEMMA LifecycleStep == TypeOK /\ Lifecycle /\ [Next]_vars => Lifecycle'
<1> SUFFICES ASSUME TypeOK, Lifecycle, [Next]_vars PROVE Lifecycle'
  OBVIOUS
<1> USE DEF index, ledger
<1>1. SetupNext => Lifecycle'
  BY LifecycleSetup DEF SetupNext
<1>2. FundNext => Lifecycle'
  BY LifecycleFund DEF FundNext, Issue
<1>3. AuctionNext => Lifecycle'
  <2>1. ASSUME NEW by \in Signers, NEW target \in [components -> TargetChoices],
               NEW price \in [components -> PriceChoices],
               NEW p \in AuctionChoices, ProposeRebalance(by, target, price, p)
        PROVE  Lifecycle'
    BY <2>1, LifecyclePropose, PlanInputs
  <2>. QED
    BY <2>1, LifecycleTrade DEF AuctionNext
<1>4. ASSUME NEW by \in Signers, NEW p \in ParamChoices, SetParams(by, p)
       PROVE  Lifecycle'
  BY <1>4 DEF SetParams, CheckFees, Lifecycle, Sealed
<1>5. ASSUME NEW by \in Signers, NEW role, NEW new, SetAuthority(by, role, new)
       PROVE  Lifecycle'
  <2>1. state # "absent"
    BY <1>5, IndexAssumption DEF SetAuthority, Lifecycle
  <2>. QED
    BY <1>5, <2>1 DEF SetAuthority, Lifecycle, Sealed
<1>6. ASSUME NEW by \in Signers, NEW paused \in BOOLEAN, SetPaused(by, paused)
       PROVE  Lifecycle'
  BY <1>6 DEF SetPaused, Lifecycle, Sealed
<1>7. ASSUME NEW k \in Holders, NEW amount \in Amounts, FounderMints(k, amount)
       PROVE  Lifecycle'
  BY <1>7 DEF FounderMints, Lifecycle, Sealed
<1>8. CASE HandOverMint
  BY <1>8 DEF HandOverMint, Lifecycle, Sealed
<1>9. CASE RevokeFreezer
  <2>1. mint'.authority = mint.authority
    BY <1>9 DEF RevokeFreezer, TypeOK, MintType
  <2>. QED
    BY <1>9, <2>1 DEF RevokeFreezer, Lifecycle, Sealed
<1>10. ASSUME NEW k \in Holders, Freeze(k) \/ OpenAccount(k) \/ CloseAccount(k)
       PROVE  Lifecycle'
  BY <1>10 DEF Freeze, OpenAccount, CloseAccount, Lifecycle, Sealed
<1>11. ASSUME NEW from \in Holders, NEW to \in Keys, NEW amount \in Amounts,
              Transfer(from, to, amount)
       PROVE  Lifecycle'
  BY <1>11 DEF Transfer, Lifecycle, Sealed
<1>12. ASSUME NEW k \in Holders, NEW amount \in Amounts, Burn(k, amount)
       PROVE  Lifecycle'
  <2>1. supply = 0 => supply' = 0
    BY <1>12, InputTypes DEF Burn
  <2>. QED
    BY <1>12, <2>1 DEF Burn, Lifecycle, Sealed
<1>13. ASSUME NEW c \in Mints, NEW amount \in Donations, Donate(c, amount)
       PROVE  Lifecycle'
  BY <1>13 DEF Donate, Lifecycle, Sealed
<1>14. CASE Tick
  BY <1>14 DEF Tick, Lifecycle, Sealed
<1>15. CASE UNCHANGED vars
  BY <1>15 DEF vars, Lifecycle, Sealed
<1>. QED
  BY <1>1, <1>2, <1>3, <1>4, <1>5, <1>6, <1>7, <1>8, <1>9, <1>10, <1>11,
     <1>12, <1>13, <1>14, <1>15
  DEF Next, GovernanceNext, TokenNext
===============================================================================
