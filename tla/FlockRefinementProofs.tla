------------------------ MODULE FlockRefinementProofs ------------------------
(***************************************************************************)
(* The index program implements FundPromise, for every value of the        *)
(* constants: initial states map to initial states, and every step maps to *)
(* a step of the promise or to a stutter.                                  *)
(*                                                                         *)
(* Beside Safe the argument needs that nothing lies in a vault of a mint   *)
(* outside the table (Bare): shares printed before the index exists would  *)
(* otherwise dilute it.                                                    *)
(***************************************************************************)
EXTENDS FlockSafetyProofs, FlockRefinement

Bare == \A c \in Mints \ components : vault[c] = 0

-----------------------------------------------------------------------------
(* Nothing outside the table.                                              *)

LEMMA BareStep == TypeOK /\ Bare /\ [Next]_vars => Bare'
<1> SUFFICES ASSUME TypeOK, Bare, [Next]_vars
             PROVE  Bare'
  OBVIOUS
<1> USE DEF index, ledger
<1>1. ASSUME UNCHANGED vault, components \subseteq components'
      PROVE  Bare'
  BY <1>1 DEF Bare
<1>2. ASSUME UNCHANGED components,
             \A c \in Mints \ components : vault'[c] = vault[c]
      PROVE  Bare'
  BY <1>2 DEF Bare
<1>3. CASE SetupNext
  BY <1>1, <1>3 DEF SetupNext, InitIndex, AddComponent, SealIndex
<1>4. CASE FundNext
  <2>1. ASSUME NEW to, NEW amount, NEW maxIn, Issue(to, amount, maxIn)
        PROVE  Bare'
    BY <1>2, <2>1 DEF Issue, IssueInto
  <2>2. ASSUME NEW by, NEW amount, NEW minOut, Redeem(by, amount, minOut)
        PROVE  Bare'
    BY <1>2, <2>2 DEF Redeem, VaultAfterRedeem
  <2>. QED
    BY <1>1, <1>4, <2>1, <2>2 DEF FundNext, AccrueFees
<1>5. CASE AuctionNext
  <2>1. ASSUME NEW by, NEW target, NEW price, NEW p,
               ProposeRebalance(by, target, price, p)
        PROVE  Bare'
    BY <1>1, <2>1 DEF ProposeRebalance
  <2>2. ASSUME NEW s, NEW b, NEW sold \in SellAmounts, NEW maxBuy,
               Bid(s, b, sold, maxBuy)
        PROVE  Bare'
    <3>1. sold \in Nat
      BY InputTypes
    <3>2. /\ s \in components /\ b \in components
          /\ vault' = [vault EXCEPT ![s] = @ - sold,
                                    ![b] = @ + BuyAmount(s, b, sold)]
      BY <2>2, <3>1, BidEffect
    <3>3. UNCHANGED components /\ vault \in [Mints -> U64]
      BY <2>2 DEF Bid, TypeOK
    <3>. QED
      BY <1>2, <3>2, <3>3
  <2>3. ASSUME NEW by, EndRebalance(by)
        PROVE  Bare'
    BY <1>1, <2>3 DEF EndRebalance
  <2>. QED
    BY <1>5, <2>1, <2>2, <2>3 DEF AuctionNext
<1>6. CASE GovernanceNext
  BY <1>1, <1>6 DEF GovernanceNext, SetParams, SetAuthority, SetPaused
<1>7. CASE TokenNext
  <2>1. ASSUME NEW c, NEW amount, Donate(c, amount)
        PROVE  Bare'
    <3>1. /\ c \in components /\ UNCHANGED components
          /\ vault' = [vault EXCEPT ![c] = @ + amount]
          /\ vault \in [Mints -> U64]
      BY <2>1 DEF Donate, TypeOK
    <3>. QED
      BY <1>2, <3>1
  <2>. QED
    BY <1>1, <1>7, <2>1
    DEF TokenNext, FounderMints, HandOverMint, RevokeFreezer, Freeze,
        OpenAccount, CloseAccount, Transfer, Burn
<1>8. CASE Tick \/ UNCHANGED vars
  BY <1>1, <1>8 DEF Tick, vars
<1>. QED
  BY <1>3, <1>4, <1>5, <1>6, <1>7, <1>8 DEF Next

\* Nothing lies in a vault of a mint outside the component table.
THEOREM AlwaysBare == Spec => []Bare
<1>1. Init => Bare
  BY DEF Init, Bare
<1>2. Safe => TypeOK
  BY DEF Safe
<1>. QED
  BY <1>1, <1>2, BareStep, SafeAlways, PTL DEF Spec

-----------------------------------------------------------------------------
(* Steps of the promise, in the program's terms.                           *)

\* The most a step may add to the supply for the fee.
Charge ==
  IF lastFeeAccrual' = lastFeeAccrual THEN 0
  ELSE StreamingFeeTokens(supply, MAX_STREAMING_FEE_BPS, FeePeriod)

WorthKept ==
  supply # 0 /\ supply' # 0
    /\ StreamingFeeDefined(supply, MAX_STREAMING_FEE_BPS, FeePeriod)
  => \A c \in Mints :
       Derived(vault', supply', c) >= Derived(vault, supply + Charge, c)

LEMMA FlowStep ==
  ASSUME UNCHANGED <<now, rebalance, refPrice>>,
         lastFeeAccrual' \in {lastFeeAccrual, now}, WorthKept
  PROVE  Promise!Flow
<1>1. PublishedPlan' = PublishedPlan
  BY DEF PublishedPlan
<1>2. Promise!FeeCap = Charge
  BY DEF Promise!FeeCap, Charge, FeePeriod, Promise!StreamingFeeTokens,
         StreamingFeeTokens, Promise!NoStreamingFee, NoStreamingFee,
         Promise!MulDivFloor, MulDivFloor
<1>3. Promise!FeeCapped
        = StreamingFeeDefined(supply, MAX_STREAMING_FEE_BPS, FeePeriod)
  BY DEF Promise!FeeCapped, FeePeriod, Promise!StreamingFeeDefined,
         StreamingFeeDefined, Promise!NoStreamingFee, NoStreamingFee
<1>4. \A v, n : Promise!UnitsFromBalance(v, n) = UnitsFromBalance(v, n)
  BY DEF Promise!UnitsFromBalance, UnitsFromBalance, Promise!MulDivFloor,
         MulDivFloor
<1>. QED
  BY <1>1, <1>2, <1>3, <1>4 DEF Promise!Flow, WorthKept, Derived

\* Fuller vaults and fewer shares are worth no less.
LEMMA UnitsMonotone ==
  ASSUME NEW v \in Nat, NEW w \in Nat, v <= w,
         NEW s \in Nat \ {0}, NEW t \in Nat \ {0}, t <= s
  PROVE  UnitsFromBalance(w, t) >= UnitsFromBalance(v, s)
<1> DEFINE u == UnitsFromBalance(v, t)
<1>1. UNIT_SCALE \in Nat /\ u \in Nat /\ t * u <= v * UNIT_SCALE
  BY MathAssumption, FloorBounds DEF UnitsFromBalance
<1>2. u >= UnitsFromBalance(v, s) /\ UnitsFromBalance(v, s) \in Nat
  BY LessSupplyKeepsUnits, UnitsNeverOverstate
<1> HIDE DEF u
<1>3. v * UNIT_SCALE <= w * UNIT_SCALE
  BY <1>1, SMT
<1>4. {t * u, v * UNIT_SCALE, w * UNIT_SCALE} \subseteq Nat
  BY <1>1, ProductIsNat
<1>5. t * u <= w * UNIT_SCALE
  BY <1>1, <1>3, <1>4
<1>6. u <= MulDivFloor(w, UNIT_SCALE, t) /\ MulDivFloor(w, UNIT_SCALE, t) \in Nat
  BY <1>1, <1>5, FloorGreatest, FloorBounds
<1>. QED
  BY <1>1, <1>2, <1>6 DEF UnitsFromBalance

\* The charge covers what settling at a rate inside the cap adds.
LEMMA ChargeType ==
  ASSUME TypeOK,
         StreamingFeeDefined(supply, MAX_STREAMING_FEE_BPS, FeePeriod)
  PROVE  /\ supply \in Nat /\ Charge \in Nat
         /\ StreamingFeeDefined(supply, params.streamingFee, FeePeriod)
         /\ Owed \in Nat
         /\ lastFeeAccrual' = now => Owed <= Charge
<1>1. /\ supply \in Nat /\ FeePeriod \in Nat /\ MAX_STREAMING_FEE_BPS \in Nat
      /\ params.streamingFee \in Nat
      /\ params.streamingFee <= MAX_STREAMING_FEE_BPS
  BY U64IsNat, IndexAssumption DEF TypeOK, FeePeriod, WithinCaps
<1>2. FeePeriod \in Int /\ FeePeriod <= FeePeriod
  BY <1>1
<1> DEFINE most == StreamingFeeTokens(supply, MAX_STREAMING_FEE_BPS, FeePeriod)
<1>3. /\ StreamingFeeDefined(supply, params.streamingFee, FeePeriod)
      /\ Owed \in Nat /\ most \in Nat /\ Owed <= most
  BY <1>1, <1>2, FeeMonotone DEF Owed
<1>4. CASE lastFeeAccrual' = lastFeeAccrual
  <2>1. Charge = 0
    BY <1>4 DEF Charge
  <2>2. lastFeeAccrual' = now => FeePeriod = 0
    BY <1>4, IndexAssumption DEF FeePeriod, TypeOK
  <2>3. FeePeriod = 0 => Owed = 0
    BY DEF Owed, StreamingFeeTokens, NoStreamingFee
  <2>. QED
    BY <1>1, <1>3, <2>1, <2>2, <2>3
<1>5. CASE lastFeeAccrual' # lastFeeAccrual
  <2>1. Charge = most
    BY <1>5 DEF Charge
  <2>. QED
    BY <1>1, <1>3, <2>1
<1>. QED
  BY <1>4, <1>5

\* Gifts and burnt shares, and steps that touch neither.
LEMMA GiftKeepsWorth ==
  ASSUME TypeOK, TypeOK', supply' <= supply,
         \A c \in Mints : vault'[c] >= vault[c]
  PROVE  WorthKept
<1> SUFFICES ASSUME supply # 0, supply' # 0,
                    StreamingFeeDefined(supply, MAX_STREAMING_FEE_BPS, FeePeriod),
                    NEW c \in Mints
             PROVE  Derived(vault', supply', c) >= Derived(vault, supply + Charge, c)
  BY DEF WorthKept
<1>1. vault[c] \in Nat /\ vault'[c] \in Nat /\ vault'[c] >= vault[c]
  BY U64IsNat DEF TypeOK
<1>2. /\ supply \in Nat \ {0} /\ supply' \in Nat \ {0}
      /\ supply + Charge \in Nat \ {0} /\ supply' <= supply + Charge
  <2>1. supply \in Nat /\ Charge \in Nat
    BY ChargeType
  <2>2. supply' \in Nat
    BY U64IsNat DEF TypeOK
  <2>. QED
    BY <2>1, <2>2
<1>. QED
  BY <1>1, <1>2, UnitsMonotone DEF Derived

\* A mint with nothing in its vault has nothing to lose.
LEMMA NothingToLose ==
  ASSUME TypeOK, TypeOK', NEW c \in Mints, vault[c] = 0,
         NEW s \in Nat \ {0}, supply' # 0
  PROVE  Derived(vault', supply', c) >= Derived(vault, s, c)
<1>1. vault'[c] \in Nat /\ supply' \in Nat \ {0}
  BY U64IsNat DEF TypeOK
<1>2. Derived(vault, s, c) = 0
  <2> DEFINE u == UnitsFromBalance(0, s)
  <2>1. u \in Nat /\ u * s <= 0 * UNIT_SCALE
    BY UnitsNeverOverstate
  <2> HIDE DEF u
  <2>2. u * s <= 0
    BY <2>1, MathAssumption
  <2>3. u = 0
    BY <2>1, <2>2, SMT
  <2>. QED
    BY <2>3 DEF Derived, u
<1>3. Derived(vault', supply', c) \in Nat
  BY <1>1, UnitsNeverOverstate DEF Derived
<1>. QED
  BY <1>2, <1>3

\* Issues, redemptions and accruals.
LEMMA FundKeepsWorth ==
  ASSUME Safe, TypeOK', Bare, FundNext
  PROVE  WorthKept
<1> SUFFICES ASSUME supply # 0, supply' # 0,
                    StreamingFeeDefined(supply, MAX_STREAMING_FEE_BPS, FeePeriod),
                    NEW c \in Mints
             PROVE  Derived(vault', supply', c) >= Derived(vault, supply + Charge, c)
  BY DEF WorthKept
<1>1. TypeOK
  BY DEF Safe
<1>2. lastFeeAccrual' = now
  BY DEF FundNext, Issue, IssueInto, Redeem, AccrueFees, Accrued
<1>3. /\ supply \in Nat \ {0} /\ Charge \in Nat /\ Owed \in Nat /\ Owed <= Charge
      /\ StreamingFeeDefined(supply, params.streamingFee, FeePeriod)
  BY <1>1, <1>2, ChargeType
<1>4. /\ SupplyAfterFee \in Nat \ {0} /\ supply + Charge \in Nat \ {0}
      /\ SupplyAfterFee <= supply + Charge
  BY <1>3 DEF SupplyAfterFee
<1>5. CASE c \in components
  <2>1. Derived(vault', supply', c) >= Derived(vault, SupplyAfterFee, c)
    BY <1>3, <1>5, FundKeepsValue
  <2>2. vault[c] \in Nat /\ vault'[c] \in Nat /\ supply' \in Nat \ {0}
    BY <1>1, U64IsNat DEF TypeOK
  <2>3. Derived(vault, SupplyAfterFee, c) >= Derived(vault, supply + Charge, c)
    BY <1>4, <2>2, LessSupplyKeepsUnits DEF Derived
  <2>4. {Derived(vault', supply', c), Derived(vault, SupplyAfterFee, c),
         Derived(vault, supply + Charge, c)} \subseteq Nat
    BY <1>4, <2>2, UnitsNeverOverstate DEF Derived
  <2>. QED
    BY <2>1, <2>3, <2>4
<1>6. CASE c \notin components
  BY <1>1, <1>4, <1>6, NothingToLose DEF Bare
<1>. QED
  BY <1>5, <1>6

-----------------------------------------------------------------------------
(* Every handler is a step of the promise.                                 *)

LEMMA PublishStep ==
  ASSUME TypeOK, NEW by, NEW target \in [components -> TargetChoices],
         NEW price \in [components -> PriceChoices], NEW p \in AuctionChoices,
         Lifecycle, ProposeRebalance(by, target, price, p)
  PROVE  Promise!Publish
<1>1. /\ ~rebalance.active /\ rebalance'.active
      /\ rebalance'.startTs = now + params.rebalanceDelay
  BY PlanInputs, ProposeEffect DEF ProposeRebalance
<1>2. /\ rebalance'.endTs = rebalance'.startTs + p.duration
      /\ p.duration <= MAX_AUCTION_DURATION
      /\ UNCHANGED <<now, vault, supply, lastFeeAccrual>>
  BY DEF ProposeRebalance, AuctionStart, ValidAuction, ledger
<1>3. params.rebalanceDelay >= MIN_REBALANCE_DELAY
  BY DEF Lifecycle, ProposeRebalance
<1>4. {now, params.rebalanceDelay, MIN_REBALANCE_DELAY, MAX_AUCTION_DURATION,
       p.duration} \subseteq Nat
  BY IndexAssumption DEF TypeOK, WithinCaps, AuctionType
<1>5. /\ rebalance'.startTs >= now + MIN_REBALANCE_DELAY
      /\ rebalance'.endTs <= rebalance'.startTs + MAX_AUCTION_DURATION
  BY <1>1, <1>2, <1>3, <1>4
<1>6. /\ ~PublishedPlan.published /\ PublishedPlan'.published
      /\ PublishedPlan'.opens = rebalance'.startTs
      /\ PublishedPlan'.closes = rebalance'.endTs
  BY <1>1 DEF PublishedPlan
<1>. QED
  BY <1>2, <1>5, <1>6 DEF Promise!Publish

LEMMA TradeStep ==
  ASSUME Safe, NEW s \in Mints, NEW b \in Mints, NEW sold \in SellAmounts,
         NEW maxBuy, Bid(s, b, sold, maxBuy)
  PROVE  Promise!Trade(s, b)
<1>1. /\ s # b /\ vault' = [vault EXCEPT ![s] = vault'[s], ![b] = vault'[b]]
      /\ vault'[s] <= vault[s] /\ vault'[b] >= vault[b] /\ PaidFor(s, b)
  BY BidIsPaidFor
<1>2. /\ rebalance.active /\ rebalance.startTs <= now /\ now <= rebalance.endTs
      /\ UNCHANGED <<now, supply, lastFeeAccrual, rebalance, refPrice>>
  BY DEF Bid, PremiumDefined
<1>3. /\ PublishedPlan.published /\ PublishedPlan' = PublishedPlan
      /\ PublishedPlan.opens = rebalance.startTs
      /\ PublishedPlan.closes = rebalance.endTs
      /\ PublishedPlan.prices = refPrice
  BY <1>2 DEF PublishedPlan
<1> DEFINE paid  == ValueE9(vault'[b] - vault[b], DECIMALS_SCALE[b], refPrice[b])
           taken == ValueE9(vault[s] - vault'[s], DECIMALS_SCALE[s], refPrice[s])
           low   == BPS - MAX_PREMIUM_CEILING_BPS
           high  == BPS - params.maxPremium
<1>4. paid * BPS >= taken * high
  BY <1>1 DEF PaidFor
<1>5. TypeOK /\ vault' \in [Mints -> U64]
  <2>1. TypeOK /\ sold \in Nat
    BY InputTypes DEF Safe
  <2>. QED
    BY <2>1, BidEffect
<1>6. paid \in Nat /\ taken \in Nat
  <2>1. vault[s] - vault'[s] \in Nat /\ vault'[b] - vault[b] \in Nat
    <3>1. /\ vault[s] \in Nat /\ vault'[s] \in Nat
          /\ vault[b] \in Nat /\ vault'[b] \in Nat
      BY <1>5, U64IsNat DEF TypeOK
    <3>2. vault'[s] <= vault[s] /\ vault'[b] >= vault[b]
      BY <1>1
    <3>. QED
      BY <3>1, <3>2
  <2>2. /\ refPrice[s] \in Nat /\ refPrice[b] \in Nat
        /\ DECIMALS_SCALE[s] \in Nat \ {0} /\ DECIMALS_SCALE[b] \in Nat \ {0}
    BY <1>5, U64IsNat, IndexAssumption DEF TypeOK
  <2>. QED
    BY <2>1, <2>2, FloorBounds DEF ValueE9
<1>7. low \in Nat /\ high \in Nat /\ low <= high /\ BPS \in Nat
  BY <1>5, IndexAssumption, MathAssumption DEF TypeOK, WithinCaps
<1>8. paid * BPS >= taken * low
  <2> HIDE DEF paid, taken, low, high
  <2>1. taken * low <= taken * high
    BY <1>6, <1>7, SMT
  <2>2. {paid * BPS, taken * low, taken * high} \subseteq Nat
    BY <1>6, <1>7, ProductIsNat
  <2>. QED
    BY <1>4, <2>1, <2>2
<1>9. \A x, y, z : Promise!ValueE9(x, y, z) = ValueE9(x, y, z)
  BY DEF Promise!ValueE9, ValueE9, Promise!MulDivFloor, MulDivFloor
<1>. QED
  BY <1>1, <1>2, <1>3, <1>8, <1>9 DEF Promise!Trade

LEMMA CloseStep ==
  ASSUME NEW by, EndRebalance(by)
  PROVE  Promise!Close
<1>1. /\ rebalance.active /\ ~rebalance'.active
      /\ UNCHANGED <<now, vault, supply, lastFeeAccrual>>
  BY DEF EndRebalance, Closed, ledger
<1>2. PublishedPlan.published /\ PublishedPlan' = Promise!NoPlan
  BY <1>1 DEF PublishedPlan, Promise!NoPlan
<1>. QED
  BY <1>1, <1>2 DEF Promise!Close

LEMMA PromiseStep ==
  ASSUME Safe, TypeOK', Bare, [Next]_vars
  PROVE  Promise!Next \/ UNCHANGED Promise!fund
<1> USE DEF index, ledger
<1>1. TypeOK /\ Lifecycle
  BY DEF Safe
<1>2. ASSUME UNCHANGED <<now, vault, supply, lastFeeAccrual, rebalance, refPrice>>
      PROVE  UNCHANGED Promise!fund
  BY <1>2 DEF Promise!fund, PublishedPlan
<1>3. ASSUME UNCHANGED <<now, rebalance, refPrice>>,
             lastFeeAccrual' \in {lastFeeAccrual, now}, supply' <= supply,
             \A c \in Mints : vault'[c] >= vault[c]
      PROVE  Promise!Next
  BY <1>1, <1>3, GiftKeepsWorth, FlowStep DEF Promise!Next
<1>4. supply <= supply /\ \A c \in Mints : vault[c] >= vault[c]
  <2>1. supply \in Nat /\ \A c \in Mints : vault[c] \in Nat
    BY <1>1, U64IsNat DEF TypeOK
  <2>. QED
    BY <2>1
<1>5. ASSUME UNCHANGED <<now, rebalance, refPrice, supply, vault>>,
             lastFeeAccrual' \in {lastFeeAccrual, now}
      PROVE  Promise!Next
  BY <1>3, <1>4, <1>5
<1>6. CASE SetupNext
  BY <1>2, <1>5, <1>6
  DEF SetupNext, InitIndex, AddComponent, SealIndex, Accrued
<1>7. CASE FundNext
  <2>1. UNCHANGED <<now, rebalance, refPrice>> /\ lastFeeAccrual' = now
    BY <1>7 DEF FundNext, Issue, IssueInto, Redeem, AccrueFees, Accrued
  <2>. QED
    BY <1>7, <2>1, FundKeepsWorth, FlowStep DEF Promise!Next
<1>8. CASE AuctionNext
  <2>1. ASSUME NEW by \in Signers, NEW target \in [components -> TargetChoices],
               NEW price \in [components -> PriceChoices],
               NEW p \in AuctionChoices, ProposeRebalance(by, target, price, p)
        PROVE  Promise!Publish
    BY <1>1, <2>1, PublishStep
  <2>2. ASSUME NEW s \in Mints, NEW b \in Mints, NEW sold \in SellAmounts,
               NEW maxBuy \in Limits, Bid(s, b, sold, maxBuy)
        PROVE  Promise!Trade(s, b)
    BY <2>2, TradeStep
  <2>3. ASSUME NEW by \in Signers, EndRebalance(by)
        PROVE  Promise!Close
    BY <2>3, CloseStep
  <2>. QED
    BY <1>8, <2>1, <2>2, <2>3 DEF AuctionNext, Promise!Next
<1>9. CASE GovernanceNext
  BY <1>2, <1>5, <1>9
  DEF GovernanceNext, SetParams, ClockSettled, SetAuthority, SetPaused
<1>10. CASE TokenNext
  <2>1. ASSUME NEW k \in Holders, NEW amount \in Amounts, FounderMints(k, amount)
        PROVE  Promise!Next
    <3>1. components = {}
      BY <1>1, <2>1 DEF FounderMints, Lifecycle
    <3>2. UNCHANGED <<now, rebalance, refPrice, lastFeeAccrual>>
      BY <2>1 DEF FounderMints
    <3>3. WorthKept
      <4> SUFFICES ASSUME supply # 0, supply' # 0,
                          StreamingFeeDefined(supply, MAX_STREAMING_FEE_BPS,
                                              FeePeriod),
                          NEW c \in Mints
                   PROVE  Derived(vault', supply', c)
                            >= Derived(vault, supply + Charge, c)
        BY DEF WorthKept
      <4>1. supply + Charge \in Nat \ {0}
        <5>1. supply \in Nat /\ Charge \in Nat
          BY <1>1, ChargeType
        <5>. QED
          BY <5>1
      <4>2. vault[c] = 0
        BY <3>1 DEF Bare
      <4>. QED
        BY <1>1, <4>1, <4>2, NothingToLose
    <3>. QED
      BY <3>2, <3>3, FlowStep DEF Promise!Next
  <2>2. ASSUME NEW k \in Holders, NEW amount \in Amounts, Burn(k, amount)
        PROVE  Promise!Next
    <3>1. /\ UNCHANGED <<now, rebalance, refPrice, lastFeeAccrual, vault>>
          /\ supply' = supply - amount
      BY <2>2 DEF Burn
    <3>2. supply' <= supply
      <4>1. amount \in Nat /\ supply \in Nat
        BY <1>1, InputTypes, U64IsNat DEF TypeOK
      <4>. QED
        BY <3>1, <4>1
    <3>. QED
      BY <1>3, <1>4, <3>1, <3>2
  <2>3. ASSUME NEW c \in Mints, NEW amount \in Donations, Donate(c, amount)
        PROVE  Promise!Next
    <3>1. /\ UNCHANGED <<now, rebalance, refPrice, lastFeeAccrual, supply>>
          /\ vault' = [vault EXCEPT ![c] = @ + amount]
      BY <2>3 DEF Donate
    <3>2. ASSUME NEW d \in Mints
          PROVE  vault'[d] >= vault[d]
      <4>1. amount \in Nat /\ vault[d] \in Nat /\ vault \in [Mints -> U64]
        BY <1>1, InputTypes, U64IsNat DEF TypeOK
      <4>2. vault'[d] = IF d = c THEN vault[d] + amount ELSE vault[d]
        BY <3>1, <4>1
      <4>. QED
        BY <4>1, <4>2
    <3>. QED
      BY <1>3, <1>4, <3>1, <3>2
  <2>. QED
    BY <1>2, <1>10, <2>1, <2>2, <2>3
    DEF TokenNext, HandOverMint, RevokeFreezer, Freeze, OpenAccount,
        CloseAccount, Transfer
<1>11. CASE Tick
  <2>1. Promise!Pass
    BY <1>11 DEF Tick, Promise!Pass, PublishedPlan
  <2>. QED
    BY <2>1 DEF Promise!Next
<1>12. CASE UNCHANGED vars
  BY <1>2, <1>12 DEF vars
<1>. QED
  BY <1>6, <1>7, <1>8, <1>9, <1>10, <1>11, <1>12 DEF Next

\* The index program implements the promise made to its holders: whatever
\* the handlers, the token program and the clock do, in any order and for
\* any fees and any components, is something the promise allows.
THEOREM ProgramKeepsPromise == Spec => PromiseKept
<1>1. Init => Promise!Init
  BY DEF Init, Closed, PublishedPlan, Promise!Init, Promise!NoPlan
<1>2. Safe /\ Safe' /\ Bare /\ [Next]_vars => [Promise!Next]_(Promise!fund)
  BY PromiseStep DEF Safe
<1>. QED
  BY <1>1, <1>2, SafeAlways, AlwaysBare, PTL DEF Spec, PromiseKept, Promise!Spec
==============================================================================
