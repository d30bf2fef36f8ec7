-------------------------- MODULE FlockSafetyProofs --------------------------
(***************************************************************************)
(* The safety properties of FlockProperties, for every value of the        *)
(* constants, from the inductive invariant Safe of FlockIndexProofs.       *)
(***************************************************************************)
EXTENDS FlockIndexProofs

-----------------------------------------------------------------------------
(* Backing.                                                                *)

\* Units written by a sync from the new balances and supply are backed.
LEMMA SyncBacks ==
  ASSUME TypeOK, TypeOK', UNCHANGED components, Fits(units'),
         NEW u \in [Mints -> U64], units' = SyncedUnits(u, vault', supply')
  PROVE  Backed'
<1>1. /\ vault' \in [Mints -> U64] /\ supply' \in Nat
      /\ components \in SUBSET Mints
  BY U64IsNat DEF TypeOK
<1>2. \A c \in components : units'[c] * supply' <= vault'[c] * UNIT_SCALE
  BY <1>1, SyncedBacked
<1>. QED
  BY <1>2 DEF Backed

\* Backing survives less supply and fuller vaults.
LEMMA BackedMonotone ==
  ASSUME TypeOK, TypeOK', Backed, UNCHANGED <<components, units>>,
         supply' <= supply, \A c \in components : vault'[c] >= vault[c]
  PROVE  Backed'
<1>1. ASSUME NEW c \in components
      PROVE  units'[c] * supply' <= vault'[c] * UNIT_SCALE
  <2>1. /\ units[c] \in Nat /\ supply \in Nat /\ supply' \in Nat
        /\ vault[c] \in Nat /\ vault'[c] \in Nat /\ UNIT_SCALE \in Nat
    BY U64IsNat, MathAssumption DEF TypeOK
  <2>2. units[c] * supply' <= units[c] * supply
    BY <2>1, SMT
  <2>3. vault[c] * UNIT_SCALE <= vault'[c] * UNIT_SCALE
    BY <2>1, SMT
  <2>4. units[c] * supply <= vault[c] * UNIT_SCALE
    BY DEF Backed
  <2> DEFINE u1 == units[c] * supply'
             u0 == units[c] * supply
             v0 == vault[c] * UNIT_SCALE
             v1 == vault'[c] * UNIT_SCALE
  <2>5. {u0, u1, v0, v1} \subseteq Nat
    BY <2>1, ProductIsNat
  <2>6. u1 <= u0 /\ u0 <= v0 /\ v0 <= v1
    BY <2>2, <2>3, <2>4
  <2>7. u1 <= v1
    <3> HIDE DEF u0, u1, v0, v1
    <3>. QED
      BY <2>5, <2>6
  <2>. QED
    BY <2>7
<1>. QED
  BY <1>1 DEF Backed

LEMMA BackedStep ==
  TypeOK /\ TypeOK' /\ Lifecycle /\ Backed /\ [Next]_vars => Backed'
<1> SUFFICES ASSUME TypeOK, TypeOK', Lifecycle, Backed, [Next]_vars
             PROVE  Backed'
  OBVIOUS
<1> USE DEF index, ledger
<1>1. ASSUME UNCHANGED <<components, units, supply, vault>>
      PROVE  Backed'
  BY <1>1 DEF Backed
<1>2. CASE SetupNext
  <2>1. ASSUME NEW by \in Signers, NEW c \in Mints, NEW u \in SeedUnits,
               AddComponent(by, c, u)
        PROVE  Backed'
    <3>1. supply' = 0
      BY <2>1 DEF AddComponent, Lifecycle
    <3>2. \A d \in components' : units'[d] \in Nat /\ vault'[d] \in Nat
      BY U64IsNat DEF TypeOK
    <3>3. ASSUME NEW d \in components'
          PROVE  units'[d] * supply' <= vault'[d] * UNIT_SCALE
      <4>1. units'[d] * supply' = 0
        BY <3>1, <3>2
      <4>2. vault'[d] * UNIT_SCALE \in Nat
        BY <3>2, MathAssumption, ProductIsNat
      <4>. QED
        BY <4>1, <4>2
    <3>. QED
      BY <3>3 DEF Backed
  <2>. QED
    BY <1>1, <1>2, <2>1 DEF SetupNext, InitIndex, SealIndex
<1>3. ASSUME NEW to \in Keys, NEW amount \in Amounts, NEW maxIn,
             Issue(to, amount, maxIn)
      PROVE  Backed'
  <2>1. /\ QuotedUnits \in [Mints -> U64] /\ Fits(units')
        /\ units' = SyncedUnits(QuotedUnits, vault', supply')
    BY <1>3, InputTypes, IssueEffect DEF Issue
  <2>. QED
    BY <1>3, <2>1, SyncBacks DEF Issue, IssueInto
<1>4. ASSUME NEW by \in Signers, NEW amount \in Amounts, NEW minOut,
             Redeem(by, amount, minOut)
      PROVE  Backed'
  <2>1. /\ QuotedUnits \in [Mints -> U64] /\ Fits(units')
        /\ units' = SyncedUnits(QuotedUnits, vault', supply')
    BY <1>4, InputTypes, RedeemEffect
  <2>. QED
    BY <1>4, <2>1, SyncBacks DEF Redeem
<1>5. CASE AccrueFees
  <2>1. Fits(units') /\ units' = SyncedUnits(units, vault', supply')
    BY <1>5, AccrueFeesEffect DEF AccrueFees
  <2>. QED
    BY <1>5, <2>1, SyncBacks DEF AccrueFees, TypeOK
<1>6. ASSUME NEW s \in Mints, NEW b \in Mints, NEW sold \in SellAmounts,
             NEW maxBuy \in Limits, Bid(s, b, sold, maxBuy)
      PROVE  Backed'
  <2>1. Fits(units') /\ units' = SyncedUnits(units, vault', supply)
    BY <1>6, BidEffect, InputTypes
  <2>2. UNCHANGED <<components, supply>>
    BY <1>6 DEF Bid
  <2>. QED
    BY <2>1, <2>2, SyncBacks DEF TypeOK
<1>7. ASSUME NEW by \in Signers, EndRebalance(by)
      PROVE  Backed'
  <2>1. Fits(units') /\ units' = SyncedUnits(units, vault', supply')
    BY <1>7 DEF EndRebalance
  <2>. QED
    BY <1>7, <2>1, SyncBacks DEF EndRebalance, TypeOK
<1>8. ASSUME NEW by \in Signers, NEW target, NEW price, NEW p,
             ProposeRebalance(by, target, price, p)
      PROVE  Backed'
  BY <1>1, <1>8 DEF ProposeRebalance
<1>9. CASE GovernanceNext
  BY <1>1, <1>9 DEF GovernanceNext, SetParams, SetAuthority, SetPaused
<1>10. CASE TokenNext
  <2>1. ASSUME NEW k \in Holders, NEW amount \in Amounts, FounderMints(k, amount)
        PROVE  Backed'
    <3>1. components' = {}
      BY <2>1 DEF FounderMints, Lifecycle
    <3>. QED
      BY <3>1 DEF Backed
  <2>2. ASSUME NEW k \in Holders, NEW amount \in Amounts, Burn(k, amount)
        PROVE  Backed'
    <3>1. UNCHANGED <<components, units, vault>> /\ supply' = supply - amount
      BY <2>2 DEF Burn
    <3>2. supply' <= supply
      <4>1. amount \in Nat
        BY InputTypes, U64IsNat
      <4>2. supply \in Nat
        BY U64IsNat DEF TypeOK
      <4>. QED
        BY <3>1, <4>1, <4>2
    <3>3. \A c \in components : vault[c] \in Nat
      BY U64IsNat DEF TypeOK
    <3>4. \A c \in components : vault'[c] >= vault[c]
      BY <3>1, <3>3
    <3>. QED
      BY <3>1, <3>2, <3>4, BackedMonotone
  <2>3. ASSUME NEW c \in Mints, NEW amount \in Donations, Donate(c, amount)
        PROVE  Backed'
    <3>1. /\ UNCHANGED <<components, units, supply>>
          /\ vault' = [vault EXCEPT ![c] = @ + amount]
      BY <2>3 DEF Donate
    <3>2. ASSUME NEW d \in components
          PROVE  vault'[d] >= vault[d]
      <4>1. amount \in Nat
        BY InputTypes, U64IsNat
      <4>2. d \in Mints /\ vault \in [Mints -> U64] /\ vault[d] \in Nat
        BY U64IsNat DEF TypeOK
      <4>3. vault'[d] = IF d = c THEN vault[d] + amount ELSE vault[d]
        BY <3>1, <4>2
      <4>. QED
        BY <4>1, <4>2, <4>3
    <3>3. supply' <= supply
      <4>1. supply \in Nat
        BY U64IsNat DEF TypeOK
      <4>. QED
        BY <3>1, <4>1
    <3>. QED
      BY <3>1, <3>2, <3>3, BackedMonotone
  <2>. QED
    BY <1>1, <1>10, <2>1, <2>2, <2>3
    DEF TokenNext, HandOverMint, RevokeFreezer, Freeze, OpenAccount,
        CloseAccount, Transfer
<1>11. CASE Tick \/ UNCHANGED vars
  BY <1>1, <1>11 DEF Tick, vars
<1>. QED
  BY <1>2, <1>3, <1>4, <1>5, <1>6, <1>7, <1>8, <1>9, <1>10, <1>11
  DEF Next, FundNext, AuctionNext

-----------------------------------------------------------------------------
(* The accrual clock.                                                      *)

\* Whatever settles the clock leaves nothing to bill.
LEMMA SettledBillable ==
  ASSUME TypeOK, TypeOK', UNCHANGED now, lastFeeAccrual' = now
  PROVE  Billable'
<1>1. FeePeriod' = 0
  <2>1. now \in Int
    BY IndexAssumption DEF TypeOK
  <2>2. now' - lastFeeAccrual' = 0
    BY <2>1
  <2>. QED
    BY <2>2 DEF FeePeriod
<1>2. params'.streamingFee \in Nat /\ feeDue' \in Nat
  BY IndexAssumption DEF TypeOK, WithinCaps
<1>. QED
  BY <1>1, <1>2 DEF Billable

LEMMA BillableStep ==
  TypeOK /\ TypeOK' /\ Billable /\ [Next]_vars => Billable'
<1> SUFFICES ASSUME TypeOK, TypeOK', Billable, [Next]_vars
             PROVE  Billable'
  OBVIOUS
<1> USE DEF index, ledger
<1>1. ASSUME UNCHANGED <<params, now, lastFeeAccrual, feeDue>>,
             Sealed' => Sealed
      PROVE  Billable'
  BY <1>1 DEF Billable, FeePeriod
<1>2. CASE SetupNext
  <2>1. ASSUME NEW who, NEW p, InitIndex(who, p)
        PROVE  Billable'
    BY <2>1 DEF InitIndex, Billable, Sealed
  <2>2. ASSUME NEW by, NEW c, NEW u, AddComponent(by, c, u)
        PROVE  Billable'
    BY <1>1, <2>2 DEF AddComponent, Sealed
  <2>3. ASSUME NEW by, SealIndex(by)
        PROVE  Billable'
    BY <2>3, SettledBillable DEF SealIndex, Accrued
  <2>. QED
    BY <1>2, <2>1, <2>2, <2>3 DEF SetupNext
<1>3. CASE FundNext
  <2>1. ASSUME NEW to, NEW amount, NEW maxIn, Issue(to, amount, maxIn)
        PROVE  Billable'
    BY <2>1, SettledBillable DEF Issue, IssueInto, Accrued
  <2>2. ASSUME NEW by, NEW amount, NEW minOut, Redeem(by, amount, minOut)
        PROVE  Billable'
    BY <2>2, SettledBillable DEF Redeem, Accrued
  <2>3. ASSUME AccrueFees
        PROVE  Billable'
    BY <2>3, SettledBillable DEF AccrueFees, Accrued
  <2>. QED
    BY <1>3, <2>1, <2>2, <2>3 DEF FundNext
<1>4. CASE AuctionNext
  <2>1. ASSUME NEW by, NEW target, NEW price, NEW p,
               ProposeRebalance(by, target, price, p)
        PROVE  Billable'
    BY <1>1, <2>1 DEF ProposeRebalance, Sealed
  <2>2. ASSUME NEW s, NEW b, NEW sold, NEW maxBuy, Bid(s, b, sold, maxBuy)
        PROVE  Billable'
    BY <1>1, <2>2 DEF Bid, Sealed
  <2>3. ASSUME NEW by, EndRebalance(by)
        PROVE  Billable'
    BY <1>1, <2>3 DEF EndRebalance, Sealed
  <2>. QED
    BY <1>4, <2>1, <2>2, <2>3 DEF AuctionNext
<1>5. CASE GovernanceNext
  <2>1. ASSUME NEW by, NEW p, SetParams(by, p)
        PROVE  Billable'
    <3>1. CASE state = "bootstrapping" \/ state = "absent"
      BY <2>1, <3>1 DEF SetParams, Billable, Sealed
    <3>2. CASE state # "bootstrapping"
      BY <2>1, <3>2, SettledBillable DEF SetParams, ClockSettled
    <3>. QED
      BY <3>1, <3>2
  <2>2. ASSUME NEW by, NEW role, NEW new, SetAuthority(by, role, new)
        PROVE  Billable'
    BY <1>1, <2>2 DEF SetAuthority, Sealed
  <2>3. ASSUME NEW by, NEW paused, SetPaused(by, paused)
        PROVE  Billable'
    BY <1>1, <2>3 DEF SetPaused
  <2>. QED
    BY <1>5, <2>1, <2>2, <2>3 DEF GovernanceNext
<1>6. CASE TokenNext
  BY <1>1, <1>6
  DEF TokenNext, FounderMints, HandOverMint, RevokeFreezer, Freeze,
      OpenAccount, CloseAccount, Transfer, Burn, Donate, Sealed
<1>7. CASE Tick
  <2> DEFINE f == params.streamingFee
             p == FeePeriod
  <2>1. f \in Nat /\ p \in Nat /\ feeDue \in Nat
    BY IndexAssumption DEF TypeOK, WithinCaps, FeePeriod
  <2>2. /\ UNCHANGED <<state, params, lastFeeAccrual>>
        /\ now' = now + 1 /\ feeDue' = feeDue + f
    BY <1>7 DEF Tick
  <2>3. FeePeriod' = p + 1
    BY <2>2, IndexAssumption DEF FeePeriod, TypeOK
  <2>4. Sealed' => f * p <= feeDue
    BY <2>2 DEF Billable, Sealed
  <2>5. params'.streamingFee = f
    BY <2>2
  <2> HIDE DEF f, p
  <2>6. f * (p + 1) = f * p + f /\ f * p \in Nat
    BY <2>1, ProductIsNat, SMT
  <2>7. Sealed' => f * (p + 1) <= feeDue'
    BY <2>1, <2>2, <2>4, <2>6
  <2>. QED
    BY <2>3, <2>5, <2>7 DEF Billable
<1>8. CASE UNCHANGED vars
  BY <1>1, <1>8 DEF vars, Sealed
<1>. QED
  BY <1>2, <1>3, <1>4, <1>5, <1>6, <1>7, <1>8 DEF Next

-----------------------------------------------------------------------------
(* The inductive invariant and what it implies.                            *)

\* No reachable state leaves the invariant the properties below rest on.
THEOREM SafeAlways == Spec => []Safe
<1>1. Init => Safe
  <2> SUFFICES ASSUME Init PROVE Safe
    OBVIOUS
  <2>1. TypeOK
    BY TypeInit
  <2>2. /\ state = "absent" /\ components = {}
        /\ authority["governor"] = None /\ ~rebalance.active
    BY DEF Init, Closed, Roles
  <2>3. Lifecycle /\ Backed /\ Billable
    BY <2>2 DEF Lifecycle, Backed, Billable, Sealed
  <2>. QED
    BY <2>1, <2>3 DEF Safe
<1>2. Safe /\ [Next]_vars => Safe'
  BY TypeStep, LifecycleStep, BackedStep, BillableStep DEF Safe
<1>. QED
  BY <1>1, <1>2, PTL DEF Spec

\* Every unit the program quotes is in a vault, at every supply.
THEOREM AlwaysBacked == Spec => []Backed
<1>1. Safe => Backed
  BY DEF Safe
<1>. QED
  BY <1>1, SafeAlways, PTL

\* No governance action bills a rate for time it was not in force.
THEOREM NeverOverbilledAlways == Spec => []NeverOverbilled
<1>1. Safe => NeverOverbilled
  <2> SUFFICES ASSUME Safe, Sealed,
                      StreamingFeeDefined(supply, params.streamingFee, FeePeriod)
               PROVE  Owed * (BPS * SECONDS_PER_YEAR) <= SupplyAfterFee * feeDue
    BY DEF NeverOverbilled
  <2> DEFINE rate == params.streamingFee * FeePeriod
             year == BPS * SECONDS_PER_YEAR
  <2>1. /\ supply \in Nat /\ params.streamingFee \in Nat /\ FeePeriod \in Nat
        /\ feeDue \in Nat
    BY U64IsNat, IndexAssumption DEF Safe, TypeOK, WithinCaps, FeePeriod
  <2>2. Owed \in Nat /\ Owed * year <= SupplyAfterFee * rate
    BY <2>1, StreamingShare DEF Owed, SupplyAfterFee
  <2>3. rate \in Nat /\ year \in Nat /\ SupplyAfterFee \in Nat
    BY <2>1, <2>2, ProductIsNat, MathAssumption DEF SupplyAfterFee
  <2>4. rate <= feeDue
    BY DEF Safe, Billable
  <2> HIDE DEF rate, year
  <2>5. SupplyAfterFee * rate <= SupplyAfterFee * feeDue
    BY <2>1, <2>3, <2>4, SMT
  <2>6. {Owed * year, SupplyAfterFee * rate, SupplyAfterFee * feeDue} \subseteq Nat
    BY <2>1, <2>2, <2>3, ProductIsNat
  <2>7. Owed * year <= SupplyAfterFee * feeDue
    BY <2>2, <2>5, <2>6
  <2>. QED
    BY <2>7 DEF year
<1>. QED
  BY <1>1, SafeAlways, PTL

-----------------------------------------------------------------------------
(* What holders keep.                                                      *)

\* What a handler quotes at a supply that is not zero.
LEMMA QuoteAtSupply ==
  ASSUME TypeOK, SupplyAfterFee # 0, NEW c \in components
  PROVE  QuotedUnits[c] = Derived(vault, SupplyAfterFee, c)
BY DEF QuotedUnits, SyncedUnits, Derived, TypeOK

\* Issues, redemptions and accruals leave a token worth what it was once the
\* fee then owed had been charged.
LEMMA FundKeepsValue ==
  ASSUME Safe, FundNext, supply # 0, supply' # 0,
         StreamingFeeDefined(supply, params.streamingFee, FeePeriod),
         NEW c \in components
  PROVE  Derived(vault', supply', c) >= Derived(vault, SupplyAfterFee, c)
<1>1. TypeOK
  BY DEF Safe
<1>2. supply \in Nat /\ vault[c] \in Nat /\ c \in Mints
  BY <1>1, U64IsNat DEF TypeOK
<1>3. SupplyAfterFee \in Nat \ {0} /\ SupplyAfterFee >= supply
  <2>1. params.streamingFee \in Nat /\ FeePeriod \in Nat
    BY <1>1, IndexAssumption DEF TypeOK, WithinCaps, FeePeriod
  <2>2. Owed \in Nat
    BY <1>2, <2>1, StreamingShare DEF Owed
  <2>. QED
    BY <1>2, <2>2 DEF SupplyAfterFee
<1>4. QuotedUnits[c] = Derived(vault, SupplyAfterFee, c)
  BY <1>1, <1>3, QuoteAtSupply
<1>5. ASSUME NEW to, NEW amount \in Amounts, NEW maxIn,
             Issue(to, amount, maxIn)
      PROVE  Derived(vault', supply', c) >= Derived(vault, SupplyAfterFee, c)
  <2>1. PICK gross \in Nat :
          /\ supply' = SupplyAfterFee + gross
          /\ \A d \in components :
               vault'[d] = vault[d] + UnitsIn(QuotedUnits[d], gross)
    BY <1>1, <1>5, InputTypes, IssueEffect DEF Issue
  <2>2. vault'[c] = vault[c] + UnitsIn(QuotedUnits[c], gross)
    BY <2>1
  <2>. QED
    BY <1>2, <1>3, <1>4, <2>1, <2>2, IssueKeepsUnits DEF Derived
<1>6. ASSUME NEW by, NEW amount \in Amounts, NEW minOut,
             Redeem(by, amount, minOut)
      PROVE  Derived(vault', supply', c) >= Derived(vault, SupplyAfterFee, c)
  <2>1. PICK net \in 0 .. SupplyAfterFee :
          /\ supply' = SupplyAfterFee - net
          /\ \A d \in components :
               vault'[d] = vault[d] - UnitsOut(QuotedUnits[d], net)
    BY <1>1, <1>6, InputTypes, RedeemEffect
  <2>2. vault'[c] = vault[c] - UnitsOut(QuotedUnits[c], net)
    BY <2>1
  <2>3. net # SupplyAfterFee
    BY <1>3, <2>1
  <2>. QED
    BY <1>2, <1>3, <1>4, <2>1, <2>2, <2>3, RedeemKeepsUnits DEF Derived
<1>7. CASE AccrueFees
  <2>1. UNCHANGED vault /\ supply' = SupplyAfterFee
    BY <1>7 DEF AccrueFees
  <2>. QED
    BY <1>2, <1>3, <2>1, LessSupplyKeepsUnits DEF Derived
<1>. QED
  BY <1>5, <1>6, <1>7 DEF FundNext

LEMMA StepKeepsValue == Safe /\ Next => ValueKept
<1> SUFFICES ASSUME Safe, Next,
                    supply # 0, supply' # 0, supply' # supply,
                    StreamingFeeDefined(supply, params.streamingFee, FeePeriod),
                    NEW c \in components
             PROVE  Derived(vault', supply', c) >= Derived(vault, SupplyAfterFee, c)
  BY DEF ValueKept
<1>1. TypeOK /\ Lifecycle
  BY DEF Safe
<1>2. supply \in Nat /\ vault[c] \in Nat /\ c \in Mints
  BY <1>1, U64IsNat DEF TypeOK
<1>3. SupplyAfterFee \in Nat \ {0} /\ SupplyAfterFee >= supply
  <2>1. params.streamingFee \in Nat /\ FeePeriod \in Nat
    BY <1>1, IndexAssumption DEF TypeOK, WithinCaps, FeePeriod
  <2>2. Owed \in Nat
    BY <1>2, <2>1, StreamingShare DEF Owed
  <2>. QED
    BY <1>2, <2>2 DEF SupplyAfterFee
<1>4. CASE FundNext
  BY <1>4, FundKeepsValue
<1>5. ASSUME NEW k \in Holders, NEW amount \in Amounts, Burn(k, amount)
      PROVE  Derived(vault', supply', c) >= Derived(vault, SupplyAfterFee, c)
  <2>1. UNCHANGED vault /\ supply' = supply - amount /\ supply >= amount
    BY <1>5 DEF Burn
  <2>2. amount \in Nat
    BY InputTypes
  <2>3. supply' \in Nat /\ supply' <= SupplyAfterFee
    BY <1>2, <1>3, <2>1, <2>2
  <2>. QED
    BY <1>2, <1>3, <2>1, <2>3, LessSupplyKeepsUnits DEF Derived
<1>6. ASSUME NEW k \in Holders, NEW amount \in Amounts, FounderMints(k, amount)
       PROVE  FALSE
  BY <1>1, <1>6 DEF FounderMints, Lifecycle
<1>7. CASE SetupNext
  BY <1>7 DEF SetupNext, InitIndex, AddComponent, SealIndex, ledger
<1>8. CASE AuctionNext
  <2>1. ASSUME NEW by, NEW target, NEW price, NEW p,
               ProposeRebalance(by, target, price, p)
        PROVE  UNCHANGED supply
    BY <2>1 DEF ProposeRebalance, ledger
  <2>2. ASSUME NEW s, NEW b, NEW sold, NEW maxBuy, Bid(s, b, sold, maxBuy)
        PROVE  UNCHANGED supply
    BY <2>2 DEF Bid
  <2>3. ASSUME NEW by, EndRebalance(by)
        PROVE  UNCHANGED supply
    BY <2>3 DEF EndRebalance, ledger
  <2>. QED
    BY <1>8, <2>1, <2>2, <2>3 DEF AuctionNext
<1>9. CASE GovernanceNext
  BY <1>9 DEF GovernanceNext, SetParams, SetAuthority, SetPaused, ledger
<1>10. CASE Tick
  BY <1>10 DEF Tick, ledger
<1>11. CASE TokenNext
  BY <1>5, <1>6, <1>11
  DEF TokenNext, HandOverMint, RevokeFreezer, Freeze, OpenAccount,
      CloseAccount, Transfer, Donate
<1>. QED
  BY <1>4, <1>7, <1>8, <1>9, <1>10, <1>11 DEF Next

\* No issue, redemption, accrual or burn takes value out of a token.
THEOREM HolderNeverDiluted == Spec => HolderNotDiluted
<1>1. Safe /\ [Next]_vars => [ValueKept]_vars
  BY StepKeepsValue
<1>. QED
  BY <1>1, SafeAlways, PTL DEF Spec, HolderNotDiluted

-----------------------------------------------------------------------------
(* What a round trip costs.                                                *)

LEMMA IssuePaysForItself ==
  ASSUME Safe, supply # 0,
         NEW open, NEW to, NEW amount \in Nat, NEW maxIn,
         IssueInto(open, to, amount, maxIn), NEW c \in components
  PROVE  UnitsOut(units'[c], supply' - SupplyAfterFee) <= vault'[c] - vault[c]
<1>1. TypeOK
  BY DEF Safe
<1>2. supply \in Nat /\ vault[c] \in Nat /\ c \in Mints
  BY <1>1, U64IsNat DEF TypeOK
<1>3. SupplyAfterFee \in Nat \ {0}
  <2>1. Owed \in Nat
    BY <1>1, AccrueType DEF IssueInto, AccrueAcceptedIn
  <2>. QED
    BY <1>2, <2>1 DEF SupplyAfterFee
<1>4. PICK gross \in Nat :
        /\ supply' = SupplyAfterFee + gross
        /\ \A d \in components :
             vault'[d] = vault[d] + UnitsIn(QuotedUnits[d], gross)
        /\ units' = SyncedUnits(QuotedUnits, vault', supply')
  BY <1>1, IssueEffect
<1>5. vault'[c] = vault[c] + UnitsIn(QuotedUnits[c], gross)
  BY <1>4
<1>6. QuotedUnits[c] = UnitsFromBalance(vault[c], SupplyAfterFee)
  BY <1>1, <1>3, QuoteAtSupply DEF Derived
<1>7. QuotedUnits[c] \in Nat /\ UnitsIn(QuotedUnits[c], gross) \in Nat
  BY <1>2, <1>3, <1>6, UnitsNeverOverstate, UnitsInOutBounds
<1>8. supply' # 0 /\ supply' - SupplyAfterFee = gross
  BY <1>3, <1>4
<1>9. units'[c] = UnitsFromBalance(vault'[c], SupplyAfterFee + gross)
  BY <1>2, <1>4, <1>8 DEF SyncedUnits
<1>10. vault'[c] - vault[c] = UnitsIn(QuotedUnits[c], gross)
  BY <1>2, <1>5, <1>7
<1>. QED
  BY <1>2, <1>3, <1>5, <1>6, <1>8, <1>9, <1>10, RoundTripPaysNoMore

LEMMA StepPaysForItself == Safe /\ Next => NoRoundTripGain
<1> SUFFICES ASSUME Safe, Next, supply # 0,
                    StreamingFeeDefined(supply, params.streamingFee, FeePeriod),
                    supply' > SupplyAfterFee,
                    NEW c \in components
             PROVE  UnitsOut(units'[c], supply' - SupplyAfterFee)
                      <= vault'[c] - vault[c]
  BY DEF NoRoundTripGain
<1>1. TypeOK /\ Lifecycle
  BY DEF Safe
<1>2. supply \in Nat /\ SupplyAfterFee \in Nat /\ SupplyAfterFee >= supply
  <2>1. supply \in Nat
    BY <1>1, U64IsNat DEF TypeOK
  <2>2. params.streamingFee \in Nat /\ FeePeriod \in Nat
    BY <1>1, IndexAssumption DEF TypeOK, WithinCaps, FeePeriod
  <2>3. Owed \in Nat
    BY <2>1, <2>2, StreamingShare DEF Owed
  <2>. QED
    BY <2>1, <2>3 DEF SupplyAfterFee
<1>3. ~UNCHANGED supply
  BY <1>2
<1>4. ASSUME NEW to, NEW amount \in Amounts, NEW maxIn,
             Issue(to, amount, maxIn)
      PROVE  UnitsOut(units'[c], supply' - SupplyAfterFee) <= vault'[c] - vault[c]
  BY <1>4, InputTypes, IssuePaysForItself DEF Issue
<1>5. ASSUME NEW by, NEW amount \in Amounts, NEW minOut,
             Redeem(by, amount, minOut)
      PROVE  FALSE
  <2>1. PICK net \in 0 .. SupplyAfterFee : supply' = SupplyAfterFee - net
    BY <1>1, <1>5, InputTypes, RedeemEffect
  <2>. QED
    BY <1>2, <2>1
<1>6. CASE AccrueFees
  <2>1. supply' = SupplyAfterFee
    BY <1>6 DEF AccrueFees
  <2>. QED
    BY <1>2, <2>1
<1>7. ASSUME NEW k, NEW amount \in Amounts, Burn(k, amount)
      PROVE  FALSE
  <2>1. supply' = supply - amount /\ amount \in Nat
    BY <1>7, InputTypes DEF Burn
  <2>. QED
    BY <1>2, <2>1
<1>8. ASSUME NEW k, NEW amount, FounderMints(k, amount)
      PROVE  FALSE
  BY <1>1, <1>8 DEF FounderMints, Lifecycle
<1>9. CASE SetupNext
  BY <1>3, <1>9 DEF SetupNext, InitIndex, AddComponent, SealIndex, ledger
<1>10. CASE FundNext
  BY <1>4, <1>5, <1>6, <1>10 DEF FundNext
<1>11. CASE AuctionNext
  <2>1. ASSUME NEW by, NEW target, NEW price, NEW p,
               ProposeRebalance(by, target, price, p)
        PROVE  FALSE
    BY <1>3, <2>1 DEF ProposeRebalance, ledger
  <2>2. ASSUME NEW s, NEW b, NEW sold, NEW maxBuy, Bid(s, b, sold, maxBuy)
        PROVE  FALSE
    BY <1>3, <2>2 DEF Bid
  <2>3. ASSUME NEW by, EndRebalance(by)
        PROVE  FALSE
    BY <1>3, <2>3 DEF EndRebalance, ledger
  <2>. QED
    BY <1>11, <2>1, <2>2, <2>3 DEF AuctionNext
<1>12. CASE GovernanceNext
  BY <1>3, <1>12 DEF GovernanceNext, SetParams, SetAuthority, SetPaused, ledger
<1>13. CASE TokenNext
  BY <1>3, <1>7, <1>8, <1>13
  DEF TokenNext, HandOverMint, RevokeFreezer, Freeze, OpenAccount,
      CloseAccount, Transfer, Donate
<1>14. CASE Tick
  BY <1>3, <1>14 DEF Tick, ledger
<1>. QED
  BY <1>9, <1>10, <1>11, <1>12, <1>13, <1>14 DEF Next

\* What an issue mints cannot be redeemed at once for more than it took.
THEOREM RoundTripsAlwaysCost == Spec => RoundTripsCost
<1>1. Safe /\ [Next]_vars => [NoRoundTripGain]_vars
  BY StepPaysForItself
<1>. QED
  BY <1>1, SafeAlways, PTL DEF Spec, RoundTripsCost

-----------------------------------------------------------------------------
(* What a fill is.                                                         *)

\* Only a bid takes from a vault without touching the supply: a redemption
\* whose fee eats all of it pays nothing out.
LEMMA FillIsBid ==
  ASSUME Safe, Next, Fill
  PROVE  \E s \in Mints, b \in Mints, sold \in SellAmounts, maxBuy \in Limits :
           Bid(s, b, sold, maxBuy)
<1>1. TypeOK
  BY DEF Safe
<1>2. PICK c \in components : vault'[c] < vault[c]
  BY DEF Fill
<1>3. vault[c] \in Nat /\ c \in Mints /\ vault \in [Mints -> U64]
  BY <1>1, U64IsNat DEF TypeOK
<1>4. UNCHANGED vault => FALSE
  BY <1>2, <1>3
<1>5. ASSUME NEW to, NEW amount \in Amounts, NEW maxIn,
             Issue(to, amount, maxIn)
      PROVE  FALSE
  <2>1. PICK gross \in Nat :
          /\ QuotedUnits \in [Mints -> U64]
          /\ \A d \in components :
               vault'[d] = vault[d] + UnitsIn(QuotedUnits[d], gross)
    BY <1>1, <1>5, InputTypes, IssueEffect DEF Issue
  <2>2. QuotedUnits[c] \in Nat
    BY <1>3, <2>1, U64IsNat
  <2>3. UnitsIn(QuotedUnits[c], gross) \in Nat
    BY <2>2, UnitsInOutBounds
  <2>4. vault'[c] = vault[c] + UnitsIn(QuotedUnits[c], gross)
    BY <2>1
  <2>. QED
    BY <1>2, <1>3, <2>3, <2>4
<1>6. ASSUME NEW by, NEW amount \in Amounts, NEW minOut,
             Redeem(by, amount, minOut)
      PROVE  FALSE
  <2>1. AccrueAccepted
    BY <1>6 DEF Redeem, RedeemAccepted
  <2>2. Owed \in Nat /\ supply \in Nat
    BY <1>1, <2>1, AccrueType, U64IsNat DEF TypeOK, AccrueAccepted, AccrueAcceptedIn
  <2>3. UNCHANGED <<supply, lastFeeAccrual>>
    BY DEF Fill
  <2>4. Owed = 0
    <3>1. FeePeriod = 0
      <4>1. lastFeeAccrual = now /\ now \in Nat
        BY <1>1, <1>6, <2>3, IndexAssumption DEF Redeem, Accrued, TypeOK
      <4>. QED
        BY <4>1 DEF FeePeriod
    <3>. QED
      BY <3>1 DEF Owed, StreamingFeeTokens, NoStreamingFee
  <2>5. PICK net \in 0 .. SupplyAfterFee :
          /\ QuotedUnits \in [Mints -> U64]
          /\ supply' = SupplyAfterFee - net
          /\ \A d \in components :
               vault'[d] = vault[d] - UnitsOut(QuotedUnits[d], net)
    BY <1>1, <1>6, InputTypes, RedeemEffect
  <2>6. net = 0
    BY <2>2, <2>3, <2>4, <2>5 DEF SupplyAfterFee
  <2>7. QuotedUnits[c] \in Nat
    BY <1>3, <2>5, U64IsNat
  <2>8. UnitsOut(QuotedUnits[c], 0) = 0
    <3>1. UnitsOut(QuotedUnits[c], 0) \in Nat
          /\ UNIT_SCALE * UnitsOut(QuotedUnits[c], 0) <= QuotedUnits[c] * 0
      BY <2>7, UnitsInOutBounds
    <3> DEFINE p == UnitsOut(QuotedUnits[c], 0)
    <3> HIDE DEF p
    <3>2. p \in Nat /\ UNIT_SCALE * p <= 0 /\ UNIT_SCALE \in Nat \ {0}
      BY <2>7, <3>1, MathAssumption DEF p
    <3>3. p = 0
      BY <3>2, SMT
    <3>. QED
      BY <3>3 DEF p
  <2>9. vault'[c] = vault[c]
    BY <1>3, <2>5, <2>6, <2>8
  <2>. QED
    BY <1>2, <1>3, <2>9
<1>7. ASSUME NEW d \in Mints, NEW amount \in Donations, Donate(d, amount)
      PROVE  FALSE
  <2>1. amount \in Nat
    BY InputTypes
  <2>2. vault'[c] = IF c = d THEN vault[c] + amount ELSE vault[c]
    BY <1>3, <1>7 DEF Donate
  <2>. QED
    BY <1>2, <1>3, <2>1, <2>2
<1>8. ASSUME NEW by, NEW target, NEW price, NEW p,
             ProposeRebalance(by, target, price, p)
      PROVE  FALSE
  BY <1>4, <1>8 DEF ProposeRebalance, ledger
<1>9. ASSUME NEW by, EndRebalance(by)
      PROVE  FALSE
  BY <1>4, <1>9 DEF EndRebalance, ledger
<1>10. ~SetupNext /\ ~AccrueFees /\ ~GovernanceNext /\ ~Tick
  BY <1>4
  DEF SetupNext, InitIndex, AddComponent, SealIndex, AccrueFees,
      GovernanceNext, SetParams, SetAuthority, SetPaused, Tick, ledger
<1>11. ~TokenNext
  BY <1>4, <1>7
  DEF TokenNext, FounderMints, HandOverMint, RevokeFreezer, Freeze,
      OpenAccount, CloseAccount, Transfer, Burn
<1>. QED
  BY <1>5, <1>6, <1>8, <1>9, <1>10, <1>11 DEF Next, FundNext, AuctionNext

-----------------------------------------------------------------------------
(* Notice.                                                                 *)

LEMMA StepKeepsPlan == Safe /\ Next => PlanStands
<1> SUFFICES ASSUME Safe, Next, rebalance.active, rebalance'.active
             PROVE  UNCHANGED <<rebalance, targetUnits, refPrice>>
  BY DEF PlanStands
<1>1. Sealed
  BY DEF Safe, Lifecycle
<1>2. ~SetupNext
  BY <1>1 DEF Sealed, SetupNext, InitIndex, AddComponent, SealIndex
<1>3. CASE FundNext
  BY <1>3 DEF FundNext, Issue, IssueInto, Redeem, AccrueFees
<1>4. CASE AuctionNext
  <2>1. ASSUME NEW by, NEW target, NEW price, NEW p,
               ProposeRebalance(by, target, price, p)
        PROVE  FALSE
    BY <2>1 DEF ProposeRebalance
  <2>2. ASSUME NEW s, NEW b, NEW sold, NEW maxBuy, Bid(s, b, sold, maxBuy)
        PROVE  UNCHANGED <<rebalance, targetUnits, refPrice>>
    BY <2>2 DEF Bid
  <2>3. ASSUME NEW by, EndRebalance(by)
        PROVE  FALSE
    BY <2>3 DEF EndRebalance, Closed
  <2>. QED
    BY <1>4, <2>1, <2>2, <2>3 DEF AuctionNext
<1>5. CASE GovernanceNext
  BY <1>5 DEF GovernanceNext, SetParams, SetAuthority, SetPaused, index
<1>6. CASE TokenNext
  BY <1>6
  DEF TokenNext, FounderMints, HandOverMint, RevokeFreezer, Freeze,
      OpenAccount, CloseAccount, Transfer, Burn, Donate, index
<1>7. CASE Tick
  BY <1>7 DEF Tick, index
<1>. QED
  BY <1>2, <1>3, <1>4, <1>5, <1>6, <1>7 DEF Next

LEMMA FillIsOnNotice == Safe /\ Next => FillOnNotice
<1> SUFFICES ASSUME Safe, Next, Fill
             PROVE  /\ state = "live" /\ rebalance.active
                    /\ now >= rebalance.proposedAt + MIN_REBALANCE_DELAY
                    /\ now <= rebalance.endTs
  BY DEF FillOnNotice
<1>1. PICK s \in Mints, b \in Mints, sold \in SellAmounts, maxBuy \in Limits :
        Bid(s, b, sold, maxBuy)
  BY FillIsBid
<1>2. /\ state = "live" /\ rebalance.active
      /\ rebalance.startTs <= now /\ now <= rebalance.endTs
  BY <1>1 DEF Bid, PremiumDefined
<1>3. rebalance.startTs >= rebalance.proposedAt + MIN_REBALANCE_DELAY
  BY <1>2 DEF Safe, Lifecycle
<1>4. {now, rebalance.startTs, rebalance.proposedAt, MIN_REBALANCE_DELAY}
        \subseteq Int
  BY IndexAssumption DEF Safe, TypeOK, RebalanceType
<1>. QED
  BY <1>2, <1>3, <1>4

\* Every fill executes the plan that was published, after its notice.
THEOREM NoticeAlwaysHonoured == Spec => NoticeHonoured
<1>1. Safe /\ [Next]_vars => [PlanStands /\ FillOnNotice]_vars
  BY StepKeepsPlan, FillIsOnNotice
<1>. QED
  BY <1>1, SafeAlways, PTL DEF Spec, NoticeHonoured

-----------------------------------------------------------------------------
(* The price of a fill.                                                    *)

\* Marking down by a premium and converting back, both rounded up, still
\* delivers what the ceiling on the premium promises.
LEMMA MarkedValue ==
  ASSUME NEW value \in Nat, NEW prem \in Int, NEW cap \in 0 .. BPS, prem <= cap,
         NEW scale \in Nat \ {0}, NEW price \in Nat \ {0}
  PROVE  ValueE9(AmountFromValueCeil(MulDivCeil(value, BPS - prem, BPS),
                                     scale, price),
                 scale, price) * BPS >= value * (BPS - cap)
<1> DEFINE due    == MulDivCeil(value, BPS - prem, BPS)
           paid   == AmountFromValueCeil(due, scale, price)
           worth  == ValueE9(paid, scale, price)
<1>1. BPS \in Nat \ {0} /\ BPS - prem \in Nat /\ BPS - cap \in Nat
      /\ BPS - cap <= BPS - prem
  BY MathAssumption
<1>2. due \in Nat /\ BPS * due >= value * (BPS - prem)
  BY <1>1, CeilBounds
<1>3. paid \in Nat /\ price * paid >= due * scale
  <2> HIDE DEF due
  <2>. QED
    BY <1>2, CeilBounds DEF AmountFromValueCeil
<1>4. due <= worth /\ worth \in Nat
  <2> HIDE DEF due, paid
  <2>1. scale * due <= paid * price
    <3>1. scale * due = due * scale /\ paid * price = price * paid
      BY <1>2, <1>3, SMT
    <3>. QED
      BY <1>3, <3>1
  <2>. QED
    BY <1>2, <1>3, <2>1, FloorGreatest, FloorBounds DEF ValueE9
<1> HIDE DEF due, paid, worth
<1>5. value * (BPS - cap) <= value * (BPS - prem)
  BY <1>1, SMT
<1>6. BPS * due <= BPS * worth /\ BPS * worth = worth * BPS
  BY <1>1, <1>2, <1>4, SMT
<1>7. {value * (BPS - cap), value * (BPS - prem), BPS * due, BPS * worth}
        \subseteq Nat
  BY <1>1, <1>2, <1>4, ProductIsNat
<1>8. worth * BPS >= value * (BPS - cap)
  BY <1>2, <1>5, <1>6, <1>7
<1>. QED
  BY <1>8 DEF due, paid, worth

\* A bid moves two vaults, and pays for what it takes.
LEMMA BidIsPaidFor ==
  ASSUME Safe, NEW s \in Mints, NEW b \in Mints, NEW sold \in SellAmounts,
         NEW maxBuy, Bid(s, b, sold, maxBuy)
  PROVE  /\ s \in components /\ b \in components /\ s # b
         /\ vault' = [vault EXCEPT ![s] = vault'[s], ![b] = vault'[b]]
         /\ vault'[s] <= vault[s] /\ vault'[b] >= vault[b]
         /\ PaidFor(s, b)
<1>1. TypeOK /\ sold \in Nat
  BY InputTypes DEF Safe
<1> DEFINE bought == BuyAmount(s, b, sold)
<1>2. /\ s \in components /\ b \in components /\ s # b
      /\ vault' = [vault EXCEPT ![s] = @ - sold, ![b] = @ + bought]
      /\ bought \in Nat
  BY <1>1, BidEffect, U64IsNat
<1>3. vault \in [Mints -> U64] /\ vault[s] \in Nat /\ vault[b] \in Nat
  BY <1>1, U64IsNat DEF TypeOK
<1>4. /\ vault[s] - vault'[s] = sold /\ vault'[b] - vault[b] = bought
      /\ vault'[s] <= vault[s] /\ vault'[b] >= vault[b]
      /\ vault' = [vault EXCEPT ![s] = vault'[s], ![b] = vault'[b]]
  <2> HIDE DEF bought
  <2>1. vault'[s] = vault[s] - sold /\ vault'[b] = vault[b] + bought
    BY <1>2, <1>3
  <2>2. vault' = [vault EXCEPT ![s] = vault'[s], ![b] = vault'[b]]
    BY <1>2, <1>3, <2>1
  <2>. QED
    BY <1>1, <1>2, <1>3, <2>1, <2>2
<1>5. PaidFor(s, b)
  <2> DEFINE value == ValueE9(sold, DECIMALS_SCALE[s], refPrice[s])
  <2>1. /\ refPrice[s] \in Nat /\ refPrice[b] \in Nat
        /\ DECIMALS_SCALE[s] \in Nat \ {0} /\ DECIMALS_SCALE[b] \in Nat \ {0}
    BY <1>1, U64IsNat, IndexAssumption DEF TypeOK
  <2>2. refPrice[b] # 0
    BY <1>2 DEF Safe, Lifecycle, Bid
  <2>3. value \in Nat
    BY <1>1, <2>1, FloorBounds DEF ValueE9
  <2>4. params.maxPremium \in 0 .. BPS
    BY <1>1, IndexAssumption, MathAssumption DEF TypeOK, WithinCaps
  <2>5. Premium \in Int /\ Premium <= params.maxPremium
    <3>1. Premium <= params.maxPremium
      BY DEF Bid, PremiumAllowed
    <3>2. /\ PremiumDefined(rebalance.startTs, rebalance.endTs, now)
          /\ rebalance \in RebalanceType /\ now \in Nat
      BY <1>1, IndexAssumption DEF Bid, TypeOK
    <3>3. Premium \in Int
      BY <3>2 DEF Premium, PremiumAt, PremiumDefined, RebalanceType
    <3>. QED
      BY <3>1, <3>3
  <2>6. bought = AmountFromValueCeil(MulDivCeil(value, BPS - Premium, BPS),
                                     DECIMALS_SCALE[b], refPrice[b])
    BY DEF BuyAmount, ValueIn
  <2> HIDE DEF value, bought
  <2>7. ValueE9(bought, DECIMALS_SCALE[b], refPrice[b]) * BPS
          >= value * (BPS - params.maxPremium)
    <3> DEFINE prem == Premium
               cap == params.maxPremium
               scale == DECIMALS_SCALE[b]
               price == refPrice[b]
    <3>1. /\ prem \in Int /\ cap \in 0 .. BPS /\ prem <= cap
          /\ scale \in Nat \ {0} /\ price \in Nat \ {0}
          /\ bought = AmountFromValueCeil(MulDivCeil(value, BPS - prem, BPS),
                                          scale, price)
      BY <2>1, <2>2, <2>4, <2>5, <2>6
    <3> HIDE DEF prem, cap, scale, price
    <3>2. ValueE9(bought, scale, price) * BPS >= value * (BPS - cap)
      BY <2>3, <3>1, MarkedValue
    <3>. QED
      BY <3>2 DEF cap, scale, price
  <2>. QED
    BY <1>4, <2>7 DEF PaidFor, value
<1>. QED
  BY <1>2, <1>4, <1>5

LEMMA FillIsFair == Safe /\ Next => FairFill
<1> SUFFICES ASSUME Safe, Next, Fill
             PROVE  \E s, b \in components :
                      /\ s # b
                      /\ vault' = [vault EXCEPT ![s] = vault'[s],
                                                ![b] = vault'[b]]
                      /\ vault'[b] >= vault[b]
                      /\ PaidFor(s, b)
  BY DEF FairFill
<1>1. PICK s \in Mints, b \in Mints, sold \in SellAmounts, maxBuy \in Limits :
        Bid(s, b, sold, maxBuy)
  BY FillIsBid
<1>. QED
  BY <1>1, BidIsPaidFor

\* No plan, ceiling or order of fills lets a bidder underpay.
THEOREM FillsAlwaysFair == Spec => FillFairlyPriced
<1>1. Safe /\ [Next]_vars => [FairFill]_vars
  BY FillIsFair
<1>. QED
  BY <1>1, SafeAlways, PTL DEF Spec, FillFairlyPriced

-----------------------------------------------------------------------------
(* The bounds of a fill.                                                   *)

LEMMA FillIsInsidePlan == Safe /\ Next => InsidePlan
<1> SUFFICES ASSUME Safe, Next, Fill
             PROVE  /\ \A c \in components :
                         /\ vault'[c] < vault[c] => vault'[c] >= TargetBalance(c)
                         /\ vault'[c] > vault[c] => vault'[c] <= BuyCap(c)
                    /\ NavE6(vault', refPrice) >= rebalance.navFloor
  BY DEF InsidePlan
<1>1. PICK s \in Mints, b \in Mints, sold \in SellAmounts, maxBuy \in Limits :
        Bid(s, b, sold, maxBuy)
  BY FillIsBid
<1>2. TypeOK /\ sold \in Nat
  BY InputTypes DEF Safe
<1> DEFINE bought == BuyAmount(s, b, sold)
<1>3. /\ s # b /\ vault' = [vault EXCEPT ![s] = @ - sold, ![b] = @ + bought]
      /\ bought \in Nat
  BY <1>1, <1>2, BidEffect, U64IsNat
<1>4. /\ sold <= vault[s] - TargetBalance(s) /\ TargetBalance(s) \in Nat
      /\ bought <= BuyCap(b) - vault[b] /\ BuyCap(b) \in Nat
      /\ NavE6(vault', refPrice) >= rebalance.navFloor
  BY <1>1, U64IsNat DEF Bid, BidArithmeticFits, SellRoom
<1> HIDE DEF bought
<1>5. ASSUME NEW c \in components
      PROVE  /\ vault'[c] < vault[c] => vault'[c] >= TargetBalance(c)
             /\ vault'[c] > vault[c] => vault'[c] <= BuyCap(c)
  <2>1. c \in Mints /\ vault \in [Mints -> U64] /\ vault[c] \in Nat
    BY <1>2, U64IsNat DEF TypeOK
  <2>2. CASE c = s
    <3>1. vault'[c] = vault[c] - sold
      BY <1>3, <2>1, <2>2
    <3>. QED
      BY <1>2, <1>4, <2>1, <2>2, <3>1
  <2>3. CASE c = b
    <3>1. vault'[c] = vault[c] + bought
      BY <1>3, <2>1, <2>3
    <3>. QED
      BY <1>3, <1>4, <2>1, <2>3, <3>1
  <2>4. CASE c # s /\ c # b
    <3>1. vault'[c] = vault[c]
      BY <1>3, <2>1, <2>4
    <3>. QED
      BY <2>1, <3>1
  <2>. QED
    BY <2>2, <2>3, <2>4
<1>. QED
  BY <1>4, <1>5

\* Whatever came before it, a fill stays inside its plan.
THEOREM FillsAlwaysBounded == Spec => FillBounded
<1>1. Safe /\ [Next]_vars => [InsidePlan]_vars
  BY FillIsInsidePlan
<1>. QED
  BY <1>1, SafeAlways, PTL DEF Spec, FillBounded

-----------------------------------------------------------------------------
(* Who may change the rules.                                               *)

LEMMA StepIsGoverned == Safe /\ Next => Governed
<1> SUFFICES ASSUME Safe, Next, authority["governor"] \in Keys \ Signers
             PROVE  /\ UNCHANGED <<authority, params>>
                    /\ state = "paused" => state' = "paused"
  BY DEF Governed
<1>1. state # "absent"
  BY IndexAssumption DEF Safe, Lifecycle
<1>2. CASE SetupNext
  BY <1>1, <1>2 DEF SetupNext, InitIndex, AddComponent, SealIndex, index
<1>3. CASE FundNext
  BY <1>3 DEF FundNext, Issue, IssueInto, Redeem, AccrueFees
<1>4. CASE AuctionNext
  <2>1. ASSUME NEW by, NEW target, NEW price, NEW p,
               ProposeRebalance(by, target, price, p)
        PROVE  UNCHANGED <<state, authority, params>>
    BY <2>1 DEF ProposeRebalance
  <2>2. ASSUME NEW s, NEW b, NEW sold, NEW maxBuy, Bid(s, b, sold, maxBuy)
        PROVE  UNCHANGED <<state, authority, params>>
    BY <2>2 DEF Bid
  <2>3. ASSUME NEW by, EndRebalance(by)
        PROVE  UNCHANGED <<state, authority, params>>
    BY <2>3 DEF EndRebalance
  <2>. QED
    BY <1>4, <2>1, <2>2, <2>3 DEF AuctionNext
<1>5. CASE GovernanceNext
  <2>1. ASSUME NEW by \in Signers, NEW paused \in BOOLEAN, SetPaused(by, paused)
        PROVE  UNCHANGED <<authority, params>> /\ state' = "paused"
    BY <2>1 DEF SetPaused, MayPause, index
  <2>. QED
    BY <1>5, <2>1 DEF GovernanceNext, SetParams, SetAuthority
<1>6. CASE TokenNext
  BY <1>6
  DEF TokenNext, FounderMints, HandOverMint, RevokeFreezer, Freeze,
      OpenAccount, CloseAccount, Transfer, Burn, Donate, index
<1>7. CASE Tick
  BY <1>7 DEF Tick, index
<1>. QED
  BY <1>2, <1>3, <1>4, <1>5, <1>6, <1>7 DEF Next

\* While the governor's key stays silent the rules stay as they are.
THEOREM OnlyGovernorChangesRules == Spec => GovernorOnly
<1>1. Safe /\ [Next]_vars => [Governed]_vars
  BY StepIsGoverned
<1>. QED
  BY <1>1, SafeAlways, PTL DEF Spec, GovernorOnly

-----------------------------------------------------------------------------
(* Redemption.                                                             *)

\* processor.rs:590: a holder whose tokens are part of the supply and can be
\* moved is never refused for want of assets: whatever donations, fills,
\* fees and pauses came before, the vaults cover what the units promise.
THEOREM RedemptionCovered ==
  ASSUME Safe, Sealed, NEW h \in Keys, NEW amount \in 1 .. holding[h],
         CanReceive(h), holding[h] <= supply,
         FeePayable(amount), NoOverflow(amount)
  PROVE  RedeemAccepted(h, amount, NothingAsked)
<1> DEFINE fee == RedeemFee(amount)
           net == amount - fee
<1>1. TypeOK
  BY DEF Safe
<1>2. /\ holding[h] \in Nat /\ supply \in Nat
      /\ amount \in Nat \ {0} /\ amount <= holding[h]
  BY <1>1, U64IsNat DEF TypeOK
<1>3. AccrueAccepted
  BY DEF AccrueAccepted, AccrueAcceptedIn, AccrueFits, FeePayable, NoOverflow,
         CanReceive
<1>4. Owed \in Nat /\ SupplyAfterFee \in Nat /\ SupplyAfterFee >= amount
  <2>1. Owed \in Nat
    BY <1>1, <1>3, AccrueType DEF AccrueAccepted, AccrueAcceptedIn
  <2>. QED
    BY <1>2, <2>1 DEF SupplyAfterFee
<1>5. fee \in 0 .. amount
  <2>1. params.redeemFee \in 0 .. BPS
    BY <1>1, MathAssumption, IndexAssumption DEF TypeOK, WithinCaps
  <2>. QED
    BY <1>2, <2>1, FeeAtMostAmount DEF RedeemFee
<1>6. HoldingAfterFee[h] >= amount
  <2> DEFINE to == authority["feeRecipient"]
  <2>1. HoldingAfterFee[h] = IF h = to THEN holding[h] + Owed ELSE holding[h]
    BY <1>1 DEF HoldingAfterFee, PayFee, Credit, TypeOK
  <2>. QED
    BY <1>2, <1>4, <2>1
<1>7. ASSUME NEW c \in components
      PROVE  /\ Payout(amount)[c] >= NothingAsked[c]
             /\ Payout(amount)[c] <= vault[c]
  <2>1. vault[c] \in Nat
    BY <1>1, U64IsNat DEF TypeOK
  <2>2. /\ SupplyAfterFee \in Nat \ {0}
        /\ net \in Nat /\ net \in 0 .. SupplyAfterFee
    BY <1>2, <1>4, <1>5
  <2>3. QuotedUnits[c] = UnitsFromBalance(vault[c], SupplyAfterFee)
    BY <1>1, <2>2, QuoteAtSupply DEF Derived
  <2>4. Payout(amount)[c] = UnitsOut(QuotedUnits[c], net)
    BY DEF Payout
  <2>5. QuotedUnits[c] \in Nat
    BY <2>1, <2>2, <2>3, UnitsNeverOverstate
  <2> HIDE DEF net
  <2>6. UnitsOut(QuotedUnits[c], net) <= vault[c]
    BY <2>1, <2>2, <2>3, RedeemKeepsUnits
  <2>7. UnitsOut(QuotedUnits[c], net) \in Nat
    BY <2>2, <2>5, UnitsInOutBounds
  <2>. QED
    BY <2>4, <2>6, <2>7 DEF NothingAsked
<1>8. RedeemFee(amount) > 0 => CanReceive(authority["feeRecipient"])
  BY DEF FeePayable
<1>9. Fits(QuotedUnits) /\ Fits(UnitsAfterRedeem(amount))
  BY DEF NoOverflow
<1>. QED
  BY <1>2, <1>3, <1>4, <1>5, <1>6, <1>7, <1>8, <1>9 DEF RedeemAccepted

-----------------------------------------------------------------------------
(* Holdings.                                                               *)

\* What makes HoldersWhole inductive: the supply is the sum of the balances
\* from the founder's mint on, a closed account held nothing, and nobody can
\* freeze once the index exists.
Accounted ==
  /\ supply = SumFunction(holding)
  /\ \A k \in Keys : holding[k] > 0 => k \in accounts
  /\ state # "absent" =>
       /\ mint.freezer = "none"
       /\ \A k \in Keys : holding[k] > 0 => k \notin frozen

LEMMA SumOfHoldings ==
  ASSUME NEW h \in [Keys -> Nat]
  PROVE  SumFunction(h) \in Nat /\ \A k \in Keys : h[k] <= SumFunction(h)
BY IndexAssumption, SumType

LEMMA HoldingReplaced ==
  ASSUME NEW h \in [Keys -> Nat], NEW k \in Keys, NEW v \in Nat
  PROVE  SumFunction([h EXCEPT ![k] = v]) = SumFunction(h) - h[k] + v
<1>1. IsFiniteSet(Keys)
  BY IndexAssumption
<1>. QED
  BY <1>1, SumUpdate

\* A credit adds its amount to the sum, and to the account named.
LEMMA CreditSum ==
  ASSUME NEW h \in [Keys -> Nat], NEW k, NEW amount \in Nat,
         amount > 0 => k \in Keys
  PROVE  /\ Credit(h, k, amount) \in [Keys -> Nat]
         /\ SumFunction(Credit(h, k, amount)) = SumFunction(h) + amount
         /\ \A j \in Keys : Credit(h, k, amount)[j] > 0 =>
              h[j] > 0 \/ (j = k /\ amount > 0)
<1>1. Credit(h, k, amount) \in [Keys -> Nat]
  BY CreditType
<1>2. SumFunction(h) \in Nat
  BY SumOfHoldings
<1>3. CASE k \in Keys
  <2> DEFINE sum == h[k] + amount
  <2>2. h[k] \in Nat /\ sum \in Nat /\ sum = h[k] + amount
    BY <1>3
  <2>1. Credit(h, k, amount) = [h EXCEPT ![k] = sum]
    BY <1>3 DEF Credit
  <2> HIDE DEF sum
  <2>3. SumFunction([h EXCEPT ![k] = sum]) = SumFunction(h) - h[k] + sum
    BY <1>3, <2>2, HoldingReplaced
  <2>4. \A j \in Keys : j # k => Credit(h, k, amount)[j] = h[j]
    BY <2>1
  <2>5. SumFunction(Credit(h, k, amount)) = SumFunction(h) + amount
    BY <1>2, <2>1, <2>2, <2>3
  <2>6. \A j \in Keys : Credit(h, k, amount)[j] > 0 =>
          h[j] > 0 \/ (j = k /\ amount > 0)
    BY <2>2, <2>1, <2>4
  <2>. QED
    BY <1>1, <2>5, <2>6
<1>4. CASE k \notin Keys
  <2>1. Credit(h, k, amount) = h
    BY <1>4 DEF Credit
  <2>2. amount = 0
    BY <1>4
  <2>. QED
    BY <1>1, <1>2, <2>1, <2>2
<1>. QED
  BY <1>3, <1>4

\* A debit the balance covers takes its amount off the sum.
LEMMA DebitSum ==
  ASSUME NEW h \in [Keys -> Nat], NEW k \in Keys, NEW amount \in Nat,
         amount <= h[k]
  PROVE  /\ [h EXCEPT ![k] = @ - amount] \in [Keys -> Nat]
         /\ SumFunction([h EXCEPT ![k] = @ - amount]) = SumFunction(h) - amount
         /\ \A j \in Keys : [h EXCEPT ![k] = @ - amount][j] <= h[j]
<1> DEFINE left == h[k] - amount
<1>1. h[k] \in Nat /\ left \in Nat /\ left <= h[k] /\ left = h[k] - amount
  OBVIOUS
<1>2. SumFunction(h) \in Nat
  BY SumOfHoldings
<1>3. [h EXCEPT ![k] = @ - amount] = [h EXCEPT ![k] = left]
  OBVIOUS
<1> HIDE DEF left
<1>4. SumFunction([h EXCEPT ![k] = left]) = SumFunction(h) - h[k] + left
  BY <1>1, HoldingReplaced
<1>5. SumFunction([h EXCEPT ![k] = left]) = SumFunction(h) - amount
  BY <1>1, <1>2, <1>4
<1>6. [h EXCEPT ![k] = left] \in [Keys -> Nat]
  BY <1>1
<1>7. \A j \in Keys : [h EXCEPT ![k] = left][j] <= h[j]
  BY <1>1
<1>. QED
  BY <1>3, <1>5, <1>6, <1>7

LEMMA ReceiverHasKey ==
  ASSUME TypeOK, NEW k, CanReceive(k)
  PROVE  k \in Keys
BY DEF TypeOK, CanReceive, CanReceiveIn

\* Balances that move between accounts able to receive, with the supply.
LEMMA MoneyMoves ==
  ASSUME TypeOK, Accounted, UNCHANGED <<state, mint, accounts, frozen>>,
         supply' = SumFunction(holding'),
         \A j \in Keys : holding'[j] > 0 => holding[j] > 0 \/ CanReceive(j)
  PROVE  Accounted'
BY DEF Accounted, CanReceive, CanReceiveIn

\* What the fee recipient is paid, in each of the instructions that pay it.
LEMMA FeeSum ==
  ASSUME TypeOK, NEW h \in [Keys -> Nat], NEW fee \in Nat,
         fee > 0 => CanReceive(authority["feeRecipient"])
  PROVE  /\ PayFee(h, fee) \in [Keys -> Nat]
         /\ SumFunction(PayFee(h, fee)) = SumFunction(h) + fee
         /\ \A j \in Keys : PayFee(h, fee)[j] > 0 => h[j] > 0 \/ CanReceive(j)
<1> DEFINE to == authority["feeRecipient"]
<1>1. fee > 0 => to \in Keys
  BY ReceiverHasKey
<1> HIDE DEF to
<1>2. /\ Credit(h, to, fee) \in [Keys -> Nat]
      /\ SumFunction(Credit(h, to, fee)) = SumFunction(h) + fee
      /\ \A j \in Keys : Credit(h, to, fee)[j] > 0 =>
           h[j] > 0 \/ (j = to /\ fee > 0)
  BY <1>1, CreditSum
<1>. QED
  BY <1>2 DEF PayFee, to

LEMMA AccountedIssue ==
  ASSUME TypeOK, Accounted, NEW to, NEW amount \in Nat, NEW maxIn,
         Issue(to, amount, maxIn)
  PROVE  Accounted'
<1> DEFINE fee  == IssueFee(amount)
           paid == Credit(holding, to, amount)
<1>1. /\ AccrueAccepted /\ CanReceive(to)
      /\ fee > 0 => CanReceive(authority["feeRecipient"])
      /\ supply' = SupplyAfterFee + (amount + fee)
      /\ holding' = PayFee(paid, Owed + fee)
      /\ UNCHANGED <<state, mint, accounts, frozen>>
  BY DEF Issue, IssueInto, AccrueAccepted, CanReceive
<1>2. Owed \in Nat /\ supply \in Nat /\ holding \in [Keys -> Nat]
  BY <1>1, AccrueType, U64IsNat DEF TypeOK, AccrueAccepted, AccrueAcceptedIn
<1>3. fee \in Nat
  <2>1. params.issueFee \in Nat /\ BPS \in Nat \ {0}
    BY MathAssumption, IndexAssumption DEF TypeOK, WithinCaps
  <2>. QED
    BY <2>1, CeilBounds DEF IssueFee
<1>4. to \in Keys
  BY <1>1, ReceiverHasKey
<1>5. /\ paid \in [Keys -> Nat] /\ SumFunction(paid) = SumFunction(holding) + amount
      /\ \A j \in Keys : paid[j] > 0 => holding[j] > 0 \/ j = to
  BY <1>2, <1>4, CreditSum
<1>6. Owed + fee > 0 => CanReceive(authority["feeRecipient"])
  BY <1>1, <1>2, <1>3 DEF AccrueAccepted, AccrueAcceptedIn, CanReceive
<1> HIDE DEF fee, paid
<1>7. /\ SumFunction(holding') = SumFunction(paid) + (Owed + fee)
      /\ \A j \in Keys : holding'[j] > 0 => paid[j] > 0 \/ CanReceive(j)
  <2>1. Owed + fee \in Nat
    BY <1>2, <1>3
  <2>. QED
    BY <1>1, <1>5, <1>6, <2>1, FeeSum
<1>8. supply' = SumFunction(holding')
  BY <1>1, <1>2, <1>3, <1>5, <1>7 DEF Accounted, SupplyAfterFee
<1>9. \A j \in Keys : holding'[j] > 0 => holding[j] > 0 \/ CanReceive(j)
  BY <1>1, <1>5, <1>7
<1>. QED
  BY <1>1, <1>8, <1>9, MoneyMoves

LEMMA AccountedRedeem ==
  ASSUME TypeOK, Accounted, NEW by, NEW amount \in Nat, NEW minOut,
         Redeem(by, amount, minOut)
  PROVE  Accounted'
<1> DEFINE fee  == RedeemFee(amount)
           held == HoldingAfterFee
           left == [held EXCEPT ![by] = @ - amount]
<1>1. /\ AccrueAccepted /\ CanReceive(by) /\ held[by] >= amount
      /\ fee > 0 => CanReceive(authority["feeRecipient"])
      /\ supply' = SupplyAfterFee - amount + fee
      /\ holding' = PayFee(left, fee)
      /\ UNCHANGED <<state, mint, accounts, frozen>>
  BY DEF Redeem, RedeemAccepted, SupplyAfterRedeem
<1>2. Owed \in Nat /\ supply \in Nat /\ holding \in [Keys -> Nat]
  BY <1>1, AccrueType, U64IsNat DEF TypeOK, AccrueAccepted, AccrueAcceptedIn
<1>3. fee \in Nat
  <2>1. params.redeemFee \in Nat /\ BPS \in Nat \ {0}
    BY MathAssumption, IndexAssumption DEF TypeOK, WithinCaps
  <2>. QED
    BY <2>1, CeilBounds DEF RedeemFee
<1>4. by \in Keys
  BY <1>1, ReceiverHasKey
<1>5. /\ held \in [Keys -> Nat] /\ SumFunction(held) = SumFunction(holding) + Owed
      /\ \A j \in Keys : held[j] > 0 => holding[j] > 0 \/ CanReceive(j)
  BY <1>1, <1>2, FeeSum
  DEF HoldingAfterFee, AccrueAccepted, AccrueAcceptedIn, CanReceive
<1> HIDE DEF held
<1>6. /\ left \in [Keys -> Nat] /\ SumFunction(left) = SumFunction(held) - amount
      /\ \A j \in Keys : left[j] <= held[j]
  BY <1>1, <1>4, <1>5, DebitSum
<1> HIDE DEF fee, left
<1>7. /\ SumFunction(holding') = SumFunction(left) + fee
      /\ \A j \in Keys : holding'[j] > 0 => left[j] > 0 \/ CanReceive(j)
  BY <1>1, <1>3, <1>6, FeeSum
<1>8. supply' = SumFunction(holding')
  BY <1>1, <1>2, <1>3, <1>5, <1>6, <1>7 DEF Accounted, SupplyAfterFee
<1>9. \A j \in Keys : holding'[j] > 0 => holding[j] > 0 \/ CanReceive(j)
  BY <1>5, <1>6, <1>7
<1>. QED
  BY <1>1, <1>8, <1>9, MoneyMoves

LEMMA AccountedAccrue ==
  ASSUME TypeOK, Accounted, AccrueFees
  PROVE  Accounted'
<1>1. /\ AccrueAccepted
      /\ supply' = SupplyAfterFee /\ holding' = PayFee(holding, Owed)
      /\ UNCHANGED <<state, mint, accounts, frozen>>
  BY DEF AccrueFees, HoldingAfterFee
<1>2. Owed \in Nat /\ holding \in [Keys -> Nat]
  BY <1>1, AccrueType DEF TypeOK, AccrueAccepted, AccrueAcceptedIn
<1>3. /\ SumFunction(holding') = SumFunction(holding) + Owed
      /\ \A j \in Keys : holding'[j] > 0 => holding[j] > 0 \/ CanReceive(j)
  BY <1>1, <1>2, FeeSum DEF AccrueAccepted, AccrueAcceptedIn, CanReceive
<1>4. supply' = SumFunction(holding')
  BY <1>1, <1>3 DEF Accounted, SupplyAfterFee
<1>. QED
  BY <1>1, <1>3, <1>4, MoneyMoves

LEMMA AccountedTransfer ==
  ASSUME TypeOK, Accounted, NEW from, NEW to, NEW amount \in Nat,
         Transfer(from, to, amount)
  PROVE  Accounted'
<1> DEFINE left == [holding EXCEPT ![from] = @ - amount]
<1>1. /\ CanReceive(from) /\ CanReceive(to) /\ holding[from] >= amount
      /\ holding' = Credit(left, to, amount)
      /\ UNCHANGED <<state, mint, supply, accounts, frozen>>
  BY DEF Transfer
<1>2. from \in Keys /\ to \in Keys /\ holding \in [Keys -> Nat]
  BY <1>1, ReceiverHasKey DEF TypeOK
<1>3. /\ left \in [Keys -> Nat] /\ SumFunction(left) = SumFunction(holding) - amount
      /\ \A j \in Keys : left[j] <= holding[j]
  BY <1>1, <1>2, DebitSum
<1> HIDE DEF left
<1>4. /\ SumFunction(holding') = SumFunction(left) + amount
      /\ \A j \in Keys : holding'[j] > 0 => left[j] > 0 \/ j = to
  BY <1>1, <1>2, <1>3, CreditSum
<1>5. supply \in Nat
  BY U64IsNat DEF TypeOK
<1>6. supply' = SumFunction(holding')
  BY <1>1, <1>3, <1>4, <1>5 DEF Accounted
<1>7. \A j \in Keys : holding'[j] > 0 => holding[j] > 0 \/ CanReceive(j)
  BY <1>1, <1>2, <1>3, <1>4
<1>. QED
  BY <1>1, <1>6, <1>7, MoneyMoves

LEMMA AccountedToken == TypeOK /\ Lifecycle /\ Accounted /\ TokenNext => Accounted'
<1> SUFFICES ASSUME TypeOK, Lifecycle, Accounted, TokenNext
             PROVE  Accounted'
  OBVIOUS
<1> USE DEF index
<1>1. ASSUME NEW k \in Holders, NEW amount \in Amounts, FounderMints(k, amount)
      PROVE  Accounted'
  <2>1. /\ CanReceive(k) /\ supply' = supply + amount
        /\ holding' = Credit(holding, k, amount)
        /\ UNCHANGED <<state, mint, accounts, frozen>>
    BY <1>1 DEF FounderMints
  <2>2. k \in Keys /\ amount \in Nat /\ holding \in [Keys -> Nat]
    BY <2>1, ReceiverHasKey, InputTypes DEF TypeOK
  <2>3. /\ SumFunction(holding') = SumFunction(holding) + amount
        /\ \A j \in Keys : holding'[j] > 0 => holding[j] > 0 \/ j = k
    BY <2>1, <2>2, CreditSum
  <2>4. supply' = SumFunction(holding')
    BY <2>1, <2>3 DEF Accounted
  <2>. QED
    BY <2>1, <2>3, <2>4, MoneyMoves
<1>2. CASE HandOverMint
  BY <1>2 DEF HandOverMint, Accounted, TypeOK, MintType
<1>3. CASE RevokeFreezer
  BY <1>3 DEF RevokeFreezer, Accounted, TypeOK, MintType
<1>4. ASSUME NEW k \in Holders, Freeze(k)
      PROVE  Accounted'
  BY <1>4 DEF Freeze, Accounted
<1>5. ASSUME NEW k \in Holders, OpenAccount(k)
      PROVE  Accounted'
  BY <1>5 DEF OpenAccount, Accounted
<1>6. ASSUME NEW k \in Holders, CloseAccount(k)
      PROVE  Accounted'
  BY <1>6 DEF CloseAccount, Accounted
<1>7. ASSUME NEW from \in Holders, NEW to \in Keys, NEW amount \in Amounts,
             Transfer(from, to, amount)
      PROVE  Accounted'
  BY <1>7, InputTypes, AccountedTransfer
<1>8. ASSUME NEW k \in Holders, NEW amount \in Amounts, Burn(k, amount)
      PROVE  Accounted'
  <2>1. /\ CanReceive(k) /\ holding[k] >= amount
        /\ supply' = supply - amount
        /\ holding' = [holding EXCEPT ![k] = @ - amount]
        /\ UNCHANGED <<state, mint, accounts, frozen>>
    BY <1>8 DEF Burn
  <2>2. k \in Keys /\ amount \in Nat /\ holding \in [Keys -> Nat]
    BY <2>1, ReceiverHasKey, InputTypes DEF TypeOK
  <2>3. /\ SumFunction(holding') = SumFunction(holding) - amount
        /\ holding' \in [Keys -> Nat]
        /\ \A j \in Keys : holding'[j] <= holding[j]
    BY <2>1, <2>2, DebitSum
  <2>4. supply' = SumFunction(holding')
    BY <2>1, <2>3 DEF Accounted
  <2>5. \A j \in Keys : holding'[j] > 0 => holding[j] > 0
    BY <2>2, <2>3
  <2>. QED
    BY <2>1, <2>4, <2>5, MoneyMoves
<1>9. ASSUME NEW c \in Mints, NEW amount \in Donations, Donate(c, amount)
      PROVE  Accounted'
  BY <1>9 DEF Donate, Accounted
<1>. QED
  BY <1>1, <1>2, <1>3, <1>4, <1>5, <1>6, <1>7, <1>8, <1>9 DEF TokenNext

\* No holding is frozen when the index begins: there are no holdings.
LEMMA AccountedSetup == TypeOK /\ Accounted /\ SetupNext => Accounted'
<1> SUFFICES ASSUME TypeOK, Accounted, SetupNext PROVE Accounted'
  OBVIOUS
<1>1. ASSUME NEW who, NEW p, InitIndex(who, p)
      PROVE  Accounted'
  <2>1. supply = 0 /\ mint.freezer = "none"
    BY <1>1 DEF InitIndex, MintControlled
  <2>2. \A k \in Keys : holding[k] \in Nat /\ holding[k] <= supply
    BY SumOfHoldings DEF Accounted, TypeOK
  <2>3. \A k \in Keys : ~(holding[k] > 0)
    BY <2>1, <2>2
  <2>. QED
    BY <1>1, <2>1, <2>3 DEF InitIndex, Accounted, ledger
<1>2. ASSUME NEW by, NEW c, NEW u, AddComponent(by, c, u)
      PROVE  Accounted'
  BY <1>2 DEF AddComponent, Accounted, ledger
<1>3. ASSUME NEW by, SealIndex(by)
      PROVE  Accounted'
  BY <1>3 DEF SealIndex, Accounted, ledger
<1>. QED
  BY <1>1, <1>2, <1>3 DEF SetupNext

LEMMA AccountedStep ==
  TypeOK /\ Lifecycle /\ Accounted /\ [Next]_vars => Accounted'
<1> SUFFICES ASSUME TypeOK, Lifecycle, Accounted, [Next]_vars PROVE Accounted'
  OBVIOUS
<1>1. CASE FundNext
  BY <1>1, InputTypes, AccountedIssue, AccountedRedeem, AccountedAccrue
  DEF FundNext
<1>2. ASSUME UNCHANGED <<mint, supply, holding, accounts, frozen>>,
             state' # "absent" => state # "absent"
      PROVE  Accounted'
  BY <1>2 DEF Accounted
<1>3. CASE AuctionNext
  <2> DEFINE Kept == UNCHANGED <<state, mint, supply, holding, accounts, frozen>>
  <2>1. Kept
    <3>1. ASSUME NEW by, NEW target, NEW price, NEW p,
                 ProposeRebalance(by, target, price, p)
          PROVE  Kept
      BY <3>1 DEF ProposeRebalance, ledger
    <3>2. ASSUME NEW s, NEW b, NEW sold, NEW maxBuy, Bid(s, b, sold, maxBuy)
          PROVE  Kept
      BY <3>2 DEF Bid
    <3>3. ASSUME NEW by, EndRebalance(by)
          PROVE  Kept
      BY <3>3 DEF EndRebalance, ledger
    <3> HIDE DEF Kept
    <3>. QED
      BY <1>3, <3>1, <3>2, <3>3 DEF AuctionNext
  <2>. QED
    BY <1>2, <2>1
<1>4. CASE GovernanceNext
  BY <1>2, <1>4
  DEF GovernanceNext, SetParams, SetAuthority, SetPaused, Sealed, ledger
<1>5. CASE Tick
  BY <1>2, <1>5 DEF Tick, ledger
<1>6. CASE UNCHANGED vars
  BY <1>2, <1>6 DEF vars, ledger
<1>. QED
  BY <1>1, <1>3, <1>4, <1>5, <1>6, AccountedSetup, AccountedToken DEF Next

THEOREM AlwaysAccounted == Spec => []Accounted
<1>1. Init => Accounted
  <2> SUFFICES ASSUME Init PROVE Accounted
    OBVIOUS
  <2>1. holding = [k \in Keys |-> 0] /\ supply = 0 /\ state = "absent"
    BY DEF Init
  <2>2. SumFunction(holding) = 0
    BY <2>1, IndexAssumption, SumOfZeros
  <2>. QED
    BY <2>1, <2>2 DEF Accounted
<1>2. Safe /\ Accounted /\ [Next]_vars => Accounted'
  BY AccountedStep DEF Safe
<1>. QED
  BY <1>1, <1>2, SafeAlways, PTL DEF Spec

\* From the first block of the index on, the supply is what the holders have,
\* every unit of it in an account its owner can move.
THEOREM HoldersAlwaysWhole == Spec => []HoldersWhole
<1>1. Accounted => HoldersWhole
  BY DEF Accounted, HoldersWhole, CanReceive, CanReceiveIn
<1>. QED
  BY <1>1, AlwaysAccounted, PTL

\* processor.rs:590: paused, live, in or out of an auction, whatever anybody
\* did before, nothing but an unpayable fee refuses a holder who redeems.
THEOREM RedemptionAlwaysOpen == Spec => []RedemptionOpen
<1>1. Safe /\ Accounted => RedemptionOpen
  <2> SUFFICES ASSUME Safe, Accounted, Sealed,
                      NEW h \in Keys, NEW amount \in 1 .. holding[h],
                      FeePayable(amount), NoOverflow(amount)
               PROVE  RedeemAccepted(h, amount, NothingAsked)
    BY DEF RedemptionOpen
  <2>1. holding \in [Keys -> Nat] /\ supply = SumFunction(holding)
    BY DEF Safe, TypeOK, Accounted
  <2>2. holding[h] > 0
    BY <2>1
  <2>3. CanReceive(h)
    BY <2>2 DEF Accounted, Sealed, CanReceive, CanReceiveIn
  <2>4. holding[h] <= supply
    BY <2>1, SumOfHoldings
  <2>. QED
    BY <2>3, <2>4, RedemptionCovered
<1>. QED
  BY <1>1, SafeAlways, AlwaysAccounted, PTL
===============================================================================
