----------------------------- MODULE FlockIndex -----------------------------
(***************************************************************************)
(* The on-chain index program (program/src/processor.rs, state.rs) over    *)
(* the SPL tokens it holds.                                                *)
(*                                                                         *)
(* A transaction is atomic: an instruction that returns an error leaves no *)
(* trace, so every handler is one action, its early returns are conjuncts  *)
(* and its error paths are the states in which it is not enabled.  The     *)
(* accounts the handlers check by address (the PDA, the vaults, the token  *)
(* program) are fixed by the variables and need no guard.                  *)
(***************************************************************************)
EXTENDS FlockMath, FiniteSetsExt

CONSTANTS
  Keys,              \* public keys that hold tokens or sign
  Signers,           \* the keys that do sign in this instance
  Mints,             \* component mints that may be added
  None,              \* no authority
  DECIMALS_SCALE,    \* ten to the decimals, per component mint
  NAV_SCALE,         \* USD-e9 in one USD-e6 (1_000 in nav_e6)
  MAX_COMPONENTS,
  MAX_STREAMING_FEE_BPS,
  MAX_MINT_REDEEM_FEE_BPS,
  MAX_PREMIUM_CEILING_BPS,
  MIN_REBALANCE_DELAY,
  MAX_AUCTION_DURATION

CONSTANTS            \* what callers may ask for, and the bounds of an instance
  AuthorityChoices,  \* [governor, manager, feeRecipient] named at creation
  ParamChoices,      \* fee and auction parameters, inside the caps or not
  NewAuthorities,    \* keys set_authority may install
  SeedUnits,         \* units a component may be added with
  Amounts,           \* index amounts issued and redeemed
  Limits,            \* max_in, min_out and max_buy bounds
  TargetChoices,     \* target units a proposal may ask for
  PriceChoices,      \* reference prices a proposal may state
  AuctionChoices,    \* [duration, startPremium, endPremium, maxNavLoss]
  SellAmounts,       \* component amounts bid for
  Donations,         \* component amounts sent straight to a vault
  Holders,           \* keys that use the token program directly
  MintChoices,       \* authorities the index mint may be created with
  InitialAccounts,   \* keys whose index token account exists at the start
  VAULT_LIMIT,       \* bound: no issue or donation takes a vault past this
  SUPPLY_LIMIT,      \* bound: no issuance past this supply
  HORIZON            \* bound: the last instant of the clock

Roles       == {"governor", "manager", "feeRecipient"}
ParamType   == [streamingFee : Nat, issueFee : Nat, redeemFee : Nat,
                maxPremium : Nat, rebalanceDelay : Nat]
MintType    == [authority : {"founder", "index"},
                freezer : {"founder", "none"}]
AuctionType == [duration : Nat, startPremium : Int, endPremium : Int,
                maxNavLoss : Nat]

ASSUME IndexAssumption ==
  /\ IsFiniteSet(Keys) /\ IsFiniteSet(Mints)
  /\ Signers \subseteq Keys
  /\ None \notin Keys
  /\ DECIMALS_SCALE \in [Mints -> Nat \ {0}]
  /\ NAV_SCALE \in Nat \ {0}
  /\ {MAX_COMPONENTS, MAX_STREAMING_FEE_BPS, MAX_MINT_REDEEM_FEE_BPS,
      MAX_PREMIUM_CEILING_BPS, MIN_REBALANCE_DELAY,
      MAX_AUCTION_DURATION, VAULT_LIMIT, SUPPLY_LIMIT, HORIZON}
       \subseteq Nat
  /\ MAX_MINT_REDEEM_FEE_BPS <= BPS
  /\ MAX_PREMIUM_CEILING_BPS <= BPS
  /\ AuthorityChoices \subseteq [Roles -> Keys]
  /\ ParamChoices \subseteq ParamType
  /\ NewAuthorities \subseteq Keys
  /\ SeedUnits \cup Amounts \cup Limits \cup TargetChoices \cup PriceChoices
       \cup SellAmounts \cup Donations \subseteq U64
  /\ AuctionChoices \subseteq AuctionType
  /\ Holders \subseteq Keys /\ InitialAccounts \subseteq Keys
  /\ MintChoices \subseteq MintType

VARIABLES            \* the index account: struct Index
  state,             \* "absent" until init_index, then the STATE_ constants
  authority,         \* the three authorities, by role
  params,            \* the fees, the premium ceiling and the notice period
  lastFeeAccrual,
  components,        \* mints in the component table
  units,             \* per component; 0 for a mint not in the table
  targetUnits,
  refPrice,
  rebalance

VARIABLES            \* the token program
  mint,              \* of the index token: its mint and freeze authorities
  supply,            \* of the index token
  holding,           \* index tokens, by key
  accounts,          \* keys that have an index token account
  frozen,            \* keys whose index token account is frozen
  vault              \* balance of each component vault

VARIABLES            \* the clock, and history no guard reads
  now,
  feeDue,            \* streaming fee rate integrated since the last accrual
  planSupply         \* supply at the proposal of the running rebalance

index  == <<authority, params, components, units, targetUnits, refPrice,
            rebalance>>
ledger == <<mint, supply, holding, accounts, frozen, vault>>
vars   == <<state, lastFeeAccrual, index, ledger, now, feeDue, planSupply>>

\* Rebalance::default() with the time of the last proposal kept.
Closed(at)  == [active |-> FALSE, proposedAt |-> at, startTs |-> 0,
                endTs |-> 0, startPremium |-> 0, endPremium |-> 0,
                maxNavLoss |-> 0, navFloor |-> 0]
NoParams    == [streamingFee |-> 0, issueFee |-> 0, redeemFee |-> 0,
                maxPremium |-> 0, rebalanceDelay |-> 0]

-----------------------------------------------------------------------------
(* Account checks and helpers shared by the handlers.                      *)

Sealed == state \in {"live", "paused"}

CheckFeesUncapped(p) == p.rebalanceDelay >= MIN_REBALANCE_DELAY  \* mutant
CheckFees(p) ==
  /\ p.streamingFee <= MAX_STREAMING_FEE_BPS
  /\ p.issueFee <= MAX_MINT_REDEEM_FEE_BPS
  /\ p.redeemFee <= MAX_MINT_REDEEM_FEE_BPS
  /\ p.maxPremium <= MAX_PREMIUM_CEILING_BPS
  /\ p.rebalanceDelay >= MIN_REBALANCE_DELAY

\* An index token account the program can mint into, among those in `open'.
CanReceiveIn(open, k) == k \in open \ frozen
CanReceive(k)         == CanReceiveIn(accounts, k)

\* sync_units: nothing is refreshed at supply zero.
SyncedUnits(u, v, s) ==
  IF s = 0 THEN u
  ELSE [c \in Mints |-> IF c \in components
                        THEN UnitsFromBalance(v[c], s) ELSE u[c]]

Fits(f) == \A c \in components : f[c] \in U64

NavE6(v, price) ==
  SumFunction([c \in components |->
                 ValueE9(v[c], DECIMALS_SCALE[c], price[c])]) \div NAV_SCALE

\* accrue: what it mints, when it succeeds, and the supply it leaves.
FeePeriod    == now - lastFeeAccrual
Owed         == StreamingFeeTokens(supply, params.streamingFee, FeePeriod)
SupplyAfterFee == supply + Owed
AccrueFits ==
  /\ StreamingFeeDefined(supply, params.streamingFee, FeePeriod)
  /\ SupplyAfterFee \in U64
AccrueAcceptedIn(open) ==
  AccrueFits /\ (Owed > 0 => CanReceiveIn(open, authority["feeRecipient"]))
AccrueAccepted == AccrueAcceptedIn(accounts)
Accrued == lastFeeAccrual' = now /\ feeDue' = 0

\* Balances after crediting `amount' to k, on top of what the fee recipient
\* is minted in the same instruction.
Credit(h, k, amount) == [h EXCEPT ![k] = @ + amount]
PayFee(h, amount)    == Credit(h, authority["feeRecipient"], amount)

-----------------------------------------------------------------------------
(* Setting up: init_index, add_component, seal_index.                      *)

\* Nobody else can print the index token or freeze it, and none exists.
MintUnfrozenOnly == mint.authority = "index" /\ mint.freezer = "none" \* mutant
MintControlled ==
  mint.authority = "index" /\ mint.freezer = "none" /\ supply = 0

InitIndex(who, p) ==
  /\ state = "absent"
  /\ CheckFees(p)
  /\ MintControlled
  /\ state' = "bootstrapping"
  /\ authority' = who
  /\ params' = p
  /\ Accrued
  /\ UNCHANGED <<components, units, targetUnits, refPrice, rebalance, ledger,
                 now, planSupply>>

AddComponent(by, c, u) ==
  /\ state = "bootstrapping"
  /\ by = authority["manager"]
  /\ u # 0
  /\ Cardinality(components) < MAX_COMPONENTS
  /\ c \notin components
  /\ components' = components \cup {c}
  /\ units' = [units EXCEPT ![c] = u]
  /\ targetUnits' = [targetUnits EXCEPT ![c] = u]
  /\ UNCHANGED <<state, lastFeeAccrual, authority, params, refPrice,
                 rebalance, ledger, now, feeDue, planSupply>>

SealIndex(by) ==
  /\ state = "bootstrapping"
  /\ by = authority["manager"]
  /\ components # {}
  /\ state' = "live"
  /\ Accrued
  /\ UNCHANGED <<index, ledger, now, planSupply>>

-----------------------------------------------------------------------------
(* In-kind issuance and redemption.                                        *)

IssueFee(amount)  == MulDivCeil(amount, params.issueFee, BPS)
RedeemFee(amount) == MulDivCeil(amount, params.redeemFee, BPS)

\* The units both handlers price the caller at: accrued, then synced.
CachedUnits == units                                             \* mutant
QuotedUnits == SyncedUnits(units, vault, SupplyAfterFee)

\* An issue on the index token accounts in `open': those there are, or also
\* one that an earlier instruction of its transaction makes.
IssueInto(open, to, amount, maxIn) ==
  LET fee      == IssueFee(amount)
      gross    == amount + fee
      required == [c \in components |-> UnitsIn(QuotedUnits[c], gross)]
      minted   == SupplyAfterFee + gross
      filled   == [c \in Mints |-> IF c \in components
                                   THEN vault[c] + required[c] ELSE vault[c]]
      synced   == SyncedUnits(QuotedUnits, filled, minted)
  IN  /\ amount # 0
      /\ state = "live"
      /\ CanReceiveIn(open, to)
      /\ AccrueAcceptedIn(open)
      /\ Fits(QuotedUnits) /\ Fits(required) /\ Fits(filled) /\ Fits(synced)
      /\ gross \in U64 /\ minted \in U64
      /\ \A c \in components : required[c] <= maxIn[c]
      /\ fee > 0 => CanReceiveIn(open, authority["feeRecipient"])
      /\ minted <= SUPPLY_LIMIT
      /\ \A c \in components : filled[c] <= VAULT_LIMIT
      /\ vault' = filled
      /\ supply' = minted
      /\ holding' = PayFee(Credit(holding, to, amount), Owed + fee)
      /\ units' = synced
      /\ Accrued
      /\ accounts' = open
      /\ UNCHANGED <<state, authority, params, components, targetUnits,
                     refPrice, rebalance, mint, frozen, now, planSupply>>
Issue(to, amount, maxIn) == IssueInto(accounts, to, amount, maxIn)

\* What redeeming `amount' pays, and what it leaves.
Payout(amount) ==
  [c \in components |-> UnitsOut(QuotedUnits[c], amount - RedeemFee(amount))]
VaultAfterRedeem(amount) ==
  [c \in Mints |-> IF c \in components
                   THEN vault[c] - Payout(amount)[c] ELSE vault[c]]
SupplyAfterRedeem(amount) == SupplyAfterFee - amount + RedeemFee(amount)
UnitsAfterRedeem(amount) ==
  SyncedUnits(QuotedUnits, VaultAfterRedeem(amount), SupplyAfterRedeem(amount))
HoldingAfterFee == PayFee(holding, Owed)

\* Everything redeem and the token program check.
RedeemAccepted(by, amount, minOut) ==
  /\ amount # 0
  /\ Sealed
  /\ CanReceive(by)
  /\ AccrueAccepted
  /\ SupplyAfterFee >= amount
  /\ RedeemFee(amount) <= amount
  /\ Fits(QuotedUnits) /\ Fits(UnitsAfterRedeem(amount))
  /\ HoldingAfterFee[by] >= amount
  /\ RedeemFee(amount) > 0 => CanReceive(authority["feeRecipient"])
  /\ \A c \in components : Payout(amount)[c] >= minOut[c]
  /\ \A c \in components : Payout(amount)[c] <= vault[c]

Redeem(by, amount, minOut) ==
  /\ RedeemAccepted(by, amount, minOut)
  /\ vault' = VaultAfterRedeem(amount)
  /\ supply' = SupplyAfterRedeem(amount)
  /\ holding' = PayFee([HoldingAfterFee EXCEPT ![by] = @ - amount],
                       RedeemFee(amount))
  /\ units' = UnitsAfterRedeem(amount)
  /\ Accrued
  /\ UNCHANGED <<state, authority, params, components, targetUnits, refPrice,
                 rebalance, mint, accounts, frozen, now, planSupply>>

\* accrue_fees: permissionless, in every sealed state.
AccrueFees ==
  /\ Sealed
  /\ AccrueAccepted
  /\ Fits(QuotedUnits)
  /\ supply' = SupplyAfterFee
  /\ holding' = HoldingAfterFee
  /\ units' = QuotedUnits
  /\ Accrued
  /\ UNCHANGED <<state, authority, params, components, targetUnits, refPrice,
                 rebalance, mint, accounts, frozen, vault, now, planSupply>>

-----------------------------------------------------------------------------
(* Rebalancing: a proposal, a decaying auction, a close.                   *)

ValidAuction(p) ==
  /\ p.duration # 0 /\ p.duration <= MAX_AUCTION_DURATION
  /\ p.startPremium <= p.endPremium
  /\ p.endPremium <= params.maxPremium
  /\ p.startPremium >= -params.maxPremium
  /\ p.maxNavLoss <= params.maxPremium

StartWithoutNotice == now                                        \* mutant
AuctionStart == now + params.rebalanceDelay

ProposeRebalance(by, target, price, p) ==
  LET priced == [c \in Mints |-> IF c \in components
                                 THEN price[c] ELSE refPrice[c]]
      nav    == NavE6(vault, priced)
  IN  /\ by = authority["manager"]
      /\ state = "live"
      /\ ~rebalance.active
      /\ ValidAuction(p)
      /\ \A c \in components : price[c] # 0
      /\ nav \in U64
      /\ refPrice' = priced
      /\ targetUnits' = [c \in Mints |-> IF c \in components
                                         THEN target[c] ELSE targetUnits[c]]
      /\ rebalance' =
           [active       |-> TRUE,
            proposedAt   |-> now,
            startTs      |-> AuctionStart,
            endTs        |-> AuctionStart + p.duration,
            startPremium |-> p.startPremium,
            endPremium   |-> p.endPremium,
            maxNavLoss   |-> p.maxNavLoss,
            navFloor     |-> MulDivFloor(nav, BPS - p.maxNavLoss, BPS)]
      /\ planSupply' = supply
      /\ UNCHANGED <<state, lastFeeAccrual, authority, params, components,
                     units, ledger, now, feeDue>>

\* What the plan leaves in a vault at the present supply.
TargetBalance(c) == UnitsOut(targetUnits[c], supply)

\* The buy side may overshoot its target by the premium ceiling.
BuyCap(c) ==
  TargetBalance(c) + MulDivFloor(TargetBalance(c), params.maxPremium, BPS)

Premium == PremiumAt(rebalance.startPremium, rebalance.endPremium,
                     rebalance.startTs, rebalance.endTs, now)

\* The ceiling is the one in force at the bid, not at the proposal.
PremiumUnchecked == TRUE                                         \* mutant
PremiumAllowed   == Premium <= params.maxPremium

\* What `sold' base units of s cost in base units of b.
ValueIn(s, sold) ==
  MulDivCeil(ValueE9(sold, DECIMALS_SCALE[s], refPrice[s]), BPS - Premium, BPS)
BuyAmount(s, b, sold) ==
  AmountFromValueCeil(ValueIn(s, sold), DECIMALS_SCALE[b], refPrice[b])

\* Products of a u128 with a u64 or a premium: these may overflow.
BidArithmeticFits(s, b, sold) ==
  /\ ValueE9(sold, DECIMALS_SCALE[s], refPrice[s]) * (BPS - Premium) \in U128
  /\ ValueIn(s, sold) * DECIMALS_SCALE[b] \in U128
  /\ BuyAmount(s, b, sold) \in U64
  /\ TargetBalance(s) \in U64 /\ BuyCap(b) \in U64

\* What a bid may still take out of a vault.
WholeVault(s) == vault[s]                                        \* mutant
SellRoom(s)   == vault[s] - TargetBalance(s)

UnitsBeforeBid(traded) == SyncedUnits(units, vault, supply)      \* mutant
UnitsAfterBid(traded)  == SyncedUnits(units, traded, supply)

Bid(s, b, sold, maxBuy) ==
  LET bought == BuyAmount(s, b, sold)
      traded == [vault EXCEPT ![s] = @ - sold, ![b] = @ + bought]
  IN  /\ s # b /\ sold # 0
      /\ state = "live"
      /\ rebalance.active
      /\ PremiumDefined(rebalance.startTs, rebalance.endTs, now)
      /\ PremiumAllowed
      /\ {s, b} \subseteq components
      /\ supply # 0
      /\ BidArithmeticFits(s, b, sold)
      /\ vault[s] > TargetBalance(s)
      /\ sold <= SellRoom(s)
      /\ vault[b] < BuyCap(b)
      /\ bought <= maxBuy
      /\ bought <= BuyCap(b) - vault[b]
      /\ NavE6(traded, refPrice) \in U64
      /\ NavE6(traded, refPrice) >= rebalance.navFloor
      /\ Fits(UnitsAfterBid(traded))
      /\ vault' = traded
      /\ units' = UnitsAfterBid(traded)
      /\ UNCHANGED <<state, lastFeeAccrual, authority, params, components,
                     targetUnits, refPrice, rebalance, mint, supply, holding,
                     accounts, frozen, now, feeDue, planSupply>>

\* Anyone may close an expired auction; only the manager a running one.
EndRebalance(by) ==
  LET synced == SyncedUnits(units, vault, supply)
  IN  /\ rebalance.active
      /\ now <= rebalance.endTs => by = authority["manager"]
      /\ Fits(synced)
      /\ units' = synced
      /\ targetUnits' = [c \in Mints |-> IF c \in components
                                         THEN synced[c] ELSE targetUnits[c]]
      /\ rebalance' = Closed(rebalance.proposedAt)
      /\ planSupply' = 0
      /\ UNCHANGED <<state, lastFeeAccrual, authority, params, components,
                     refPrice, ledger, now, feeDue>>

-----------------------------------------------------------------------------
(* Governance.                                                             *)

\* The old rate is not left to run on under the new one.
ClockNotSettled == lastFeeAccrual                                \* mutant
ClockSettled    == IF state = "bootstrapping" THEN lastFeeAccrual ELSE now

SetParams(by, p) ==
  /\ by = authority["governor"]
  /\ state # "absent"
  /\ CheckFees(p)
  /\ params' = p
  /\ lastFeeAccrual' = ClockSettled
  /\ UNCHANGED <<state, authority, components, units, targetUnits, refPrice,
                 rebalance, ledger, now, feeDue, planSupply>>

SetAuthority(by, role, new) ==
  /\ by = authority["governor"]
  /\ authority' = [authority EXCEPT ![role] = new]
  /\ UNCHANGED <<state, lastFeeAccrual, params, components, units,
                 targetUnits, refPrice, rebalance, ledger, now, feeDue,
                 planSupply>>

\* Either authority can hit the brake; only the governor can release it.
EitherMayPause(by, paused) ==
  by \in {authority["governor"], authority["manager"]}           \* mutant
MayPause(by, paused) ==
  by = authority["governor"] \/ (paused /\ by = authority["manager"])

SetPaused(by, paused) ==
  /\ MayPause(by, paused)
  /\ Sealed
  /\ state' = IF paused THEN "paused" ELSE "live"
  /\ UNCHANGED <<lastFeeAccrual, index, ledger, now, feeDue, planSupply>>

-----------------------------------------------------------------------------
(* Outside the program: the token program's own instructions, and time.    *)

\* Before it hands the mint over, its creator can mint and freeze.
FounderMints(k, amount) ==
  /\ mint.authority = "founder"
  /\ CanReceive(k)
  /\ supply + amount <= SUPPLY_LIMIT /\ supply + amount \in U64
  /\ supply' = supply + amount
  /\ holding' = Credit(holding, k, amount)
  /\ UNCHANGED <<state, lastFeeAccrual, index, mint, accounts, frozen, vault,
                 now, feeDue, planSupply>>

HandOverMint ==
  /\ mint.authority = "founder"
  /\ mint' = [mint EXCEPT !.authority = "index"]
  /\ UNCHANGED <<state, lastFeeAccrual, index, supply, holding, accounts,
                 frozen, vault, now, feeDue, planSupply>>

RevokeFreezer ==
  /\ mint.freezer = "founder"
  /\ mint' = [mint EXCEPT !.freezer = "none"]
  /\ UNCHANGED <<state, lastFeeAccrual, index, supply, holding, accounts,
                 frozen, vault, now, feeDue, planSupply>>

Freeze(k) ==
  /\ mint.freezer = "founder"
  /\ CanReceive(k)
  /\ frozen' = frozen \cup {k}
  /\ UNCHANGED <<state, lastFeeAccrual, index, mint, supply, holding,
                 accounts, vault, now, feeDue, planSupply>>

OpenAccount(k) ==
  /\ k \notin accounts
  /\ accounts' = accounts \cup {k}
  /\ UNCHANGED <<state, lastFeeAccrual, index, mint, supply, holding, frozen,
                 vault, now, feeDue, planSupply>>

CloseAccount(k) ==
  /\ k \in accounts
  /\ holding[k] = 0
  /\ accounts' = accounts \ {k}
  /\ frozen' = frozen \ {k}
  /\ UNCHANGED <<state, lastFeeAccrual, index, mint, supply, holding, vault,
                 now, feeDue, planSupply>>

Transfer(from, to, amount) ==
  /\ CanReceive(from) /\ CanReceive(to)
  /\ holding[from] >= amount
  /\ holding' = Credit([holding EXCEPT ![from] = @ - amount], to, amount)
  /\ UNCHANGED <<state, lastFeeAccrual, index, mint, supply, accounts, frozen,
                 vault, now, feeDue, planSupply>>

Burn(k, amount) ==
  /\ CanReceive(k)
  /\ holding[k] >= amount
  /\ supply >= amount
  /\ supply' = supply - amount
  /\ holding' = [holding EXCEPT ![k] = @ - amount]
  /\ UNCHANGED <<state, lastFeeAccrual, index, mint, accounts, frozen, vault,
                 now, feeDue, planSupply>>

Donate(c, amount) ==
  /\ c \in components
  /\ vault[c] + amount <= VAULT_LIMIT
  /\ vault[c] + amount \in U64
  /\ vault' = [vault EXCEPT ![c] = @ + amount]
  /\ UNCHANGED <<state, lastFeeAccrual, index, mint, supply, holding,
                 accounts, frozen, now, feeDue, planSupply>>

Tick ==
  /\ now < HORIZON
  /\ now' = now + 1
  /\ feeDue' = feeDue + params.streamingFee
  /\ UNCHANGED <<state, lastFeeAccrual, index, ledger, planSupply>>

-----------------------------------------------------------------------------
Init ==
  /\ state = "absent"
  /\ authority = [r \in Roles |-> None]
  /\ params = NoParams
  /\ lastFeeAccrual = 0
  /\ components = {}
  /\ units = [c \in Mints |-> 0]
  /\ targetUnits = [c \in Mints |-> 0]
  /\ refPrice = [c \in Mints |-> 0]
  /\ rebalance = Closed(0)
  /\ mint \in MintChoices
  /\ supply = 0
  /\ holding = [k \in Keys |-> 0]
  /\ accounts = InitialAccounts
  /\ frozen = {}
  /\ vault = [c \in Mints |-> 0]
  /\ now = 0
  /\ feeDue = 0
  /\ planSupply = 0

SetupNext ==
  \/ \E who \in AuthorityChoices, p \in ParamChoices : InitIndex(who, p)
  \/ \E by \in Signers, c \in Mints, u \in SeedUnits : AddComponent(by, c, u)
  \/ \E by \in Signers : SealIndex(by)

\* Anyone pays for an issue in components and names the account it credits.
FundNext ==
  \/ \E to \in Keys, amount \in Amounts, maxIn \in [components -> Limits] :
       Issue(to, amount, maxIn)
  \/ \E by \in Signers, amount \in Amounts,
        minOut \in [components -> Limits \cup {0}] : Redeem(by, amount, minOut)
  \/ AccrueFees

AuctionNext ==
  \/ \E by \in Signers, target \in [components -> TargetChoices],
        price \in [components -> PriceChoices], p \in AuctionChoices :
       ProposeRebalance(by, target, price, p)
  \/ \E s \in Mints, b \in Mints, sold \in SellAmounts, maxBuy \in Limits :
       Bid(s, b, sold, maxBuy)
  \/ \E by \in Signers : EndRebalance(by)

GovernanceNext ==
  \/ \E by \in Signers, p \in ParamChoices : SetParams(by, p)
  \/ \E by \in Signers, role \in Roles, new \in NewAuthorities :
       SetAuthority(by, role, new)
  \/ \E by \in Signers, paused \in BOOLEAN : SetPaused(by, paused)

TokenNext ==
  \/ \E k \in Holders, amount \in Amounts : FounderMints(k, amount)
  \/ HandOverMint
  \/ RevokeFreezer
  \/ \E k \in Holders : Freeze(k)
  \/ \E k \in Holders : OpenAccount(k)
  \/ \E k \in Holders : CloseAccount(k)
  \/ \E from \in Holders, to \in Keys, amount \in Amounts :
       Transfer(from, to, amount)
  \/ \E k \in Holders, amount \in Amounts : Burn(k, amount)
  \/ \E c \in Mints, amount \in Donations : Donate(c, amount)

Next ==
  \/ SetupNext
  \/ FundNext
  \/ AuctionNext
  \/ GovernanceNext
  \/ TokenNext
  \/ Tick

Spec == Init /\ [][Next]_vars
=============================================================================
