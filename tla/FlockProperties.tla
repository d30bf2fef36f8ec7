--------------------------- MODULE FlockProperties ---------------------------
(***************************************************************************)
(* What the index program promises its holders, over FlockIndex.           *)
(***************************************************************************)
EXTENDS FlockIndex

-----------------------------------------------------------------------------
(* Types.                                                                  *)

WithinCaps ==
  [streamingFee   : 0 .. MAX_STREAMING_FEE_BPS,
   issueFee       : 0 .. MAX_MINT_REDEEM_FEE_BPS,
   redeemFee      : 0 .. MAX_MINT_REDEEM_FEE_BPS,
   maxPremium     : 0 .. MAX_PREMIUM_CEILING_BPS,
   rebalanceDelay : Nat]

RebalanceType ==
  [active : BOOLEAN, proposedAt : Nat, startTs : Nat, endTs : Nat,
   startPremium : Int, endPremium : Int, maxNavLoss : Nat, navFloor : Nat]

\* Every field has its width, the fee parameters are inside the hard caps of
\* state.rs, and every balance the token program keeps is a u64.
TypeOK ==
  /\ state \in {"absent", "bootstrapping", "live", "paused"}
  /\ authority \in [Roles -> Keys \cup {None}]
  /\ params \in WithinCaps
  /\ now \in 0 .. HORIZON
  /\ lastFeeAccrual \in 0 .. now
  /\ components \in SUBSET Mints
  /\ units \in [Mints -> U64]
  /\ targetUnits \in [Mints -> U64]
  /\ refPrice \in [Mints -> U64]
  /\ rebalance \in RebalanceType
  /\ mint \in MintType
  /\ supply \in U64
  /\ holding \in [Keys -> Nat]
  /\ accounts \in SUBSET Keys
  /\ frozen \in SUBSET accounts
  /\ vault \in [Mints -> U64]
  /\ feeDue \in Nat
  /\ planSupply \in U64

-----------------------------------------------------------------------------
(* The fund's assets.                                                      *)

\* docs/architecture.md:29: no interleaving of issues, redemptions, fee
\* accruals, bids and donations leaves the cached units promising more of a
\* component than its vault holds, not even through rounding.
Backed ==
  \A c \in components : units[c] * supply <= vault[c] * UNIT_SCALE

\* Once the program controls the mint, all of the supply is in accounts whose
\* owners can move it.  init_index refuses a mint somebody else can print or
\* freeze; this is what that refusal is for, whatever its creator did with
\* the mint before handing it over.
HoldersWhole ==
  state # "absent" =>
    /\ supply = SumFunction(holding)
    /\ \A k \in Keys : holding[k] > 0 => CanReceive(k)

NothingAsked == [c \in components |-> 0]

\* Nothing of the caller's own stands in the way of the fee of this
\* redemption: the period is short enough for streaming_fee_tokens, and the
\* recipient has an account if a fee is payable.
FeePayable(amount) ==
  /\ StreamingFeeDefined(supply, params.streamingFee, FeePeriod)
  /\ Owed > 0 \/ RedeemFee(amount) > 0 => CanReceive(authority["feeRecipient"])

NoOverflow(amount) ==
  /\ SupplyAfterFee \in U64
  /\ Fits(QuotedUnits)
  /\ Fits(UnitsAfterRedeem(amount))

\* processor.rs:590: paused, live, in or out of an auction, after any
\* governance action, a holder can redeem any part of what it holds.  The
\* vaults always cover the payout, and nothing but the fee account can stop it.
RedemptionOpen ==
  Sealed =>
    \A h \in Keys : \A amount \in 1 .. holding[h] :
      FeePayable(amount) /\ NoOverflow(amount)
        => RedeemAccepted(h, amount, NothingAsked)

\* math.rs:45: no issue, redemption, fee accrual or burn lowers what a token
\* is worth below what it was once the fee then owed had been charged.
Derived(v, s, c) == UnitsFromBalance(v[c], s)
ValueKept ==
  /\ supply # 0 /\ supply' # 0 /\ supply' # supply
  /\ StreamingFeeDefined(supply, params.streamingFee, FeePeriod)
  => \A c \in components :
       Derived(vault', supply', c) >= Derived(vault, SupplyAfterFee, c)
HolderNotDiluted == [][ValueKept]_vars

\* processor.rs:540: an issue is priced at the units the vaults amount to now,
\* after the fee it charges first, so what it mints, its fee included, could
\* not be redeemed at once for more than it took, whatever was donated, sold or
\* accrued since the units were last cached and however small the issue is.
NoRoundTripGain ==
  /\ supply # 0
  /\ StreamingFeeDefined(supply, params.streamingFee, FeePeriod)
  /\ supply' > SupplyAfterFee
  => \A c \in components :
       UnitsOut(units'[c], supply' - SupplyAfterFee) <= vault'[c] - vault[c]
RoundTripsCost == [][NoRoundTripGain]_vars

-----------------------------------------------------------------------------
(* Fees.                                                                   *)

\* processor.rs:928-930: the share of the fund the next accrual takes is at
\* most the rates that were in force, each for the time it was: a raise is
\* never charged for the period before it.
NeverOverbilled ==
  Sealed /\ StreamingFeeDefined(supply, params.streamingFee, FeePeriod) =>
    Owed * (BPS * SECONDS_PER_YEAR) <= SupplyAfterFee * feeDue

-----------------------------------------------------------------------------
(* Auctions.                                                               *)

\* A bid that filled: a vault paid out, and neither the supply nor the
\* accrual clock moved.  No other instruction does that.
Fill ==
  /\ UNCHANGED <<supply, lastFeeAccrual>>
  /\ \E c \in components : vault'[c] < vault[c]

\* docs/auctions.md: a fill is on the plan the holders were given notice of.
\* The plan is not replaced while it runs, whatever the governor does to the
\* delay, and a fill comes MIN_REBALANCE_DELAY or more after it was published
\* and before it expires.
PlanStands ==
  rebalance.active /\ rebalance'.active =>
    UNCHANGED <<rebalance, targetUnits, refPrice>>
FillOnNotice ==
  Fill => /\ state = "live" /\ rebalance.active
          /\ now >= rebalance.proposedAt + MIN_REBALANCE_DELAY
          /\ now <= rebalance.endTs
NoticeHonoured == [][PlanStands /\ FillOnNotice]_vars

\* docs/security.md:11: a fill takes out of one vault and pays into one
\* other, and at the plan's prices what it pays in is worth what it takes out
\* less, at most, the index's own premium ceiling.
PaidFor(s, b) ==
  ValueE9(vault'[b] - vault[b], DECIMALS_SCALE[b], refPrice[b]) * BPS
    >= ValueE9(vault[s] - vault'[s], DECIMALS_SCALE[s], refPrice[s])
         * (BPS - params.maxPremium)
FairFill ==
  Fill => \E s, b \in components :
            /\ s # b
            /\ vault' = [vault EXCEPT ![s] = vault'[s], ![b] = vault'[b]]
            /\ vault'[b] >= vault[b]
            /\ PaidFor(s, b)
FillFairlyPriced == [][FairFill]_vars

\* docs/auctions.md:47: "The sell-side cap and the NAV floor bound what any
\* auction can cost holders."  However many bids came before, whatever the
\* supply and the ceiling have become, a fill sells no component below its
\* target, buys none past its target plus the slack, and leaves the fund
\* worth its floor at the plan's prices.
InsidePlan ==
  Fill => /\ \A c \in components :
               /\ vault'[c] < vault[c] => vault'[c] >= TargetBalance(c)
               /\ vault'[c] > vault[c] => vault'[c] <= BuyCap(c)
          /\ NavE6(vault', refPrice) >= rebalance.navFloor
FillBounded == [][InsidePlan]_vars

-----------------------------------------------------------------------------
(* Authorities.                                                            *)

\* docs/architecture.md:67: without the governor's signature no key, the
\* manager's included, changes a fee or an authority or resumes the index.
Governed ==
  authority["governor"] \in Keys \ Signers =>
    /\ UNCHANGED <<authority, params>>
    /\ state = "paused" => state' = "paused"
GovernorOnly == [][Governed]_vars
==============================================================================
