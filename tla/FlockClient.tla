----------------------------- MODULE FlockClient -----------------------------
(***************************************************************************)
(* The read side of the SDK (packages/sdk/src/client.ts): a snapshot is    *)
(* taken in two reads, quotes are derived from it, and a transaction built *)
(* from a quote lands later, on a chain that has moved on.                 *)
(*                                                                         *)
(* Every step of FlockIndex may come between any two steps of the client.  *)
(***************************************************************************)
EXTENDS FlockIndex, SdkMath

CONSTANTS
  UserAmounts,       \* index amounts the client's user issues and redeems
  Slippage           \* slippageBps, 50 unless the caller says otherwise

ASSUME ClientAssumption ==
  /\ UserAmounts \subseteq U64
  /\ Slippage \in 0 .. BPS

VARIABLES
  reading,           \* how far the snapshot has got
  snapshot,
  touched            \* history: what has changed on chain under it

clientVars == <<reading, snapshot>>

\* What decodeIndex returns of the index account, as it is now.
AccountNow ==
  [lastFeeAccrual |-> lastFeeAccrual, params |-> params,
   feeRecipient |-> authority["feeRecipient"],
   components |-> components, units |-> units, targetUnits |-> targetUnits,
   refPrice |-> refPrice, rebalance |-> rebalance]

NoAccount  == [lastFeeAccrual |-> 0, params |-> NoParams,
               feeRecipient |-> None, components |-> {},
               units |-> [c \in Mints |-> 0],
               targetUnits |-> [c \in Mints |-> 0],
               refPrice |-> [c \in Mints |-> 0], rebalance |-> Closed(0)]
NoSnapshot == [asOf |-> 0, account |-> NoAccount, supply |-> 0,
               balances |-> [c \in Mints |-> 0]]

-----------------------------------------------------------------------------
(* What a snapshot says.                                                   *)

SnapPeriod == snapshot.asOf - snapshot.account.lastFeeAccrual
PendingFee == streamingFeeTokens(snapshot.supply,
                                 snapshot.account.params.streamingFee,
                                 SnapPeriod)

UnitsAt(s) == [c \in snapshot.account.components |->
                 IF s = 0 THEN snapshot.account.units[c]
                 ELSE unitsFromBalance(snapshot.balances[c], s)]
QuoteIgnoringFee == UnitsAt(snapshot.supply)                     \* mutant
QuoteUnits       == UnitsAt(snapshot.supply + PendingFee)

GrossOf(amount) ==
  amount + mulDivCeil(amount, snapshot.account.params.issueFee, BPS)
NetOf(amount) ==
  amount - mulDivCeil(amount, snapshot.account.params.redeemFee, BPS)

IssueQuote(amount) ==
  [c \in snapshot.account.components |-> unitsIn(QuoteUnits[c],
                                                 GrossOf(amount))]
RedeemQuote(amount) ==
  [c \in snapshot.account.components |-> unitsOut(QuoteUnits[c],
                                                  NetOf(amount))]

\* The bounds the transaction builders put on a quote.
MaxIn(amount) ==
  [c \in snapshot.account.components |->
     IssueQuote(amount)[c] + mulDivFloor(IssueQuote(amount)[c], Slippage, BPS)
       + 1]
MinOut(amount) ==
  [c \in snapshot.account.components |->
     RedeemQuote(amount)[c]
       - mulDivFloor(RedeemQuote(amount)[c], Slippage, BPS)]

\* auction(): the sizes it says a bid may have on either side of a component.
TargetOf(c) == quot(snapshot.account.targetUnits[c] * snapshot.supply,
                    UNIT_SCALE)
CapAtTarget(c) == TargetOf(c)                                    \* mutant
CapOf(c) == TargetOf(c)
              + quot(TargetOf(c) * snapshot.account.params.maxPremium, BPS)
SellableLeg(c) == Max({0, snapshot.balances[c] - TargetOf(c)})
BuyableLeg(c)  == Max({0, CapOf(c) - snapshot.balances[c]})

\* The premium at the moment, and what bidCost is told of a component.
Plan        == snapshot.account.rebalance
SnapPremium == premiumAt(Plan.startPremium, Plan.endPremium, Plan.startTs,
                         Plan.endTs, now)
SnapLeg(c) == [scale |-> DECIMALS_SCALE[c],
               price |-> snapshot.account.refPrice[c]]

\* The fund at the auction's reference prices.
NavAtReferencePrices ==
  SumFunction([c \in snapshot.account.components |->
                 valueE9(snapshot.balances[c], DECIMALS_SCALE[c],
                         snapshot.account.refPrice[c])])

\* weights(): the fund at the caller's prices.
SnapNav(price) ==
  LET in == snapshot.account.components
  IN  navE9([c \in in |-> snapshot.balances[c]], DECIMALS_SCALE, price)
-----------------------------------------------------------------------------
(* Taking one.                                                             *)

\* asOf is the default argument of the call: before either read.
StartSnapshot ==
  /\ reading = "idle"
  /\ reading' = "account"
  /\ snapshot' = [NoSnapshot EXCEPT !.asOf = now]
  /\ touched' = "no"
  /\ UNCHANGED vars

ReadAccount ==
  /\ reading = "account"
  /\ state # "absent"
  /\ reading' = "ledger"
  /\ snapshot' = [snapshot EXCEPT !.account = AccountNow]
  /\ touched' = "no"
  /\ UNCHANGED vars

\* The mint and the vaults of the account read before.  A fee period that
\* overflows throws, and there is no snapshot.
ReadLedger ==
  /\ reading = "ledger"
  /\ ~FeePeriodOverflows(supply, snapshot.account.params.streamingFee,
                         SnapPeriod)
  /\ reading' = "held"
  /\ snapshot' = [snapshot EXCEPT !.supply = supply, !.balances = vault]
  /\ UNCHANGED <<vars, touched>>

\* An RPC error, a missing account, or a caller that is done with it.
DropSnapshot ==
  /\ reading # "idle"
  /\ reading' = "idle"
  /\ snapshot' = NoSnapshot
  /\ touched' = "no"
  /\ UNCHANGED vars

-----------------------------------------------------------------------------
(* The chain moves on.                                                     *)

\* A step that only accrues the fee, at the time it is taken.
OnlyFees == /\ UNCHANGED <<authority, params, components, targetUnits,
                           refPrice, rebalance, vault>>
            /\ StreamingFeeDefined(supply, params.streamingFee, FeePeriod)
            /\ lastFeeAccrual' = now /\ supply' = SupplyAfterFee
NoFigure == UNCHANGED <<lastFeeAccrual, index, ledger>>

\* "fees": nothing but accruals, and none of them between the two reads.
Touch == touched' = CASE reading = "idle" \/ NoFigure -> touched
                      [] OnlyFees /\ reading = "held" /\ touched # "yes"
                           -> "fees"
                      [] OTHER -> "yes"

ChainMoves == Next /\ UNCHANGED clientVars /\ Touch

\* The transaction names the vaults of the components in the snapshot, all of
\* which the program expects.
VaultsNamed == snapshot.account.components = components

\* It also names the fee account of the recipient in the snapshot; the program
\* looks at it when there is a fee to pay.
FeeAccountNamed(fee) ==
  Owed > 0 \/ fee > 0 =>
    snapshot.account.feeRecipient = authority["feeRecipient"]

\* An amount that is no u64 cannot be encoded.
Encodable(f) == \A c \in DOMAIN f : f[c] \in U64

SubmitIssueInto(open, to, amount) ==
  /\ reading = "held"
  /\ VaultsNamed
  /\ FeeAccountNamed(IssueFee(amount))
  /\ amount \in U64 /\ Encodable(MaxIn(amount))
  /\ IssueInto(open, to, amount, MaxIn(amount))
  /\ reading' = "idle" /\ snapshot' = NoSnapshot /\ touched' = "no"
SubmitIssue(to, amount) == SubmitIssueInto(accounts, to, amount)

SubmitRedeem(by, amount) ==
  /\ reading = "held"
  /\ VaultsNamed
  /\ FeeAccountNamed(RedeemFee(amount))
  /\ amount \in U64 /\ Encodable(MinOut(amount))
  /\ Redeem(by, amount, MinOut(amount))
  /\ reading' = "idle" /\ snapshot' = NoSnapshot /\ touched' = "no"

ClientInit ==
  /\ Init
  /\ reading = "idle"
  /\ snapshot = NoSnapshot
  /\ touched = "no"

ClientNext ==
  \/ ChainMoves
  \/ StartSnapshot
  \/ ReadAccount
  \/ ReadLedger
  \/ DropSnapshot
  \/ \E to \in Signers, amount \in UserAmounts : SubmitIssue(to, amount)
  \/ \E by \in Signers, amount \in UserAmounts : SubmitRedeem(by, amount)

ClientSpec == ClientInit /\ [][ClientNext]_<<vars, clientVars, touched>>

-----------------------------------------------------------------------------
(* Properties.                                                             *)

SnapshotType ==
  [asOf : 0 .. HORIZON,
   account : [lastFeeAccrual : 0 .. HORIZON, params : ParamType,
              feeRecipient : Keys \cup {None}, components : SUBSET Mints,
              units : [Mints -> U64],
              targetUnits : [Mints -> U64], refPrice : [Mints -> U64],
              rebalance : [active : BOOLEAN, proposedAt : Nat, startTs : Nat,
                           endTs : Nat, startPremium : Int, endPremium : Int,
                           maxNavLoss : Nat, navFloor : Nat]],
   supply : U64, balances : [Mints -> U64]]

\* A snapshot is the one the client's stage allows, with every field in range.
ClientTypeOK ==
  /\ reading \in {"idle", "account", "ledger", "held"}
  /\ touched \in {"no", "fees", "yes"}
  /\ snapshot \in SnapshotType
  /\ reading = "idle" => snapshot = NoSnapshot

\* What issue takes and redeem pays for `amount' if they run now.
ProgramAsks(amount) ==
  [c \in components |-> UnitsIn(QuotedUnits[c], amount + IssueFee(amount))]
ProgramPays(amount) == Payout(amount)

\* sdk math.ts:6, "a client that rounds the other way quotes a user a number
\* the chain then rejects": at the instant it was taken, and after an accrual
\* in the same instant, a whole snapshot quotes exactly what the program asks
\* and pays, the streaming fee it has not minted yet included.
QuotesExact ==
  reading = "held" /\ touched # "yes" /\ snapshot.asOf = now =>
    \A amount \in UserAmounts : /\ IssueQuote(amount) = ProgramAsks(amount)
                                /\ RedeemQuote(amount) = ProgramPays(amount)

\* client.ts:126, "so the quote holds even for a fund nobody has touched in
\* months": an issue quote is not exceeded later, however much time passes
\* and however often somebody accrues, even without the slippage allowance.
QuoteStands ==
  reading = "held" /\ touched # "yes"
  /\ StreamingFeeDefined(supply, params.streamingFee, FeePeriod) =>
    \A amount \in UserAmounts, c \in components :
      ProgramAsks(amount)[c] <= IssueQuote(amount)[c]

\* docs/integrating.md:59, the legs of the auction view "are the exact sizes
\* the program will accept right now": until the chain changes under it, a
\* snapshot offers the largest sizes a bid gets past the program's two caps
\* and no larger one, and its value of the fund is the one the floor is
\* compared with.
LegsExact ==
  reading = "held" /\ touched = "no" /\ rebalance.active =>
    /\ \A c \in components, size \in 1 .. VAULT_LIMIT :
         /\ size <= SellableLeg(c) <=> size <= SellRoom(c)
         /\ size <= BuyableLeg(c) <=> vault[c] + size <= BuyCap(c)
    /\ NavAtReferencePrices \div NAV_SCALE = NavE6(vault, refPrice)

\* client.ts:87, "One round trip for the index, its mint and every vault":
\* the quote of a snapshot just completed is the program's own, unless the
\* fund was set up, emptied or repriced by its governor meanwhile.
SameFund == /\ snapshot.account.components = components
            /\ snapshot.account.params = params
            /\ supply # 0
SnapshotQuotesTrue ==
  [][ReadLedger /\ SameFund /\ snapshot.asOf = now =>
       (\A amount \in UserAmounts : IssueQuote(amount) = ProgramAsks(amount))']_
    <<vars, clientVars, touched>>
=============================================================================
