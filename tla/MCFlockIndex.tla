---------------------------- MODULE MCFlockIndex ----------------------------
(***************************************************************************)
(* Small instances of FlockIndex for TLC.                                  *)
(***************************************************************************)
EXTENDS FlockClaims, FlockRefinement

CONSTANTS gov, mgr, ann, a, b

\* Named fee and auction parameters.
Fees(streaming, issue, redeem, premium, delay) ==
  [streamingFee |-> streaming, issueFee |-> issue, redeemFee |-> redeem,
   maxPremium |-> premium, rebalanceDelay |-> delay]
Auction(duration, start, end, loss) ==
  [duration |-> duration, startPremium |-> start, endPremium |-> end,
   maxNavLoss |-> loss]
Who(g, m, f) == [governor |-> g, manager |-> m, feeRecipient |-> f]
IndexMint    == [authority |-> "index", freezer |-> "none"]

WholeTokens == [c \in Mints |-> 1]

\* fund: one governor who is also the manager and takes the fees.
FundAuthorities == {Who(gov, gov, gov)}
FundParams      == {Fees(0, 1, 0, 0, 1), Fees(1, 0, 1, 0, 1)}
FundMint        == {IndexMint}

\* auction: two components, prices and decimals that differ.
AuctionParams   == {Fees(0, 0, 0, 1, 1), Fees(0, 0, 0, 2, 2),
                    Fees(0, 0, 0, 3, 1)}
OneAuction      == {Auction(2, -1, 1, 1), Auction(1, 0, 2, 0)}
MixedDecimals   == [c \in Mints |-> IF c = a THEN 1 ELSE 2]

\* launch: the mint is created by a founder, who may mint and freeze.  One
\* governor is a key that never signs, and may be handed the index later.
LaunchAuthorities == {Who(mgr, mgr, mgr), Who(gov, mgr, ann)}
LaunchParams      == {Fees(0, 1, 1, 0, 1), Fees(1, 0, 0, 0, 1),
                      Fees(2, 0, 0, 0, 1)}
LaunchMint        == {[authority |-> "founder", freezer |-> "founder"]}
=============================================================================
