----------------------------- MODULE FlockClaims -----------------------------
(***************************************************************************)
(* Statements the repository's comments and docs make of the index program *)
(* that its code does not meet.  Each one is checked by a run of its own   *)
(* whose counterexample is the disagreement.                               *)
(***************************************************************************)
EXTENDS FlockProperties

\* instruction.rs:131, "Redemption stays open, always": whoever holds index
\* tokens of a sealed index can redeem them as they stand.
RedemptionAlwaysOpen ==
  Sealed =>
    \A h \in Keys : \A amount \in 1 .. holding[h] :
      RedeemAccepted(h, amount, NothingAsked)

\* processor.rs:928, "the old rate applies to the time it was actually in
\* force": the clock and the rate together still bill, or a fee mint has
\* billed, every rate for all of its time.
FeeSettled ==
  Sealed /\ supply # 0 => feeDue = params.streamingFee * FeePeriod

\* docs/security.md:14, the worst a filled proposal costs holders is "at most
\* the NAV loss the proposal declared": a fill does not take the NAV behind
\* one token below the declared floor over the supply it was declared at.
FloorPerTokenHeld(nav) == nav * planSupply >= rebalance.navFloor * supply
NavLossAsDeclared ==
  [][Fill /\ FloorPerTokenHeld(NavE6(vault, refPrice))
       => FloorPerTokenHeld(NavE6(vault', refPrice))]_vars

\* docs/auctions.md:47, "the sell-side cap makes the auction convergent: every
\* fill moves both legs toward the published targets": no vault a fill changes
\* ends up farther from its target.
Distance(v, c) == LET off == v[c] - TargetBalance(c)
                  IN  IF off >= 0 THEN off ELSE -off
FillsConverge ==
  [][Fill => \A c \in components : Distance(vault', c) <= Distance(vault, c)]_vars
=============================================================================
