------------------------------- MODULE SdkMath -------------------------------
(***************************************************************************)
(* The arithmetic of the SDK (packages/sdk/src/math.ts).                   *)
(*                                                                         *)
(* The file calls its functions "deliberate mirrors of program/src/math.rs *)
(* rather than convenient approximations".  They are a second              *)
(* implementation, in bigints, of FlockMath and are translated here as     *)
(* they are written; SdkMathTheorems proves that the two agree.  They keep *)
(* the names they have in the source.  A function that throws is undefined *)
(* on those arguments, and its caller states the condition as a guard.     *)
(***************************************************************************)
EXTENDS FlockMath, FiniteSetsExt

\* Division of bigints, and Math.trunc of a quotient: towards zero.
quot(x, d) == IF x >= 0 THEN x \div d ELSE -((-x) \div d)

mulDivFloor(x, y, d) == quot(x * y, d)

MulDivDown(x, y, d) == quot(x * y, d)                            \* mutant
mulDivCeil(x, y, d) == IF x * y = 0 THEN 0 ELSE quot(x * y - 1, d) + 1

unitsIn(units, amount)  == mulDivCeil(units, amount, UNIT_SCALE)
unitsOut(units, amount) == mulDivFloor(units, amount, UNIT_SCALE)

\* Zero at supply zero, where the program keeps the seed recipe: unitsAt, its
\* only caller, never asks.
unitsFromBalance(balance, supply) ==
  IF supply = 0 THEN 0 ELSE mulDivFloor(balance, UNIT_SCALE, supply)

valueE9(balance, scale, price) == mulDivFloor(balance, price, scale)

\* Throws for a price of zero.
amountFromValueCeil(value, scale, price) == mulDivCeil(value, scale, price)

FeePeriodOverflows(supply, feeBps, dt) ==
  /\ ~(supply = 0 \/ feeBps = 0 \/ dt <= 0)
  /\ feeBps * dt >= BPS * SECONDS_PER_YEAR
streamingFeeTokens(supply, feeBps, dt) ==
  IF supply = 0 \/ feeBps = 0 \/ dt <= 0 THEN 0
  ELSE mulDivFloor(supply, feeBps * dt, BPS * SECONDS_PER_YEAR - feeBps * dt)

premiumAt(startBps, endBps, startTs, endTs, t) ==
  startBps + quot((endBps - startBps) * (t - startTs), endTs - startTs)

\* What a bidder pays for `sold' of a component with the scale and reference
\* price s, in the component with b.
bidCost(sold, s, b, premiumBps) ==
  LET valueOut == valueE9(sold, s.scale, s.price)
      valueIn  == mulDivCeil(valueOut, BPS - premiumBps, BPS)
  IN  amountFromValueCeil(valueIn, b.scale, b.price)

\* The value of a set of balances.
navE9(balances, scales, prices) ==
  SumFunction([c \in DOMAIN balances |->
                 valueE9(balances[c], scales[c], prices[c])])

\* One entry of unitsForWeights: the units of one component that put `weight'
\* of a fund of `nav' on it.  Throws for a supply or a price of zero.
UnitsForWeightUp(weight, scale, price, nav, supply) ==
  mulDivCeil(mulDivCeil(mulDivCeil(nav, weight, BPS), scale, price),
             UNIT_SCALE, supply)                                 \* mutant
unitsForWeight(weight, scale, price, nav, supply) ==
  mulDivFloor(mulDivFloor(mulDivFloor(nav, weight, BPS), scale, price),
              UNIT_SCALE, supply)
==============================================================================
