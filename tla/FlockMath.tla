------------------------------ MODULE FlockMath ------------------------------
(***************************************************************************)
(* The fixed-point arithmetic of program/src/math.rs.                      *)
(*                                                                         *)
(* What a caller must deliver rounds up, what a caller receives rounds     *)
(* down.  The Rust functions are checked: they return MathOverflow instead *)
(* of wrapping.  Here each operator is the exact integer the function      *)
(* computes, and a caller states the check as a guard: `x \in U64' is      *)
(* to_u64 (or a checked u64 operation) succeeding, `x \in U128' a checked  *)
(* u128 product succeeding.  A product of two u64s always fits in a u128,  *)
(* so that guard is written only where an operand may be wider.            *)
(***************************************************************************)
EXTENDS Integers

CONSTANTS
  UNIT_SCALE,        \* index base units in one whole index token
  BPS,               \* basis points in one
  SECONDS_PER_YEAR,  \* the period of the annual streaming fee
  U64_MAX,           \* largest u64
  U128_MAX           \* largest u128

ASSUME MathAssumption ==
  /\ UNIT_SCALE \in Nat \ {0}
  /\ BPS \in Nat \ {0}
  /\ SECONDS_PER_YEAR \in Nat \ {0}
  /\ U64_MAX \in Nat
  /\ U128_MAX \in Nat

U64  == 0 .. U64_MAX
U128 == 0 .. U128_MAX

MulDivFloor(a, b, d) == (a * b) \div d
MulDivCeil(a, b, d)  == (a * b + d - 1) \div d

\* Component base units a caller delivers to mint `amount' index base units.
UnitsInFloor(units, amount) == MulDivFloor(units, amount, UNIT_SCALE) \* mutant
UnitsIn(units, amount) == MulDivCeil(units, amount, UNIT_SCALE)

\* Component base units a caller receives for burning `amount'.
UnitsOut(units, amount) == MulDivFloor(units, amount, UNIT_SCALE)

\* The units a vault balance amounts to at a supply; defined for supply # 0.
UnitsFromBalanceCeil(balance, supply) ==
  MulDivCeil(balance, UNIT_SCALE, supply)                         \* mutant
UnitsFromBalance(balance, supply) == MulDivFloor(balance, UNIT_SCALE, supply)

\* USD value of `balance' base units; `scale' is ten to the mint's decimals.
ValueE9(balance, scale, price) == MulDivFloor(balance, price, scale)

\* Base units worth `value' USD, rounded up; defined for price # 0.
AmountFromValueCeil(value, scale, price) == MulDivCeil(value, scale, price)

\* The streaming fee has nothing to charge: the early return of Ok(0).
NoStreamingFee(supply, feeBps, dt) == supply = 0 \/ feeBps = 0 \/ dt <= 0

\* num < den: the function returns MathOverflow for a period whose fee would
\* be the whole fund or more.
StreamingFeeDefined(supply, feeBps, dt) ==
  NoStreamingFee(supply, feeBps, dt) \/ feeBps * dt < BPS * SECONDS_PER_YEAR

\* The fee is charged as dilution, grossed up for its own mint.
StreamingFeeTokens(supply, feeBps, dt) ==
  IF NoStreamingFee(supply, feeBps, dt)
  THEN 0
  ELSE MulDivFloor(supply, feeBps * dt, BPS * SECONDS_PER_YEAR - feeBps * dt)

\* premium_at is defined on a window that is not empty, and only inside it.
PremiumDefined(startTs, endTs, t) ==
  startTs <= t /\ t <= endTs /\ startTs < endTs

\* Linear from startBps to endBps.  Rust's division truncates towards zero;
\* the two agree because startBps <= endBps and startTs <= t.
PremiumAt(startBps, endBps, startTs, endTs, t) ==
  startBps + ((endBps - startBps) * (t - startTs)) \div (endTs - startTs)
==============================================================================
