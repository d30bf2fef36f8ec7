--------------------------- MODULE SdkMathTheorems ---------------------------
(***************************************************************************)
(* The SDK's arithmetic against the program's, for all arguments the two   *)
(* are called with (packages/sdk/src/math.ts and program/src/math.rs), and *)
(* what a client may rely on when it acts later on a number it computed.   *)
(***************************************************************************)
EXTENDS SdkMath, FlockMathTheorems

-----------------------------------------------------------------------------
(* Parity.                                                                 *)

LEMMA FloorParity ==
  ASSUME NEW x \in Nat, NEW y \in Nat, NEW d \in Nat \ {0}
  PROVE  mulDivFloor(x, y, d) = MulDivFloor(x, y, d)
<1>1. x * y >= 0
  BY ProductIsNat
<1>. QED
  BY <1>1 DEF mulDivFloor, MulDivFloor, quot

\* One adds d - 1 before it divides, the other takes 1 off and adds it after.
LEMMA CeilParity ==
  ASSUME NEW x \in Nat, NEW y \in Nat, NEW d \in Nat \ {0}
  PROVE  mulDivCeil(x, y, d) = MulDivCeil(x, y, d)
<1> DEFINE n == x * y
           c == MulDivCeil(x, y, d)
<1>1. n \in Nat
  BY ProductIsNat
<1>2. c \in Nat /\ d * c >= n /\ d * c < n + d /\ d * c \in Nat
  BY CeilBounds, ProductIsNat
<1>3. CASE n = 0
  <2>1. c <= 0
    BY <1>3, CeilLeast
  <2>2. mulDivCeil(x, y, d) = 0
    BY <1>3 DEF mulDivCeil
  <2>3. c = 0
    <3> HIDE DEF c
    <3>. QED
      BY <1>2, <2>1
  <2>. QED
    BY <2>2, <2>3
<1>4. CASE n # 0
  <2> DEFINE q == (n - 1) \div d
  <2>1. n - 1 \in Nat
    BY <1>1, <1>4
  <2>2. mulDivCeil(x, y, d) = q + 1
    BY <1>4, <2>1 DEF mulDivCeil, quot
  <2>3. q \in Nat /\ d * q <= n - 1 /\ n - 1 < d * q + d
    <3> HIDE DEF n
    <3>. QED
      BY <2>1, Division
  <2> HIDE DEF q
  <2>4. d * (q + 1) = d * q + d /\ d * q \in Nat
    BY <2>3, ProductIsNat, SMT
  <2>5. x * y <= d * (q + 1) /\ d * (q + 1) < n + d
    <3>1. n <= d * (q + 1) /\ d * (q + 1) < n + d
      <4> HIDE DEF n
      <4>. QED
        BY <1>1, <2>3, <2>4
    <3>. QED
      BY <3>1
  <2>6. c <= q + 1
    BY <2>3, <2>5, CeilLeast
  <2>7. q + 1 <= c
    <3> HIDE DEF n, c
    <3> SUFFICES ASSUME c + 1 <= q + 1 PROVE FALSE
      BY <1>2, <2>3
    <3>1. d * (c + 1) <= d * (q + 1)
      BY <1>2, <2>3, SMT
    <3>2. d * (c + 1) = d * c + d
      BY <1>2, SMT
    <3>3. d * c + d <= d * q + d
      BY <2>4, <3>1, <3>2
    <3>. QED
      BY <1>1, <1>2, <2>4, <2>5, <3>3
  <2>8. q + 1 = c
    <3> HIDE DEF c
    <3>. QED
      BY <1>2, <2>3, <2>6, <2>7
  <2>. QED
    BY <2>2, <2>8
<1>. QED
  BY <1>3, <1>4

\* math.ts:6: what a caller delivers and receives, and what a balance amounts
\* to, are the same numbers on both sides.
THEOREM UnitsParity ==
  ASSUME NEW u \in Nat, NEW amount \in Nat
  PROVE  /\ unitsIn(u, amount) = UnitsIn(u, amount)
         /\ unitsOut(u, amount) = UnitsOut(u, amount)
         /\ amount # 0 => unitsFromBalance(u, amount) = UnitsFromBalance(u, amount)
BY FloorParity, CeilParity, MathAssumption
DEF unitsIn, UnitsIn, unitsOut, UnitsOut, unitsFromBalance, UnitsFromBalance

\* math.ts:49: the fee a client expects is the one the program mints, and it
\* throws exactly where the program refuses.
THEOREM FeeParity ==
  ASSUME NEW s \in Nat, NEW bps \in Nat, NEW dt \in Int
  PROVE  /\ FeePeriodOverflows(s, bps, dt) <=> ~StreamingFeeDefined(s, bps, dt)
         /\ StreamingFeeDefined(s, bps, dt) =>
              streamingFeeTokens(s, bps, dt) = StreamingFeeTokens(s, bps, dt)
<1> DEFINE num == bps * dt
           den == BPS * SECONDS_PER_YEAR
<1>1. num \in Int /\ den \in Nat
  BY ProductIsNat, MathAssumption
<1>2. FeePeriodOverflows(s, bps, dt) <=> ~StreamingFeeDefined(s, bps, dt)
  <2>1. num >= den <=> ~(num < den)
    <3> HIDE DEF num, den
    <3>. QED
      BY <1>1
  <2>. QED
    BY <2>1 DEF FeePeriodOverflows, StreamingFeeDefined, NoStreamingFee
<1>3. ASSUME StreamingFeeDefined(s, bps, dt)
      PROVE  streamingFeeTokens(s, bps, dt) = StreamingFeeTokens(s, bps, dt)
  <2>1. CASE NoStreamingFee(s, bps, dt)
    BY <2>1 DEF streamingFeeTokens, StreamingFeeTokens, NoStreamingFee
  <2>2. CASE ~NoStreamingFee(s, bps, dt)
    <3>1. num < den
      BY <1>3, <2>2 DEF StreamingFeeDefined
    <3>2. dt \in Nat
      BY <2>2 DEF NoStreamingFee
    <3>3. num \in Nat
      BY <3>2, ProductIsNat
    <3>4. den - num \in Nat \ {0}
      <4> HIDE DEF num, den
      <4>. QED
        BY <1>1, <3>1, <3>3
    <3>5. mulDivFloor(s, num, den - num) = MulDivFloor(s, num, den - num)
      <4> HIDE DEF num, den
      <4>. QED
        BY <3>3, <3>4, FloorParity
    <3>. QED
      BY <2>2, <3>5 DEF streamingFeeTokens, StreamingFeeTokens, NoStreamingFee
  <2>. QED
    BY <2>1, <2>2
<1>. QED
  BY <1>2, <1>3

\* math.ts:61 and :76: the premium and the price of a bid are the program's,
\* on the windows a proposal can open.
THEOREM PremiumParity ==
  ASSUME NEW lo \in Int, NEW hi \in Int, lo <= hi,
         NEW t0 \in Nat, NEW t1 \in Nat, NEW t \in Nat,
         PremiumDefined(t0, t1, t)
  PROVE  premiumAt(lo, hi, t0, t1, t) = PremiumAt(lo, hi, t0, t1, t)
<1>1. hi - lo \in Nat /\ t - t0 \in Nat
  BY DEF PremiumDefined
<1>2. (hi - lo) * (t - t0) >= 0
  BY <1>1, ProductIsNat
<1>. QED
  BY <1>2 DEF premiumAt, PremiumAt, quot

\* The program's price of a bid, as BuyAmount of FlockIndex computes it.
Price(sold, s, b, prem) ==
  AmountFromValueCeil(MulDivCeil(ValueE9(sold, s.scale, s.price), BPS - prem,
                                 BPS),
                      b.scale, b.price)

Leg == [scale : Nat \ {0}, price : Nat \ {0}]

THEOREM BidCostParity ==
  ASSUME NEW sold \in Nat, NEW s \in Leg, NEW b \in Leg,
         NEW prem \in Int, prem <= BPS
  PROVE  /\ bidCost(sold, s, b, prem) = Price(sold, s, b, prem)
         /\ Price(sold, s, b, prem) \in Nat
<1> DEFINE out == ValueE9(sold, s.scale, s.price)
           in  == MulDivCeil(out, BPS - prem, BPS)
<1>1. /\ s.scale \in Nat \ {0} /\ s.price \in Nat
      /\ b.scale \in Nat /\ b.price \in Nat \ {0}
  BY DEF Leg
<1>2. BPS \in Nat \ {0} /\ BPS - prem \in Nat
  BY MathAssumption
<1>3. out \in Nat /\ valueE9(sold, s.scale, s.price) = out
  BY <1>1, FloorBounds, FloorParity DEF ValueE9, valueE9
<1> HIDE DEF out
<1>4. in \in Nat /\ mulDivCeil(out, BPS - prem, BPS) = in
  BY <1>2, <1>3, CeilBounds, CeilParity
<1> HIDE DEF in
<1>5. /\ amountFromValueCeil(in, b.scale, b.price)
           = AmountFromValueCeil(in, b.scale, b.price)
      /\ AmountFromValueCeil(in, b.scale, b.price) \in Nat
  BY <1>1, <1>4, CeilBounds, CeilParity DEF AmountFromValueCeil, amountFromValueCeil
<1>. QED
  BY <1>3, <1>4, <1>5 DEF bidCost, Price, out, in

-----------------------------------------------------------------------------
(* A number computed now and used later.                                   *)

LEMMA CeilMonotone ==
  ASSUME NEW x \in Nat, NEW y \in Nat, NEW z \in Nat, y <= z,
         NEW d \in Nat \ {0}
  PROVE  MulDivCeil(x, y, d) <= MulDivCeil(x, z, d)
<1> DEFINE c == MulDivCeil(x, z, d)
<1>1. c \in Nat /\ d * c >= x * z
  BY CeilBounds
<1> HIDE DEF c
<1>2. x * y <= x * z
  BY SMT
<1>3. {x * y, x * z, d * c} \subseteq Nat
  BY <1>1, ProductIsNat
<1>4. x * y <= d * c
  BY <1>1, <1>2, <1>3
<1>. QED
  BY <1>1, <1>4, CeilLeast DEF c

LEMMA FloorMonotone ==
  ASSUME NEW x \in Nat, NEW y \in Nat, NEW z \in Nat, y <= z,
         NEW d \in Nat \ {0}
  PROVE  MulDivFloor(x, y, d) <= MulDivFloor(x, z, d)
<1> DEFINE f == MulDivFloor(x, y, d)
<1>1. f \in Nat /\ d * f <= x * y
  BY FloorBounds
<1> HIDE DEF f
<1>2. x * y <= x * z
  BY SMT
<1>3. {x * y, x * z, d * f} \subseteq Nat
  BY <1>1, ProductIsNat
<1>4. d * f <= x * z
  BY <1>1, <1>2, <1>3
<1>. QED
  BY <1>1, <1>4, FloorGreatest DEF f

\* A share of an amount is at most the amount.
LEMMA ShareAtMostWhole ==
  ASSUME NEW x \in Nat, NEW d \in Nat \ {0}, NEW n \in 0 .. d
  PROVE  mulDivFloor(x, n, d) \in 0 .. x
<1> DEFINE f == MulDivFloor(x, n, d)
<1>1. mulDivFloor(x, n, d) = f /\ f \in Nat /\ d * f <= x * n
  BY FloorParity, FloorBounds
<1> HIDE DEF f
<1>2. x * n <= x * d
  BY SMT
<1>3. x * d = d * x
  BY SMT
<1>4. {d * f, x * n, x * d, d * x} \subseteq Nat
  BY <1>1, ProductIsNat
<1>5. d * f <= d * x
  BY <1>1, <1>2, <1>3, <1>4
<1>6. f <= x
  BY <1>1, <1>5, SMT
<1>. QED
  BY <1>1, <1>6

\* What a truncated quotient that reaches a positive number says of its
\* dividend.  Of zero it says less: a small negative dividend truncates to it.
LEMMA QuotAtLeast ==
  ASSUME NEW x \in Int, NEW d \in Nat \ {0}, NEW m \in Nat \ {0},
         quot(x, d) >= m
  PROVE  x >= m * d
<1>1. CASE x >= 0
  <2> DEFINE q == x \div d
  <2>1. x \in Nat
    BY <1>1
  <2>2. q \in Nat /\ d * q <= x
    BY <2>1, Division
  <2>3. q >= m
    BY <1>1 DEF quot
  <2> HIDE DEF q
  <2>4. m * d <= d * q
    BY <2>2, <2>3, SMT
  <2>5. m * d \in Nat /\ d * q \in Nat
    BY <2>2, ProductIsNat
  <2>. QED
    BY <2>1, <2>2, <2>4, <2>5
<1>2. CASE ~(x >= 0)
  <2> DEFINE q == (-x) \div d
  <2>1. -x \in Nat
    BY <1>2
  <2>2. q \in Nat
    BY <2>1, Division
  <2>3. quot(x, d) = -q
    BY <1>2 DEF quot
  <2> HIDE DEF q
  <2>. QED
    BY <2>2, <2>3
<1>. QED
  BY <1>1, <1>2

\* A higher premium never raises the price.
LEMMA PriceFalls ==
  ASSUME NEW sold \in Nat, NEW s \in Leg, NEW b \in Leg,
         NEW prem \in Int, NEW later \in Int, prem <= later, later <= BPS
  PROVE  Price(sold, s, b, later) <= Price(sold, s, b, prem)
<1> DEFINE out == ValueE9(sold, s.scale, s.price)
           less == MulDivCeil(out, BPS - later, BPS)
           more == MulDivCeil(out, BPS - prem, BPS)
<1>1. /\ s.scale \in Nat \ {0} /\ s.price \in Nat
      /\ b.scale \in Nat /\ b.price \in Nat \ {0}
  BY DEF Leg
<1>2. /\ BPS \in Nat \ {0} /\ BPS - prem \in Nat /\ BPS - later \in Nat
      /\ BPS - later <= BPS - prem
  BY MathAssumption
<1>3. out \in Nat
  BY <1>1, FloorBounds DEF ValueE9
<1> HIDE DEF out
<1>4. less \in Nat /\ more \in Nat /\ less <= more
  BY <1>2, <1>3, CeilBounds, CeilMonotone
<1> HIDE DEF less, more
<1>5. b.scale * less = less * b.scale /\ b.scale * more = more * b.scale
  BY <1>1, <1>4, SMT
<1>6. MulDivCeil(b.scale, less, b.price) <= MulDivCeil(b.scale, more, b.price)
  BY <1>1, <1>4, CeilMonotone
<1>7. MulDivCeil(less, b.scale, b.price) <= MulDivCeil(more, b.scale, b.price)
  BY <1>5, <1>6 DEF MulDivCeil
<1>. QED
  BY <1>7 DEF Price, AmountFromValueCeil, out, less, more

\* commands.ts:556: the exact quote a bid is sent with is enough at every
\* later moment of the auction.  A bid delayed by retries never fails on its
\* price: it is refused only where the window has closed.
THEOREM LaterBidCostsNoMore ==
  ASSUME NEW sold \in Nat, NEW s \in Leg, NEW b \in Leg,
         NEW lo \in Int, NEW hi \in Int, lo <= hi, hi <= BPS,
         NEW t0 \in Nat, NEW t1 \in Nat, NEW t \in Nat, NEW u \in Nat, t <= u,
         PremiumDefined(t0, t1, t), PremiumDefined(t0, t1, u)
  PROVE  Price(sold, s, b, PremiumAt(lo, hi, t0, t1, u))
           <= bidCost(sold, s, b, premiumAt(lo, hi, t0, t1, t))
<1> DEFINE early == PremiumAt(lo, hi, t0, t1, t)
           late  == PremiumAt(lo, hi, t0, t1, u)
<1>1. early \in lo .. hi /\ late \in lo .. hi
  BY PremiumInBand
<1>2. early <= late
  <2>1. /\ hi - lo \in Nat /\ t - t0 \in Nat /\ u - t0 \in Nat
        /\ t - t0 <= u - t0 /\ t1 - t0 \in Nat \ {0}
    BY DEF PremiumDefined
  <2> DEFINE e == MulDivFloor(hi - lo, t - t0, t1 - t0)
             l == MulDivFloor(hi - lo, u - t0, t1 - t0)
  <2>2. e \in Nat /\ l \in Nat /\ e <= l
    BY <2>1, FloorBounds, FloorMonotone
  <2>3. early = lo + e /\ late = lo + l
    BY DEF PremiumAt, MulDivFloor
  <2> HIDE DEF e, l, early, late
  <2>. QED
    BY <2>2, <2>3
<1>3. premiumAt(lo, hi, t0, t1, t) = early
  BY PremiumParity
<1> HIDE DEF early, late
<1>4. early \in Int /\ late \in Int /\ late <= BPS /\ early <= BPS
  BY <1>1, MathAssumption
<1>5. Price(sold, s, b, late) <= Price(sold, s, b, early)
  BY <1>2, <1>4, PriceFalls
<1>6. bidCost(sold, s, b, early) = Price(sold, s, b, early)
  BY <1>4, BidCostParity
<1>. QED
  BY <1>3, <1>5, <1>6 DEF late

\* math.ts:109: the units sized for a weight are never worth more than the
\* weight of the fund at the prices they were sized with, after four
\* roundings: propose cannot plan to hold more than the fund is worth.
THEOREM TargetWithinWeight ==
  ASSUME NEW weight \in Nat, NEW scale \in Nat \ {0}, NEW price \in Nat \ {0},
         NEW nav \in Nat, NEW s \in Nat \ {0}
  PROVE  ValueE9(UnitsOut(unitsForWeight(weight, scale, price, nav, s), s),
                 scale, price)
           <= MulDivFloor(nav, weight, BPS)
<1> DEFINE value == MulDivFloor(nav, weight, BPS)
           size  == MulDivFloor(value, scale, price)
           u     == MulDivFloor(size, UNIT_SCALE, s)
           held  == MulDivFloor(u, s, UNIT_SCALE)
           worth == MulDivFloor(held, price, scale)
<1>1. BPS \in Nat \ {0} /\ UNIT_SCALE \in Nat \ {0}
  BY MathAssumption
<1>2. value \in Nat /\ mulDivFloor(nav, weight, BPS) = value
  BY <1>1, FloorBounds, FloorParity
<1> HIDE DEF value
<1>3. /\ size \in Nat /\ mulDivFloor(value, scale, price) = size
      /\ price * size <= value * scale
  BY <1>2, FloorBounds, FloorParity
<1> HIDE DEF size
<1>4. /\ u \in Nat /\ mulDivFloor(size, UNIT_SCALE, s) = u
      /\ s * u <= size * UNIT_SCALE
  BY <1>1, <1>3, FloorBounds, FloorParity
<1> HIDE DEF u
<1>5. held \in Nat /\ UNIT_SCALE * held <= u * s
  BY <1>1, <1>4, FloorBounds
<1> HIDE DEF held
<1>6. worth \in Nat /\ scale * worth <= held * price
  BY <1>5, FloorBounds
<1> HIDE DEF worth
<1>7. held <= size
  <2>1. u * s = s * u /\ size * UNIT_SCALE = UNIT_SCALE * size
    BY <1>1, <1>3, <1>4, SMT
  <2>2. {UNIT_SCALE * held, s * u, UNIT_SCALE * size} \subseteq Nat
    BY <1>1, <1>3, <1>4, <1>5, ProductIsNat
  <2>3. UNIT_SCALE * held <= UNIT_SCALE * size
    BY <1>4, <1>5, <2>1, <2>2
  <2>. QED
    BY <1>1, <1>3, <1>5, <2>3, SMT
<1>8. worth <= value
  <2>1. held * price <= price * size /\ value * scale = scale * value
    BY <1>2, <1>3, <1>5, <1>7, SMT
  <2>2. {scale * worth, held * price, price * size, scale * value} \subseteq Nat
    BY <1>2, <1>3, <1>5, <1>6, ProductIsNat
  <2>3. scale * worth <= scale * value
    BY <1>3, <1>6, <2>1, <2>2
  <2>. QED
    BY <1>2, <1>6, <2>3, SMT
<1>9. unitsForWeight(weight, scale, price, nav, s) = u
  BY <1>2, <1>3, <1>4 DEF unitsForWeight
<1>. QED
  BY <1>8, <1>9 DEF ValueE9, UnitsOut, worth, held, value
==============================================================================
