-------------------------- MODULE FlockMathTheorems --------------------------
(***************************************************************************)
(* Facts about the arithmetic of math.rs, for every value of its           *)
(* constants: what each rounding direction guarantees.                     *)
(***************************************************************************)
EXTENDS FlockMath, Functions, FiniteSetTheorems, WellFoundedInduction,
        TLAPS

\* Integer division, as the provers use it.
LEMMA Division ==
  ASSUME NEW n \in Nat, NEW d \in Nat \ {0}
  PROVE  /\ n \div d \in Nat
         /\ d * (n \div d) <= n
         /\ n < d * (n \div d) + d
BY SMT

LEMMA ProductIsNat ==
  ASSUME NEW m \in Nat, NEW n \in Nat
  PROVE  m * n \in Nat
BY SMT

\* mul_div_floor: the largest natural whose d-fold is at most a * b.
LEMMA FloorBounds ==
  ASSUME NEW a \in Nat, NEW b \in Nat, NEW d \in Nat \ {0}
  PROVE  /\ MulDivFloor(a, b, d) \in Nat
         /\ d * MulDivFloor(a, b, d) <= a * b
         /\ a * b < d * MulDivFloor(a, b, d) + d
BY ProductIsNat, Division DEF MulDivFloor

\* mul_div_ceil: the least natural whose d-fold is at least a * b.
LEMMA CeilBounds ==
  ASSUME NEW a \in Nat, NEW b \in Nat, NEW d \in Nat \ {0}
  PROVE  /\ MulDivCeil(a, b, d) \in Nat
         /\ d * MulDivCeil(a, b, d) >= a * b
         /\ d * MulDivCeil(a, b, d) < a * b + d
<1>1. a * b \in Nat
  BY ProductIsNat
<1>2. a * b + d - 1 \in Nat
  BY <1>1
<1> DEFINE q == (a * b + d - 1) \div d
<1>3. q \in Nat /\ d * q <= a * b + d - 1 /\ a * b + d - 1 < d * q + d
  BY <1>2, Division
<1>4. d * q \in Nat
  BY <1>3, ProductIsNat
<1> HIDE DEF q
<1>5. d * q >= a * b /\ d * q < a * b + d
  BY <1>1, <1>3, <1>4
<1>. QED
  BY <1>3, <1>5 DEF MulDivCeil, q

\* A multiple of d that does not pass a * b does not pass its floor, and one
\* that reaches a * b reaches its ceiling.
LEMMA FloorGreatest ==
  ASSUME NEW a \in Nat, NEW b \in Nat, NEW d \in Nat \ {0}, NEW k \in Nat,
         d * k <= a * b
  PROVE  k <= MulDivFloor(a, b, d)
<1> DEFINE f == MulDivFloor(a, b, d)
<1>1. f \in Nat /\ a * b < d * f + d /\ a * b \in Nat
  BY FloorBounds, ProductIsNat
<1> HIDE DEF f
<1>2. SUFFICES ASSUME k >= f + 1 PROVE FALSE
  BY <1>1 DEF f
<1>3. d * k >= d * (f + 1)
  BY <1>1, <1>2, SMT
<1>4. d * (f + 1) = d * f + d
  BY <1>1, SMT
<1>. QED
  BY <1>1, <1>3, <1>4, ProductIsNat

LEMMA CeilLeast ==
  ASSUME NEW a \in Nat, NEW b \in Nat, NEW d \in Nat \ {0}, NEW k \in Nat,
         a * b <= d * k
  PROVE  MulDivCeil(a, b, d) <= k
<1> DEFINE c == MulDivCeil(a, b, d)
<1>1. c \in Nat /\ d * c < a * b + d /\ a * b \in Nat
  BY CeilBounds, ProductIsNat
<1> HIDE DEF c
<1>2. SUFFICES ASSUME c >= k + 1 PROVE FALSE
  BY <1>1 DEF c
<1>3. d * c >= d * (k + 1)
  BY <1>1, <1>2, SMT
<1>4. d * (k + 1) = d * k + d
  BY SMT
<1>. QED
  BY <1>1, <1>3, <1>4, ProductIsNat

-----------------------------------------------------------------------------
(* Units and what they are worth.                                          *)

\* math.rs:45-48: the units derived from a balance never overstate it.
THEOREM UnitsNeverOverstate ==
  ASSUME NEW v \in Nat, NEW s \in Nat \ {0}
  PROVE  /\ UnitsFromBalance(v, s) \in Nat
         /\ UnitsFromBalance(v, s) * s <= v * UNIT_SCALE
<1> DEFINE u == UnitsFromBalance(v, s)
<1>1. UNIT_SCALE \in Nat
  BY MathAssumption
<1>2. u \in Nat /\ s * u <= v * UNIT_SCALE
  BY <1>1, FloorBounds DEF UnitsFromBalance
<1> HIDE DEF u
<1>3. u * s = s * u
  BY <1>2, SMT
<1>. QED
  BY <1>2, <1>3 DEF u

LEMMA UnitsInOutBounds ==
  ASSUME NEW u \in Nat, NEW g \in Nat
  PROVE  /\ UnitsIn(u, g) \in Nat /\ UNIT_SCALE * UnitsIn(u, g) >= u * g
         /\ UnitsOut(u, g) \in Nat /\ UNIT_SCALE * UnitsOut(u, g) <= u * g
BY MathAssumption, FloorBounds, CeilBounds DEF UnitsIn, UnitsOut

\* Delivering units_in for what is minted never lowers the units of those
\* already holding.
THEOREM IssueKeepsUnits ==
  ASSUME NEW v \in Nat, NEW s \in Nat \ {0}, NEW g \in Nat,
         NEW u, u = UnitsFromBalance(v, s)
  PROVE  UnitsFromBalance(v + UnitsIn(u, g), s + g) >= u
<1> DEFINE r == UnitsIn(u, g)
<1>1. UNIT_SCALE \in Nat /\ u \in Nat /\ u * s <= v * UNIT_SCALE
  BY MathAssumption, UnitsNeverOverstate
<1>2. r \in Nat /\ UNIT_SCALE * r >= u * g
  BY <1>1, UnitsInOutBounds
<1> HIDE DEF r
<1>3. (s + g) * u = u * s + u * g /\ (v + r) * UNIT_SCALE = v * UNIT_SCALE + UNIT_SCALE * r
  BY <1>1, <1>2, SMT
<1>4. {u * s, u * g, v * UNIT_SCALE, UNIT_SCALE * r} \subseteq Nat
  BY <1>1, <1>2, ProductIsNat
<1>5. (s + g) * u <= (v + r) * UNIT_SCALE
  BY <1>1, <1>2, <1>3, <1>4
<1>6. u <= MulDivFloor(v + r, UNIT_SCALE, s + g)
  <2>1. v + r \in Nat /\ s + g \in Nat \ {0}
    BY <1>2
  <2>. QED
    BY <1>1, <1>5, <2>1, FloorGreatest
<1>. QED
  BY <1>1, <1>2, <1>6, FloorBounds DEF UnitsFromBalance, r

\* Units raised by an issue's own rounding are too few to be redeemed for
\* more than the issue took: what was minted pays out at most what was
\* delivered for it.
THEOREM RoundTripPaysNoMore ==
  ASSUME NEW v \in Nat, NEW s \in Nat \ {0}, NEW g \in Nat,
         NEW u, u = UnitsFromBalance(v, s)
  PROVE  UnitsOut(UnitsFromBalance(v + UnitsIn(u, g), s + g), g)
           <= UnitsIn(u, g)
<1> DEFINE S == UNIT_SCALE
           r == UnitsIn(u, g)
           w == UnitsFromBalance(v + r, s + g)
           p == UnitsOut(w, g)
<1>1. S \in Nat \ {0} /\ u \in Nat /\ v * S < s * u + s
  BY MathAssumption, FloorBounds DEF UnitsFromBalance
<1>2. r \in Nat /\ S * r >= u * g /\ S * r < u * g + S
  BY <1>1, CeilBounds DEF UnitsIn
<1>3. w \in Nat /\ (s + g) * w <= (v + r) * S
  <2> HIDE DEF r
  <2>1. v + r \in Nat /\ s + g \in Nat \ {0}
    BY <1>2
  <2>. QED
    BY <1>1, <2>1, FloorBounds DEF UnitsFromBalance
<1>4. p \in Nat /\ S * p <= w * g
  BY <1>3, UnitsInOutBounds
<1>5. w >= u
  BY IssueKeepsUnits
<1> HIDE DEF S, r, w, p
<1> DEFINE d == w - u
<1>6. d \in Nat /\ w = u + d
  BY <1>1, <1>3, <1>5
<1> HIDE DEF d
\* What the units rose by, times the supply, is under the two remainders.
<1>7. (s + g) * d < s + S
  <2>1. (v + r) * S = v * S + S * r
    BY <1>1, <1>2, SMT
  <2>2. (s + g) * w = s * u + u * g + (s + g) * d
    BY <1>1, <1>6, SMT
  <2>3. {v * S, S * r, s * u, u * g} \subseteq Nat
    BY <1>1, <1>2, ProductIsNat
  <2>4. s + g \in Nat
    OBVIOUS
  <2>5. (s + g) * d \in Nat
    BY <1>6, <2>4, ProductIsNat
  <2>. QED
    BY <1>1, <1>2, <1>3, <2>1, <2>2, <2>3, <2>5
\* So on what was minted they rose by less than one base unit.
<1>8. d * g < S
  <2>1. ASSUME d * g >= S
        PROVE  FALSE
    <3>1. d # 0 /\ g # 0
      BY <1>1, <1>6, <2>1, SMT
    <3>2. (s + g) * d = s * d + d * g
      BY <1>6, SMT
    <3>3. s * d >= s
      BY <1>6, <3>1, SMT
    <3>4. {s * d, d * g} \subseteq Nat
      BY <1>6, ProductIsNat
    <3>. QED
      BY <1>1, <1>7, <2>1, <3>2, <3>3, <3>4
  <2>2. d * g \in Nat
    BY <1>6, ProductIsNat
  <2>. QED
    BY <1>1, <2>1, <2>2
<1>9. S * p < S * (r + 1)
  <2>1. w * g = u * g + d * g
    BY <1>1, <1>6, SMT
  <2>2. S * (r + 1) = S * r + S
    BY <1>1, <1>2, SMT
  <2>3. {u * g, d * g, S * r, S * p} \subseteq Nat
    BY <1>1, <1>2, <1>4, <1>6, ProductIsNat
  <2>. QED
    BY <1>1, <1>2, <1>4, <1>8, <2>1, <2>2, <2>3
<1>10. p < r + 1
  <2>1. ASSUME p >= r + 1
        PROVE  FALSE
    <3>1. S * p >= S * (r + 1)
      BY <1>1, <1>2, <1>4, <2>1, SMT
    <3>2. r + 1 \in Nat
      BY <1>2
    <3>3. S * p \in Nat /\ S * (r + 1) \in Nat
      BY <1>1, <1>4, <3>2, ProductIsNat
    <3>. QED
      BY <1>9, <3>1, <3>3
  <2>. QED
    BY <1>2, <1>4, <2>1
<1>. QED
  BY <1>2, <1>4, <1>10 DEF p, w, r

\* What units_out pays is in the vault, and paying it for what is burned
\* never lowers the units of those who stay.
THEOREM RedeemKeepsUnits ==
  ASSUME NEW v \in Nat, NEW s \in Nat \ {0}, NEW n \in 0 .. s,
         NEW u, u = UnitsFromBalance(v, s)
  PROVE  /\ UnitsOut(u, n) <= v
         /\ n # s => UnitsFromBalance(v - UnitsOut(u, n), s - n) >= u
<1> DEFINE p == UnitsOut(u, n)
<1>1. /\ UNIT_SCALE \in Nat \ {0} /\ n \in Nat
      /\ u \in Nat /\ u * s <= v * UNIT_SCALE
  BY MathAssumption, UnitsNeverOverstate
<1>2. p \in Nat /\ UNIT_SCALE * p <= u * n
  BY <1>1, UnitsInOutBounds
<1> HIDE DEF p
<1>3. {u * s, u * n, v * UNIT_SCALE, UNIT_SCALE * p} \subseteq Nat
  BY <1>1, <1>2, ProductIsNat
<1>4. u * n <= u * s
  BY <1>1, SMT
<1>5. UNIT_SCALE * p <= UNIT_SCALE * v
  <2>1. v * UNIT_SCALE = UNIT_SCALE * v
    BY <1>1, SMT
  <2> DEFINE pay == UNIT_SCALE * p
             un  == u * n
             us  == u * s
             all == v * UNIT_SCALE
  <2>2. pay <= all
    <3>1. pay <= un /\ un <= us /\ us <= all /\ {pay, un, us, all} \subseteq Nat
      BY <1>1, <1>2, <1>3, <1>4
    <3> HIDE DEF pay, un, us, all
    <3>. QED
      BY <3>1
  <2>. QED
    BY <2>1, <2>2
<1>6. p <= v
  BY <1>1, <1>2, <1>5, SMT
<1>7. ASSUME n # s
      PROVE  UnitsFromBalance(v - p, s - n) >= u
  <2>1. v - p \in Nat /\ s - n \in Nat \ {0}
    BY <1>2, <1>6, <1>7
  <2>2. (s - n) * u = u * s - u * n /\ (v - p) * UNIT_SCALE = v * UNIT_SCALE - UNIT_SCALE * p
    BY <1>1, <1>2, SMT
  <2>3. (s - n) * u <= (v - p) * UNIT_SCALE
    BY <1>1, <1>2, <1>3, <2>2
  <2>. QED
    BY <1>1, <2>1, <2>3, FloorGreatest, FloorBounds DEF UnitsFromBalance
<1>. QED
  BY <1>6, <1>7 DEF p

-----------------------------------------------------------------------------
(* Fees and premiums.                                                      *)

\* A fee in basis points is at most what it is charged on.
LEMMA FeeAtMostAmount ==
  ASSUME NEW amount \in Nat, NEW bps \in 0 .. BPS
  PROVE  MulDivCeil(amount, bps, BPS) \in 0 .. amount
<1>1. BPS \in Nat \ {0} /\ bps \in Nat
  BY MathAssumption
<1>2. amount * bps <= BPS * amount
  BY <1>1, SMT
<1>. QED
  BY <1>1, <1>2, CeilBounds, CeilLeast

\* math.rs:71-77: minting the streaming fee leaves its recipient at most the
\* fraction fee * dt / year of the supply it ends in.
THEOREM StreamingShare ==
  ASSUME NEW s \in Nat, NEW bps \in Nat, NEW dt \in Nat,
         StreamingFeeDefined(s, bps, dt)
  PROVE  /\ StreamingFeeTokens(s, bps, dt) \in Nat
         /\ StreamingFeeTokens(s, bps, dt) * (BPS * SECONDS_PER_YEAR)
              <= (s + StreamingFeeTokens(s, bps, dt)) * (bps * dt)
<1> DEFINE num == bps * dt
           den == BPS * SECONDS_PER_YEAR
           owed == StreamingFeeTokens(s, bps, dt)
<1>1. num \in Nat /\ den \in Nat
  BY MathAssumption, ProductIsNat
<1>2. CASE NoStreamingFee(s, bps, dt)
  <2>1. owed = 0
    BY <1>2 DEF StreamingFeeTokens
  <2>2. (s + 0) * num \in Nat /\ 0 * den = 0
    BY <1>1, ProductIsNat
  <2>. QED
    BY <2>1, <2>2
<1>3. CASE ~NoStreamingFee(s, bps, dt)
  <2>1. num < den
    BY <1>3 DEF StreamingFeeDefined
  <2>2. owed = MulDivFloor(s, num, den - num)
    BY <1>3 DEF StreamingFeeTokens
  <2> HIDE DEF num, den, owed
  <2>3. owed \in Nat /\ (den - num) * owed <= s * num
    BY <1>1, <2>1, <2>2, FloorBounds
  <2>4. (den - num) * owed = owed * den - owed * num /\ (s + owed) * num = s * num + owed * num
    BY <1>1, <2>3, SMT
  <2>5. {owed * den, owed * num, s * num} \subseteq Nat
    BY <1>1, <2>3, ProductIsNat
  <2>6. owed * den <= (s + owed) * num
    BY <2>3, <2>4, <2>5
  <2>. QED
    BY <2>3, <2>6 DEF num, den, owed
<1>. QED
  BY <1>2, <1>3

\* The same vault over less supply is worth no less a token.
LEMMA LessSupplyKeepsUnits ==
  ASSUME NEW v \in Nat, NEW s \in Nat \ {0}, NEW t \in Nat \ {0}, t <= s
  PROVE  UnitsFromBalance(v, t) >= UnitsFromBalance(v, s)
<1> DEFINE u == UnitsFromBalance(v, s)
<1>1. UNIT_SCALE \in Nat /\ u \in Nat /\ s * u <= v * UNIT_SCALE
  BY MathAssumption, FloorBounds DEF UnitsFromBalance
<1> HIDE DEF u
<1>2. t * u <= s * u
  BY <1>1, SMT
<1>3. {t * u, s * u, v * UNIT_SCALE} \subseteq Nat
  BY <1>1, ProductIsNat
<1>4. t * u <= v * UNIT_SCALE
  BY <1>1, <1>2, <1>3
<1>5. u <= MulDivFloor(v, UNIT_SCALE, t)
  BY <1>1, <1>4, FloorGreatest
<1>6. MulDivFloor(v, UNIT_SCALE, t) \in Nat
  BY <1>1, FloorBounds
<1>. QED
  BY <1>1, <1>5, <1>6 DEF UnitsFromBalance, u

\* A lower rate or a shorter period never charges more, where the higher one
\* is below the whole fund.
LEMMA FeeMonotone ==
  ASSUME NEW s \in Nat, NEW f \in Nat, NEW g \in Nat, f <= g,
         NEW dt \in Int, NEW du \in Nat, dt <= du,
         StreamingFeeDefined(s, g, du)
  PROVE  /\ StreamingFeeDefined(s, f, dt)
         /\ StreamingFeeTokens(s, f, dt) \in Nat
         /\ StreamingFeeTokens(s, g, du) \in Nat
         /\ StreamingFeeTokens(s, f, dt) <= StreamingFeeTokens(s, g, du)
<1>1. StreamingFeeTokens(s, g, du) \in Nat
  BY StreamingShare
<1>2. CASE NoStreamingFee(s, f, dt)
  <2>1. StreamingFeeDefined(s, f, dt) /\ StreamingFeeTokens(s, f, dt) = 0
    BY <1>2 DEF StreamingFeeDefined, StreamingFeeTokens
  <2>. QED
    BY <1>1, <2>1
<1>3. CASE ~NoStreamingFee(s, f, dt)
  <2> DEFINE n == f * dt
             m == g * du
             y == BPS * SECONDS_PER_YEAR
  <2>1. dt \in Nat /\ ~NoStreamingFee(s, g, du)
    BY <1>3 DEF NoStreamingFee
  <2>2. n \in Nat /\ m \in Nat /\ y \in Nat
    BY <2>1, ProductIsNat, MathAssumption
  <2>3. n <= m
    <3>1. f * dt <= g * dt /\ g * dt <= g * du
      BY <2>1, SMT
    <3>2. {f * dt, g * dt, g * du} \subseteq Nat
      BY <2>1, ProductIsNat
    <3>. QED
      BY <3>1, <3>2
  <2>4. m < y
    BY <2>1 DEF StreamingFeeDefined
  <2>5. n < y
    <3> HIDE DEF n, m, y
    <3>. QED
      BY <2>2, <2>3, <2>4
  <2>6. StreamingFeeDefined(s, f, dt)
    BY <2>5 DEF StreamingFeeDefined
  <2> DEFINE x == MulDivFloor(s, n, y - n)
  <2>7. /\ StreamingFeeTokens(s, f, dt) = x
        /\ StreamingFeeTokens(s, g, du) = MulDivFloor(s, m, y - m)
    BY <1>3, <2>1 DEF StreamingFeeTokens
  <2> HIDE DEF n, m, y
  <2>8. y - n \in Nat \ {0} /\ y - m \in Nat \ {0} /\ y - m <= y - n
    BY <2>2, <2>3, <2>4
  <2>9. x \in Nat /\ (y - n) * x <= s * n
    BY <2>2, <2>8, FloorBounds
  <2> HIDE DEF x
  <2>10. (y - m) * x <= (y - n) * x
    BY <2>8, <2>9, SMT
  <2>11. s * n <= s * m
    BY <2>2, <2>3, SMT
  <2>12. {(y - m) * x, (y - n) * x, s * n, s * m} \subseteq Nat
    BY <2>2, <2>8, <2>9, ProductIsNat
  <2>13. (y - m) * x <= s * m
    BY <2>9, <2>10, <2>11, <2>12
  <2>14. x <= MulDivFloor(s, m, y - m)
    BY <2>2, <2>8, <2>9, <2>13, FloorGreatest
  <2>. QED
    BY <1>1, <2>6, <2>7, <2>9, <2>14
<1>. QED
  BY <1>2, <1>3

\* math.rs:90-95: the discount never leaves the band the proposal named.
THEOREM PremiumInBand ==
  ASSUME NEW lo \in Int, NEW hi \in Int, lo <= hi,
         NEW t0 \in Nat, NEW t1 \in Nat, NEW t \in Nat,
         PremiumDefined(t0, t1, t)
  PROVE  PremiumAt(lo, hi, t0, t1, t) \in lo .. hi
<1> DEFINE q == MulDivFloor(hi - lo, t - t0, t1 - t0)
<1>1. hi - lo \in Nat /\ t - t0 \in Nat /\ t1 - t0 \in Nat \ {0} /\ t - t0 <= t1 - t0
  BY DEF PremiumDefined
<1>2. q \in Nat /\ (t1 - t0) * q <= (hi - lo) * (t - t0)
  BY <1>1, FloorBounds
<1> HIDE DEF q
<1>3. (hi - lo) * (t - t0) <= (t1 - t0) * (hi - lo)
  BY <1>1, SMT
<1>4. (t1 - t0) * q <= (t1 - t0) * (hi - lo)
  <2>1. {(t1 - t0) * q, (hi - lo) * (t - t0), (t1 - t0) * (hi - lo)} \subseteq Nat
    BY <1>1, <1>2, ProductIsNat
  <2>. QED
    BY <1>2, <1>3, <2>1
<1>5. q <= hi - lo
  BY <1>1, <1>2, <1>4, SMT
<1>6. PremiumAt(lo, hi, t0, t1, t) = lo + q
  BY DEF PremiumAt, MulDivFloor, q
<1>. QED
  BY <1>1, <1>2, <1>5, <1>6
-----------------------------------------------------------------------------
(* Sums over finite sets.  SumFunction folds a recursive function over the *)
(* subsets of the domain; what it computes is established by induction,    *)
(* here in its first-order form: a set of naturals has a least element,    *)
(* and a family of subsets of a finite set has a minimal one.              *)

LEMMA LeastNumber ==
  ASSUME NEW N \in SUBSET Nat, N # {}
  PROVE  \E m \in N : \A n \in N : m <= n
<1>1. PICK m \in N : \A n \in N : ~(<<n, m>> \in OpToRel(<, Nat))
  BY WFMin, NatLessThanWellFounded
<1>2. \A n \in N : ~(n < m)
  BY <1>1, Zenon DEF OpToRel
<1>. QED
  BY <1>2

\* A set of subsets of a finite set that contains every subset all of whose
\* strict subsets it contains, contains them all.
LEMMA SubsetInduction ==
  ASSUME NEW D, IsFiniteSet(D), NEW Good,
         \A s \in SUBSET D :
           (\A t \in SUBSET s : t # s => t \in Good) => s \in Good
  PROVE  \A s \in SUBSET D : s \in Good
<1> DEFINE Bad == {s \in SUBSET D : s \notin Good}
<1> SUFFICES ASSUME NEW r \in SUBSET D, r \notin Good
             PROVE  FALSE
  OBVIOUS
<1>1. FiniteSubsetsOf(D) = SUBSET D
  BY FS_FiniteSubsetsOfFinite
<1>2. PICK s \in Bad : \A t \in Bad : ~(<<t, s>> \in StrictSubsetOrdering(D))
  <2>1. Bad \subseteq SUBSET D /\ Bad # {}
    OBVIOUS
  <2>2. IsWellFoundedOn(StrictSubsetOrdering(D), SUBSET D)
    <3>1. IsWellFoundedOn(StrictSubsetOrdering(D), FiniteSubsetsOf(D))
      BY FS_StrictSubsetOrderingWellFounded
    <3>. QED
      BY <1>1, <3>1
  <2> HIDE DEF Bad
  <2>. QED
    BY <2>1, <2>2, WFMin
<1>3. \A t \in SUBSET s : t # s => t \in Good
  BY <1>2 DEF StrictSubsetOrdering
<1>. QED
  BY <1>3

\* The element a sum takes first, and one unfolding of it.
Pick(s) == CHOOSE x \in s : TRUE
Unfold(f, g, s) == IF s = {} THEN 0 ELSE f[Pick(s)] + g[s \ {Pick(s)}]

\* The sums of f over the subsets of its domain.
SumOver(f) == CHOOSE g : g = [s \in SUBSET DOMAIN f |-> Unfold(f, g, s)]

LEMMA PickElement ==
  ASSUME NEW s, s # {}
  PROVE  Pick(s) \in s
BY DEF Pick

LEMMA SumIsOverDomain ==
  ASSUME NEW f
  PROVE  SumFunction(f) = SumOver(f)[DOMAIN f]
BY DEF SumOver, Unfold, Pick, SumFunction, SumFunctionOnSet,
       FoldFunctionOnSet, MapThenFoldSet

\* The recursion is well founded: it is solved for subsets of every size.
LEMMA SumExists ==
  ASSUME NEW f, IsFiniteSet(DOMAIN f)
  PROVE  \E g : g = [s \in SUBSET DOMAIN f |-> Unfold(f, g, s)]
<1> DEFINE D       == DOMAIN f
           Upto(n) == {s \in SUBSET D : Cardinality(s) <= n}
           Solved  == {n \in Nat :
                         \E g : g = [s \in Upto(n) |-> Unfold(f, g, s)]}
<1>1. \A s \in SUBSET D : IsFiniteSet(s) /\ Cardinality(s) \in Nat
  BY FS_Subset, FS_CardinalityType
<1>2. 0 \in Solved
  <2>1. Upto(0) = {{}}
    BY <1>1, FS_EmptySet
  <2>2. [s \in Upto(0) |-> 0]
          = [s \in Upto(0) |-> Unfold(f, [t \in Upto(0) |-> 0], s)]
    BY <2>1 DEF Unfold
  <2>. QED
    BY <2>2
<1>3. ASSUME NEW n \in Solved
      PROVE  n + 1 \in Solved
  <2>1. PICK g : g = [s \in Upto(n) |-> Unfold(f, g, s)]
    OBVIOUS
  <2> DEFINE h == [s \in Upto(n + 1) |-> Unfold(f, g, s)]
  <2>2. Upto(n) \subseteq Upto(n + 1)
    BY <1>1
  <2>3. \A s \in Upto(n) : h[s] = g[s]
    BY <2>1, <2>2
  <2>4. ASSUME NEW s \in Upto(n + 1), s # {}
        PROVE  s \ {Pick(s)} \in Upto(n)
    <3>1. Cardinality(s \ {Pick(s)}) = Cardinality(s) - 1
      BY <1>1, <2>4, PickElement, FS_RemoveElement
    <3>2. n \in Nat /\ Cardinality(s) \in Nat /\ Cardinality(s) <= n + 1
      BY <1>1
    <3>3. Cardinality(s \ {Pick(s)}) <= n
      BY <3>1, <3>2
    <3>. QED
      BY <3>3
  <2>5. ASSUME NEW s \in Upto(n + 1)
        PROVE  Unfold(f, g, s) = Unfold(f, h, s)
    BY <2>3, <2>4 DEF Unfold
  <2>6. h = [s \in Upto(n + 1) |-> Unfold(f, h, s)]
    BY <2>5
  <2>7. \E k : k = [s \in Upto(n + 1) |-> Unfold(f, k, s)]
    BY <2>6
  <2> HIDE DEF Upto
  <2>. QED
    BY <2>7
<1> HIDE DEF Solved
<1>4. Cardinality(D) \in Solved
  <2> SUFFICES ASSUME Cardinality(D) \notin Solved PROVE FALSE
    OBVIOUS
  <2>1. PICK m \in Nat \ Solved : \A n \in Nat \ Solved : m <= n
    <3>1. Nat \ Solved \in SUBSET Nat /\ Nat \ Solved # {}
      BY <1>1
    <3>. QED
      BY <3>1, LeastNumber
  <2>2. m - 1 \in Solved /\ m - 1 \in Nat
    BY <1>2, <2>1
  <2>. QED
    BY <1>3, <2>1, <2>2
<1>5. Upto(Cardinality(D)) = SUBSET D
  BY <1>1, FS_Subset
<1>. QED
  BY <1>4, <1>5 DEF Solved

LEMMA SumEquation ==
  ASSUME NEW f, IsFiniteSet(DOMAIN f), NEW s \in SUBSET DOMAIN f
  PROVE  SumOver(f)[s] = Unfold(f, SumOver(f), s)
<1>1. SumOver(f) = [t \in SUBSET DOMAIN f |-> Unfold(f, SumOver(f), t)]
  BY SumExists DEF SumOver
<1>. QED
  BY <1>1

LEMMA SumOverType ==
  ASSUME NEW D, IsFiniteSet(D), NEW f \in [D -> Nat]
  PROVE  \A s \in SUBSET D : SumOver(f)[s] \in Nat
<1> DEFINE Good == {s \in SUBSET D : SumOver(f)[s] \in Nat}
<1>1. ASSUME NEW s \in SUBSET D, \A t \in SUBSET s : t # s => t \in Good
      PROVE  s \in Good
  <2>1. SumOver(f)[s] = Unfold(f, SumOver(f), s)
    BY SumEquation
  <2>2. CASE s = {}
    BY <2>1, <2>2 DEF Unfold
  <2>3. CASE s # {}
    <3>1. Pick(s) \in s
      BY <2>3, PickElement
    <3>2. s \ {Pick(s)} \in Good /\ f[Pick(s)] \in Nat
      BY <1>1, <3>1
    <3>. QED
      BY <2>1, <2>3, <3>2 DEF Unfold
  <2>. QED
    BY <2>2, <2>3
<1> HIDE DEF Good
<1>2. \A s \in SUBSET D : s \in Good
  BY <1>1, SubsetInduction
<1>. QED
  BY <1>2 DEF Good

\* A sum may be begun with any of its elements.
LEMMA SumOverElement ==
  ASSUME NEW D, IsFiniteSet(D), NEW f \in [D -> Nat]
  PROVE  \A s \in SUBSET D : \A x \in s :
           SumOver(f)[s] = f[x] + SumOver(f)[s \ {x}]
<1> DEFINE sum  == SumOver(f)
           Good == {s \in SUBSET D :
                      \A x \in s : sum[s] = f[x] + sum[s \ {x}]}
<1>1. ASSUME NEW s \in SUBSET D, \A t \in SUBSET s : t # s => t \in Good
      PROVE  s \in Good
  <2> SUFFICES ASSUME NEW x \in s PROVE sum[s] = f[x] + sum[s \ {x}]
    OBVIOUS
  <2> DEFINE c == Pick(s)
  <2>1. c \in s
    BY PickElement
  <2>2. sum[s] = f[c] + sum[s \ {c}]
    BY SumEquation DEF Unfold
  <2> HIDE DEF c
  <2>3. CASE c = x
    BY <2>2, <2>3
  <2>4. CASE c # x
    <3>1. x \in s \ {c} /\ c \in s \ {x} /\ s \ {c} \in Good /\ s \ {x} \in Good
      BY <1>1, <2>1, <2>4
    <3>2. (s \ {c}) \ {x} = (s \ {x}) \ {c}
      OBVIOUS
    <3>3. /\ sum[s \ {c}] = f[x] + sum[(s \ {x}) \ {c}]
          /\ sum[s \ {x}] = f[c] + sum[(s \ {x}) \ {c}]
      BY <3>1, <3>2
    <3>4. f[x] \in Nat /\ f[c] \in Nat /\ sum[(s \ {x}) \ {c}] \in Nat
      BY <2>1, SumOverType
    <3> HIDE DEF sum
    <3>. QED
      BY <2>2, <3>3, <3>4
  <2>. QED
    BY <2>3, <2>4
<1> HIDE DEF Good
<1>2. \A s \in SUBSET D : s \in Good
  BY <1>1, SubsetInduction
<1>. QED
  BY <1>2 DEF Good

\* The sum of naturals is a natural, and no part of it exceeds it.
LEMMA SumType ==
  ASSUME NEW D, IsFiniteSet(D), NEW f \in [D -> Nat]
  PROVE  /\ SumFunction(f) \in Nat
         /\ \A x \in D : f[x] <= SumFunction(f)
<1>1. SumFunction(f) = SumOver(f)[D]
  BY SumIsOverDomain
<1>2. SumOver(f)[D] \in Nat
  BY SumOverType
<1>3. ASSUME NEW x \in D
      PROVE  f[x] <= SumOver(f)[D]
  <2>1. SumOver(f)[D] = f[x] + SumOver(f)[D \ {x}]
    BY SumOverElement
  <2>2. SumOver(f)[D \ {x}] \in Nat
    BY SumOverType
  <2>. QED
    BY <2>1, <2>2
<1>. QED
  BY <1>1, <1>2, <1>3

\* k times each term of f is at most n times a term of g, which `at' names.
Dominated(f, g, at, k, n) == \A x \in DOMAIN f : k * f[x] <= n * g[at[x]]

\* Scaled sums compare as their terms do, if no term of g is named twice.
LEMMA SumOverScaled ==
  ASSUME NEW D, IsFiniteSet(D), NEW f \in [D -> Nat],
         NEW E, IsFiniteSet(E), NEW g \in [E -> Nat],
         NEW at \in [D -> E], IsInjective(at),
         NEW k \in Nat, NEW n \in Nat, Dominated(f, g, at, k, n)
  PROVE  \A s \in SUBSET D :
           k * SumOver(f)[s] <= n * SumOver(g)[{at[x] : x \in s}]
<1>0. ASSUME NEW r \in SUBSET E, NEW y \in r
      PROVE  SumOver(g)[r] = g[y] + SumOver(g)[r \ {y}]
  BY SumOverElement
<1> DEFINE img(s) == {at[x] : x \in s}
           Good   == {s \in SUBSET D :
                        k * SumOver(f)[s] <= n * SumOver(g)[img(s)]}
<1>1. ASSUME NEW s \in SUBSET D, \A t \in SUBSET s : t # s => t \in Good
      PROVE  s \in Good
  <2>1. CASE s = {}
    <3>1. img(s) = {}
      BY <2>1
    <3>2. SumOver(f)[s] = 0 /\ SumOver(g)[img(s)] = 0
      BY <2>1, <3>1, SumEquation DEF Unfold
    <3>. QED
      BY <3>2
  <2>2. ASSUME NEW x \in s
        PROVE  s \in Good
    <3> DEFINE t == s \ {x}
               a == f[x]
               b == g[at[x]]
               A == SumOver(f)[t]
               B == SumOver(g)[img(t)]
    <3>1. t \in Good
      BY <1>1
    <3>2. img(s) \in SUBSET E /\ at[x] \in img(s) /\ img(t) = img(s) \ {at[x]}
      <4>1. img(s) \in SUBSET E /\ at[x] \in img(s)
        OBVIOUS
      <4>2. \A y \in t : at[y] # at[x]
        BY DEF IsInjective
      <4>3. img(t) = img(s) \ {at[x]}
        <5>1. ASSUME NEW e \in img(t)
              PROVE  e \in img(s) \ {at[x]}
          BY <4>2
        <5>2. ASSUME NEW e \in img(s) \ {at[x]}
              PROVE  e \in img(t)
          OBVIOUS
        <5> HIDE DEF img
        <5>. QED
          BY <5>1, <5>2
      <4>. QED
        BY <4>1, <4>3
    <3>3. SumOver(f)[s] = a + A
      BY SumOverElement
    <3>4. SumOver(g)[img(s)] = b + B
      <4> HIDE DEF img
      <4>. QED
        BY <1>0, <3>2
    <3>5. a \in Nat /\ A \in Nat
      BY SumOverType
    <3>6. b \in Nat /\ B \in Nat
      <4>1. img(t) \in SUBSET E
        OBVIOUS
      <4>. QED
        BY <4>1, SumOverType
    <3>7. k * a <= n * b /\ k * A <= n * B
      BY <3>1 DEF Dominated
    <3> HIDE DEF a, b, A, B
    <3>8. k * (a + A) = k * a + k * A /\ n * (b + B) = n * b + n * B
      BY <3>5, <3>6, SMT
    <3>9. {k * a, k * A, n * b, n * B} \subseteq Nat
      BY <3>5, <3>6, ProductIsNat
    <3>10. k * (a + A) <= n * (b + B)
      BY <3>7, <3>8, <3>9
    <3>. QED
      BY <3>3, <3>4, <3>10
  <2>. QED
    BY <2>1, <2>2
<1> HIDE DEF Good
<1>2. \A s \in SUBSET D : s \in Good
  BY <1>1, SubsetInduction
<1>. QED
  BY <1>2 DEF Good

\* What a sum over part of the domain leaves out only adds to it.
LEMMA SumOverPart ==
  ASSUME NEW D, IsFiniteSet(D), NEW f \in [D -> Nat], NEW s \in SUBSET D
  PROVE  SumOver(f)[s] <= SumFunction(f)
<1> DEFINE part(r) == SumOver(f)[r]
           Good == {t \in SUBSET (D \ s) : part(s) <= part(s \cup t)}
<1>1. ASSUME NEW t \in SUBSET (D \ s), \A r \in SUBSET t : r # t => r \in Good
      PROVE  t \in Good
  <2>1. part(s) \in Nat
    BY SumOverType
  <2>2. CASE t = {}
    <3>1. s \cup t = s
      BY <2>2
    <3>2. part(s) <= part(s \cup t)
      <4> HIDE DEF part
      <4>. QED
        BY <2>1, <3>1
    <3>. QED
      BY <3>2
  <2>3. ASSUME NEW x \in t
        PROVE  t \in Good
    <3>1. (s \cup t) \ {x} = s \cup (t \ {x})
      OBVIOUS
    <3>2. part(s \cup t) = f[x] + part((s \cup t) \ {x})
      <4>1. s \cup t \in SUBSET D /\ x \in s \cup t
        OBVIOUS
      <4>. QED
        BY <4>1, SumOverElement
    <3>3. f[x] \in Nat /\ part(s \cup (t \ {x})) \in Nat
      <4>1. s \cup (t \ {x}) \in SUBSET D
        OBVIOUS
      <4>. QED
        BY <4>1, SumOverType
    <3>4. part(s) <= part(s \cup (t \ {x}))
      <4>1. t \ {x} \in Good
        BY <1>1
      <4>. QED
        BY <4>1
    <3>5. part(s) <= part(s \cup t)
      <4> HIDE DEF part
      <4>. QED
        BY <2>1, <3>1, <3>2, <3>3, <3>4
    <3>. QED
      BY <3>5
  <2>. QED
    BY <2>2, <2>3
<1> HIDE DEF Good
<1>2. \A t \in SUBSET (D \ s) : t \in Good
  <2> DEFINE rest == D \ s
  <2>1. IsFiniteSet(rest)
    BY FS_Subset
  <2>2. \A t \in SUBSET rest :
          (\A r \in SUBSET t : r # t => r \in Good) => t \in Good
    BY <1>1
  <2> HIDE DEF rest
  <2>3. \A t \in SUBSET rest : t \in Good
    BY <2>1, <2>2, SubsetInduction
  <2>. QED
    BY <2>3 DEF rest
<1>3. part(s) <= part(s \cup (D \ s)) /\ s \cup (D \ s) = D
  BY <1>2 DEF Good
<1>. QED
  BY <1>3, SumIsOverDomain

\* The whole of one sum against the whole of the other.
LEMMA SumScaled ==
  ASSUME NEW D, IsFiniteSet(D), NEW f \in [D -> Nat],
         NEW E, IsFiniteSet(E), NEW g \in [E -> Nat],
         NEW at \in [D -> E], IsInjective(at),
         NEW k \in Nat, NEW n \in Nat, Dominated(f, g, at, k, n)
  PROVE  k * SumFunction(f) <= n * SumFunction(g)
<1> DEFINE A == SumFunction(f)
           B == SumOver(g)[{at[x] : x \in D}]
           C == SumFunction(g)
<1>1. k * A <= n * B
  <2>1. D \in SUBSET D /\ A = SumOver(f)[D]
    BY SumIsOverDomain
  <2>2. \A s \in SUBSET D :
          k * SumOver(f)[s] <= n * SumOver(g)[{at[x] : x \in s}]
    BY SumOverScaled
  <2>. QED
    BY <2>1, <2>2
<1>2. {at[x] : x \in D} \in SUBSET E
  OBVIOUS
<1>3. A \in Nat /\ C \in Nat
  BY SumType
<1>4. B \in Nat /\ B <= C
  BY <1>2, SumOverType, SumOverPart
<1> HIDE DEF A, B, C
<1>5. n * B <= n * C
  BY <1>3, <1>4, SMT
<1>6. k * A \in Nat /\ n * B \in Nat /\ n * C \in Nat
  BY <1>3, <1>4, ProductIsNat
<1>7. k * A <= n * C
  BY <1>1, <1>5, <1>6
<1>. QED
  BY <1>7 DEF A, C

\* Functions that agree on a set have the same sum over it.
LEMMA SumOverAgrees ==
  ASSUME NEW D, IsFiniteSet(D), NEW f \in [D -> Nat], NEW g \in [D -> Nat],
         NEW s \in SUBSET D, \A x \in s : f[x] = g[x]
  PROVE  SumOver(f)[s] = SumOver(g)[s]
<1> DEFINE Good == {t \in SUBSET s : SumOver(f)[t] = SumOver(g)[t]}
<1>1. ASSUME NEW t \in SUBSET s, \A r \in SUBSET t : r # t => r \in Good
      PROVE  t \in Good
  <2>1. CASE t = {}
    BY <2>1, SumEquation DEF Unfold
  <2>2. ASSUME NEW x \in t
        PROVE  t \in Good
    <3>1. SumOver(f)[t \ {x}] = SumOver(g)[t \ {x}] /\ t \in SUBSET D
      BY <1>1
    <3>2. SumOver(f)[t] = f[x] + SumOver(f)[t \ {x}]
      BY <3>1, SumOverElement
    <3>3. SumOver(g)[t] = g[x] + SumOver(g)[t \ {x}]
      BY <3>1, SumOverElement
    <3>. QED
      BY <3>1, <3>2, <3>3
  <2>. QED
    BY <2>1, <2>2
<1> HIDE DEF Good
<1>2. \A t \in SUBSET s : t \in Good
  BY <1>1, SubsetInduction, FS_Subset
<1>. QED
  BY <1>2 DEF Good

\* One entry replaced: the sum moves by the difference.
LEMMA SumUpdate ==
  ASSUME NEW D, IsFiniteSet(D), NEW f \in [D -> Nat],
         NEW x \in D, NEW v \in Nat
  PROVE  SumFunction([f EXCEPT ![x] = v]) = SumFunction(f) - f[x] + v
<1> DEFINE g == [f EXCEPT ![x] = v]
           rest == SumOver(f)[D \ {x}]
<1>1. g \in [D -> Nat] /\ g[x] = v
  OBVIOUS
<1>2. \A y \in D \ {x} : g[y] = f[y]
  OBVIOUS
<1>3. SumOver(f)[D] = f[x] + rest
  BY SumOverElement
<1> HIDE DEF g
<1>4. SumOver(g)[D \ {x}] = rest
  <2>1. D \ {x} \in SUBSET D
    OBVIOUS
  <2>2. SumOver(g)[D \ {x}] = SumOver(f)[D \ {x}]
    BY <1>1, <1>2, <2>1, SumOverAgrees
  <2>. QED
    BY <2>2
<1>5. SumOver(g)[D] = g[x] + SumOver(g)[D \ {x}]
  BY <1>1, SumOverElement
<1>6. SumFunction(g) = SumOver(g)[D] /\ SumFunction(f) = SumOver(f)[D]
  BY <1>1, SumIsOverDomain
<1>7. rest \in Nat /\ f[x] \in Nat
  BY SumOverType
<1> HIDE DEF rest
<1>8. SumFunction(g) = SumFunction(f) - f[x] + v
  BY <1>1, <1>3, <1>4, <1>5, <1>6, <1>7
<1>. QED
  BY <1>8 DEF g

LEMMA SumOfZeros ==
  ASSUME NEW D, IsFiniteSet(D), NEW f \in [D -> Nat], \A x \in D : f[x] = 0
  PROVE  SumFunction(f) = 0
<1> DEFINE Good == {s \in SUBSET D : SumOver(f)[s] = 0}
<1>1. ASSUME NEW s \in SUBSET D, \A t \in SUBSET s : t # s => t \in Good
      PROVE  s \in Good
  <2>1. CASE s = {}
    BY <2>1, SumEquation DEF Unfold
  <2>2. ASSUME NEW x \in s
        PROVE  s \in Good
    <3>1. SumOver(f)[s \ {x}] = 0
      BY <1>1
    <3>2. SumOver(f)[s] = f[x] + SumOver(f)[s \ {x}]
      BY SumOverElement
    <3>. QED
      BY <3>1, <3>2
  <2>. QED
    BY <2>1, <2>2
<1> HIDE DEF Good
<1>2. \A s \in SUBSET D : s \in Good
  BY <1>1, SubsetInduction
<1>. QED
  BY <1>2, SumIsOverDomain DEF Good
==============================================================================
