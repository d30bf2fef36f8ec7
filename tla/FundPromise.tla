---------------------------- MODULE FundPromise ----------------------------
(***************************************************************************)
(* What an index promises the people who hold it, with none of its         *)
(* machinery: no accounts, authorities, units, caches or handlers.  There  *)
(* are assets, shares in them, a fee paid up to some instant, and at most  *)
(* one published plan.  Three things can happen to the assets: people come *)
(* and go and leave every share worth what it was less the fee; a trade    *)
(* follows the published plan at its prices; or somebody makes a gift.     *)
(*                                                                         *)
(* It is what docs/architecture.md and docs/security.md say of the         *)
(* program; FlockRefinement maps the program's state to this one.          *)
(***************************************************************************)
EXTENDS FlockMath

CONSTANTS
  Mints, DECIMALS_SCALE, MAX_STREAMING_FEE_BPS, MAX_PREMIUM_CEILING_BPS,
  MIN_REBALANCE_DELAY, MAX_AUCTION_DURATION

VARIABLES
  clock,
  assets,            \* base units held, per mint
  shares,            \* index base units in existence
  settled,           \* the instant the streaming fee is paid up to
  plan               \* the published plan: its window and its prices

fund == <<clock, assets, shares, settled, plan>>

NoPlan == [published |-> FALSE, opens |-> 0, closes |-> 0,
           prices |-> [c \in Mints |-> 0]]

Init ==
  /\ clock = 0
  /\ assets = [c \in Mints |-> 0]
  /\ shares = 0
  /\ settled = 0
  /\ plan = NoPlan

\* A plan gives notice, and does not stay open for ever.
Publish ==
  /\ ~plan.published /\ plan'.published
  /\ plan'.opens >= clock + MIN_REBALANCE_DELAY
  /\ plan'.closes <= plan'.opens + MAX_AUCTION_DURATION
  /\ UNCHANGED <<clock, assets, shares, settled>>

\* Inside the window one asset is sold for one other, for at least its worth
\* at the published prices less the largest premium an index may have.
Trade(s, b) ==
  /\ plan.published /\ plan.opens <= clock /\ clock <= plan.closes
  /\ s # b
  /\ assets' = [assets EXCEPT ![s] = assets'[s], ![b] = assets'[b]]
  /\ ValueE9(assets'[b] - assets[b], DECIMALS_SCALE[b], plan.prices[b]) * BPS
       >= ValueE9(assets[s] - assets'[s], DECIMALS_SCALE[s], plan.prices[s])
            * (BPS - MAX_PREMIUM_CEILING_BPS)
  /\ UNCHANGED <<clock, shares, settled, plan>>

Close ==
  /\ plan.published
  /\ plan' = NoPlan
  /\ UNCHANGED <<clock, assets, shares, settled>>

\* The most that settling the fee may add to the shares, where the cap is
\* below the whole fund.
FeeCapped == StreamingFeeDefined(shares, MAX_STREAMING_FEE_BPS, clock - settled)
FeeCap ==
  IF settled' = settled THEN 0
  ELSE StreamingFeeTokens(shares, MAX_STREAMING_FEE_BPS, clock - settled)

\* People come and go, give, and are charged: no share loses more than the
\* fee, and the fee is settled only up to the present.
Flow ==
  /\ UNCHANGED <<clock, plan>>
  /\ settled' \in {settled, clock}
  /\ shares # 0 /\ shares' # 0 /\ FeeCapped
       => \A c \in Mints : UnitsFromBalance(assets'[c], shares')
                             >= UnitsFromBalance(assets[c], shares + FeeCap)

Pass ==
  /\ clock' = clock + 1
  /\ UNCHANGED <<assets, shares, settled, plan>>

Next ==
  \/ Publish
  \/ \E s, b \in Mints : Trade(s, b)
  \/ Close
  \/ Flow
  \/ Pass

Spec == Init /\ [][Next]_fund
=============================================================================
