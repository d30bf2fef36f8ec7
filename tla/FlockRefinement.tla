--------------------------- MODULE FlockRefinement ---------------------------
(***************************************************************************)
(* The index program implements the promise made to its holders.  The      *)
(* mapping forgets who may do what and how the program keeps its books:    *)
(* the cached units, the targets, the authorities, the fee parameters.     *)
(***************************************************************************)
EXTENDS FlockProperties

PublishedPlan ==
  IF rebalance.active
  THEN [published |-> TRUE, opens |-> rebalance.startTs,
        closes |-> rebalance.endTs, prices |-> refPrice]
  ELSE [published |-> FALSE, opens |-> 0, closes |-> 0,
        prices |-> [c \in Mints |-> 0]]

Promise == INSTANCE FundPromise
             WITH clock <- now, assets <- vault, shares <- supply,
                  settled <- lastFeeAccrual, plan <- PublishedPlan

\* docs/architecture.md:29 and docs/security.md:11: every step of every
\* handler, of the token program and of the clock is, seen from outside, one
\* the promise allows, or one nobody outside can see.
PromiseKept == Promise!Spec
==============================================================================
