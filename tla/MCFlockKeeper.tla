---------------------------- MODULE MCFlockKeeper ----------------------------
(***************************************************************************)
(* Small instances of FlockKeeper for TLC.                                 *)
(***************************************************************************)
EXTENDS MCFlockClient, FlockKeeper

\* keeper: the market pays for taking b out of the fund and a in; the price
\* of b is half a unit below 3.
KeeperAuthorities == {Who(gov, gov, gov)}
KeeperParams      == {Fees(1, 0, 0, 2, 1)}
KeeperAuction     == {Auction(2, -1, 1, 2)}
KeeperMarket      == {[c \in Mints |-> IF c = a THEN 4 ELSE 5]}
NoFee             == {Fees(0, 0, 0, 2, 1)}

\* live: whoever is paid the fee, with an account or without.
LiveAuthorities   == {Who(gov, gov, gov), Who(gov, gov, ann)}
LiveAuction       == {Auction(1, 0, 1, 1)}
NoMarket          == {[c \in Mints |-> 0]}
==============================================================================
