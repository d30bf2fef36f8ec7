----------------------------- MODULE MCFlockCli -----------------------------
(***************************************************************************)
(* Small instances of FlockCli for TLC.                                    *)
(***************************************************************************)
EXTENDS MCFlockClient, FlockCli

Entry(c, n) == [mint |-> c, bps |-> n]

\* One schedule of fees, for the create of the payer and of a stranger.  The
\* stranger's index has the payer for its manager.
CliFees      == Fees(2, 0, 1, 1, 1)
CliParams    == {CliFees}
CliStrangers == {Who(ann, mgr, ann)}

\* create: the same launch by weight and by units, and one by weight that
\* names a mint twice.
CliLaunch(weights, nav, table) ==
  [who |-> Who(mgr, mgr, mgr), params |-> CliFees, weights |-> weights,
   nav |-> nav, table |-> table]
CliLaunches ==
  {CliLaunch(<<Entry(a, 1), Entry(b, 3)>>, 25, <<>>),
   CliLaunch(<<Entry(b, 2), Entry(b, 2)>>, 25, <<>>),
   CliLaunch(<<>>, 0, <<[mint |-> a, whole |-> 5], [mint |-> b, whole |-> 6]>>)}

\* propose: a weighting that names one mint twice.  bid: back into a.
CliProposals == {[weights |-> <<Entry(a, 0), Entry(b, 1), Entry(a, 3)>>,
                  auction |-> Auction(1, -1, 1, 1)]}
CliBids      == {[sell |-> b, buy |-> a, whole |-> 1]}
CliMarket == {[c \in Mints |-> IF c = a THEN 1 ELSE 5],
              [c \in Mints |-> IF c = a THEN 2 ELSE 0]}
\* claimlaunch: the launch of the docs, with a multisig and a committee.
DelegatedLaunches ==
  {[who |-> Who(gov, ann, gov), params |-> CliFees, nav |-> 25,
    weights |-> <<Entry(a, 1), Entry(b, 3)>>, table |-> <<>>]}
=============================================================================
