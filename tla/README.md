# Flock in TLA+

A verification development for the Flock protocol: the on-chain index program
(`src/program`), the SDK that reads and quotes it (`src/packages/sdk`), the
command line that launches and uses it (`src/apps/cli`) and the keeper that
operates it (`src/apps/keeper`). TLC checks the modules on small instances; TLAPS
proves what the program, the client, the keeper and the command line promise for
every value of the constants. Every safety property that a passing run checks is
also a theorem.

## The system

| Part | State | Operations | Modelled in |
|---|---|---|---|
| Program arithmetic (`program/src/math.rs`) | none | rounding, units, fee dilution, premium | `FlockMath` |
| Index program (`processor.rs`, `state.rs`) | the index account | 12 instructions | `FlockIndex` |
| SPL token program, clock (external) | index mint, holdings, vaults, time | mint, burn, transfer, freeze, open and close accounts | `FlockIndex` |
| What holders are promised (docs) | assets, shares, fee, plan | publish, trade, close, flow, time | `FundPromise`, `FlockRefinement` |
| SDK arithmetic (`math.ts`) | none | the same again, in bigints | `SdkMath` |
| SDK client (`client.ts`) | a snapshot | two reads, quotes, auction view, bounded transactions | `FlockClient` |
| SDK prices (`prices.ts`) | attempt, last answer | one request with retries, conversion | `FlockPrices` |
| CLI (`commands.ts`, `index.ts`) | one running command | create, inspect, issue, redeem, accrue, propose, bid, end | `FlockCli` |
| Keeper (`planner.ts`, `index.ts`) | a pass and its plan, its inventory | read, price, plan, submit | `FlockKeeper` |
| SDK encoding, test builders, deploy script | none | byte layout, uploads | no |

How they meet. A transaction of the program is atomic, and transactions of
different users interleave in any order. The client reads the chain in two
calls, and everything it computes is used later, on a chain that has moved on.
The keeper is a client in a loop: each pass holds a snapshot, then prices, then
an inventory, and submits several transactions planned from them. A command of
the CLI is a client that runs once: a snapshot, perhaps prices, one transaction;
`create` alone sends several, and whoever sees the first can act before the next.

What is hard here:

- *Derived units.* Units are a cache of `vault / supply`; every handler must
  accrue, sync, price and sync again in that order or value moves between
  holders, by one rounding at a time.
- *The fee clock.* The streaming fee is charged as dilution when somebody next
  touches the fund, at a rate that may have changed meanwhile.
- *Auctions.* Proposal, notice, decaying premium, fills, close, while the
  governor changes the ceiling and users issue and redeem.
- *The fee account.* Redemption mints fees first; the recipient's account may
  not exist.
- *Stale views.* Torn snapshots, quotes that land late, plans made from the
  supply before their own accrual, failing transactions in mid plan.
- *Half-done work.* `create` sends its transactions one by one and never resumes;
  between the mint and `init_index` the account is anybody's to initialise.
- *Two implementations.* The SDK computes in its own arithmetic what the program
  will compute; a rounding that differs by one is a rejected transaction.
- *Progress.* An expired auction blocks the next one until somebody closes it.

What makes each part correct: the program's assets cover its units, no holder is
diluted except by the fees in force, fills are on notice and fairly priced, only
the governor changes rules, and redemption is never refused for want of assets;
the client quotes what the program will ask; a command launches, proposes and
bids what it was asked to and what the fund can pay; the keeper only bids what
the program takes, keeps its edge, and closes what has expired. `PROJECT.json`
lists the hazards at their lines, and the properties aimed at each.

## Modules

- `FlockMath`: `math.rs`, each function as the exact integer it computes. A
  checked operation is a guard at its use: `x \in U64` for `to_u64` or a checked
  u64 operation, `x \in U128` for a checked product that can be too wide.
- `FlockIndex` (extends `FlockMath`): the whole program. One action per
  instruction; conditions and early returns are conjuncts; an error is a state
  in which the action is not enabled. Helpers keep the source's names:
  `SyncedUnits` (sync_units), `Owed` and `AccrueAccepted` (accrue), `QuotedUnits`
  (accrue, then sync),
  `NavE6`, `CheckFees`. `IssueInto` takes the index token accounts it runs on, because
  the command line opens the payer's in the transaction that mints into it; `Issue`
  is the instruction alone. The second half of the module is the token program and
  the clock: what a mint's founder, a holder or a donor can do without the
  program.
- `FlockProperties`: what the program promises. `FlockClaims`: statements of its
  comments and docs that the code does not meet.
- `FundPromise`: an abstract fund with none of the machinery: assets, shares, a
  fee settled up to some instant, at most one published plan. `FlockRefinement`
  (extends `FlockProperties`) instantiates it with `assets <- vault`,
  `shares <- supply`, `settled <- lastFeeAccrual`, `clock <- now` and
  `plan <- PublishedPlan`, which forgets targets, authorities, parameters, cached
  units, accounts and holders.
- `SdkMath`: `math.ts` as written: truncating division, ceiling as `(n-1)/d + 1`,
  the places where it throws as conditions its callers state.
- `FlockClient` (extends `FlockIndex`, `SdkMath`): `snapshot()` as two reads with
  `asOf` taken before both, `unitsAt`, the quotes and the bounds the transaction
  builders put on them, the auction view, the fund's value. An amount that is no u64
  cannot be encoded (`Encodable`), and such a transaction is never sent. `touched` is
  history: what changed on chain under the snapshot.
- `FlockPrices` (extends `FlockIndex`): one request with its retries, what is read
  out of an answer, and the answers that throw.
- `FlockCli` (extends `FlockClient`, `FlockPrices`): `job` is the running command
  and its step. An exception, a dry run and a finished command end the same way:
  everything the process knew is gone (`Ends`), and the chain stays as it is.
- `FlockKeeper` (extends `FlockClient`, `FlockPrices`): a pass of `runOnce`,
  `plan()` and the submission loop. Exceptions before the plan end the pass; a
  failed transaction is dropped and the next submitted.
- `MCFlockIndex`, `MCFlockClient`, `MCFlockKeeper`, `MCFlockCli`: instances for TLC.
- `FlockMathTheorems`, `SdkMathTheorems`, `FlockIndexProofs`, `FlockSafetyProofs`,
  `FlockRefinementProofs`, `FlockClientProofs`, `FlockKeeperProofs`,
  `FlockCliProofs`: the proofs, each about the module it is named for.

Correspondence of state: `state`, `authority`, `params`, `lastFeeAccrual`,
`components`, `units`, `targetUnits`, `refPrice` and `rebalance` are fields of
`struct Index`; `supply`, `holding`, `accounts`, `frozen`, `mint` and `vault` are
SPL token state; `now` is the Clock sysvar. `feeDue` (the rate integrated over
time since the last accrual) and `planSupply` are history that no guard reads.

Abstractions. The component table is a set: nothing in the program depends on
its order, and the keeper's bids are submitted in any order instead of table
order. One index token account per key. Component tokens outside the vaults are
unbounded, except the keeper's. Addresses, PDAs, owners and account lists are
fixed by the variables and not guarded; the exceptions are the fee account and
the vaults, which a transaction names from a snapshot (`FeeAccountNamed`,
`VaultsNamed`), and the signatures of `create` (`ManagerSigns`). Names, symbols,
`proposer`, `created_at` and the index's decimals are left out. The client's and
the chain's clock are the same, though read at different moments. A transaction
of the keeper that fails leaves no trace; one that lands but is reported as
failed is the same step as one that succeeds, because the loop treats both alike.
Numbers a user types and prices of the service are in `FINE`-ths of a unit, so that
`Math.round` has something to round; the API's prices are nonnegative.

## Runs

Passing:

| Run | Instance | Shows |
|---|---|---|
| `fund` | one component; a mint its founder can print and freeze; accounts open, close, transfer, burn; fees and donations; a governor whose key never signs | `TypeOK`, `HoldersWhole`, `RedemptionOpen`, `Backed`, `NeverOverbilled`, `GovernorOnly`, `HolderNotDiluted`, `RoundTripsCost`, and that every step is one of the promise (`PromiseKept`) |
| `auction` | two components of different decimals, three ceilings, issues and redemptions while the auction runs | `NoticeHonoured`, `FillFairlyPriced`, `FillBounded`, `Backed`, `TypeOK`, `PromiseKept` |
| `cli` | every command on two components of different decimals, from `create` (by weight, by units, naming a mint twice) to `bid`; a stranger who may initialise the account first, issue, accrue, bid | `LaunchedAsAsked`, `SizedToNav`, `TargetsAffordable`, `BidQuoteStands`, and of the client under every command `LegsExact`, `QuotesExact`, `QuoteStands`, with both type invariants |
| `keeper` | two components, a bidding keeper, a manager who closes and reproposes under it, users who issue, redeem and accrue | `BidsStayInsideLegs`, `EdgeKept`, `KeeperTypeOK` |
| `keeperlive` | one component, a fee recipient with an account or without, no market prices | `ExpiredCloses` |

Violations, each a disagreement between a comment or doc and the code:

| Run | Says | Does |
|---|---|---|
| `claimredemption` | "Redemption stays open, always." | refused while a fee is payable and its recipient has no account |
| `claimfeesettled` | "the old rate applies to the time it was actually in force" | set_params drops the unminted fee |
| `claimnavloss` | a proposal costs "at most the NAV loss the proposal declared" | the floor is absolute, so issuance loosens it per token |
| `claimconvergent` | "every fill moves both legs toward the published targets" | the bought leg may pass its target, up to the ceiling |
| `claimsnapshot` | "One round trip for the index, its mint and every vault." | two, and an accrual between them is charged twice |
| `claimplan` | bids are sized within "what the program will accept" | not after the accrual the same plan submits first |
| `claimlaunch` | `create ... --manager <committee>` adds components and seals | it signs with the payer only, and stops after init_index |

What the `cli` run shows of a launch: a stranger can take the account of a mint
they see before `create` does, and then `create` stops. If it goes through, what it
seals is what was asked for (`LaunchedAsAsked`); the guard that does it is
`init_index` refusing a second time, and the mutant that tolerates an account
already there breaks it. `TargetsAffordable` leaves out weightings with a negative
entry: `parseWeights` accepts `A=-1,A=5000,B=5001`, whose kept entries add up to more
than the fund. `SizedToNav` assumes that the decimals the price API reports are not
more than the mint's, because `create` sizes with them and never reads the mint.

Seen while modelling, and left without a run: target units equal units "when
idle" (`state.rs:41`) only until the next sync; a bid values what it takes rounded
down before it marks the value and rounds up (`math.rs:4`); and getJson retries a
400 it means not to (`prices.ts:79`), because it throws inside its own try.

Bounds. `UNIT_SCALE = 2`, `BPS = 4` and `SECONDS_PER_YEAR = 2` make every
division leave a remainder within a few steps, which is what the rounding
properties are about. `VAULT_LIMIT` and `SUPPLY_LIMIT` stop issues and donations,
never redemptions; `HORIZON` stops the clock after a proposal, its notice, its
auction and, in `keeperlive`, its expiry. `U64_MAX = 1000` is not reached by these
instances: overflow is a guard of the model and an assumption of
`RedemptionOpen`, and the proofs cover it. `INTERFERENCE` is how many steps
others take within one pass of the keeper or one command, time not counted;
between them they are not bounded. One such step is enough for every hazard of
the CLI's list: each is one foreign transaction at the wrong moment.
`MAX_ATTEMPTS = 2` has one retry; `FINE = 2` puts numbers half way between two
integers. `SUPPLY_LIMIT = 2` in `cli` leaves room for one issue of the payer or of a
stranger and the fees on it. Deadlock is not checked: the clock stops at `HORIZON` and an
instance may then have nothing left to do. Every property of a passing run has a
mutant, a small change of one definition under which TLC finds it violated.

Fairness. Only `ExpiredCloses` assumes any. The keeper's loop never ends
(`for (;;)`, with every exception of a pass caught), so starting and finishing a
pass and getting past a transaction are weakly fair. Each remote call may fail
any number of times but not for ever, so its success is strongly fair. Nothing
is assumed of the manager, of other users or of time; and the accrual that may
stand before the close in a plan is not assumed to succeed. Since prices are
fetched before anything is planned, the price service is among the calls the
close depends on.

## Proofs

`FlockMathTheorems`: floor and ceiling division bound their quotient, from which
come the facts the program's promises rest on: derived units never overstate a
balance (`UnitsNeverOverstate`), an issue or a redemption never lowers the units of
the others (`IssueKeepsUnits`, `RedeemKeepsUnits`), what an issue minted redeems for
no more than it took although its own rounding may have raised the units
(`RoundTripPaysNoMore`: the units rise, over what was minted, by less than one base
unit), the streaming fee is at most its rate's share (`StreamingShare`), the premium
stays in its band (`PremiumInBand`). The last part of the module is about sums. The
value of a fund and the outstanding tokens are sums over finite sets, and the
library's induction theorems take an operator, which no installed prover
instantiates; `SubsetInduction` states induction over the subsets of a finite set in
first-order form (a set that contains a subset whenever it contains the strictly
smaller ones contains them all), from the library's theorem that strict inclusion is
well-founded there. From it come `SumType`, `SumScaled` (a sum of parts, each at
most its share, is at most the whole) and `SumUpdate` (what changing one entry
does).

`FlockIndexProofs` proves `TypeCorrect`. Each handler first gets a lemma that
states its effect in the terms the rest needs, so that the provers never see the
whole handler again.

`FlockSafetyProofs` proves the inductive invariant `Safe == TypeOK /\ Lifecycle /\
Backed /\ Billable` (`SafeAlways`). `Backed` alone is not inductive: a bid or a burn
keeps it only if balances are u64s and the mint belongs to the program, since a
founder who could still print would inflate the supply under the units. `Lifecycle`
says that: before the index exists it has no components and no governor, once it
exists the mint is its own, nothing is outstanding before sealing, a running plan
has its notice, its window in order and non-zero prices. `Billable` relates the
accrual clock to `feeDue`; settling the clock in set_params is what preserves it.
From `Safe` follow, for every constant allowed by the assumptions: `AlwaysBacked`,
`NeverOverbilledAlways`, `HolderNeverDiluted`, `NoticeAlwaysHonoured`,
`FillsAlwaysFair`, `OnlyGovernorChangesRules`, `FillsAlwaysBounded`,
`RoundTripsAlwaysCost` (which is about the order accrue, sync, price: quoting from
the cached units breaks it) and `RedemptionCovered` (the vaults cover the payout of
any amount within the supply).

`HoldersAlwaysWhole` and `RedemptionAlwaysOpen` need to know where the supply is.
`Accounted`, the second invariant of the module, says that it is the sum of the
balances from the founder's first mint on, that a closed account held nothing, and
that once the index exists nobody holds tokens in a frozen account; the last
needs the refusals of `init_index` (no freezer, no supply). Redemption is then
open because a holder's balance is within the supply, the payout within the
vaults, and the holder's account unfrozen.

`FlockRefinementProofs` proves `ProgramKeepsPromise`: `Spec => PromiseKept`. A proposal
maps to Publish, a bid to Trade, a close to Close, the clock to Pass, and every
other step that shows at all to Flow, whose obligation is that no share is worth
less than before, after the largest fee the cap allows for the time settled. The
invariant is `Safe` and `Bare` (nothing lies in a vault of a mint outside the
table): before the index exists its founder may print shares, and only an empty
fund loses nothing by it. The fee step uses that fees grow with rate and time
(`FeeMonotone`) and that fewer shares are never worth less
(`LessSupplyKeepsUnits`).

`SdkMathTheorems` proves that the SDK's arithmetic is the program's, function by
function, for arguments the program accepts: `UnitsParity`, `FeeParity` (with the
throw), `PremiumParity`, `BidCostParity`. From them: a bid costs no more later in the
same auction (`LaterBidCostsNoMore`), and a target is worth at most its weight
(`TargetWithinWeight`).

`FlockClientProofs` proves `ClientTypeCorrect`, `QuotesAlwaysExact` and
`QuotesAlwaysStand` for a client whose steps interleave with every step of the
program. Exactness is not inductive: it speaks of a held snapshot, and says
nothing of the account read before the ledger. `Faithful` does: until something
other than an accrual happens, the account read is the account; once the ledger
is read too, the balances are the vaults, the supply is at least what the
snapshot expects an accrual to leave, and exactly that in the instant of the
snapshot. An accrual preserves it because a fee charged later is no smaller, and
an accrual repeated in the same instant charges nothing. `LegsAlwaysExact` uses the
same: the auction view and the caps of the program are computed from the same
figures (`SameFigures`), the value of the fund included, which is a sum term by
term. `Grounded` (the chain's invariant, the client's, and a snapshot whose auction
is a possible one) is stated here once for every program built on the client.

`FlockKeeperProofs` proves `KeeperTypeCorrect`, `BidsAlwaysInsideLegs` and `EdgeAlwaysKept`.
A plan is made once and submitted later, so the invariant `PlanKept` says of every
planned bid what stays true of it whatever the chain does: it is within the sizes
of the snapshot, its price limit covers its cost at this and every later instant
of the auction (`LaterBidCostsNoMore`), its edge at the limit is the minimum or more.
While the fund is untouched the snapshot's sizes are the program's, and the bid
fits. A fill pays at most the limit, hence the edge of a fill. `EdgeAlwaysKept` assumes
a minimum edge other than zero: `edgeBps` truncates towards zero, so with a minimum
of zero a loss below one basis point passes for no loss.

`FlockCliProofs` proves `CliTypeCorrect`, `QuotedBidStands`, `LaunchSizedToNav`,
`LaunchAsAsked` and `PlansAffordable`. `CliInv` is the invariant: `Grounded`, and how far a
command has got is how far its snapshot has (`InStep`), a mint that is not made has
no index (`MintStands`), what a command worked out is still what it would work out
(`Sized`, `Weighed`), and a quote covers the cost until the auction of the snapshot is
over (`Quoted`). `SizedToNav` and `TargetsAffordable` are sums of parts, each at most its
weight, bounded by `SumScaled`. For the launch, `Added` says that between two
transactions of `create` the chain holds what it has sent so far and nothing else.
That is not so for every cast: `LaunchAsAsked` assumes `Uncontested`, that nobody else
signs with the payer's key, nor with the governor's where the payer is the
manager. A governor may install itself as manager, add a component and hand the
role back between two transactions of `create`, and the code has no defence
against the authority it was told to obey. The instance of the run satisfies the
assumption: its payer is its own governor, and the stranger signs with another key.

Assumptions: `MathAssumption` (scales positive), `IndexAssumption` (finitely many keys
and mints, caps of `state.rs` at most `BPS`, callers' choices typed),
`ClientAssumption` (the user's amounts are u64s), and those of prices, keeper and CLI
(requests typed, at least one attempt). TLC evaluates them all. Two theorems have a
hypothesis of their own, `MinEdge # 0` and `Uncontested`, explained above.

Only model-checked: liveness (`ExpiredCloses`; the prover has neither fairness nor
ENABLED), and the claims, which are refuted and not proved.

## Not modelled

- Byte layouts, PDAs, instruction encoding and its fixtures, error wording: no
  property here tells two encodings apart, and the repository holds the two sides
  together with a committed fixture. The size of a transaction is part of this:
  a redemption of many components may not fit a packet.
- Display values: `navPerToken`, the percentages of `weights`, what `inspect` and the
  commands print, the edge `bid` shows; the screening data of `tokens/v2`.
- Flags, keypair files, the cluster's URL and program id, the deploy script.
- A transaction that lands after its sender has given up waiting and moved on:
  the clients do not look for one, and for the program it is a transaction like
  any other.
- More than one index, keeper or command of the same payer at a time.

## Plan

Done in this order: arithmetic, the program with its properties, its type
invariant and safety proofs, the client, the keeper; then the SDK's own
arithmetic, prices, the CLI, the promise to holders and its refinement, the
proofs about the client's quotes, and those about holders, the keeper and the
CLI. To come:

1. What a holder may conclude from `FundPromise` alone (how little a share can be
   worth after any number of steps), as theorems about the abstract fund that the
   program inherits through `ProgramKeepsPromise`.
2. A run with a u64 narrow enough for the checked operations to fail, showing
   which instructions an overflow blocks.
3. Three components and two bids in one plan of the keeper; two keepers.
