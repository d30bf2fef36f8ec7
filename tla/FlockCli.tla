------------------------------ MODULE FlockCli ------------------------------
(***************************************************************************)
(* The command line (apps/cli/src/commands.ts): one command at a time, its *)
(* transactions sent one after the other, on a chain others use too.       *)
(*                                                                         *)
(* create makes the mint, the index account, the components and the fee    *)
(* account in separate transactions.  Every other command takes a          *)
(* snapshot, some of them fetch prices, and at most one transaction is     *)
(* sent.  An exception anywhere ends the command where it stands: nothing  *)
(* is resumed or rolled back.                                              *)
(*                                                                         *)
(* Whole amounts are given in FINE-ths, as the numbers a user types.       *)
(***************************************************************************)
EXTENDS FlockClient, FlockPrices, Sequences

CONSTANTS
  Payer,             \* the keypair every command signs with
  LaunchRequests,    \* [who, params, weights, nav, table] asked of create;
                     \*   weights is empty when --components gives the table
  WholeAmounts,      \* index tokens asked of issue and redeem
  ProposeRequests,   \* [weights, auction] asked of propose
  BidRequests,       \* [sell, buy, whole] asked of bid
  QUOTED_SCALE,      \* ten to the decimals that the price API reports
  INTERFERENCE       \* bound: steps of others within one command, time aside

\* An entry of a weighting.  A negative amount or value always ends in an
\* exception, a negative weight need not.
EntryType == [mint : Mints, bps : Int]

ASSUME CliAssumption ==
  /\ Payer \in Keys
  /\ \A r \in LaunchRequests :
       /\ r.who \in [Roles -> Keys] /\ r.params \in ParamType /\ r.nav \in Nat
       /\ r.weights \in Seq(EntryType)
       /\ r.table \in Seq([mint : Mints, whole : Nat])
  /\ WholeAmounts \subseteq Nat
  /\ \A r \in ProposeRequests :
       r.weights \in Seq(EntryType) /\ r.auction \in AuctionType
  /\ \A r \in BidRequests : {r.sell, r.buy} \subseteq Mints /\ r.whole \in Nat
  /\ QUOTED_SCALE \in [Mints -> Nat \ {0}]
  /\ INTERFERENCE \in Nat

VARIABLES
  job,               \* the command that runs, and how far it has got
  minted,            \* the index mint exists
  others             \* counts the steps INTERFERENCE bounds

cliVars == <<vars, clientVars, touched, priceVars, job, minted, others>>

Idle == [kind |-> "none", step |-> "none", arg |-> None, table |-> <<>>,
         at |-> 1, quote |-> 0]

Running(kind, step) == job.kind = kind /\ job.step = step
Goes(step)          == job' = [job EXCEPT !.step = step]

\* A command that reads leaves the chain as it is.
Reads == UNCHANGED <<vars, priceVars, minted, others>>

\* The process ends, and all it knew is gone.
EndsReading ==                                                   \* mutant
  job' = Idle /\ others' = 0 /\ NothingFetched
    /\ UNCHANGED <<clientVars, touched>>
EndsHolding ==                                                   \* mutant
  job' = Idle /\ others' = 0 /\ NothingFetched
    /\ reading' = "idle" /\ touched' = "no" /\ UNCHANGED snapshot
Ends ==
  /\ job' = Idle /\ others' = 0
  /\ NothingFetched
  /\ reading' = "idle" /\ snapshot' = NoSnapshot /\ touched' = "no"

\* An exception, a dry run, or the output of a command that sends nothing.
CommandStops == job # Idle /\ Ends /\ UNCHANGED <<vars, minted>>

-----------------------------------------------------------------------------
(* A weighting: MINT=BPS entries, in the order they were typed.            *)

Named(w) == {w[i].mint : i \in DOMAIN w}

\* parseWeights refuses what does not add up; a mint may come twice.
FullyAllocated(w) == SumFunction([i \in DOMAIN w |-> w[i].bps]) = BPS

\* A Map of the entries: the last one of a mint stands.
WeightOf(w, c) == w[Max({i \in DOMAIN w : w[i].mint = c})].bps

-----------------------------------------------------------------------------
(* create.                                                                 *)

\* Units of a weighting at the prices fetched, and the units typed.
SizedTable(r, price) ==
  [i \in DOMAIN r.weights |->
     LET c == r.weights[i].mint
     IN  [mint  |-> c,
          units |-> unitsForWeight(r.weights[i].bps, QUOTED_SCALE[c],
                                   price[c], Rounded(r.nav), UNIT_SCALE)]]
TypedTable(r) ==
  [i \in DOMAIN r.table |->
     LET c == r.table[i].mint
     IN  [mint  |-> c,
          units |-> Rounded(r.table[i].whole * DECIMALS_SCALE[c])]]

Positive(table) == \A i \in DOMAIN table : table[i].units > 0

StartCreate(r) ==
  /\ job = Idle /\ ~minted
  /\ \/ /\ r.weights # <<>>
        /\ r.nav # 0
        /\ FullyAllocated(r.weights)
        /\ job' = [Idle EXCEPT !.kind = "create", !.arg = r,
                               !.step = "prices"]
     \/ /\ r.weights = <<>>
        /\ Positive(TypedTable(r))
        /\ job' = [Idle EXCEPT !.kind = "create", !.arg = r,
                               !.step = "mint", !.table = TypedTable(r)]
  /\ Reads /\ UNCHANGED <<clientVars, touched>>

\* The mint: the index PDA is its authority, and it has no freezer.
SendMint ==
  /\ Running("create", "mint")
  /\ minted' = TRUE
  /\ Goes("init")
  /\ UNCHANGED <<vars, clientVars, touched, priceVars, others>>

CreateSends == UNCHANGED <<clientVars, touched, priceVars, minted, others>>

\* init_index is open to anyone: the account may be there already.
InitTolerated ==                                                 \* mutant
  /\ Running("create", "init")
  /\ \/ InitIndex(job.arg.who, job.arg.params)
     \/ state # "absent" /\ UNCHANGED vars
  /\ Goes("add")
  /\ CreateSends
SendInit ==
  /\ Running("create", "init")
  /\ InitIndex(job.arg.who, job.arg.params)
  /\ Goes("add")
  /\ CreateSends

\* The manager must sign, and the payer's is the only signature there is.
ManagerSigns == job.arg.who["manager"] = Payer

SendAdd ==
  /\ Running("create", "add") /\ job.at <= Len(job.table)
  /\ ManagerSigns
  /\ job.table[job.at].units \in U64
  /\ AddComponent(Payer, job.table[job.at].mint, job.table[job.at].units)
  /\ job' = [job EXCEPT !.at = @ + 1]
  /\ CreateSends

SendSeal ==
  /\ Running("create", "add") /\ job.at > Len(job.table)
  /\ ManagerSigns
  /\ SealIndex(Payer)
  /\ Goes("feeAccount")
  /\ CreateSends

SendFeeAccount ==
  /\ Running("create", "feeAccount")
  /\ LET recipient == job.arg.who["feeRecipient"]
     IN  OpenAccount(recipient) \/ (recipient \in accounts /\ UNCHANGED vars)
  /\ Ends
  /\ UNCHANGED minted

SendCreate == SendMint \/ SendInit \/ SendAdd \/ SendSeal \/ SendFeeAccount

-----------------------------------------------------------------------------
(* The commands on an index that exists.                                   *)

Command(kind, arg) == [Idle EXCEPT !.kind = kind, !.arg = arg,
                                   !.step = "snapshot"]
Commands ==
  {Command(kind, None) : kind \in {"inspect", "accrue", "end"}}
    \cup {Command(kind, whole) : kind \in {"issue", "redeem"},
                                 whole \in WholeAmounts}
    \cup {Command("propose", r) : r \in ProposeRequests}
    \cup {Command("bid", r) : r \in BidRequests}

StartCommand(command) ==
  /\ job = Idle /\ minted
  /\ StartSnapshot
  /\ job' = command
  /\ UNCHANGED <<priceVars, minted, others>>

CliReadsAccount == ReadAccount /\ Reads /\ UNCHANGED job
CliReadsLedger  == ReadLedger /\ Reads /\ Goes("held")

\* propose names the components of the index, all of them and no other mint.
CheckWeights ==
  /\ Running("propose", "held")
  /\ FullyAllocated(job.arg.weights)
  /\ Named(job.arg.weights) = snapshot.account.components
  /\ Goes("prices")
  /\ Reads /\ UNCHANGED <<clientVars, touched>>

\* bid takes the premium of the moment, and prices the bid with it.
SoldBy(r) == Rounded(r.whole * DECIMALS_SCALE[r.sell])
QuoteAtClose(r) ==                                               \* mutant
  bidCost(SoldBy(r), SnapLeg(r.sell), SnapLeg(r.buy), Plan.endPremium)
QuoteOf(r) ==
  bidCost(SoldBy(r), SnapLeg(r.sell), SnapLeg(r.buy), SnapPremium)

QuoteBid ==
  /\ Running("bid", "held")
  /\ {job.arg.sell, job.arg.buy} \subseteq snapshot.account.components
  /\ Plan.active
  /\ PremiumDefined(Plan.startTs, Plan.endTs, now)
  /\ job' = [job EXCEPT !.step = "prices", !.quote = QuoteOf(job.arg)]
  /\ Reads /\ UNCHANGED <<clientVars, touched>>

-----------------------------------------------------------------------------
(* Prices, for the commands that fetch them.                               *)

Inspect ==
  /\ Running("inspect", "held")
  /\ Goes("prices")
  /\ Reads /\ UNCHANGED <<clientVars, touched>>

\* create and propose refuse to go on without a price for every component;
\* bid and inspect only show them.
Priced(price) ==
  CASE job.kind = "create"  -> \A c \in Named(job.arg.weights) : price[c] # 0
    [] job.kind = "propose" ->
         \A c \in snapshot.account.components : price[c] # 0
    [] OTHER -> TRUE

CliPricesArrive(answer) ==
  LET price == parsePriceResponse(answer)
      table == SizedTable(job.arg, price)
  IN  /\ job.step = "prices"
      /\ FetchPrices(answer)
      /\ Priced(price)
      /\ IF job.kind = "create"
         THEN /\ Positive(table)
              /\ job' = [job EXCEPT !.step = "mint", !.table = table]
         ELSE Goes("send")
      /\ UNCHANGED <<vars, clientVars, touched, minted, others>>

CliPricesRetried ==
  /\ job.step = "prices"
  /\ RetryRequest
  /\ UNCHANGED <<vars, clientVars, touched, job, minted, others>>

-----------------------------------------------------------------------------
(* The transaction.                                                        *)

\* issue opens the payer's index account in the transaction that mints into
\* it: the program runs on the accounts the first instruction left.
AmountOf(whole) == Rounded(whole * UNIT_SCALE)
SendIssue ==
  /\ Running("issue", "held")
  /\ SubmitIssueInto(accounts \cup {Payer}, Payer, AmountOf(job.arg))
  /\ Ends /\ UNCHANGED minted

SendRedeem ==
  /\ Running("redeem", "held")
  /\ SubmitRedeem(Payer, AmountOf(job.arg))
  /\ Ends /\ UNCHANGED minted

SendAccrue ==
  /\ Running("accrue", "held")
  /\ VaultsNamed /\ FeeAccountNamed(0)
  /\ AccrueFees
  /\ Ends /\ UNCHANGED minted

\* The targets: the weights of the snapshot's value at the prices fetched.
TargetsOf(w) ==
  [c \in snapshot.account.components |->
     unitsForWeight(WeightOf(w, c), DECIMALS_SCALE[c], market[c],
                    SnapNav(market), snapshot.supply)]

SendPropose ==
  /\ Running("propose", "send")
  /\ VaultsNamed
  /\ snapshot.supply # 0
  /\ Encodable(TargetsOf(job.arg.weights)) /\ Fits(market)
  /\ ProposeRebalance(Payer, TargetsOf(job.arg.weights), market,
                      job.arg.auction)
  /\ Ends /\ UNCHANGED minted

\* The quote is the most it pays: no slippage is allowed for.
SendBid ==
  /\ Running("bid", "send")
  /\ VaultsNamed
  /\ {SoldBy(job.arg), job.quote} \subseteq U64
  /\ Bid(job.arg.sell, job.arg.buy, SoldBy(job.arg), job.quote)
  /\ Ends /\ UNCHANGED minted

SendEnd ==
  /\ Running("end", "held")
  /\ VaultsNamed
  /\ EndRebalance(Payer)
  /\ Ends /\ UNCHANGED minted

-----------------------------------------------------------------------------
\* Nobody knows of the index before its mint is there.
OthersMove ==
  /\ ChainMoves
  /\ minted \/ now' # now
  /\ others' = IF job = Idle \/ now' # now THEN others ELSE others + 1
  /\ others' <= INTERFERENCE
  /\ UNCHANGED <<priceVars, job, minted>>

CliInit ==
  /\ ClientInit
  /\ attempt = 0 /\ market = NoPrices
  /\ job = Idle /\ minted = FALSE /\ others = 0

CliNext ==
  \/ OthersMove
  \/ \E r \in LaunchRequests : StartCreate(r)
  \/ SendCreate
  \/ \E command \in Commands : StartCommand(command)
  \/ CliReadsAccount
  \/ CliReadsLedger
  \/ Inspect
  \/ CheckWeights
  \/ QuoteBid
  \/ \E answer \in MarketChoices : CliPricesArrive(answer)
  \/ CliPricesRetried
  \/ SendIssue
  \/ SendRedeem
  \/ SendAccrue
  \/ SendPropose
  \/ SendBid
  \/ SendEnd
  \/ CommandStops

CliSpec == CliInit /\ [][CliNext]_cliVars
-----------------------------------------------------------------------------
(* Properties.                                                             *)

\* A create that still waits for prices, or is about to make its mint, has
\* left nothing on chain; the others hold a snapshot from the moment they
\* act on one, and have fetched prices by the time they send.
CliTypeOK ==
  /\ job = Idle \/ job.kind = "create" \/
       (job.step = "snapshot") = (reading # "held")
  /\ job.kind \in {"none", "create"} => reading = "idle"
  /\ job.kind = "create" /\ job.step \in {"prices", "mint"} => ~minted
  /\ ~minted => state = "absent" /\ supply = 0
  /\ job.quote \in Nat
  /\ attempt \in 0 .. MAX_ATTEMPTS - 1
  /\ market \in [Mints -> Nat]

\* docs/launching-an-index.md:35: what create seals is what it was asked for,
\* component by component, although anyone may initialise the account of a
\* mint they see first; and with the payer as governor, so are the parties
\* and the fees.
AsAsked ==
  /\ components = Named(job.table)
  /\ \A i \in DOMAIN job.table : units[job.table[i].mint] = job.table[i].units
  /\ job.arg.who["governor"] = Payer =>
       authority = job.arg.who /\ params = job.arg.params
LaunchedAsAsked == [][SendSeal => AsAsked]_cliVars

\* docs/launching-an-index.md:22, "the first index token should be worth
\* $100": the units of a weighted launch are never worth more than was asked
\* at the prices they were sized with, however many roundings they went
\* through, provided the price API does not invent decimals.
SizedToNav ==
  job.kind = "create" /\ job.arg.weights # <<>>
  /\ (\A c \in Mints : QUOTED_SCALE[c] <= DECIMALS_SCALE[c]) =>
    SumFunction([i \in DOMAIN job.table |->
                   ValueE9(job.table[i].units,
                           DECIMALS_SCALE[job.table[i].mint],
                           market[job.table[i].mint])])
      <= Rounded(job.arg.nav)

\* math.ts:109, "target units that put weights on a fund of navE9": a proposal
\* that lands on the fund it was computed for asks for no more than the fund
\* can pay: the balances it plans, at its own prices, are worth the fund or
\* less, also for a weighting that names a mint twice.
PlanAffordable ==
  SumFunction([c \in components |-> ValueE9(UnitsOut(targetUnits[c], supply),
                                            DECIMALS_SCALE[c], refPrice[c])])
    <= SumFunction([c \in components |-> ValueE9(vault[c], DECIMALS_SCALE[c],
                                                 refPrice[c])])
NoNegativeWeight(w) == \A i \in DOMAIN w : w[i].bps >= 0
TargetsAffordable ==
  [][SendPropose /\ touched = "no" /\ NoNegativeWeight(job.arg.weights)
       => PlanAffordable']_cliVars

\* apps/cli/README.md:25, a bid is sent at "the exact cost": whatever else
\* happens on chain and however long the price request takes, while the
\* auction it was quoted for is open the program asks no more than the quote,
\* which is also all the bid offers.
SameAuction == /\ Plan = rebalance
               /\ snapshot.account.refPrice = refPrice
               /\ PremiumDefined(rebalance.startTs, rebalance.endTs, now)
BidQuoteStands ==
  job.kind = "bid" /\ job.step \in {"prices", "send"} /\ SameAuction =>
    BuyAmount(job.arg.sell, job.arg.buy, SoldBy(job.arg)) <= job.quote

-----------------------------------------------------------------------------
(* A claim of the docs that the code does not meet.                        *)

\* docs/launching-an-index.md:35: create "adds every component, seals it, and
\* creates the fee recipient's token account" for the parties it was given: if
\* nobody interferes, the program accepts each transaction it comes to send.
LaunchGoesThrough ==
  job.kind = "create" /\ job.step # "prices" /\ others = 0
    => ENABLED SendCreate
=============================================================================
