---------------------------- MODULE FlockCliProofs ----------------------------
(***************************************************************************)
(* What a command of the command line may count on, although every one of  *)
(* them is a series of reads, requests and transactions that others come   *)
(* between: for every request, every weighting and every answer of the     *)
(* price API.                                                              *)
(*                                                                         *)
(* CliInv is the inductive invariant: how far a command has got is how far *)
(* its snapshot has, and what it has worked out is still what it would     *)
(* work out now.  Added says the same of the chain while create fills it.  *)
(***************************************************************************)
EXTENDS FlockCli, FlockClientProofs

-----------------------------------------------------------------------------
(* The invariant.                                                          *)

TableType == Seq([mint : Mints, units : Nat])

CreateJobs ==
  [kind : {"create"}, step : {"prices", "mint", "init", "add", "feeAccount"},
   arg : LaunchRequests, table : TableType, at : Nat \ {0}, quote : {0}]
CommandJobs(kind, args) ==
  [kind : {kind}, step : {"snapshot", "held", "prices", "send"}, arg : args,
   table : {<<>>}, at : {1}, quote : Nat]

\* Every command carries the request it was started with.
JobType ==
  /\ job.kind \in {"none", "create", "inspect", "accrue", "end", "issue",
                   "redeem", "propose", "bid"}
  /\ job.kind = "none" => job = Idle
  /\ job.kind = "create" => job \in CreateJobs
  /\ job.kind \in {"inspect", "accrue", "end"} =>
       job \in CommandJobs(job.kind, {None})
  /\ job.kind \in {"issue", "redeem"} =>
       job \in CommandJobs(job.kind, WholeAmounts)
  /\ job.kind = "propose" => job \in CommandJobs(job.kind, ProposeRequests)
  /\ job.kind = "bid" => job \in CommandJobs(job.kind, BidRequests)

\* How far the command has got is how far its snapshot has.
InStep ==
  /\ job.kind \notin {"none", "create"} =>
       (job.step = "snapshot") = (reading # "held")
  /\ job.kind \in {"none", "create"} => reading = "idle"

\* Only a create that has made the mint, or a later command, finds it there.
MintStands ==
  /\ job.kind = "create" /\ job.step \in {"prices", "mint"} => ~minted
  /\ job.kind = "create" /\ job.step \notin {"prices", "mint"} => minted
  /\ job.kind \notin {"none", "create"} => minted
  /\ ~minted => state = "absent" /\ supply = 0

\* What a create has made of the request before it sends anything.
Sized ==
  job.kind = "create" =>
    /\ job.step = "prices" => /\ job.arg.weights # <<>> /\ job.table = <<>>
                              /\ FullyAllocated(job.arg.weights)
    /\ job.step # "prices" => Positive(job.table)
    /\ job.step # "prices" /\ job.arg.weights # <<>> =>
         /\ FullyAllocated(job.arg.weights)
         /\ job.table = SizedTable(job.arg, market)
         /\ \A c \in Named(job.arg.weights) : market[c] # 0
    /\ job.step \in {"prices", "mint", "init"} => job.at = 1

\* What it has added to the index so far, which is all there is in it.
Added ==
  Running("create", "add") /\ ManagerSigns =>
    /\ state = "bootstrapping"
    /\ authority = job.arg.who /\ params = job.arg.params
    /\ job.at \in 1 .. Len(job.table) + 1
    /\ components = {job.table[i].mint : i \in 1 .. job.at - 1}
    /\ \A i \in 1 .. job.at - 1 :
         units[job.table[i].mint] = job.table[i].units

\* A weighting that has been let through names the index's components.
Weighed ==
  job.kind = "propose" /\ job.step \in {"prices", "send"} =>
    /\ FullyAllocated(job.arg.weights)
    /\ Named(job.arg.weights) = snapshot.account.components
    /\ job.step = "send" =>
         \A c \in snapshot.account.components : market[c] # 0

\* A quote is for the auction of the snapshot, and its price never rises.
Quoted ==
  job.kind = "bid" /\ job.step \in {"prices", "send"} =>
    /\ {job.arg.sell, job.arg.buy} \subseteq snapshot.account.components
    /\ Plan.active /\ Plan.startTs <= now
    /\ now <= Plan.endTs =>
         PlanQuote(job.arg.sell, job.arg.buy, SoldBy(job.arg), now) <= job.quote

Fetching == attempt \in 0 .. MAX_ATTEMPTS - 1 /\ market \in [Mints -> Nat]

CliSound == Grounded /\ JobType /\ InStep /\ MintStands /\ Fetching
CliInv   == CliSound /\ Sized /\ Weighed /\ Quoted
LaunchInv == CliInv /\ Added

-----------------------------------------------------------------------------
(* The numbers of a request.                                               *)

LEMMA RoundedType ==
  ASSUME NEW x \in Nat
  PROVE  Rounded(x) \in Nat
<1>1. 2 * x + FINE \in Nat /\ 2 * FINE \in Nat \ {0}
  BY PricesAssumption
<1>. QED
  BY <1>1, Division DEF Rounded

LEMMA FunctionIsSeq ==
  ASSUME NEW n \in Nat, NEW S, NEW f \in [1 .. n -> S]
  PROVE  f \in Seq(S) /\ Len(f) = n /\ DOMAIN f = 1 .. n
OBVIOUS

LEMMA EmptyIsSeq == ASSUME NEW S PROVE <<>> \in Seq(S)
OBVIOUS

LEMMA SeqIsFunction ==
  ASSUME NEW S, NEW q \in Seq(S)
  PROVE  /\ Len(q) \in Nat /\ DOMAIN q = 1 .. Len(q)
         /\ \A i \in DOMAIN q : q[i] \in S
OBVIOUS

\* The request a bid and a launch carry have the types they need.
LEMMA BidRequestType ==
  ASSUME NEW r \in BidRequests
  PROVE  r.sell \in Mints /\ r.buy \in Mints /\ SoldBy(r) \in Nat
<1>1. r.sell \in Mints /\ r.buy \in Mints /\ r.whole \in Nat
  BY CliAssumption
<1>2. r.whole * DECIMALS_SCALE[r.sell] \in Nat
  BY <1>1, IndexAssumption, ProductIsNat
<1>. QED
  BY <1>1, <1>2, RoundedType DEF SoldBy

LEMMA AmountType ==
  ASSUME NEW whole \in WholeAmounts
  PROVE  AmountOf(whole) \in Nat
<1>1. whole \in Nat /\ UNIT_SCALE \in Nat
  BY CliAssumption, MathAssumption
<1>2. whole * UNIT_SCALE \in Nat
  BY <1>1, ProductIsNat
<1>. QED
  BY <1>2, RoundedType DEF AmountOf

LEMMA WeightingType ==
  ASSUME NEW w \in Seq(EntryType)
  PROVE  /\ Len(w) \in Nat /\ DOMAIN w = 1 .. Len(w)
         /\ \A i \in DOMAIN w : w[i].mint \in Mints /\ w[i].bps \in Int
<1>1. Len(w) \in Nat /\ DOMAIN w = 1 .. Len(w) /\ w \in [1 .. Len(w) -> EntryType]
  OBVIOUS
<1>. QED
  BY <1>1 DEF EntryType

LEMMA TypedTableType ==
  ASSUME NEW r \in LaunchRequests
  PROVE  TypedTable(r) \in TableType
<1> DEFINE cell(i) == [mint  |-> r.table[i].mint,
                       units |-> Rounded(r.table[i].whole
                                           * DECIMALS_SCALE[r.table[i].mint])]
<1> DEFINE Cells == [mint : Mints, whole : Nat]
<1>1. r.table \in Seq(Cells)
  BY CliAssumption
<1> HIDE DEF Cells
<1>2. /\ Len(r.table) \in Nat /\ DOMAIN r.table = 1 .. Len(r.table)
      /\ \A i \in DOMAIN r.table : r.table[i] \in Cells
  BY <1>1, SeqIsFunction
<1>3. ASSUME NEW i \in DOMAIN r.table
      PROVE  cell(i) \in [mint : Mints, units : Nat]
  <2>1. r.table[i].mint \in Mints /\ r.table[i].whole \in Nat
    BY <1>2 DEF Cells
  <2>2. r.table[i].whole * DECIMALS_SCALE[r.table[i].mint] \in Nat
    BY <2>1, IndexAssumption, ProductIsNat
  <2>. QED
    BY <2>1, <2>2, RoundedType
<1>4. TypedTable(r) = [i \in DOMAIN r.table |-> cell(i)]
  BY DEF TypedTable
<1> HIDE DEF cell
<1>5. TypedTable(r) \in [1 .. Len(r.table) -> [mint : Mints, units : Nat]]
  BY <1>2, <1>3, <1>4
<1>. QED
  BY <1>2, <1>5, FunctionIsSeq DEF TableType

LEMMA QuotSign ==
  ASSUME NEW x \in Int, NEW y \in Nat, NEW d \in Nat \ {0}
  PROVE  /\ mulDivFloor(x, y, d) \in Int
         /\ mulDivFloor(y, x, d) \in Int
         /\ x <= 0 => mulDivFloor(x, y, d) <= 0 /\ mulDivFloor(y, x, d) <= 0
<1>1. x * y \in Int /\ x * y = y * x /\ (x <= 0 => x * y <= 0)
  BY SMT
<1>2. ASSUME NEW n \in Int
      PROVE  quot(n, d) \in Int /\ (n <= 0 => quot(n, d) <= 0)
  <2>1. CASE n >= 0
    <3>1. n \div d \in Nat /\ d * (n \div d) <= n
      BY <2>1, Division
    <3>2. n = 0 => n \div d = 0
      BY SMT
    <3>. QED
      BY <2>1, <3>1, <3>2 DEF quot
  <2>2. CASE n < 0
    <3>1. (-n) \div d \in Nat
      BY <2>2, Division
    <3>. QED
      BY <2>2, <3>1 DEF quot
  <2>. QED
    BY <2>1, <2>2
<1>. QED
  BY <1>1, <1>2 DEF mulDivFloor

\* Only a positive weight sizes a positive number of units.
LEMMA UnitsSign ==
  ASSUME NEW weight \in Int, NEW scale \in Nat, NEW price \in Nat \ {0},
         NEW nav \in Nat, NEW s \in Nat \ {0}
  PROVE  /\ unitsForWeight(weight, scale, price, nav, s) \in Int
         /\ unitsForWeight(weight, scale, price, nav, s) > 0 => weight > 0
<1> DEFINE value == mulDivFloor(nav, weight, BPS)
           size  == mulDivFloor(value, scale, price)
           u     == mulDivFloor(size, UNIT_SCALE, s)
<1>1. BPS \in Nat \ {0} /\ UNIT_SCALE \in Nat
  BY MathAssumption
<1>2. value \in Int /\ (weight <= 0 => value <= 0)
  BY <1>1, QuotSign
<1> HIDE DEF value
<1>3. size \in Int /\ (value <= 0 => size <= 0)
  BY <1>2, QuotSign
<1> HIDE DEF size
<1>4. u \in Int /\ (size <= 0 => u <= 0)
  BY <1>1, <1>3, QuotSign
<1>5. unitsForWeight(weight, scale, price, nav, s) = u
  BY DEF unitsForWeight, value, size
<1> HIDE DEF u
<1>. QED
  BY <1>2, <1>3, <1>4, <1>5

\* What create makes of the prices, if every entry comes out positive.
LEMMA SizedTableType ==
  ASSUME NEW r \in LaunchRequests, NEW price \in [Mints -> Nat],
         \A c \in Named(r.weights) : price[c] # 0,
         Positive(SizedTable(r, price))
  PROVE  /\ SizedTable(r, price) \in TableType
         /\ DOMAIN SizedTable(r, price) = DOMAIN r.weights
         /\ \A i \in DOMAIN r.weights : r.weights[i].bps > 0
<1> DEFINE Table   == SizedTable(r, price)
           named(i) == r.weights[i].mint
           size(i) == unitsForWeight(r.weights[i].bps, QUOTED_SCALE[named(i)],
                                     price[named(i)], Rounded(r.nav), UNIT_SCALE)
<1>1. r.weights \in Seq(EntryType) /\ Rounded(r.nav) \in Nat
  BY CliAssumption, RoundedType
<1>2. /\ Len(r.weights) \in Nat /\ DOMAIN r.weights = 1 .. Len(r.weights)
      /\ \A i \in DOMAIN r.weights : named(i) \in Mints
                                     /\ r.weights[i].bps \in Int
  BY <1>1, WeightingType
<1>3. /\ DOMAIN Table = DOMAIN r.weights
      /\ \A i \in DOMAIN r.weights : Table[i] = [mint |-> named(i), units |-> size(i)]
  BY DEF SizedTable
<1>4. Positive(Table)
  OBVIOUS
<1> HIDE DEF Table, named, size
<1>5. ASSUME NEW i \in DOMAIN r.weights
      PROVE  size(i) \in Nat /\ r.weights[i].bps > 0 /\ named(i) \in Mints
  <2>1. named(i) \in Mints /\ r.weights[i].bps \in Int
    BY <1>2
  <2>2. price[named(i)] \in Nat \ {0}
    BY <2>1 DEF Named, named
  <2>3. QUOTED_SCALE[named(i)] \in Nat
    BY <2>1, CliAssumption
  <2>4. size(i) > 0
    <3>1. Table[i].units > 0
      BY <1>3, <1>4 DEF Positive
    <3>2. Table[i] = [mint |-> named(i), units |-> size(i)]
      BY <1>3
    <3>. QED
      BY <3>1, <3>2
  <2>5. size(i) \in Int /\ (size(i) > 0 => r.weights[i].bps > 0)
    BY <1>1, <2>1, <2>2, <2>3, UnitsSign, MathAssumption
    DEF size
  <2>. QED
    BY <2>1, <2>4, <2>5
<1>6. Table \in [1 .. Len(r.weights) -> [mint : Mints, units : Nat]]
  <2>1. \A i \in DOMAIN r.weights : Table[i] \in [mint : Mints, units : Nat]
    <3> SUFFICES ASSUME NEW i \in DOMAIN r.weights
                 PROVE  Table[i] \in [mint : Mints, units : Nat]
      OBVIOUS
    <3>1. Table[i] = [mint |-> named(i), units |-> size(i)]
      BY <1>3
    <3>2. named(i) \in Mints /\ size(i) \in Nat
      BY <1>5
    <3>. QED
      BY <3>1, <3>2
  <2>2. Table = [i \in DOMAIN r.weights |-> Table[i]]
    BY <1>3 DEF Table, SizedTable
  <2>. QED
    BY <1>2, <2>1, <2>2
<1>7. Table \in TableType
  BY <1>2, <1>6, FunctionIsSeq DEF TableType
<1>. QED
  BY <1>3, <1>5, <1>7 DEF Table

-----------------------------------------------------------------------------
(* How a job goes on.                                                      *)

LEMMA JobFields ==
  ASSUME JobType
  PROVE  /\ job.kind = "create" => job.arg \in LaunchRequests
         /\ job.kind \in {"issue", "redeem"} => job.arg \in WholeAmounts
         /\ job.kind = "propose" => job.arg \in ProposeRequests
         /\ job.kind = "bid" => job.arg \in BidRequests
BY DEF JobType, CreateJobs, CommandJobs

LEMMA JobGoes ==
  ASSUME JobType, job.kind # "none", NEW step, Goes(step)
  PROVE  /\ job'.kind = job.kind /\ job'.step = step /\ job'.arg = job.arg
         /\ job'.table = job.table /\ job'.at = job.at
         /\ job'.quote = job.quote
BY DEF JobType, CreateJobs, CommandJobs, Goes

LEMMA CreateGoes ==
  ASSUME JobType, job.kind = "create", NEW step, Goes(step),
         step \in {"mint", "init", "add", "feeAccount"}
  PROVE  JobType'
<1>1. job \in CreateJobs
  BY DEF JobType
<1>2. job' \in CreateJobs /\ job'.kind = "create"
  BY <1>1 DEF CreateJobs, Goes
<1>. QED
  BY <1>2 DEF JobType

LEMMA CommandGoes ==
  ASSUME JobType, job.kind \notin {"none", "create"}, NEW step, Goes(step),
         step \in {"held", "prices", "send"}
  PROVE  JobType'
<1>1. ASSUME NEW args, job \in CommandJobs(job.kind, args)
      PROVE  job' \in CommandJobs(job.kind, args) /\ job'.kind = job.kind
  BY <1>1 DEF CommandJobs, Goes
<1>. QED
  BY <1>1 DEF JobType

\* A command that is over leaves nothing to be wrong about.
LEMMA EndsClean ==
  ASSUME Ends
  PROVE  /\ JobType' /\ InStep' /\ Fetching' /\ Sized' /\ Weighed' /\ Quoted'
         /\ Added' /\ job'.kind = "none"
         /\ reading' = "idle" /\ snapshot' = NoSnapshot /\ touched' = "no"
<1>1. /\ job' = Idle /\ job'.kind = "none" /\ reading' = "idle"
      /\ snapshot' = NoSnapshot /\ touched' = "no"
  BY DEF Ends, Idle
<1>2. JobType'
  BY <1>1 DEF JobType
<1>3. Fetching'
  BY PricesAssumption DEF Ends, NothingFetched, NoPrices, Fetching
<1>. QED
  BY <1>1, <1>2, <1>3 DEF InStep, Sized, Weighed, Quoted, Added, Running

LEMMA SoundParts ==
  ASSUME CliInv
  PROVE  /\ TypeOK /\ ClientTypeOK /\ Faithful /\ Lifecycle /\ SnapSound
         /\ now \in Nat
<1>1. TypeOK /\ ClientTypeOK /\ Faithful /\ Lifecycle /\ SnapSound
  BY DEF CliInv, CliSound, Grounded, Reliable
<1>. QED
  BY <1>1, IndexAssumption DEF TypeOK

LEMMA QuietIsGrounded ==
  ASSUME CliInv, UNCHANGED <<vars, clientVars, touched>>
  PROVE  Grounded'
<1>1. ClientMoves
  BY DEF ClientMoves, allVars
<1>. QED
  BY <1>1, GroundedMove DEF CliInv, CliSound

\* A quote survives whatever leaves the snapshot and the bid as they are.
LEMMA QuotedLater ==
  ASSUME CliInv, snapshot' = snapshot, now' \in Nat, now <= now',
         job'.kind = "bid" /\ job'.step \in {"prices", "send"} =>
           /\ job.kind = "bid" /\ job.step \in {"prices", "send"}
           /\ job'.arg = job.arg /\ job'.quote = job.quote
  PROVE  Quoted'
<1> SUFFICES ASSUME job'.kind = "bid", job'.step \in {"prices", "send"}
             PROVE  Quoted'
  BY DEF Quoted
<1> DEFINE r         == job.arg
           quoteAt(t) == PlanQuote(r.sell, r.buy, SoldBy(r), t)
<1>1. /\ job.kind = "bid" /\ job.step \in {"prices", "send"}
      /\ job'.arg = r /\ job'.quote = job.quote
  OBVIOUS
<1>2. /\ r.sell \in snapshot.account.components
      /\ r.buy \in snapshot.account.components
      /\ Plan.active /\ Plan.startTs <= now
      /\ now <= Plan.endTs => quoteAt(now) <= job.quote
  BY <1>1 DEF CliInv, Quoted
<1>3. SoldBy(r) \in Nat /\ job.quote \in Nat
  <2>1. r \in BidRequests /\ job \in CommandJobs("bid", BidRequests)
    BY <1>1, JobFields DEF CliInv, CliSound, JobType
  <2>. QED
    BY <2>1, BidRequestType DEF CommandJobs
<1>4. /\ ClientTypeOK /\ SnapSound /\ now \in Nat
      /\ Plan.startTs \in Nat /\ Plan.endTs \in Nat
  BY <1>2, SoundParts, PlanFields
<1>5. /\ r.sell \in Mints
      /\ PlanQuote(job.arg.sell, job.arg.buy, SoldBy(job.arg), now)'
           = quoteAt(now')
      /\ Plan' = Plan
  <2>1. r.sell \in Mints
    BY <1>2, <1>4, SnapFields
  <2>. QED
    BY <1>1, <2>1 DEF PlanQuote, SnapLeg, Plan
<1> HIDE DEF r
<1>6. now' <= Plan.endTs => quoteAt(now') <= job.quote
  <2> SUFFICES ASSUME now' <= Plan.endTs PROVE quoteAt(now') <= job.quote
    OBVIOUS
  <2>1. now \in Plan.startTs .. Plan.endTs /\ now' \in Plan.startTs .. Plan.endTs
    BY <1>2, <1>4
  <2>2. quoteAt(now') <= quoteAt(now)
    BY <1>2, <1>3, <1>4, <2>1, QuoteFalls
  <2>3. quoteAt(now') \in Nat /\ quoteAt(now) \in Nat
    BY <1>2, <1>3, <1>4, <2>1, QuoteIsPrice
  <2>4. now <= Plan.endTs
    BY <1>4, <2>1
  <2> HIDE DEF quoteAt
  <2>. QED
    BY <1>2, <1>3, <2>2, <2>3, <2>4
<1>7. Plan.startTs <= now'
  BY <1>2, <1>4
<1>. QED
  BY <1>1, <1>2, <1>5, <1>6, <1>7 DEF Quoted, r

-----------------------------------------------------------------------------
(* Others.                                                                 *)

LEMMA OthersKeep == CliInv /\ OthersMove => CliInv'
<1> SUFFICES ASSUME CliInv, OthersMove PROVE CliInv'
  OBVIOUS
<1>1. /\ ChainMoves /\ UNCHANGED <<attempt, market, job, minted>>
      /\ reading' = reading /\ snapshot' = snapshot
      /\ minted \/ now' # now
  BY DEF OthersMove, ChainMoves, clientVars, priceVars
<1>2. Grounded'
  BY <1>1, GroundedMove DEF CliInv, CliSound, ClientMoves
<1>3. JobType' /\ InStep' /\ Fetching' /\ Sized' /\ Weighed'
  <2>1. JobType' /\ InStep' /\ Fetching'
    BY <1>1 DEF CliInv, CliSound, JobType, InStep, Fetching
  <2>2. Sized'
    BY <1>1 DEF CliInv, Sized
  <2>3. Weighed'
    BY <1>1 DEF CliInv, Weighed
  <2>. QED
    BY <2>1, <2>2, <2>3
<1>4. MintStands'
  <2>1. ~minted => UNCHANGED <<state, supply>>
    BY <1>1, ClockSteps DEF ChainMoves, Tick, ledger
  <2>. QED
    BY <1>1, <2>1 DEF CliInv, CliSound, MintStands
<1>5. Quoted'
  <2>1. now' \in Nat
    BY <1>2, IndexAssumption DEF Grounded, Reliable, TypeOK
  <2>2. now <= now'
    BY <1>1, <2>1, SoundParts, ClockRuns DEF ChainMoves
  <2>. QED
    BY <1>1, <2>1, <2>2, QuotedLater
<1>. QED
  BY <1>2, <1>3, <1>4, <1>5 DEF CliInv, CliSound

-----------------------------------------------------------------------------
(* create.                                                                 *)

\* A create holds no snapshot, and so nothing that could go stale.
LEMMA CreateQuiet ==
  ASSUME CliInv, job'.kind = "create", UNCHANGED <<clientVars, touched>>,
         job.kind \in {"none", "create"}
  PROVE  InStep' /\ Weighed' /\ Quoted' /\ reading = "idle"
BY DEF CliInv, CliSound, InStep, Weighed, Quoted, clientVars

LEMMA StartCreateKeeps ==
  ASSUME CliInv, NEW r \in LaunchRequests, StartCreate(r)
  PROVE  CliInv'
<1>1. /\ job = Idle /\ ~minted /\ UNCHANGED <<vars, clientVars, touched>>
      /\ UNCHANGED <<attempt, market, minted>>
  BY DEF StartCreate, Reads, priceVars
<1>2. \/ /\ r.weights # <<>> /\ FullyAllocated(r.weights)
         /\ job' = [Idle EXCEPT !.kind = "create", !.arg = r, !.step = "prices"]
      \/ /\ r.weights = <<>> /\ Positive(TypedTable(r))
         /\ job' = [Idle EXCEPT !.kind = "create", !.arg = r, !.step = "mint",
                                !.table = TypedTable(r)]
  BY DEF StartCreate
<1>3. TypedTable(r) \in TableType /\ <<>> \in TableType
  BY TypedTableType, EmptyIsSeq DEF TableType
<1>4. job' \in CreateJobs /\ job'.kind = "create"
  <2> DEFINE job1 == [kind |-> "create", step |-> "prices", arg |-> r,
                      table |-> <<>>, at |-> 1, quote |-> 0]
             job2 == [kind |-> "create", step |-> "mint", arg |-> r,
                      table |-> TypedTable(r), at |-> 1, quote |-> 0]
  <2>1. job' = job1 \/ job' = job2
    BY <1>2 DEF Idle
  <2> HIDE DEF TableType
  <2>2. job1 \in CreateJobs /\ job2 \in CreateJobs
    BY <1>3 DEF CreateJobs
  <2>. QED
    BY <2>1, <2>2
<1>5. JobType'
  BY <1>4 DEF JobType
<1>6. Sized'
  BY <1>2 DEF Sized, Idle
<1>7. MintStands'
  <2>1. UNCHANGED <<state, supply>>
    BY <1>1 DEF vars, ledger
  <2>2. job'.step \in {"prices", "mint"}
    BY <1>2 DEF Idle
  <2>. QED
    BY <1>1, <1>4, <2>1, <2>2 DEF CliInv, CliSound, MintStands
<1>8. InStep' /\ Weighed' /\ Quoted'
  <2>1. job.kind = "none"
    BY <1>1 DEF Idle
  <2>. QED
    BY <1>1, <1>4, <2>1, CreateQuiet
<1>9. Grounded' /\ Fetching'
  BY <1>1, QuietIsGrounded DEF CliInv, CliSound, Fetching
<1>. QED
  BY <1>5, <1>6, <1>7, <1>8, <1>9 DEF CliInv, CliSound

\* Whatever create sends, it goes on with the same request and table.
LEMMA CreateSent ==
  ASSUME CliInv, job.kind = "create", job.step \in {"mint", "init", "add"},
         job' \in CreateJobs, job'.arg = job.arg, job'.table = job.table,
         job'.step \in {"init", "add", "feeAccount"},
         job'.step = "init" => job'.at = 1,
         minted', UNCHANGED <<clientVars, touched, priceVars>>,
         TypeOK', Lifecycle'
  PROVE  CliInv'
<1>1. job'.kind = "create" /\ UNCHANGED <<attempt, market>>
  BY DEF CreateJobs, priceVars
<1>2. JobType' /\ MintStands' /\ Fetching'
  BY <1>1 DEF JobType, MintStands, Fetching, CliInv, CliSound
<1>3. InStep' /\ Weighed' /\ Quoted' /\ reading = "idle"
  BY <1>1, CreateQuiet
<1>4. Grounded'
  BY <1>3, GroundedIdle DEF CliInv, CliSound
<1>5. Sized'
  <2>1. /\ job.step # "prices" /\ Positive(job.table)
        /\ job.arg.weights # <<>> =>
             /\ FullyAllocated(job.arg.weights)
             /\ job.table = SizedTable(job.arg, market)
             /\ \A c \in Named(job.arg.weights) : market[c] # 0
    BY DEF CliInv, Sized
  <2>. QED
    BY <1>1, <2>1 DEF Sized
<1>. QED
  BY <1>2, <1>3, <1>4, <1>5 DEF CliInv, CliSound

LEMMA SendMintKeeps == ASSUME CliInv, SendMint PROVE CliInv'
<1>1. /\ job.kind = "create" /\ job.step = "mint" /\ minted' /\ Goes("init")
      /\ UNCHANGED <<vars, clientVars, touched, priceVars>>
  BY DEF SendMint, Running
<1>2. job' \in CreateJobs /\ job'.arg = job.arg /\ job'.table = job.table
      /\ job'.step = "init" /\ job'.at = 1
  <2>1. JobType /\ job.at = 1
    BY <1>1 DEF CliInv, CliSound, Sized
  <2>2. JobType'
    BY <1>1, <2>1, CreateGoes
  <2>. QED
    BY <1>1, <2>1, <2>2, JobGoes DEF JobType
<1>3. TypeOK' /\ Lifecycle'
  BY <1>1, SoundParts, TypeStep, LifecycleStep
<1>. QED
  BY <1>1, <1>2, <1>3, CreateSent

LEMMA SendInitKeeps == ASSUME CliInv, SendInit PROVE CliInv'
<1>1. /\ job.kind = "create" /\ job.step = "init" /\ Goes("add")
      /\ InitIndex(job.arg.who, job.arg.params)
      /\ UNCHANGED <<clientVars, touched, priceVars, minted>>
  BY DEF SendInit, Running, CreateSends
<1>2. /\ JobType /\ minted
  BY <1>1 DEF CliInv, CliSound, MintStands
<1>3. job.arg.who \in [Roles -> Keys] /\ job.arg.params \in ParamType
  BY <1>1, <1>2, JobFields, CliAssumption
<1>4. TypeOK' /\ Lifecycle'
  BY <1>1, <1>3, SoundParts, TypeSetupBy, LifecycleSetup
<1>5. job' \in CreateJobs /\ job'.arg = job.arg /\ job'.table = job.table
      /\ job'.step = "add"
  BY <1>1, <1>2, CreateGoes, JobGoes DEF JobType
<1>. QED
  BY <1>1, <1>2, <1>4, <1>5, CreateSent

\* The entry that is being added is a component and a size.
LEMMA EntryToAdd ==
  ASSUME JobType, job.kind = "create", job.at <= Len(job.table)
  PROVE  /\ job.at \in DOMAIN job.table
         /\ job.table[job.at].mint \in Mints
         /\ job.table[job.at].units \in Nat
         /\ [job EXCEPT !.at = @ + 1] \in CreateJobs
<1>1. /\ job \in CreateJobs /\ job.table \in TableType /\ job.at \in Nat \ {0}
      /\ job.arg \in LaunchRequests /\ job.quote = 0
      /\ job.step \in {"prices", "mint", "init", "add", "feeAccount"}
  BY DEF JobType, CreateJobs
<1> DEFINE Cells == [mint : Mints, units : Nat]
<1>2. job.table \in Seq(Cells)
  BY <1>1 DEF TableType
<1> HIDE DEF Cells
<1>3. /\ Len(job.table) \in Nat /\ DOMAIN job.table = 1 .. Len(job.table)
      /\ \A i \in DOMAIN job.table : job.table[i] \in Cells
  BY <1>2, SeqIsFunction
<1>4. job.at \in DOMAIN job.table
  BY <1>1, <1>3
<1>5. [job EXCEPT !.at = @ + 1] \in CreateJobs
  <2> HIDE DEF TableType
  <2>. QED
    BY <1>1 DEF CreateJobs
<1>. QED
  BY <1>3, <1>4, <1>5 DEF Cells

LEMMA SendAddKeeps == ASSUME CliInv, SendAdd PROVE CliInv'
<1> DEFINE entry == job.table[job.at]
<1>1. /\ job.kind = "create" /\ job.step = "add" /\ job.at <= Len(job.table)
      /\ entry.units \in U64 /\ AddComponent(Payer, entry.mint, entry.units)
      /\ job' = [job EXCEPT !.at = @ + 1]
      /\ UNCHANGED <<clientVars, touched, priceVars, minted>>
  BY DEF SendAdd, Running, CreateSends
<1>2. JobType /\ minted
  BY <1>1 DEF CliInv, CliSound, MintStands
<1>3. entry.mint \in Mints /\ job' \in CreateJobs
  BY <1>1, <1>2, EntryToAdd
<1>4. job'.arg = job.arg /\ job'.table = job.table /\ job'.step = "add"
  BY <1>1, <1>2 DEF JobType, CreateJobs
<1>5. TypeOK' /\ Lifecycle'
  BY <1>1, <1>3, SoundParts, TypeSetupBy, LifecycleSetup
<1>. QED
  BY <1>1, <1>2, <1>3, <1>4, <1>5, CreateSent

LEMMA SendSealKeeps == ASSUME CliInv, SendSeal PROVE CliInv'
<1>1. /\ job.kind = "create" /\ job.step = "add" /\ Goes("feeAccount")
      /\ SealIndex(Payer)
      /\ UNCHANGED <<clientVars, touched, priceVars, minted>>
  BY DEF SendSeal, Running, CreateSends
<1>2. JobType /\ minted
  BY <1>1 DEF CliInv, CliSound, MintStands
<1>3. TypeOK' /\ Lifecycle'
  BY <1>1, SoundParts, TypeSetupBy, LifecycleSetup
<1>4. job' \in CreateJobs /\ job'.arg = job.arg /\ job'.table = job.table
      /\ job'.step = "feeAccount"
  BY <1>1, <1>2, CreateGoes, JobGoes DEF JobType
<1>. QED
  BY <1>1, <1>2, <1>3, <1>4, CreateSent

-----------------------------------------------------------------------------
(* A command ends.                                                         *)

LEMMA EndKeeps ==
  ASSUME Ends, TypeOK', Lifecycle', minted' \/ (state' = "absent" /\ supply' = 0)
  PROVE  CliInv' /\ Added'
<1>1. /\ JobType' /\ InStep' /\ Fetching' /\ Sized' /\ Weighed' /\ Quoted'
      /\ Added' /\ job'.kind = "none"
      /\ reading' = "idle" /\ snapshot' = NoSnapshot /\ touched' = "no"
  BY EndsClean
<1>2. Grounded'
  BY <1>1, GroundedNothing
<1>3. MintStands'
  BY <1>1 DEF MintStands
<1>. QED
  BY <1>1, <1>2, <1>3 DEF CliInv, CliSound

\* A command that runs past create has its mint.
LEMMA CommandHasMint ==
  ASSUME CliInv, job.kind \notin {"none", "create"}
  PROVE  minted
BY DEF CliInv, CliSound, MintStands

LEMMA StopsKeeps == ASSUME CliInv, CommandStops PROVE CliInv' /\ Added'
<1>1. Ends /\ UNCHANGED vars /\ minted' = minted
  BY DEF CommandStops
<1>2. TypeOK' /\ Lifecycle'
  BY <1>1, SoundParts, TypeStep, LifecycleStep
<1>3. UNCHANGED <<state, supply>>
  BY <1>1 DEF vars, ledger
<1>4. minted' \/ (state' = "absent" /\ supply' = 0)
  BY <1>1, <1>3 DEF CliInv, CliSound, MintStands
<1>. QED
  BY <1>1, <1>2, <1>4, EndKeeps

LEMMA SendFeeAccountKeeps ==
  ASSUME CliInv, SendFeeAccount
  PROVE  CliInv' /\ Added'
<1> DEFINE recipient == job.arg.who["feeRecipient"]
<1>1. /\ job.kind = "create" /\ job.step = "feeAccount" /\ Ends
      /\ OpenAccount(recipient) \/ UNCHANGED vars
      /\ minted' = minted
  BY DEF SendFeeAccount, Running
<1>2. JobType /\ minted
  BY <1>1 DEF CliInv, CliSound, MintStands
<1>3. recipient \in Keys
  <2>1. job.arg.who \in [Roles -> Keys]
    BY <1>1, <1>2, JobFields, CliAssumption
  <2>. QED
    BY <2>1 DEF Roles
<1> HIDE DEF recipient
<1>4. TypeOK' /\ Lifecycle'
  <2>1. CASE UNCHANGED vars
    BY <2>1, SoundParts, TypeStep, LifecycleStep
  <2>2. CASE OpenAccount(recipient)
    BY <1>3, <2>2, SoundParts
    DEF OpenAccount, TypeOK, Lifecycle, Sealed, index
  <2>. QED
    BY <1>1, <2>1, <2>2
<1>. QED
  BY <1>1, <1>2, <1>4, EndKeeps

-----------------------------------------------------------------------------
(* What a command sends.                                                   *)

LEMMA SendIssueKeeps == ASSUME CliInv, SendIssue PROVE CliInv' /\ Added'
<1> DEFINE amount == AmountOf(job.arg)
           open   == accounts \cup {Payer}
<1>1. /\ job.kind = "issue" /\ Ends /\ minted' = minted
      /\ IssueInto(open, Payer, amount, MaxIn(amount))
  BY DEF SendIssue, Running, SubmitIssueInto
<1>2. JobType /\ minted /\ TypeOK /\ Lifecycle
  BY <1>1, CommandHasMint, SoundParts DEF CliInv, CliSound
<1>3. amount \in Nat /\ open \in SUBSET Keys /\ accounts \subseteq open
  <2>1. job.arg \in WholeAmounts
    BY <1>1, <1>2, JobFields
  <2>2. accounts \subseteq Keys /\ Payer \in Keys
    BY <1>2, CliAssumption DEF TypeOK
  <2>. QED
    BY <2>1, <2>2, AmountType
<1> HIDE DEF amount, open
<1>4. TypeOK' /\ Lifecycle'
  BY <1>1, <1>2, <1>3, TypeIssue, LifecycleFund
<1>. QED
  BY <1>1, <1>2, <1>4, EndKeeps

LEMMA SendRedeemKeeps == ASSUME CliInv, SendRedeem PROVE CliInv' /\ Added'
<1> DEFINE amount == AmountOf(job.arg)
<1>1. /\ job.kind = "redeem" /\ Ends /\ minted' = minted
      /\ Redeem(Payer, amount, MinOut(amount))
  BY DEF SendRedeem, Running, SubmitRedeem
<1>2. JobType /\ minted /\ TypeOK /\ Lifecycle
  BY <1>1, CommandHasMint, SoundParts DEF CliInv, CliSound
<1>3. amount \in Nat
  BY <1>1, <1>2, JobFields, AmountType
<1> HIDE DEF amount
<1>4. TypeOK' /\ Lifecycle'
  BY <1>1, <1>2, <1>3, TypeRedeem, LifecycleFund
<1>. QED
  BY <1>1, <1>2, <1>4, EndKeeps

LEMMA SendAccrueKeeps == ASSUME CliInv, SendAccrue PROVE CliInv' /\ Added'
<1>1. job.kind = "accrue" /\ Ends /\ minted' = minted /\ AccrueFees
  BY DEF SendAccrue, Running
<1>2. minted /\ TypeOK /\ Lifecycle
  BY <1>1, CommandHasMint, SoundParts
<1>3. TypeOK' /\ Lifecycle'
  BY <1>1, <1>2, TypeFund, LifecycleFund DEF FundNext
<1>. QED
  BY <1>1, <1>2, <1>3, EndKeeps

LEMMA SendProposeKeeps == ASSUME CliInv, SendPropose PROVE CliInv' /\ Added'
<1> DEFINE target == TargetsOf(job.arg.weights)
<1>1. /\ job.kind = "propose" /\ Ends /\ minted' = minted
      /\ VaultsNamed /\ Encodable(target) /\ Fits(market)
      /\ ProposeRebalance(Payer, target, market, job.arg.auction)
  BY DEF SendPropose, Running
<1>2. JobType /\ minted /\ TypeOK /\ Lifecycle
  BY <1>1, CommandHasMint, SoundParts DEF CliInv, CliSound
<1>3. Fits(target)
  <2>1. DOMAIN target = components
    BY <1>1 DEF VaultsNamed, TargetsOf
  <2> HIDE DEF target
  <2>. QED
    BY <1>1, <2>1 DEF Encodable, Fits
<1>4. job.arg.auction \in AuctionType
  BY <1>1, <1>2, JobFields, CliAssumption
<1> HIDE DEF target
<1>5. TypeOK'
  BY <1>1, <1>2, <1>3, <1>4, TypePropose
<1>6. Lifecycle'
  BY <1>1, <1>2, <1>3, <1>4, LifecyclePropose
<1>. QED
  BY <1>1, <1>2, <1>5, <1>6, EndKeeps

LEMMA SendBidKeeps == ASSUME CliInv, SendBid PROVE CliInv' /\ Added'
<1> DEFINE sold == SoldBy(job.arg)
<1>1. /\ job.kind = "bid" /\ Ends /\ minted' = minted
      /\ Bid(job.arg.sell, job.arg.buy, sold, job.quote)
  BY DEF SendBid, Running
<1>2. JobType /\ minted /\ TypeOK /\ Lifecycle
  BY <1>1, CommandHasMint, SoundParts DEF CliInv, CliSound
<1>3. sold \in Nat
  BY <1>1, <1>2, JobFields, BidRequestType
<1> HIDE DEF sold
<1>4. TypeOK' /\ Lifecycle'
  BY <1>1, <1>2, <1>3, TypeBid, LifecycleTrade
<1>. QED
  BY <1>1, <1>2, <1>4, EndKeeps

LEMMA SendEndKeeps == ASSUME CliInv, SendEnd PROVE CliInv' /\ Added'
<1>1. job.kind = "end" /\ Ends /\ minted' = minted /\ EndRebalance(Payer)
  BY DEF SendEnd, Running
<1>2. minted /\ TypeOK /\ Lifecycle
  BY <1>1, CommandHasMint, SoundParts
<1>3. TypeOK' /\ Lifecycle'
  BY <1>1, <1>2, TypeEnd, LifecycleTrade
<1>. QED
  BY <1>1, <1>2, <1>3, EndKeeps

-----------------------------------------------------------------------------
(* What a command reads and works out.                                     *)

LEMMA StartCommandKeeps ==
  ASSUME CliInv, NEW command \in Commands, StartCommand(command)
  PROVE  CliInv' /\ job'.step = "snapshot"
<1>1. /\ job' = command /\ minted /\ minted' = minted /\ StartSnapshot
      /\ UNCHANGED <<attempt, market>>
  BY DEF StartCommand, priceVars
<1>2. JobType' /\ job'.kind \notin {"none", "create"} /\ job'.step = "snapshot"
  <2>1. PICK kind, arg :
          /\ command = Command(kind, arg)
          /\ \/ kind \in {"inspect", "accrue", "end"} /\ arg = None
             \/ kind \in {"issue", "redeem"} /\ arg \in WholeAmounts
             \/ kind = "propose" /\ arg \in ProposeRequests
             \/ kind = "bid" /\ arg \in BidRequests
    BY DEF Commands
  <2>2. job' = [kind |-> kind, step |-> "snapshot", arg |-> arg,
                table |-> <<>>, at |-> 1, quote |-> 0]
    BY <1>1, <2>1 DEF Command, Idle
  <2>3. /\ job'.kind = kind /\ job'.step = "snapshot"
        /\ \A args : arg \in args => job' \in CommandJobs(kind, args)
    BY <2>2 DEF CommandJobs
  <2>. QED
    BY <2>1, <2>3 DEF JobType
<1>3. InStep'
  BY <1>1, <1>2 DEF InStep, StartSnapshot
<1>4. Sized' /\ Weighed' /\ Quoted' /\ MintStands'
  BY <1>1, <1>2 DEF Sized, Weighed, Quoted, MintStands
<1>5. Grounded' /\ Fetching'
  BY <1>1, GroundedMove DEF ClientMoves, CliInv, CliSound, Fetching
<1>. QED
  BY <1>2, <1>3, <1>4, <1>5 DEF CliInv, CliSound

LEMMA ReadsAccountKeeps == ASSUME CliInv, CliReadsAccount PROVE CliInv'
<1>1. /\ ReadAccount /\ UNCHANGED job /\ reading = "account"
      /\ reading' = "ledger" /\ UNCHANGED <<attempt, market, minted>>
  BY DEF CliReadsAccount, Reads, ReadAccount, priceVars
<1>2. /\ job.kind \notin {"none", "create"} /\ job.step = "snapshot"
      /\ JobType /\ Fetching
  BY <1>1 DEF CliInv, CliSound, InStep
<1>3. minted
  BY <1>2, CommandHasMint
<1>4. JobType' /\ InStep' /\ MintStands' /\ Fetching'
  BY <1>1, <1>2, <1>3 DEF JobType, InStep, MintStands, Fetching
<1>5. Sized' /\ Weighed' /\ Quoted'
  BY <1>1, <1>2 DEF Sized, Weighed, Quoted
<1>6. Grounded'
  BY <1>1, GroundedMove DEF ClientMoves, CliInv, CliSound
<1>. QED
  BY <1>4, <1>5, <1>6 DEF CliInv, CliSound

LEMMA ReadsLedgerKeeps == ASSUME CliInv, CliReadsLedger PROVE CliInv'
<1>1. /\ ReadLedger /\ Goes("held") /\ reading = "ledger"
      /\ reading' = "held" /\ UNCHANGED <<attempt, market, minted>>
  BY DEF CliReadsLedger, Reads, ReadLedger, priceVars
<1>2. job.kind \notin {"none", "create"} /\ JobType /\ Fetching
  BY <1>1 DEF CliInv, CliSound, InStep
<1>3. minted
  BY <1>2, CommandHasMint
<1>4. JobType' /\ job'.kind = job.kind /\ job'.step = "held"
  BY <1>1, <1>2, CommandGoes, JobGoes
<1>5. InStep' /\ MintStands' /\ Fetching'
  BY <1>1, <1>2, <1>3, <1>4 DEF InStep, MintStands, Fetching
<1>6. Sized' /\ Weighed' /\ Quoted'
  BY <1>2, <1>4 DEF Sized, Weighed, Quoted
<1>7. Grounded'
  BY <1>1, GroundedMove DEF ClientMoves, CliInv, CliSound
<1>. QED
  BY <1>4, <1>5, <1>6, <1>7 DEF CliInv, CliSound

\* A command that holds a snapshot goes on with it.
LEMMA HeldGoesOn ==
  ASSUME CliInv, job.kind \notin {"none", "create"}, job.step # "snapshot",
         JobType', job'.kind = job.kind, job'.step # "snapshot",
         UNCHANGED <<vars, clientVars, touched, minted>>, Fetching'
  PROVE  CliSound' /\ Sized'
<1>1. Grounded' /\ minted
  BY QuietIsGrounded, CommandHasMint
<1>2. InStep'
  BY DEF CliInv, CliSound, InStep, clientVars
<1>3. MintStands' /\ Sized'
  BY <1>1 DEF MintStands, Sized
<1>. QED
  BY <1>1, <1>2, <1>3 DEF CliSound

LEMMA InspectKeeps == ASSUME CliInv, Inspect PROVE CliInv'
<1>1. /\ job.kind = "inspect" /\ job.step = "held" /\ Goes("prices")
      /\ UNCHANGED <<vars, clientVars, touched, minted, attempt, market>>
  BY DEF Inspect, Running, Reads, priceVars
<1>2. JobType /\ Fetching
  BY DEF CliInv, CliSound
<1>3. JobType' /\ job'.kind = job.kind /\ job'.step = "prices"
  BY <1>1, <1>2, CommandGoes, JobGoes
<1>4. Fetching'
  BY <1>1, <1>2 DEF Fetching
<1>5. CliSound' /\ Sized'
  BY <1>1, <1>3, <1>4, HeldGoesOn
<1>6. Weighed' /\ Quoted'
  BY <1>1, <1>3 DEF Weighed, Quoted
<1>. QED
  BY <1>5, <1>6 DEF CliInv

LEMMA CheckWeightsKeeps == ASSUME CliInv, CheckWeights PROVE CliInv'
<1>1. /\ job.kind = "propose" /\ job.step = "held" /\ Goes("prices")
      /\ FullyAllocated(job.arg.weights)
      /\ Named(job.arg.weights) = snapshot.account.components
      /\ UNCHANGED <<vars, clientVars, touched, minted, attempt, market>>
  BY DEF CheckWeights, Running, Reads, priceVars
<1>2. JobType /\ Fetching
  BY DEF CliInv, CliSound
<1>3. /\ JobType' /\ job'.kind = job.kind /\ job'.step = "prices"
      /\ job'.arg = job.arg
  BY <1>1, <1>2, CommandGoes, JobGoes
<1>4. Fetching'
  BY <1>1, <1>2 DEF Fetching
<1>5. CliSound' /\ Sized'
  BY <1>1, <1>3, <1>4, HeldGoesOn
<1>6. Weighed' /\ Quoted'
  BY <1>1, <1>3 DEF Weighed, Quoted, clientVars
<1>. QED
  BY <1>5, <1>6 DEF CliInv

LEMMA QuoteBidKeeps == ASSUME CliInv, QuoteBid PROVE CliInv'
<1> DEFINE r == job.arg
           quote == QuoteOf(job.arg)
<1>1. /\ job.kind = "bid" /\ job.step = "held"
      /\ job' = [job EXCEPT !.step = "prices", !.quote = quote]
      /\ r.sell \in snapshot.account.components
      /\ r.buy \in snapshot.account.components
      /\ Plan.active /\ PremiumDefined(Plan.startTs, Plan.endTs, now)
      /\ UNCHANGED <<vars, clientVars, touched, minted, attempt, market>>
  BY DEF QuoteBid, Running, Reads, priceVars
<1>2. JobType /\ Fetching /\ ClientTypeOK /\ SnapSound /\ now \in Nat
  BY SoundParts DEF CliInv, CliSound
<1>3. r \in BidRequests /\ SoldBy(r) \in Nat
  BY <1>1, <1>2, JobFields, BidRequestType
<1>4. now \in Plan.startTs .. Plan.endTs /\ Plan.startTs <= now
  BY <1>1, <1>2, PlanFields DEF PremiumDefined
<1>5. quote = PlanQuote(r.sell, r.buy, SoldBy(r), now)
  BY DEF QuoteOf, PlanQuote, SnapPremium
<1>6. quote \in Nat
  BY <1>1, <1>2, <1>3, <1>4, <1>5, QuoteIsPrice
<1> HIDE DEF quote
<1>7. /\ job' \in CommandJobs("bid", BidRequests) /\ job'.kind = "bid"
      /\ job'.step = "prices" /\ job'.arg = r /\ job'.quote = quote
  <2>1. job \in CommandJobs("bid", BidRequests)
    BY <1>1, <1>2 DEF JobType
  <2>. QED
    BY <1>1, <1>6, <2>1 DEF CommandJobs
<1>8. JobType'
  BY <1>7 DEF JobType
<1>9. Fetching'
  BY <1>1, <1>2 DEF Fetching
<1>10. CliSound' /\ Sized'
  BY <1>1, <1>7, <1>8, <1>9, HeldGoesOn
<1>11. Weighed'
  BY <1>7 DEF Weighed
<1>12. Quoted'
  <2>1. /\ r.sell \in Mints /\ Plan' = Plan /\ now' = now
        /\ snapshot' = snapshot
    BY <1>1, <1>2, SnapFields DEF Plan, clientVars, vars
  <2>2. PlanQuote(r.sell, r.buy, SoldBy(r), now)' = quote
    BY <1>5, <1>7, <2>1 DEF PlanQuote, SnapLeg, Plan
  <2>3. quote <= quote
    BY <1>6
  <2>. QED
    BY <1>1, <1>4, <1>7, <2>1, <2>2, <2>3 DEF Quoted
<1>. QED
  BY <1>10, <1>11, <1>12 DEF CliInv

LEMMA PricesFitCreate ==
  ASSUME CliInv, NEW answer \in MarketChoices, CliPricesArrive(answer),
         job.kind = "create"
  PROVE  CliInv' /\ Added'
<1> DEFINE price == parsePriceResponse(answer)
           table == SizedTable(job.arg, price)
<1>1. /\ job.step = "prices" /\ Readable(answer) /\ market' = price
      /\ attempt' = 0 /\ Positive(table)
      /\ \A c \in Named(job.arg.weights) : price[c] # 0
      /\ job' = [job EXCEPT !.step = "mint", !.table = table]
      /\ UNCHANGED <<vars, clientVars, touched, minted>>
  BY DEF CliPricesArrive, FetchPrices, Priced
<1>2. /\ JobType /\ job.at = 1 /\ ~minted /\ job.arg.weights # <<>>
      /\ FullyAllocated(job.arg.weights)
  BY <1>1 DEF CliInv, CliSound, Sized, MintStands
<1>3. price \in [Mints -> Nat] /\ job.arg \in LaunchRequests
  BY <1>1, <1>2, PricesType, JobFields
<1> HIDE DEF price
<1>4. table \in TableType
  BY <1>1, <1>3, SizedTableType
<1>5. /\ job' \in CreateJobs /\ job'.kind = "create" /\ job'.step = "mint"
      /\ job'.arg = job.arg /\ job'.table = table /\ job'.at = 1
  <2> HIDE DEF table
  <2>1. job \in CreateJobs
    BY <1>2 DEF JobType
  <2> HIDE DEF TableType
  <2>. QED
    BY <1>1, <1>2, <1>4, <2>1 DEF CreateJobs
<1>6. JobType'
  BY <1>5 DEF JobType
<1>7. Fetching'
  BY <1>1, <1>3, PricesAssumption DEF Fetching
<1>8. Sized'
  <2>1. (SizedTable(job.arg, market) = SizedTable(job.arg, price))'
    BY <1>1, <1>5 DEF SizedTable, price
  <2>2. job'.table = SizedTable(job'.arg, market')
    BY <1>1, <1>5
  <2> HIDE DEF table
  <2>. QED
    BY <1>1, <1>2, <1>5, <2>2 DEF Sized
<1>9. MintStands'
  <2>1. UNCHANGED <<state, supply>>
    BY <1>1 DEF vars, ledger
  <2>. QED
    BY <1>1, <1>2, <1>5, <2>1 DEF CliInv, CliSound, MintStands
<1>10. InStep' /\ Weighed' /\ Quoted'
  BY <1>1, <1>5, CreateQuiet
<1>11. Grounded'
  BY <1>1, QuietIsGrounded
<1>12. Added'
  BY <1>5 DEF Added, Running
<1>. QED
  BY <1>6, <1>7, <1>8, <1>9, <1>10, <1>11, <1>12 DEF CliInv, CliSound

LEMMA PricesFitCommand ==
  ASSUME CliInv, NEW answer \in MarketChoices, CliPricesArrive(answer),
         job.kind # "create"
  PROVE  CliInv' /\ Added'
<1> DEFINE price == parsePriceResponse(answer)
<1>1. /\ job.step = "prices" /\ Readable(answer) /\ market' = price
      /\ attempt' = 0 /\ Goes("send")
      /\ job.kind = "propose" =>
           \A c \in snapshot.account.components : price[c] # 0
      /\ UNCHANGED <<vars, clientVars, touched, minted>>
  BY DEF CliPricesArrive, FetchPrices, Priced
<1>2. JobType /\ job.kind \notin {"none", "create"}
  BY <1>1 DEF CliInv, CliSound, JobType, Idle
<1>3. /\ JobType' /\ job'.kind = job.kind /\ job'.step = "send"
      /\ job'.arg = job.arg /\ job'.quote = job.quote
  BY <1>1, <1>2, CommandGoes, JobGoes
<1>4. Fetching'
  BY <1>1, PricesType, PricesAssumption DEF Fetching
<1>5. CliSound' /\ Sized'
  BY <1>1, <1>2, <1>3, <1>4, HeldGoesOn
<1>6. Weighed'
  BY <1>1, <1>3 DEF CliInv, Weighed, clientVars
<1>7. Quoted'
  <2>1. now' = now /\ now \in Nat /\ snapshot' = snapshot
    BY <1>1, SoundParts DEF vars, clientVars
  <2>2. now <= now'
    BY <2>1
  <2>. QED
    BY <1>1, <1>3, <2>1, <2>2, QuotedLater
<1>8. Added'
  BY <1>2, <1>3 DEF Added, Running
<1>. QED
  BY <1>5, <1>6, <1>7, <1>8 DEF CliInv

\* A request that is retried, and a step of anything else.
LEMMA QuietKeeps ==
  ASSUME CliInv, UNCHANGED <<vars, clientVars, touched, job, market, minted>>,
         Fetching'
  PROVE  CliInv'
<1>1. Grounded' /\ now' = now /\ now \in Nat /\ snapshot' = snapshot
      /\ reading' = reading /\ UNCHANGED <<state, supply>>
  BY QuietIsGrounded, SoundParts DEF vars, clientVars, ledger
<1>2. JobType' /\ InStep' /\ MintStands'
  BY <1>1 DEF CliInv, CliSound, JobType, InStep, MintStands
<1>3. Sized' /\ Weighed'
  BY <1>1 DEF CliInv, Sized, Weighed
<1>4. Quoted'
  <2>1. now <= now'
    BY <1>1
  <2>. QED
    BY <1>1, <2>1, QuotedLater
<1>. QED
  BY <1>1, <1>2, <1>3, <1>4 DEF CliInv, CliSound

LEMMA RetriedKeeps == ASSUME CliInv, CliPricesRetried PROVE CliInv'
<1>1. Fetching'
  <2>1. attempt \in Nat /\ market \in [Mints -> Nat] /\ MAX_ATTEMPTS \in Nat
    BY PricesAssumption DEF CliInv, CliSound, Fetching
  <2>. QED
    BY <2>1 DEF CliPricesRetried, RetryRequest, Fetching
<1>. QED
  BY <1>1, QuietKeeps DEF CliPricesRetried, RetryRequest

LEMMA StutterKeeps == ASSUME CliInv, UNCHANGED cliVars PROVE CliInv'
<1>1. UNCHANGED <<vars, clientVars, touched, attempt, market, job, minted>>
  BY DEF cliVars, priceVars
<1>. QED
  BY <1>1, QuietKeeps DEF CliInv, CliSound, Fetching

-----------------------------------------------------------------------------
(* Every step.                                                             *)

LEMMA CliInvInit == CliInit => LaunchInv
<1> SUFFICES ASSUME CliInit PROVE LaunchInv
  OBVIOUS
<1>1. /\ ClientInit /\ job = Idle /\ job.kind = "none" /\ attempt = 0
      /\ market = NoPrices
  BY DEF CliInit, Idle
<1>2. /\ TypeOK /\ reading = "idle" /\ snapshot = NoSnapshot
      /\ touched = "no" /\ state = "absent" /\ supply = 0
  BY <1>1, TypeInit DEF ClientInit, Init
<1>3. Grounded
  <2>1. ClientTypeOK
    BY <1>2, NoSnapshotType DEF ClientTypeOK
  <2>2. Faithful
    BY <1>1, FaithfulInit
  <2>3. Lifecycle
    BY <1>1 DEF ClientInit, Init, Lifecycle, Closed, Roles
  <2>4. SnapSound
    BY <1>2 DEF SnapSound, Plan, NoSnapshot, NoAccount, Closed
  <2>. QED
    BY <1>2, <2>1, <2>2, <2>3, <2>4 DEF Grounded, Reliable
<1>4. JobType /\ InStep /\ MintStands
  BY <1>1, <1>2 DEF JobType, InStep, MintStands
<1>5. Fetching
  BY <1>1, PricesAssumption DEF Fetching, NoPrices
<1>6. Sized /\ Weighed /\ Quoted /\ Added
  BY <1>1 DEF Sized, Weighed, Quoted, Added, Running
<1>. QED
  BY <1>3, <1>4, <1>5, <1>6 DEF LaunchInv, CliInv, CliSound

LEMMA CliInvStep == CliInv /\ [CliNext]_cliVars => CliInv'
<1> SUFFICES ASSUME CliInv, [CliNext]_cliVars PROVE CliInv'
  OBVIOUS
<1>1. CASE OthersMove
  BY <1>1, OthersKeep
<1>2. CASE \E r \in LaunchRequests : StartCreate(r)
  BY <1>2, StartCreateKeeps
<1>3. CASE SendCreate
  BY <1>3, SendMintKeeps, SendInitKeeps, SendAddKeeps, SendSealKeeps,
     SendFeeAccountKeeps
  DEF SendCreate
<1>4. CASE \E command \in Commands : StartCommand(command)
  BY <1>4, StartCommandKeeps
<1>5. CASE CliReadsAccount \/ CliReadsLedger
  BY <1>5, ReadsAccountKeeps, ReadsLedgerKeeps
<1>6. CASE Inspect \/ CheckWeights \/ QuoteBid
  BY <1>6, InspectKeeps, CheckWeightsKeeps, QuoteBidKeeps
<1>7. CASE \E answer \in MarketChoices : CliPricesArrive(answer)
  BY <1>7, PricesFitCreate, PricesFitCommand
<1>8. CASE CliPricesRetried
  BY <1>8, RetriedKeeps
<1>9. CASE \/ SendIssue \/ SendRedeem \/ SendAccrue \/ SendPropose
           \/ SendBid \/ SendEnd \/ CommandStops
  BY <1>9, SendIssueKeeps, SendRedeemKeeps, SendAccrueKeeps,
     SendProposeKeeps, SendBidKeeps, SendEndKeeps, StopsKeeps
<1>10. CASE UNCHANGED cliVars
  BY <1>10, StutterKeeps
<1>. QED
  BY <1>1, <1>2, <1>3, <1>4, <1>5, <1>6, <1>7, <1>8, <1>9, <1>10 DEF CliNext

LEMMA CliInvAlways == CliSpec => []CliInv
<1>1. CliInit => CliInv
  BY CliInvInit DEF LaunchInv
<1>. QED
  BY <1>1, CliInvStep, PTL DEF CliSpec

-----------------------------------------------------------------------------
(* What a command may count on.                                            *)

\* A command is where its snapshot is, a create that has sent nothing has left
\* nothing, and every number a command holds is one the code can hold.
THEOREM CliTypeCorrect == CliSpec => []CliTypeOK
<1>1. CliInv => CliTypeOK
  <2> SUFFICES ASSUME CliInv PROVE CliTypeOK
    OBVIOUS
  <2>1. JobType /\ InStep /\ MintStands /\ Fetching
    BY DEF CliInv, CliSound
  <2>2. job.quote \in Nat
    BY <2>1 DEF JobType, CreateJobs, CommandJobs, Idle
  <2>3. /\ job = Idle \/ job.kind = "create" \/
             (job.step = "snapshot") = (reading # "held")
        /\ job.kind \in {"none", "create"} => reading = "idle"
    BY <2>1 DEF JobType, InStep
  <2>. QED
    BY <2>1, <2>2, <2>3 DEF MintStands, Fetching, CliTypeOK
<1>. QED
  BY <1>1, CliInvAlways, PTL

\* apps/cli/README.md:25, "the exact cost": commands.ts quotes a bid at one
\* moment and sends it at a later one; while the auction is the one it quoted,
\* the program never asks more than that.
THEOREM QuotedBidStands == CliSpec => []BidQuoteStands
<1>1. CliInv => BidQuoteStands
  <2> DEFINE s == job.arg.sell
             b == job.arg.buy
             sold == SoldBy(job.arg)
  <2> SUFFICES ASSUME CliInv, job.kind = "bid", job.step \in {"prices", "send"},
                      SameAuction
               PROVE  BuyAmount(s, b, sold) <= job.quote
    BY DEF BidQuoteStands
  <2>1. /\ s \in snapshot.account.components /\ b \in snapshot.account.components
        /\ Plan.active
        /\ now <= Plan.endTs => PlanQuote(s, b, sold, now) <= job.quote
    BY DEF CliInv, Quoted
  <2>2. JobType /\ ClientTypeOK /\ SnapSound /\ now \in Nat
    BY SoundParts DEF CliInv, CliSound
  <2>3. sold \in Nat
    BY <2>2, JobFields, BidRequestType
  <2>4. now \in Plan.startTs .. Plan.endTs /\ now <= Plan.endTs
    BY <2>1, <2>2, PlanFields DEF SameAuction, PremiumDefined
  <2>5. BuyAmount(s, b, sold) = PlanPrice(s, b, sold, now)
    BY DEF SameAuction, BuyAmount, ValueIn, Premium, PlanPrice, Price, SnapLeg
  <2> HIDE DEF s, b, sold
  <2>6. PlanQuote(s, b, sold, now) = PlanPrice(s, b, sold, now)
    BY <2>1, <2>2, <2>3, <2>4, QuoteIsPrice
  <2>. QED
    BY <2>1, <2>4, <2>5, <2>6
<1>. QED
  BY <1>1, CliInvAlways, PTL

-----------------------------------------------------------------------------
(* A weighting, and what is bought with it.                                *)

\* Finer units are worth no more.
LEMMA FinerIsWorthLess ==
  ASSUME NEW n \in Nat, NEW price \in Nat, NEW q \in Nat \ {0},
         NEW d \in Nat \ {0}, q <= d
  PROVE  ValueE9(n, d, price) <= ValueE9(n, q, price)
<1> DEFINE k == MulDivFloor(n, price, d)
<1>1. k \in Nat /\ d * k <= n * price /\ n * price \in Nat
  BY FloorBounds, ProductIsNat
<1> HIDE DEF k
<1>2. q * k <= d * k
  BY <1>1, SMT
<1>3. q * k \in Nat /\ d * k \in Nat
  BY <1>1, ProductIsNat
<1>4. q * k <= n * price
  BY <1>1, <1>2, <1>3
<1>5. k <= MulDivFloor(n, price, q)
  BY <1>1, <1>4, FloorGreatest
<1>. QED
  BY <1>5 DEF ValueE9, k

\* At the supply of one whole token, units are base units.
LEMMA UnitsOfOneToken ==
  ASSUME NEW u \in Nat
  PROVE  UnitsOut(u, UNIT_SCALE) = u
<1> DEFINE n == UnitsOut(u, UNIT_SCALE)
           S == UNIT_SCALE
<1>1. S \in Nat \ {0}
  BY MathAssumption
<1>2. n \in Nat /\ S * n <= u * S /\ u * S < S * n + S
  BY <1>1, FloorBounds DEF UnitsOut
<1> HIDE DEF n, S
<1>3. n = u
  <2>1. S * n <= S * u /\ S * u < S * (n + 1)
    BY <1>1, <1>2, SMT
  <2>2. ASSUME n > u PROVE FALSE
    <3>1. S * (u + 1) <= S * n
      BY <1>1, <1>2, <2>2, SMT
    <3>2. S * (u + 1) = S * u + S
      BY <1>1, SMT
    <3>3. S * n \in Nat /\ S * u \in Nat
      BY <1>1, <1>2, ProductIsNat
    <3>. QED
      BY <1>1, <2>1, <3>1, <3>2, <3>3
  <2>3. ASSUME n < u PROVE FALSE
    <3>1. S * (n + 1) <= S * u
      BY <1>1, <1>2, <2>3, SMT
    <3>2. S * (n + 1) \in Nat /\ S * u \in Nat
      BY <1>1, <1>2, ProductIsNat
    <3>. QED
      BY <2>1, <3>1, <3>2
  <2>. QED
    BY <1>2, <2>2, <2>3
<1>. QED
  BY <1>3 DEF n, S

\* What an entry of a weighted launch is worth: its share or less.
LEMMA EntryWithinShare ==
  ASSUME NEW w \in Nat, NEW q \in Nat \ {0}, NEW d \in Nat \ {0}, q <= d,
         NEW price \in Nat \ {0}, NEW nav \in Nat,
         NEW u \in Nat, u = unitsForWeight(w, q, price, nav, UNIT_SCALE)
  PROVE  /\ ValueE9(u, d, price) \in Nat
         /\ BPS * ValueE9(u, d, price) <= nav * w
<1> DEFINE a == ValueE9(u, d, price)
           b == ValueE9(u, q, price)
           share == MulDivFloor(nav, w, BPS)
<1>1. BPS \in Nat \ {0} /\ UNIT_SCALE \in Nat \ {0}
  BY MathAssumption
<1>2. a \in Nat /\ b \in Nat
  BY FloorBounds DEF ValueE9
<1>3. a <= b
  BY FinerIsWorthLess
<1>4. b <= share
  <2>1. UnitsOut(u, UNIT_SCALE) = u
    BY UnitsOfOneToken
  <2>2. ValueE9(UnitsOut(unitsForWeight(w, q, price, nav, UNIT_SCALE),
                         UNIT_SCALE), q, price) <= share
    BY <1>1, TargetWithinWeight
  <2>. QED
    BY <2>1, <2>2
<1>5. share \in Nat /\ BPS * share <= nav * w
  BY <1>1, FloorBounds
<1>6. nav * w \in Nat
  BY ProductIsNat
<1> HIDE DEF a, b, share
<1>7. a <= share
  BY <1>2, <1>3, <1>4, <1>5
<1>8. BPS * a <= BPS * share
  BY <1>1, <1>2, <1>5, <1>7, SMT
<1>9. BPS * a \in Nat /\ BPS * share \in Nat
  BY <1>1, <1>2, <1>5, ProductIsNat
<1>. QED
  BY <1>2, <1>5, <1>6, <1>8, <1>9 DEF a

\* Shares that add up to the whole are worth no more than the whole.
LEMMA SharesOfWhole ==
  ASSUME NEW a \in Nat, NEW b \in Nat, NEW d \in Nat \ {0}, d * a <= b * d
  PROVE  a <= b
<1>1. ASSUME a > b PROVE FALSE
  <2>1. d * (b + 1) <= d * a /\ d * (b + 1) = b * d + d
    BY <1>1, SMT
  <2>2. d * a \in Nat /\ b * d \in Nat
    BY ProductIsNat
  <2>. QED
    BY <2>1, <2>2
<1>. QED
  BY <1>1

\* docs/launching-an-index.md:22: the units create computes of a weighting are
\* worth no more than was asked for, at the prices they were computed with.
THEOREM LaunchSizedToNav == CliSpec => []SizedToNav
<1>1. CliInv => SizedToNav
  <2> DEFINE r == job.arg
             nav == Rounded(r.nav)
             D == DOMAIN job.table
             worth(i) == ValueE9(job.table[i].units,
                                 DECIMALS_SCALE[job.table[i].mint],
                                 market[job.table[i].mint])
             f == [i \in D |-> worth(i)]
             g == [i \in D |-> r.weights[i].bps]
             at == [i \in D |-> i]
  <2> SUFFICES ASSUME CliInv, job.kind = "create", r.weights # <<>>,
                      \A c \in Mints : QUOTED_SCALE[c] <= DECIMALS_SCALE[c]
               PROVE  SumFunction(f) <= nav
    BY DEF SizedToNav
  <2>1. JobType /\ market \in [Mints -> Nat]
    BY DEF CliInv, CliSound, Fetching
  <2>2. r \in LaunchRequests
    BY <2>1, JobFields
  <2>3. nav \in Nat /\ r.weights \in Seq(EntryType)
    BY <2>2, CliAssumption, RoundedType
  <2>4. CASE job.step = "prices"
    <3>1. job.table = <<>>
      BY <2>4 DEF CliInv, Sized
    <3>2. D = {}
      BY <3>1
    <3>3. f \in [D -> Nat] /\ IsFiniteSet(D) /\ \A x \in D : f[x] = 0
      BY <3>2, FS_EmptySet
    <3> HIDE DEF f, D, nav
    <3>4. SumFunction(f) = 0
      BY <3>3, SumOfZeros
    <3>. QED
      BY <2>3, <3>4
  <2>5. CASE job.step # "prices"
    <3>1. /\ Positive(job.table) /\ FullyAllocated(r.weights)
          /\ job.table = SizedTable(r, market)
          /\ \A c \in Named(r.weights) : market[c] # 0
      BY <2>5 DEF CliInv, Sized
    <3>2. /\ job.table \in TableType /\ D = DOMAIN r.weights
          /\ \A i \in D : r.weights[i].bps > 0
      BY <2>1, <2>2, <3>1, SizedTableType
    <3>3. /\ Len(r.weights) \in Nat /\ D = 1 .. Len(r.weights)
          /\ \A i \in D : r.weights[i].mint \in Mints /\ r.weights[i].bps \in Nat
      BY <2>3, <3>2, WeightingType
    <3>4. IsFiniteSet(D)
      <4> DEFINE n == Len(r.weights)
      <4> HIDE DEF D, n
      <4>1. 1 \in Int /\ n \in Int
        BY <3>3 DEF n
      <4>2. IsFiniteSet(1 .. n)
        BY <4>1, FS_Interval
      <4>. QED
        BY <3>3, <4>2 DEF n
    <3>5. ASSUME NEW i \in D
          PROVE  f[i] \in Nat /\ BPS * f[i] <= nav * g[at[i]]
      <4> DEFINE c == r.weights[i].mint
                 w == r.weights[i].bps
                 u == unitsForWeight(w, QUOTED_SCALE[c], market[c], nav,
                                     UNIT_SCALE)
      <4>1. job.table[i].mint = c /\ job.table[i].units = u
        <5>1. SizedTable(r, market)[i] = [mint |-> c, units |-> u]
          BY <3>2 DEF SizedTable
        <5> HIDE DEF c, u
        <5>. QED
          BY <3>1, <5>1
      <4>2. /\ c \in Mints /\ w \in Nat /\ market[c] \in Nat \ {0}
            /\ QUOTED_SCALE[c] \in Nat \ {0} /\ DECIMALS_SCALE[c] \in Nat \ {0}
            /\ QUOTED_SCALE[c] <= DECIMALS_SCALE[c]
        BY <2>1, <3>1, <3>2, <3>3, CliAssumption, IndexAssumption DEF Named
      <4>3. u > 0
        BY <3>1, <4>1 DEF Positive
      <4> HIDE DEF c, w, nav
      <4>4. u \in Int
        <5>1. QUOTED_SCALE[c] \in Nat /\ UNIT_SCALE \in Nat \ {0} /\ w \in Int
          BY <4>2, MathAssumption
        <5>2. u \in Int /\ (u > 0 => w > 0)
          BY <2>3, <4>2, <5>1, UnitsSign
        <5>. QED
          BY <5>2
      <4> HIDE DEF u
      <4>5. u \in Nat
        BY <4>3, <4>4
      <4>6. /\ ValueE9(u, DECIMALS_SCALE[c], market[c]) \in Nat
            /\ BPS * ValueE9(u, DECIMALS_SCALE[c], market[c]) <= nav * w
        BY <2>3, <4>2, <4>5, EntryWithinShare DEF u
      <4>7. f[i] = ValueE9(u, DECIMALS_SCALE[c], market[c]) /\ g[at[i]] = w
        BY <4>1 DEF w
      <4>. QED
        BY <4>6, <4>7
    <3>6. f \in [D -> Nat] /\ g \in [D -> Nat]
      BY <3>3, <3>5
    <3>7. at \in [D -> D] /\ IsInjective(at)
      BY DEF IsInjective
    <3>8. Dominated(f, g, at, BPS, nav)
      BY <3>5 DEF Dominated
    <3>9. SumFunction(g) = BPS
      BY <3>1, <3>2 DEF FullyAllocated
    <3>10. BPS \in Nat \ {0}
      BY MathAssumption
    <3> HIDE DEF f, g, at, D, nav
    <3>11. BPS * SumFunction(f) <= nav * SumFunction(g) /\ SumFunction(f) \in Nat
      BY <2>3, <3>4, <3>6, <3>7, <3>8, <3>10, SumScaled, SumType
    <3>. QED
      BY <2>3, <3>9, <3>10, <3>11, SharesOfWhole
  <2>. QED
    BY <2>4, <2>5
<1>. QED
  BY <1>1, CliInvAlways, PTL

-----------------------------------------------------------------------------
(* What create seals.                                                      *)

\* Nobody else signs for the payer, nor for the governor of an index whose
\* manager the payer is.  A governor who did could make itself the manager,
\* add a component, and hand the role back before the seal.
Uncontested ==
  /\ Payer \notin Signers
  /\ \A r \in LaunchRequests :
       r.who["manager"] = Payer => r.who["governor"] \notin Signers

\* An index in the making is left alone by those who are no party to it.
LEMMA LeftAlone ==
  ASSUME Lifecycle, state = "bootstrapping", Next,
         authority["manager"] \notin Signers,
         authority["governor"] \notin Signers
  PROVE  UNCHANGED <<state, authority, params, components, units>>
<1>1. ~Sealed /\ ~rebalance.active
  BY DEF Lifecycle, Sealed
<1>2. ~SetupNext
  BY DEF SetupNext, InitIndex, AddComponent, SealIndex
<1>3. ~FundNext
  BY <1>1 DEF FundNext, Issue, IssueInto, Redeem, RedeemAccepted, AccrueFees
<1>4. ~AuctionNext
  BY <1>1 DEF AuctionNext, ProposeRebalance, Bid, EndRebalance
<1>5. ~GovernanceNext
  BY <1>1 DEF GovernanceNext, SetParams, SetAuthority, SetPaused
<1>6. CASE TokenNext
  BY <1>6 DEF TokenNext, FounderMints, HandOverMint, RevokeFreezer, Freeze,
              OpenAccount, CloseAccount, Transfer, Burn, Donate, index
<1>7. CASE Tick
  BY <1>7 DEF Tick, index
<1>. QED
  BY <1>2, <1>3, <1>4, <1>5, <1>6, <1>7 DEF Next

LEMMA OthersLeaveAdded ==
  ASSUME Uncontested, CliInv, Added, OthersMove
  PROVE  Added'
<1> SUFFICES ASSUME Running("create", "add"), ManagerSigns
             PROVE  Added'
  BY DEF OthersMove, Added, Running, ManagerSigns
<1>1. /\ state = "bootstrapping" /\ authority = job.arg.who /\ Next
      /\ UNCHANGED job
  BY DEF Added, OthersMove, ChainMoves
<1>2. job.arg \in LaunchRequests /\ Lifecycle
  BY JobFields, SoundParts DEF CliInv, CliSound, Running
<1>3. authority["manager"] \notin Signers /\ authority["governor"] \notin Signers
  BY <1>1, <1>2 DEF Uncontested, ManagerSigns
<1>4. UNCHANGED <<state, authority, params, components, units>>
  BY <1>1, <1>2, <1>3, LeftAlone
<1>. QED
  BY <1>1, <1>4 DEF Added, Running, ManagerSigns

LEMMA InitAdds ==
  ASSUME CliInv, SendInit
  PROVE  Added'
<1>1. /\ job.kind = "create" /\ job.step = "init" /\ Goes("add")
      /\ InitIndex(job.arg.who, job.arg.params)
  BY DEF SendInit, Running
<1>2. JobType /\ job.at = 1 /\ Lifecycle
  BY <1>1, SoundParts DEF CliInv, CliSound, Sized
<1>3. job'.arg = job.arg /\ job'.at = 1 /\ job'.table = job.table
  BY <1>1, <1>2, JobGoes
<1>4. /\ state' = "bootstrapping" /\ authority' = job'.arg.who
      /\ params' = job'.arg.params /\ components' = {}
  BY <1>1, <1>2, <1>3 DEF InitIndex, Lifecycle
<1>5. Len(job'.table) \in Nat
  <2>1. job.table \in Seq([mint : Mints, units : Nat])
    BY <1>1, <1>2 DEF JobType, CreateJobs, TableType
  <2>. QED
    BY <1>3, <2>1, SeqIsFunction
<1>6. 1 .. job'.at - 1 = {} /\ job'.at \in 1 .. Len(job'.table) + 1
  BY <1>3, <1>5
<1>. QED
  BY <1>4, <1>6 DEF Added

LEMMA AddAdds ==
  ASSUME CliInv, Added, SendAdd
  PROVE  Added'
<1> DEFINE n == job.at
           c == job.table[n].mint
           u == job.table[n].units
           entries(k) == {job.table[i].mint : i \in 1 .. k}
<1>1. /\ job.kind = "create" /\ job.step = "add" /\ n <= Len(job.table)
      /\ AddComponent(Payer, c, u) /\ job' = [job EXCEPT !.at = n + 1]
      /\ ManagerSigns
  BY DEF SendAdd, Running
<1>2. JobType /\ TypeOK
  BY SoundParts DEF CliInv, CliSound
<1>3. /\ n \in DOMAIN job.table /\ c \in Mints
      /\ job' \in CreateJobs
  BY <1>1, <1>2, EntryToAdd
<1>4. /\ job'.arg = job.arg /\ job'.table = job.table /\ job'.at = n + 1
      /\ n \in Nat \ {0}
  BY <1>1, <1>2 DEF JobType, CreateJobs
<1>5. Len(job.table) \in Nat
  <2>1. job.table \in Seq([mint : Mints, units : Nat])
    BY <1>1, <1>2 DEF JobType, CreateJobs, TableType
  <2>. QED
    BY <2>1, SeqIsFunction
<1>6. /\ state = "bootstrapping" /\ authority = job.arg.who
      /\ params = job.arg.params /\ components = entries(n - 1)
      /\ \A i \in 1 .. n - 1 : units[job.table[i].mint] = job.table[i].units
  BY <1>1 DEF Added, Running
<1>7. /\ c \notin components /\ components' = components \cup {c}
      /\ units' = [units EXCEPT ![c] = u] /\ state' = "bootstrapping"
      /\ authority' = authority /\ params' = params
  BY <1>1, <1>6 DEF AddComponent
<1>8. units \in [Mints -> U64]
  BY <1>2 DEF TypeOK
<1>9. \A i \in 1 .. n : units'[job.table[i].mint] = job.table[i].units
  <2> SUFFICES ASSUME NEW i \in 1 .. n
               PROVE  units'[job.table[i].mint] = job.table[i].units
    OBVIOUS
  <2>1. CASE i = n
    BY <1>3, <1>7, <1>8, <2>1
  <2>2. CASE i # n
    <3>1. i \in 1 .. n - 1
      BY <1>4, <2>2
    <3>2. job.table[i].mint # c
      BY <1>6, <1>7, <3>1
    <3>. QED
      BY <1>6, <1>7, <1>8, <3>1, <3>2
  <2>. QED
    BY <2>1, <2>2
<1>10. components' = entries(n)
  <2>1. 1 .. n = (1 .. n - 1) \cup {n}
    BY <1>4
  <2>. QED
    BY <1>6, <1>7, <2>1
<1>11. n + 1 \in 1 .. Len(job.table) + 1 /\ (n + 1) - 1 = n
  BY <1>1, <1>4, <1>5
<1> HIDE DEF n
<1>. QED
  BY <1>4, <1>6, <1>7, <1>9, <1>10, <1>11 DEF Added

LEMMA AddedStep ==
  ASSUME Uncontested, CliInv, Added, [CliNext]_cliVars
  PROVE  Added'
<1>1. CASE OthersMove
  BY <1>1, OthersLeaveAdded
<1>2. CASE \E r \in LaunchRequests : StartCreate(r)
  BY <1>2 DEF StartCreate, Idle, Added, Running
<1>3. CASE SendMint \/ SendSeal
  BY <1>3, JobGoes DEF SendMint, SendSeal, Running, Added, CliInv, CliSound
<1>4. CASE SendInit \/ SendAdd \/ SendFeeAccount
  BY <1>4, InitAdds, AddAdds, SendFeeAccountKeeps
<1>5. CASE \E command \in Commands : StartCommand(command)
  <2>1. job'.step = "snapshot"
    BY <1>5, StartCommandKeeps
  <2>. QED
    BY <2>1 DEF Added, Running
<1>6. CASE CliReadsLedger
  <2>1. job.kind # "none" /\ job'.step = "held"
    <3>1. job.kind # "none" /\ Goes("held") /\ JobType
      BY <1>6 DEF CliReadsLedger, ReadLedger, CliInv, CliSound, InStep
    <3>. QED
      BY <3>1, JobGoes
  <2>. QED
    BY <2>1 DEF Added, Running
<1>7. CASE Inspect \/ CheckWeights
  BY <1>7, JobGoes
  DEF Inspect, CheckWeights, Running, Added, CliInv, CliSound
<1>8. CASE QuoteBid
  <2>1. job \in CommandJobs("bid", BidRequests)
    BY <1>8 DEF QuoteBid, Running, CliInv, CliSound, JobType
  <2>2. job'.step = "prices"
    BY <1>8, <2>1 DEF QuoteBid, CommandJobs
  <2>. QED
    BY <2>2 DEF Added, Running
<1>9. CASE \E answer \in MarketChoices : CliPricesArrive(answer)
  BY <1>9, PricesFitCreate, PricesFitCommand
<1>10. CASE UNCHANGED <<vars, job>>
  <2>1. UNCHANGED <<state, authority, params, components, units, job>>
    BY <1>10 DEF vars, index
  <2>. QED
    BY <2>1 DEF Added, Running, ManagerSigns
<1>11. CASE CliReadsAccount \/ CliPricesRetried \/ UNCHANGED cliVars
  BY <1>10, <1>11 DEF CliReadsAccount, Reads, CliPricesRetried, cliVars
<1>12. CASE \/ SendIssue \/ SendRedeem \/ SendAccrue \/ SendPropose
            \/ SendBid \/ SendEnd \/ CommandStops
  BY <1>12, SendIssueKeeps, SendRedeemKeeps, SendAccrueKeeps,
     SendProposeKeeps, SendBidKeeps, SendEndKeeps, StopsKeeps
<1>. QED
  BY <1>1, <1>2, <1>3, <1>4, <1>5, <1>6, <1>7, <1>8, <1>9, <1>11, <1>12
  DEF CliNext, SendCreate

\* docs/launching-an-index.md:35: what commands.ts seals at the end of create
\* is the table, the parties and the parameters it was given, although its
\* transactions are sent one by one and anyone may come between them.
THEOREM LaunchAsAsked ==
  ASSUME Uncontested
  PROVE  CliSpec => LaunchedAsAsked
<1>1. CliInv /\ Added /\ SendSeal => AsAsked
  <2> SUFFICES ASSUME CliInv, Added, SendSeal PROVE AsAsked
    OBVIOUS
  <2>1. /\ Running("create", "add") /\ ManagerSigns
        /\ job.at > Len(job.table) /\ JobType
    BY DEF SendSeal, CliInv, CliSound
  <2>2. /\ Len(job.table) \in Nat /\ DOMAIN job.table = 1 .. Len(job.table)
        /\ job.at \in Nat
    <3>1. job.table \in Seq([mint : Mints, units : Nat]) /\ job.at \in Nat
      BY <2>1 DEF Running, JobType, CreateJobs, TableType
    <3>. QED
      BY <3>1, SeqIsFunction
  <2>3. 1 .. job.at - 1 = DOMAIN job.table
    BY <2>1, <2>2 DEF Added
  <2>. QED
    BY <2>1, <2>3 DEF Added, AsAsked, Named
<1>2. LaunchInv /\ [CliNext]_cliVars => LaunchInv'
  BY CliInvStep, AddedStep DEF LaunchInv
<1>3. CliSpec => []LaunchInv
  BY CliInvInit, <1>2, PTL DEF CliSpec
<1>4. LaunchInv /\ [CliNext]_cliVars => [SendSeal => AsAsked]_cliVars
  BY <1>1 DEF LaunchInv
<1>. QED
  BY <1>3, <1>4, PTL DEF CliSpec, LaunchedAsAsked

-----------------------------------------------------------------------------
(* What propose asks for.                                                  *)

\* The last entry of a mint is the one that stands, and a mint's own.
LEMMA LastEntry ==
  ASSUME NEW w \in Seq(EntryType), NEW c \in Named(w)
  PROVE  LET i == Max({j \in DOMAIN w : w[j].mint = c})
         IN  i \in DOMAIN w /\ w[i].mint = c
<1> DEFINE S == {j \in DOMAIN w : w[j].mint = c}
           n == Len(w)
           T == {n - j : j \in S}
<1>1. n \in Nat /\ DOMAIN w = 1 .. n
  BY WeightingType
<1>2. S \subseteq 1 .. n /\ S # {}
  BY <1>1 DEF Named
<1> HIDE DEF S, n
<1>3. T \in SUBSET Nat /\ T # {}
  <2>1. \A j \in S : n - j \in Nat
    BY <1>1, <1>2
  <2>2. PICK j : j \in S
    BY <1>2
  <2>3. n - j \in T
    BY <2>2
  <2>. QED
    BY <2>1, <2>3
<1>4. PICK m \in T : \A k \in T : m <= k
  BY <1>3, LeastNumber
<1>5. PICK i \in S : m = n - i
  BY <1>4
<1>6. \A j \in S : i >= j
  <2> SUFFICES ASSUME NEW j \in S PROVE i >= j
    OBVIOUS
  <2>1. n - i <= n - j
    BY <1>4, <1>5
  <2>. QED
    BY <1>1, <1>2, <2>1
<1>7. Max(S) \in S
  BY <1>6 DEF Max
<1>. QED
  BY <1>7 DEF S

\* A target of a weighting is worth its share of the fund or less.
LEMMA TargetShare ==
  ASSUME NEW w \in Nat, NEW d \in Nat \ {0}, NEW price \in Nat \ {0},
         NEW nav \in Nat, NEW s \in Nat \ {0},
         NEW u \in Nat, u = unitsForWeight(w, d, price, nav, s)
  PROVE  /\ ValueE9(UnitsOut(u, s), d, price) \in Nat
         /\ BPS * ValueE9(UnitsOut(u, s), d, price) <= nav * w
<1> DEFINE a == ValueE9(UnitsOut(u, s), d, price)
           share == MulDivFloor(nav, w, BPS)
<1>1. BPS \in Nat \ {0} /\ s \in Nat
  BY MathAssumption
<1>2. UnitsOut(u, s) \in Nat
  BY <1>1, UnitsInOutBounds
<1>3. a \in Nat
  BY <1>2, FloorBounds DEF ValueE9
<1>4. a <= share
  BY TargetWithinWeight
<1>5. share \in Nat /\ BPS * share <= nav * w /\ nav * w \in Nat
  BY <1>1, FloorBounds, ProductIsNat
<1> HIDE DEF a, share
<1>6. BPS * a <= BPS * share
  BY <1>1, <1>3, <1>4, <1>5, SMT
<1>7. BPS * a \in Nat /\ BPS * share \in Nat
  BY <1>1, <1>3, <1>5, ProductIsNat
<1>. QED
  BY <1>3, <1>5, <1>6, <1>7 DEF a

\* The fund as the client values it is the fund as the program does.
LEMMA NavOfSnapshot ==
  ASSUME TypeOK, market \in [Mints -> Nat],
         snapshot.account.components = components, snapshot.balances = vault
  PROVE  SnapNav(market)
           = SumFunction([c \in components |->
                            ValueE9(vault[c], DECIMALS_SCALE[c], market[c])])
<1>1. ASSUME NEW c \in components
      PROVE  valueE9(vault[c], DECIMALS_SCALE[c], market[c])
               = ValueE9(vault[c], DECIMALS_SCALE[c], market[c])
  <2>1. /\ vault[c] \in Nat /\ market[c] \in Nat
        /\ DECIMALS_SCALE[c] \in Nat \ {0}
    BY U64IsNat, IndexAssumption DEF TypeOK
  <2>. QED
    BY <2>1, FloorParity DEF valueE9, ValueE9
<1>2. [c \in components |-> valueE9(vault[c], DECIMALS_SCALE[c], market[c])]
        = [c \in components |-> ValueE9(vault[c], DECIMALS_SCALE[c], market[c])]
  BY <1>1
<1>3. [c \in components |->
         valueE9([k \in components |-> vault[k]][c], DECIMALS_SCALE[c], market[c])]
        = [c \in components |-> valueE9(vault[c], DECIMALS_SCALE[c], market[c])]
  OBVIOUS
<1>. QED
  BY <1>2, <1>3 DEF SnapNav, navE9

LEMMA ProposalIsAffordable ==
  ASSUME CliInv, SendPropose, touched = "no",
         NoNegativeWeight(job.arg.weights)
  PROVE  PlanAffordable'
<1> DEFINE w == job.arg.weights
           nav == SumFunction([c \in components |->
                                 ValueE9(vault[c], DECIMALS_SCALE[c],
                                         market[c])])
           D == components
           E == DOMAIN w
           at == [c \in D |-> Max({i \in E : w[i].mint = c})]
           target(c) == unitsForWeight(w[at[c]].bps, DECIMALS_SCALE[c],
                                       market[c], nav, supply)
           f == [c \in D |-> ValueE9(UnitsOut(target(c), supply),
                                     DECIMALS_SCALE[c], market[c])]
           g == [i \in E |-> w[i].bps]
<1>1. /\ job.kind = "propose" /\ job.step = "send"
      /\ VaultsNamed /\ snapshot.supply # 0
      /\ Encodable(TargetsOf(w)) /\ Fits(market)
      /\ ProposeRebalance(Payer, TargetsOf(w), market, job.arg.auction)
  BY DEF SendPropose, Running
<1>2. /\ JobType /\ TypeOK /\ Faithful /\ reading = "held"
      /\ market \in [Mints -> Nat]
  BY <1>1, SoundParts DEF CliInv, CliSound, InStep, Fetching
<1>3. /\ snapshot.account.components = components
      /\ snapshot.balances = vault /\ snapshot.supply = supply
  BY <1>1, <1>2 DEF VaultsNamed, Faithful, LedgerStands
<1>4. /\ FullyAllocated(w) /\ Named(w) = components
      /\ \A c \in components : market[c] # 0
  BY <1>1, <1>3 DEF CliInv, Weighed
<1>5. job.arg \in ProposeRequests
  BY <1>1, <1>2, JobFields
<1>6. w \in Seq(EntryType) /\ job.arg.auction \in AuctionType
  BY <1>5, CliAssumption
<1>7. /\ Len(w) \in Nat /\ E = 1 .. Len(w)
      /\ \A i \in E : w[i].bps \in Nat
  BY <1>6, WeightingType DEF NoNegativeWeight
<1>8. ASSUME NEW c \in D
      PROVE  at[c] \in E /\ w[at[c]].mint = c
  BY <1>4, <1>6, LastEntry
<1>9. at \in [D -> E] /\ IsInjective(at)
  <2> DEFINE last(c) == Max({i \in E : w[i].mint = c})
  <2>1. \A c \in D : last(c) \in E /\ w[last(c)].mint = c
    BY <1>8
  <2>2. at = [c \in D |-> last(c)]
    OBVIOUS
  <2> HIDE DEF last, at, D, E
  <2>. QED
    BY <2>1, <2>2 DEF IsInjective
<1>10. D \subseteq Mints /\ IsFiniteSet(D) /\ IsFiniteSet(E)
  <2>1. D \subseteq Mints
    BY <1>2 DEF TypeOK
  <2>2. IsFiniteSet(D)
    <3> HIDE DEF D
    <3>. QED
      BY <2>1, IndexAssumption, FS_Subset
  <2>3. IsFiniteSet(E)
    <3> DEFINE n == Len(w)
    <3> HIDE DEF E, n
    <3>1. 1 \in Int /\ n \in Int
      BY <1>7 DEF n
    <3>2. IsFiniteSet(1 .. n)
      BY <3>1, FS_Interval
    <3>. QED
      BY <1>7, <3>2 DEF n
  <2>. QED
    BY <2>1, <2>2, <2>3
<1>11. supply \in Nat \ {0} /\ BPS \in Nat \ {0}
  BY <1>1, <1>2, <1>3, U64IsNat, MathAssumption DEF TypeOK
<1>12. nav \in Nat
  <2> DEFINE h == [c \in components |->
                     ValueE9(vault[c], DECIMALS_SCALE[c], market[c])]
  <2>1. h \in [components -> Nat]
    <3> SUFFICES ASSUME NEW c \in components
                 PROVE  ValueE9(vault[c], DECIMALS_SCALE[c], market[c]) \in Nat
      OBVIOUS
    <3>1. /\ vault[c] \in Nat /\ market[c] \in Nat
          /\ DECIMALS_SCALE[c] \in Nat \ {0}
      BY <1>2, <1>10, U64IsNat, IndexAssumption DEF TypeOK
    <3>. QED
      BY <3>1, FloorBounds DEF ValueE9
  <2> HIDE DEF h
  <2>2. SumFunction(h) \in Nat
    BY <1>10, <2>1, SumType
  <2>. QED
    BY <2>2 DEF h
<1>13. SnapNav(market) = nav
  BY <1>2, <1>3, NavOfSnapshot
<1> HIDE DEF nav
<1>14. ASSUME NEW c \in D
       PROVE  TargetsOf(w)[c] = target(c) /\ target(c) \in Nat
  <2>1. TargetsOf(w)[c] = target(c)
    BY <1>3, <1>13 DEF TargetsOf, WeightOf
  <2>2. TargetsOf(w)[c] \in U64
    BY <1>1, <1>3 DEF Encodable, TargetsOf
  <2> HIDE DEF target
  <2>. QED
    BY <2>1, <2>2, U64IsNat
<1>15. ASSUME NEW c \in D
       PROVE  f[c] \in Nat /\ BPS * f[c] <= nav * g[at[c]]
  <2> DEFINE x == w[at[c]].bps
             u == target(c)
  <2>1. /\ x \in Nat /\ DECIMALS_SCALE[c] \in Nat \ {0}
        /\ market[c] \in Nat \ {0} /\ u \in Nat
    BY <1>2, <1>4, <1>7, <1>8, <1>10, <1>14, IndexAssumption
  <2>2. /\ u = unitsForWeight(x, DECIMALS_SCALE[c], market[c], nav, supply)
        /\ f[c] = ValueE9(UnitsOut(u, supply), DECIMALS_SCALE[c], market[c])
        /\ g[at[c]] = x
    BY <1>8
  <2> HIDE DEF x, u, f, g
  <2>. QED
    BY <1>11, <1>12, <2>1, <2>2, TargetShare
<1>16. f \in [D -> Nat] /\ g \in [E -> Nat]
  BY <1>7, <1>15
<1>17. Dominated(f, g, at, BPS, nav)
  BY <1>15 DEF Dominated
<1>18. SumFunction(g) = BPS
  BY <1>4 DEF FullyAllocated
<1>19. SumFunction(f) <= nav
  <2> HIDE DEF f, g, at, D, E
  <2>1. BPS * SumFunction(f) <= nav * SumFunction(g) /\ SumFunction(f) \in Nat
    BY <1>9, <1>10, <1>11, <1>12, <1>16, <1>17, SumScaled, SumType
  <2>. QED
    BY <1>11, <1>12, <1>18, <2>1, SharesOfWhole
<1>20. /\ UNCHANGED <<components, supply, vault>>
       /\ \A c \in D : refPrice'[c] = market[c] /\ targetUnits'[c] = target(c)
  <2>1. Fits(TargetsOf(w))
    BY <1>1, <1>3 DEF Encodable, Fits, TargetsOf
  <2> HIDE DEF target
  <2>2. \A c \in components : refPrice'[c] = market[c]
                              /\ targetUnits'[c] = TargetsOf(w)[c]
    BY <1>1, <1>2, <1>6, <2>1, ProposeEffect
  <2>3. UNCHANGED <<components, supply, vault>>
    BY <1>1 DEF ProposeRebalance, ledger
  <2>. QED
    BY <1>14, <2>2, <2>3
<1>21. [c \in components' |->
          ValueE9(UnitsOut(targetUnits'[c], supply'), DECIMALS_SCALE[c],
                  refPrice'[c])] = f
  BY <1>20
<1>22. [c \in components' |->
          ValueE9(vault'[c], DECIMALS_SCALE[c], refPrice'[c])]
         = [c \in components |->
              ValueE9(vault[c], DECIMALS_SCALE[c], market[c])]
  BY <1>20
<1> HIDE DEF f
<1>. QED
  BY <1>19, <1>21, <1>22 DEF PlanAffordable, nav

\* math.ts:109: the targets propose computes and sends put no more on the
\* components than the fund is worth, at the prices of the proposal, if the
\* chain has not changed since the snapshot was begun.
THEOREM PlansAffordable == CliSpec => TargetsAffordable
<1>1. CliInv => [SendPropose /\ touched = "no"
                   /\ NoNegativeWeight(job.arg.weights)
                     => PlanAffordable']_cliVars
  BY ProposalIsAffordable
<1>. QED
  BY <1>1, CliInvAlways, PTL DEF CliSpec, TargetsAffordable
===============================================================================
