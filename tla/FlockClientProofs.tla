-------------------------- MODULE FlockClientProofs --------------------------
(***************************************************************************)
(* What a client may rely on: the quotes of a snapshot, for every value of *)
(* the constants and however the chain moves between its reads and its     *)
(* transaction.                                                            *)
(*                                                                         *)
(* Faithful is the inductive invariant: while nothing but accruals has     *)
(* happened under a snapshot, its figures are the chain's, and the supply  *)
(* has grown at least by the fee the snapshot expects.                     *)
(***************************************************************************)
EXTENDS FlockClient, FlockPrices, FlockIndexProofs, SdkMathTheorems

allVars == <<vars, clientVars, touched>>

-----------------------------------------------------------------------------
(* Types.                                                                  *)

LEMMA ClientChainType == TypeOK /\ [ClientNext]_allVars => TypeOK'
<1> SUFFICES ASSUME TypeOK, [ClientNext]_allVars PROVE TypeOK'
  OBVIOUS
<1>1. UserAmounts \subseteq Nat
  BY ClientAssumption, U64IsNat
<1>2. ASSUME NEW to \in Signers, NEW amount \in UserAmounts,
             SubmitIssue(to, amount)
      PROVE  TypeOK'
  <2>1. accounts \subseteq accounts /\ accounts \in SUBSET Keys
    BY DEF TypeOK
  <2>. QED
    BY <1>1, <1>2, <2>1, TypeIssue DEF SubmitIssue, SubmitIssueInto
<1>3. ASSUME NEW by \in Signers, NEW amount \in UserAmounts,
             SubmitRedeem(by, amount)
      PROVE  TypeOK'
  BY <1>1, <1>3, TypeRedeem DEF SubmitRedeem
<1>4. ASSUME [Next]_vars
      PROVE  TypeOK'
  BY <1>4, TypeStep
<1>. QED
  BY <1>2, <1>3, <1>4
  DEF allVars, ClientNext, ChainMoves, StartSnapshot, ReadAccount, ReadLedger,
      DropSnapshot

LEMMA NoSnapshotType == NoSnapshot \in SnapshotType
<1>1. /\ 0 \in 0 .. HORIZON /\ 0 \in U64
  BY IndexAssumption, U64IsNat
<1>2. Closed(0) \in RebalanceType /\ NoParams \in ParamType
  BY DEF Closed, RebalanceType, NoParams, ParamType
<1>. QED
  BY <1>1, <1>2 DEF NoSnapshot, NoAccount, SnapshotType, RebalanceType

LEMMA ClientTypeStep ==
  TypeOK /\ ClientTypeOK /\ [ClientNext]_allVars => ClientTypeOK'
<1> SUFFICES ASSUME TypeOK, ClientTypeOK, [ClientNext]_allVars
             PROVE  ClientTypeOK'
  OBVIOUS
<1>1. ASSUME reading' = "idle", snapshot' = NoSnapshot, touched' = "no"
      PROVE  ClientTypeOK'
  BY <1>1, NoSnapshotType DEF ClientTypeOK
<1>2. CASE ChainMoves
  <2>1. touched' \in {"no", "fees", "yes"}
    BY <1>2 DEF ChainMoves, Touch, ClientTypeOK
  <2>. QED
    BY <1>2, <2>1 DEF ChainMoves, clientVars, ClientTypeOK
<1>3. CASE StartSnapshot
  <2>1. now \in 0 .. HORIZON
    BY DEF TypeOK
  <2>2. snapshot' \in SnapshotType
    BY <1>3, <2>1, NoSnapshotType DEF StartSnapshot, SnapshotType
  <2>. QED
    BY <1>3, <2>2 DEF StartSnapshot, ClientTypeOK
<1>4. CASE ReadAccount
  <2>1. /\ lastFeeAccrual \in 0 .. HORIZON /\ params \in ParamType
        /\ authority["feeRecipient"] \in Keys \cup {None}
    BY IndexAssumption DEF TypeOK, WithinCaps, ParamType, Roles
  <2>2. AccountNow \in [lastFeeAccrual : 0 .. HORIZON, params : ParamType,
                        feeRecipient : Keys \cup {None},
                        components : SUBSET Mints, units : [Mints -> U64],
                        targetUnits : [Mints -> U64],
                        refPrice : [Mints -> U64], rebalance : RebalanceType]
    BY <2>1 DEF AccountNow, TypeOK
  <2>3. snapshot' \in SnapshotType
    BY <1>4, <2>2 DEF ReadAccount, ClientTypeOK, SnapshotType, RebalanceType
  <2>. QED
    BY <1>4, <2>3 DEF ReadAccount, ClientTypeOK
<1>5. CASE ReadLedger
  <2>1. snapshot' \in SnapshotType
    BY <1>5 DEF ReadLedger, ClientTypeOK, SnapshotType, TypeOK
  <2>. QED
    BY <1>5, <2>1 DEF ReadLedger, ClientTypeOK
<1>6. CASE UNCHANGED allVars
  BY <1>6 DEF allVars, clientVars, ClientTypeOK
<1>. QED
  BY <1>1, <1>2, <1>3, <1>4, <1>5, <1>6
  DEF ClientNext, DropSnapshot, SubmitIssue, SubmitIssueInto, SubmitRedeem

\* Whatever the chain does between the reads, a snapshot has the shape its
\* stage allows.
THEOREM ClientTypeCorrect == ClientSpec => []ClientTypeOK
<1>1. ClientInit => TypeOK /\ ClientTypeOK
  BY TypeInit, NoSnapshotType DEF ClientInit, ClientTypeOK
<1>. QED
  BY <1>1, ClientChainType, ClientTypeStep, PTL DEF ClientSpec, allVars

-----------------------------------------------------------------------------
(* What an untouched snapshot says is so.                                  *)

\* The supply the snapshot expects the next accrual to leave.
Expected == snapshot.supply + PendingFee

SameFigures ==
  /\ snapshot.account.params = params
  /\ snapshot.account.components = components
  /\ snapshot.account.targetUnits = targetUnits
  /\ snapshot.account.refPrice = refPrice
  /\ snapshot.account.rebalance = rebalance

\* The account that was read is still the account.
AccountStands ==
  reading = "ledger" /\ touched # "yes" =>
    /\ SameFigures /\ touched = "no"
    /\ snapshot.account.units = units
    /\ snapshot.account.lastFeeAccrual = lastFeeAccrual

\* So are the mint and the vaults, or only fees have been accrued since.
LedgerStands ==
  reading = "held" /\ touched # "yes" =>
    /\ SameFigures /\ snapshot.balances = vault
    /\ snapshot.supply = 0 => supply = 0 /\ snapshot.account.units = units
    /\ StreamingFeeDefined(snapshot.supply, params.streamingFee, SnapPeriod)
    /\ touched = "no" => /\ snapshot.supply = supply
                         /\ snapshot.account.lastFeeAccrual = lastFeeAccrual
    /\ touched = "fees" =>
         /\ supply >= Expected
         /\ snapshot.asOf = now => supply = Expected /\ lastFeeAccrual = now

Faithful ==
  /\ snapshot.asOf <= now
  /\ AccountStands
  /\ LedgerStands

\* What the program charges on the way, and what the client expects of it.
LEMMA ExpectedType ==
  ASSUME TypeOK, ClientTypeOK, reading = "held", touched # "yes", LedgerStands
  PROVE  /\ PendingFee \in Nat /\ snapshot.supply \in Nat /\ Expected \in Nat
         /\ PendingFee = StreamingFeeTokens(snapshot.supply,
                                            params.streamingFee, SnapPeriod)
         /\ SnapPeriod \in Int /\ params.streamingFee \in Nat
         /\ FeePeriod \in Nat /\ supply \in Nat
<1>1. /\ snapshot.supply \in Nat /\ snapshot.asOf \in Int
      /\ snapshot.account.lastFeeAccrual \in Int
  <2>1. snapshot.supply \in U64
    BY DEF ClientTypeOK, SnapshotType
  <2>2. snapshot.asOf \in 0 .. HORIZON
    BY DEF ClientTypeOK, SnapshotType
  <2>3. snapshot.account.lastFeeAccrual \in 0 .. HORIZON
    BY DEF ClientTypeOK, SnapshotType
  <2>4. snapshot.supply \in Nat
    BY <2>1, U64IsNat, Zenon
  <2>5. \A x \in 0 .. HORIZON : x \in Int
    OBVIOUS
  <2>. QED
    BY <2>2, <2>3, <2>4, <2>5, Zenon
<1>2. SnapPeriod \in Int
  BY <1>1 DEF SnapPeriod
<1>3. params.streamingFee \in Nat /\ FeePeriod \in Nat /\ supply \in Nat
  BY U64IsNat, IndexAssumption DEF TypeOK, WithinCaps, FeePeriod
<1>4. /\ StreamingFeeDefined(snapshot.supply, params.streamingFee, SnapPeriod)
      /\ snapshot.account.params = params
  BY DEF LedgerStands, SameFigures
<1>5. PendingFee = StreamingFeeTokens(snapshot.supply, params.streamingFee,
                                      SnapPeriod)
  BY <1>1, <1>2, <1>3, <1>4, FeeParity DEF PendingFee
<1>6. PendingFee \in Nat
  <2>1. CASE SnapPeriod \in Nat
    BY <1>1, <1>3, <1>4, <1>5, <2>1, StreamingShare
  <2>2. CASE SnapPeriod \notin Nat
    <3>1. SnapPeriod <= 0
      BY <1>2, <2>2
    <3>. QED
      BY <1>5, <3>1 DEF StreamingFeeTokens, NoStreamingFee
  <2>. QED
    BY <2>1, <2>2
<1>. QED
  BY <1>1, <1>2, <1>3, <1>5, <1>6 DEF Expected

\* An accrual mints at least what an untouched snapshot expects of it, and
\* exactly that in the instant of the snapshot.
LEMMA AccrualAsExpected ==
  ASSUME TypeOK, ClientTypeOK, Faithful, reading = "held", touched # "yes",
         StreamingFeeDefined(supply, params.streamingFee, FeePeriod)
  PROVE  /\ Owed \in Nat /\ SupplyAfterFee \in Nat
         /\ SupplyAfterFee >= Expected
         /\ snapshot.asOf = now => SupplyAfterFee = Expected
         /\ snapshot.supply = 0 => SupplyAfterFee = 0
<1>1. /\ PendingFee \in Nat /\ snapshot.supply \in Nat /\ Expected \in Nat
      /\ PendingFee = StreamingFeeTokens(snapshot.supply, params.streamingFee,
                                         SnapPeriod)
      /\ SnapPeriod \in Int /\ params.streamingFee \in Nat
      /\ FeePeriod \in Nat /\ supply \in Nat
  BY ExpectedType DEF Faithful
<1>2. Owed \in Nat
  BY <1>1, StreamingShare DEF Owed
<1>3. snapshot.supply = 0 => SupplyAfterFee = 0
  <2>1. snapshot.supply = 0 => supply = 0
    BY DEF Faithful, LedgerStands
  <2>2. supply = 0 => Owed = 0
    BY DEF Owed, StreamingFeeTokens, NoStreamingFee
  <2>. QED
    BY <2>1, <2>2 DEF SupplyAfterFee
<1>4. CASE touched = "no"
  <2>1. /\ snapshot.supply = supply /\ snapshot.asOf <= now
        /\ snapshot.account.lastFeeAccrual = lastFeeAccrual
    BY <1>4 DEF Faithful, LedgerStands
  <2>2. /\ SnapPeriod <= FeePeriod
        /\ snapshot.asOf = now => SnapPeriod = FeePeriod
    <3>1. snapshot.asOf \in Int /\ now \in Int /\ lastFeeAccrual \in Int
      <4>1. snapshot.asOf \in 0 .. HORIZON
        BY DEF ClientTypeOK, SnapshotType
      <4>. QED
        BY <4>1, IndexAssumption DEF TypeOK
    <3>. QED
      BY <2>1, <3>1 DEF SnapPeriod, FeePeriod
  <2>3. params.streamingFee <= params.streamingFee
    BY <1>1
  <2>4. PendingFee <= Owed
    BY <1>1, <2>1, <2>2, <2>3, FeeMonotone DEF Owed
  <2>5. snapshot.asOf = now => PendingFee = Owed
    BY <1>1, <2>1, <2>2 DEF Owed
  <2>. QED
    BY <1>1, <1>2, <1>3, <2>1, <2>4, <2>5 DEF Expected, SupplyAfterFee
<1>5. CASE touched = "fees"
  <2>1. /\ supply >= Expected
        /\ snapshot.asOf = now => supply = Expected /\ lastFeeAccrual = now
    BY <1>5 DEF Faithful, LedgerStands
  <2>2. snapshot.asOf = now => Owed = 0
    <3>1. lastFeeAccrual = now => FeePeriod = 0
      BY IndexAssumption DEF TypeOK, FeePeriod
    <3>. QED
      BY <2>1, <3>1 DEF Owed, StreamingFeeTokens, NoStreamingFee
  <2>. QED
    BY <1>1, <1>2, <1>3, <2>1, <2>2 DEF SupplyAfterFee
<1>. QED
  BY <1>4, <1>5 DEF ClientTypeOK

\* The recipe of an empty fund is not rewritten by an accrual.
LEMMA EmptyFundKeepsUnits ==
  ASSUME TypeOK, Next, OnlyFees, supply = 0
  PROVE  units' = units /\ supply' = 0
<1>1. Owed = 0 /\ SupplyAfterFee = 0
  BY DEF Owed, StreamingFeeTokens, NoStreamingFee, SupplyAfterFee
<1>2. supply' = 0
  BY <1>1 DEF OnlyFees
<1> SUFFICES units' = units
  BY <1>2
<1>3. CASE SetupNext
  BY <1>3 DEF SetupNext, InitIndex, AddComponent, SealIndex, OnlyFees, index
<1>4. ASSUME NEW to, NEW amount \in Amounts, NEW maxIn, Issue(to, amount, maxIn)
      PROVE  FALSE
  <2>1. amount \in Nat /\ amount # 0
    BY <1>4, InputTypes DEF Issue, IssueInto
  <2>2. PICK gross \in Nat : amount <= gross /\ supply' = SupplyAfterFee + gross
    BY <1>4, <2>1, IssueEffect DEF Issue
  <2>. QED
    BY <1>1, <1>2, <2>1, <2>2
<1>5. ASSUME NEW by, NEW amount \in Amounts, NEW minOut, Redeem(by, amount, minOut)
      PROVE  FALSE
  BY <1>1, <1>5, InputTypes, RedeemEffect
<1>6. CASE AccrueFees
  BY <1>1, <1>6 DEF AccrueFees, QuotedUnits, SyncedUnits
<1>7. CASE AuctionNext
  <2>1. ASSUME NEW by, NEW target, NEW price, NEW p,
               ProposeRebalance(by, target, price, p)
        PROVE  units' = units
    BY <2>1 DEF ProposeRebalance
  <2>2. ASSUME NEW s, NEW b, NEW sold, NEW maxBuy, Bid(s, b, sold, maxBuy)
        PROVE  FALSE
    BY <2>2 DEF Bid
  <2>3. ASSUME NEW by, EndRebalance(by)
        PROVE  FALSE
    BY <2>3 DEF EndRebalance, Closed, OnlyFees
  <2>. QED
    BY <1>7, <2>1, <2>2, <2>3 DEF AuctionNext
<1>8. CASE GovernanceNext
  BY <1>8 DEF GovernanceNext, SetParams, SetAuthority, SetPaused, index
<1>9. CASE TokenNext
  BY <1>9
  DEF TokenNext, FounderMints, HandOverMint, RevokeFreezer, Freeze,
      OpenAccount, CloseAccount, Transfer, Burn, Donate, index
<1>10. CASE Tick
  BY <1>10 DEF Tick, index
<1>. QED
  BY <1>3, <1>4, <1>5, <1>6, <1>7, <1>8, <1>9, <1>10 DEF Next, FundNext

\* Only time moves the clock, and forwards.
LEMMA ClockSteps == Next => Tick \/ now' = now
<1> SUFFICES ASSUME Next PROVE Tick \/ now' = now
  OBVIOUS
<1>1. CASE SetupNext
  BY <1>1 DEF SetupNext, InitIndex, AddComponent, SealIndex
<1>2. CASE FundNext
  BY <1>2 DEF FundNext, Issue, IssueInto, Redeem, AccrueFees
<1>3. CASE AuctionNext
  <2>1. ASSUME NEW by, NEW target, NEW price, NEW p,
               ProposeRebalance(by, target, price, p)
        PROVE  now' = now
    BY <2>1 DEF ProposeRebalance
  <2>2. ASSUME NEW s, NEW b, NEW sold, NEW maxBuy, Bid(s, b, sold, maxBuy)
        PROVE  now' = now
    BY <2>2 DEF Bid
  <2>3. ASSUME NEW by, EndRebalance(by)
        PROVE  now' = now
    BY <2>3 DEF EndRebalance
  <2>. QED
    BY <1>3, <2>1, <2>2, <2>3 DEF AuctionNext
<1>4. CASE GovernanceNext
  BY <1>4 DEF GovernanceNext, SetParams, SetAuthority, SetPaused
<1>5. CASE TokenNext
  BY <1>5, Zenon
  DEF TokenNext, FounderMints, HandOverMint, RevokeFreezer, Freeze,
      OpenAccount, CloseAccount, Transfer, Burn, Donate
<1>. QED
  BY <1>1, <1>2, <1>3, <1>4, <1>5 DEF Next

LEMMA ClockRuns == TypeOK /\ Next => now' >= now /\ now \in Int
<1>1. TypeOK => now \in Int
  BY IndexAssumption DEF TypeOK
<1>2. now \in Int /\ Tick => now' >= now
  BY DEF Tick
<1>. QED
  BY <1>1, <1>2, ClockSteps

LEMMA FaithfulInit == ClientInit => Faithful
BY DEF ClientInit, Init, NoSnapshot, Faithful, AccountStands, LedgerStands

\* Whatever else the chain does marks the snapshot as touched.
LEMMA FaithfulChain ==
  ASSUME TypeOK, ClientTypeOK, Faithful, ChainMoves
  PROVE  Faithful'
<1>1. /\ reading' = reading /\ snapshot' = snapshot
      /\ PendingFee' = PendingFee /\ SnapPeriod' = SnapPeriod
      /\ Expected' = Expected
  BY DEF ChainMoves, clientVars, PendingFee, SnapPeriod, Expected
<1>2. snapshot.asOf <= now' /\ (snapshot.asOf = now' => now' = now)
  <2>1. snapshot.asOf \in 0 .. HORIZON
    BY DEF ClientTypeOK, SnapshotType
  <2>2. now' >= now /\ now \in Int /\ now' \in Int
    <3>1. TypeOK'
      BY TypeStep DEF ChainMoves
    <3>. QED
      BY <3>1, ClockRuns, IndexAssumption DEF ChainMoves, TypeOK
  <2>. QED
    BY <2>1, <2>2 DEF Faithful
<1>3. CASE touched' = "yes" \/ reading = "idle"
  BY <1>1, <1>2, <1>3 DEF Faithful, AccountStands, LedgerStands
<1>4. CASE touched' = touched /\ NoFigure
  <2>1. UNCHANGED <<lastFeeAccrual, params, components, units, targetUnits,
                    refPrice, rebalance, supply, vault>>
    BY <1>4 DEF NoFigure, index, ledger
  <2>2. AccountStands'
    BY <1>1, <1>4, <2>1 DEF Faithful, AccountStands, SameFigures
  <2>3. LedgerStands'
    BY <1>1, <1>2, <1>4, <2>1 DEF Faithful, LedgerStands, SameFigures
  <2>. QED
    BY <1>1, <1>2, <2>2, <2>3 DEF Faithful
<1>5. CASE touched' = "fees" /\ OnlyFees /\ reading = "held" /\ touched # "yes"
  <2>1. /\ UNCHANGED <<params, components, targetUnits, refPrice, rebalance,
                       vault>>
        /\ lastFeeAccrual' = now /\ supply' = SupplyAfterFee
        /\ StreamingFeeDefined(supply, params.streamingFee, FeePeriod)
    BY <1>5 DEF OnlyFees
  <2>2. /\ SupplyAfterFee >= Expected
        /\ snapshot.asOf = now => SupplyAfterFee = Expected
    BY <1>5, <2>1, AccrualAsExpected
  <2>3. snapshot.supply = 0 => supply' = 0 /\ units' = snapshot.account.units
    BY <1>5, EmptyFundKeepsUnits DEF ChainMoves, Faithful, LedgerStands
  <2>4. LedgerStands'
    BY <1>1, <1>2, <1>5, <2>1, <2>2, <2>3
    DEF Faithful, LedgerStands, SameFigures
  <2>5. AccountStands'
    BY <1>1, <1>5 DEF AccountStands
  <2>. QED
    BY <1>1, <1>2, <2>4, <2>5 DEF Faithful
<1>. QED
  BY <1>3, <1>4, <1>5 DEF ChainMoves, Touch

LEMMA FaithfulStep ==
  TypeOK /\ ClientTypeOK /\ Faithful /\ [ClientNext]_allVars => Faithful'
<1> SUFFICES ASSUME TypeOK, ClientTypeOK, Faithful, [ClientNext]_allVars
             PROVE  Faithful'
  OBVIOUS
<1>1. now \in Nat
  BY IndexAssumption DEF TypeOK
<1>2. ASSUME reading' = "idle", snapshot' = NoSnapshot
      PROVE  Faithful'
  <2>1. now' \in Nat
    BY ClientChainType, IndexAssumption DEF TypeOK
  <2>. QED
    BY <1>2, <2>1 DEF Faithful, AccountStands, LedgerStands, NoSnapshot
<1>3. CASE StartSnapshot
  <2>1. snapshot'.asOf = now /\ reading' = "account" /\ now' = now
    BY <1>3 DEF StartSnapshot, NoSnapshot, vars
  <2>. QED
    BY <1>1, <2>1 DEF Faithful, AccountStands, LedgerStands
<1>4. CASE ReadAccount
  <2>1. /\ snapshot'.asOf = snapshot.asOf /\ snapshot'.account = AccountNow
        /\ reading' = "ledger" /\ touched' = "no"
    BY <1>4 DEF ReadAccount, ClientTypeOK, SnapshotType
  <2>2. UNCHANGED <<now, params, components, units, targetUnits, refPrice,
                    rebalance, lastFeeAccrual>>
    BY <1>4 DEF ReadAccount, vars, index
  <2>3. /\ AccountNow.params = params /\ AccountNow.components = components
        /\ AccountNow.units = units /\ AccountNow.targetUnits = targetUnits
        /\ AccountNow.refPrice = refPrice /\ AccountNow.rebalance = rebalance
        /\ AccountNow.lastFeeAccrual = lastFeeAccrual
    BY DEF AccountNow
  <2>. QED
    BY <2>1, <2>2, <2>3
    DEF Faithful, AccountStands, LedgerStands, SameFigures
<1>5. CASE ReadLedger
  <2>1. /\ snapshot'.asOf = snapshot.asOf
        /\ snapshot'.account = snapshot.account
        /\ snapshot'.supply = supply /\ snapshot'.balances = vault
        /\ reading = "ledger" /\ reading' = "held" /\ touched' = touched
        /\ SnapPeriod' = SnapPeriod
    BY <1>5 DEF ReadLedger, ClientTypeOK, SnapshotType, SnapPeriod
  <2>2. UNCHANGED <<now, params, components, units, targetUnits, refPrice,
                    rebalance, lastFeeAccrual, supply, vault>>
    BY <1>5 DEF ReadLedger, vars, index, ledger
  <2>3. touched # "yes" =>
          /\ SameFigures /\ touched = "no" /\ snapshot.account.units = units
          /\ snapshot.account.lastFeeAccrual = lastFeeAccrual
    BY <2>1 DEF Faithful, AccountStands
  <2>4. touched # "yes" =>
          StreamingFeeDefined(supply, params.streamingFee, SnapPeriod)
    <3>1. SUFFICES ASSUME touched # "yes"
                   PROVE  StreamingFeeDefined(supply, params.streamingFee,
                                              SnapPeriod)
      OBVIOUS
    <3>2. supply \in Nat /\ params.streamingFee \in Nat
      BY U64IsNat, IndexAssumption DEF TypeOK, WithinCaps
    <3>3. SnapPeriod \in Int
      <4>1. snapshot.asOf \in 0 .. HORIZON
        BY DEF ClientTypeOK, SnapshotType
      <4>2. lastFeeAccrual \in Int
        BY IndexAssumption DEF TypeOK
      <4>. QED
        BY <2>3, <3>1, <4>1, <4>2 DEF SnapPeriod
    <3>4. ~FeePeriodOverflows(supply, params.streamingFee, SnapPeriod)
      BY <1>5, <2>3, <3>1 DEF ReadLedger, SameFigures
    <3>. QED
      BY <3>2, <3>3, <3>4, FeeParity
  <2>. QED
    BY <2>1, <2>2, <2>3, <2>4
    DEF Faithful, AccountStands, LedgerStands, SameFigures
<1>6. CASE UNCHANGED allVars
  <2>1. UNCHANGED <<now, params, components, units, targetUnits, refPrice,
                    rebalance, lastFeeAccrual, supply, vault, snapshot,
                    reading, touched>>
    BY <1>6 DEF allVars, vars, index, ledger, clientVars
  <2>. QED
    BY <2>1
    DEF Faithful, AccountStands, LedgerStands, SameFigures, Expected,
        PendingFee, SnapPeriod
<1>. QED
  BY <1>2, <1>3, <1>4, <1>5, <1>6, FaithfulChain
  DEF ClientNext, DropSnapshot, SubmitIssue, SubmitIssueInto, SubmitRedeem

Reliable == TypeOK /\ ClientTypeOK /\ Faithful

LEMMA AlwaysReliable == ClientSpec => []Reliable
<1>1. ClientInit => Reliable
  BY TypeInit, NoSnapshotType, FaithfulInit
  DEF ClientInit, ClientTypeOK, Reliable
<1>2. Reliable /\ [ClientNext]_allVars => Reliable'
  BY ClientChainType, ClientTypeStep, FaithfulStep DEF Reliable
<1>. QED
  BY <1>1, <1>2, PTL DEF ClientSpec, allVars

-----------------------------------------------------------------------------
(* What follows for the quotes.                                            *)

\* The fees on top of and out of an amount are the program's.
LEMMA AmountParity ==
  ASSUME TypeOK, SameFigures, NEW amount \in Nat
  PROVE  /\ GrossOf(amount) = amount + IssueFee(amount)
         /\ NetOf(amount) = amount - RedeemFee(amount)
         /\ GrossOf(amount) \in Nat /\ NetOf(amount) \in Nat
<1>1. params.issueFee \in 0 .. BPS /\ params.redeemFee \in 0 .. BPS
  BY IndexAssumption, MathAssumption DEF TypeOK, WithinCaps
<1>2. /\ mulDivCeil(amount, params.issueFee, BPS) = IssueFee(amount)
      /\ mulDivCeil(amount, params.redeemFee, BPS) = RedeemFee(amount)
  BY <1>1, CeilParity, MathAssumption DEF IssueFee, RedeemFee
<1>3. IssueFee(amount) \in 0 .. amount /\ RedeemFee(amount) \in 0 .. amount
  BY <1>1, FeeAtMostAmount DEF IssueFee, RedeemFee
<1>. QED
  BY <1>2, <1>3 DEF GrossOf, NetOf, SameFigures

LEMMA MoreUnitsCostMore ==
  ASSUME NEW u \in Nat, NEW v \in Nat, u <= v, NEW g \in Nat
  PROVE  UnitsIn(u, g) <= UnitsIn(v, g)
<1>1. UnitsIn(u, g) = MulDivCeil(g, u, UNIT_SCALE)
  BY DEF UnitsIn, MulDivCeil
<1>2. UnitsIn(v, g) = MulDivCeil(g, v, UNIT_SCALE)
  BY DEF UnitsIn, MulDivCeil
<1>. QED
  BY <1>1, <1>2, CeilMonotone, MathAssumption

\* The units of an untouched snapshot bound the program's from above, and are
\* the program's in the instant of the snapshot.
LEMMA UnitsOfSnapshot ==
  ASSUME Reliable, reading = "held", touched # "yes", NEW c \in components,
         StreamingFeeDefined(supply, params.streamingFee, FeePeriod)
  PROVE  /\ snapshot.account.components = components
         /\ QuoteUnits[c] \in Nat /\ QuotedUnits[c] \in Nat
         /\ QuotedUnits[c] <= QuoteUnits[c]
         /\ snapshot.asOf = now => QuotedUnits[c] = QuoteUnits[c]
<1>1. /\ SupplyAfterFee \in Nat /\ SupplyAfterFee >= Expected
      /\ snapshot.asOf = now => SupplyAfterFee = Expected
      /\ snapshot.supply = 0 => SupplyAfterFee = 0
  BY AccrualAsExpected DEF Reliable
<1>2. Expected \in Nat /\ PendingFee \in Nat /\ snapshot.supply \in Nat
  BY ExpectedType DEF Reliable, Faithful
<1>3. /\ snapshot.account.components = components /\ snapshot.balances = vault
      /\ snapshot.supply = 0 => snapshot.account.units = units
  BY DEF Reliable, Faithful, LedgerStands, SameFigures
<1>4. c \in Mints /\ vault[c] \in Nat /\ units[c] \in Nat
  BY U64IsNat DEF Reliable, TypeOK
<1>5. QuoteUnits[c] = IF Expected = 0 THEN snapshot.account.units[c]
                      ELSE unitsFromBalance(vault[c], Expected)
  BY <1>3 DEF QuoteUnits, UnitsAt, Expected
<1>6. CASE SupplyAfterFee = 0
  <2>1. Expected = 0 /\ snapshot.supply = 0
    BY <1>1, <1>2, <1>6 DEF Expected
  <2>2. QuotedUnits[c] = units[c]
    BY <1>6 DEF QuotedUnits, SyncedUnits
  <2>. QED
    BY <1>3, <1>4, <1>5, <2>1, <2>2
<1>7. CASE SupplyAfterFee # 0
  <2>1. QuotedUnits[c] = UnitsFromBalance(vault[c], SupplyAfterFee)
    BY <1>4, <1>7 DEF QuotedUnits, SyncedUnits
  <2>2. Expected # 0
    BY <1>1, <1>2, <1>7 DEF Expected
  <2>3. QuoteUnits[c] = UnitsFromBalance(vault[c], Expected)
    BY <1>2, <1>4, <1>5, <2>2, UnitsParity
  <2>4. /\ UnitsFromBalance(vault[c], SupplyAfterFee) \in Nat
        /\ UnitsFromBalance(vault[c], Expected) \in Nat
    BY <1>1, <1>2, <1>4, <1>7, <2>2, UnitsNeverOverstate
  <2>5. UnitsFromBalance(vault[c], Expected)
          >= UnitsFromBalance(vault[c], SupplyAfterFee)
    BY <1>1, <1>2, <1>4, <1>7, <2>2, LessSupplyKeepsUnits
  <2>. QED
    BY <1>1, <1>3, <2>1, <2>3, <2>4, <2>5
<1>. QED
  BY <1>6, <1>7

\* The instant of the snapshot needs no condition on the fee period: the
\* client would have thrown.
LEMMA FeeDefinedAtOnce ==
  ASSUME Reliable, reading = "held", touched # "yes", snapshot.asOf = now
  PROVE  StreamingFeeDefined(supply, params.streamingFee, FeePeriod)
<1>1. CASE touched = "no"
  <2>1. /\ snapshot.supply = supply
        /\ snapshot.account.lastFeeAccrual = lastFeeAccrual
        /\ StreamingFeeDefined(snapshot.supply, params.streamingFee, SnapPeriod)
    BY <1>1 DEF Reliable, Faithful, LedgerStands
  <2>2. SnapPeriod = FeePeriod
    BY <2>1 DEF SnapPeriod, FeePeriod
  <2>. QED
    BY <2>1, <2>2
<1>2. CASE touched = "fees"
  <2>1. lastFeeAccrual = now /\ now \in Int
    BY <1>2, IndexAssumption DEF Reliable, Faithful, LedgerStands, TypeOK
  <2>2. FeePeriod = 0
    BY <2>1 DEF FeePeriod
  <2>. QED
    BY <2>2 DEF StreamingFeeDefined, NoStreamingFee
<1>. QED
  BY <1>1, <1>2 DEF Reliable, ClientTypeOK

\* math.ts:6: a whole snapshot quotes to the unit what the program asks and
\* pays in the same instant, whatever the fund, its fees and its balances.
THEOREM QuotesAlwaysExact == ClientSpec => []QuotesExact
<1>1. Reliable => QuotesExact
  <2> SUFFICES ASSUME Reliable, reading = "held", touched # "yes",
                      snapshot.asOf = now, NEW amount \in UserAmounts
               PROVE  /\ IssueQuote(amount) = ProgramAsks(amount)
                      /\ RedeemQuote(amount) = ProgramPays(amount)
    BY DEF QuotesExact
  <2>1. StreamingFeeDefined(supply, params.streamingFee, FeePeriod)
    BY FeeDefinedAtOnce
  <2>2. SameFigures /\ snapshot.account.components = components
    BY DEF Reliable, Faithful, LedgerStands, SameFigures
  <2>3. amount \in Nat
    BY ClientAssumption, U64IsNat
  <2>4. /\ GrossOf(amount) = amount + IssueFee(amount)
        /\ NetOf(amount) = amount - RedeemFee(amount)
        /\ GrossOf(amount) \in Nat /\ NetOf(amount) \in Nat
    BY <2>2, <2>3, AmountParity DEF Reliable
  <2>5. ASSUME NEW c \in components
        PROVE  /\ unitsIn(QuoteUnits[c], GrossOf(amount))
                    = UnitsIn(QuotedUnits[c], amount + IssueFee(amount))
               /\ unitsOut(QuoteUnits[c], NetOf(amount))
                    = UnitsOut(QuotedUnits[c], amount - RedeemFee(amount))
    <3>1. QuoteUnits[c] \in Nat /\ QuotedUnits[c] = QuoteUnits[c]
      BY <2>1, UnitsOfSnapshot
    <3>. QED
      BY <2>4, <3>1, UnitsParity
  <2>. QED
    BY <2>2, <2>5
    DEF IssueQuote, RedeemQuote, ProgramAsks, ProgramPays, Payout
<1>. QED
  BY <1>1, AlwaysReliable, PTL

\* client.ts:126: an issue quote is never exceeded later, for as long as the
\* fund has only been left alone or had its fee accrued.
THEOREM QuotesAlwaysStand == ClientSpec => []QuoteStands
<1>1. Reliable => QuoteStands
  <2> SUFFICES ASSUME Reliable, reading = "held", touched # "yes",
                      StreamingFeeDefined(supply, params.streamingFee,
                                          FeePeriod),
                      NEW amount \in UserAmounts, NEW c \in components
               PROVE  ProgramAsks(amount)[c] <= IssueQuote(amount)[c]
    BY DEF QuoteStands
  <2>1. SameFigures /\ snapshot.account.components = components
    BY DEF Reliable, Faithful, LedgerStands, SameFigures
  <2>2. amount \in Nat
    BY ClientAssumption, U64IsNat
  <2>3. /\ GrossOf(amount) = amount + IssueFee(amount)
        /\ GrossOf(amount) \in Nat
    BY <2>1, <2>2, AmountParity DEF Reliable
  <2>4. /\ QuoteUnits[c] \in Nat /\ QuotedUnits[c] \in Nat
        /\ QuotedUnits[c] <= QuoteUnits[c]
    BY UnitsOfSnapshot
  <2>5. unitsIn(QuoteUnits[c], GrossOf(amount))
          = UnitsIn(QuoteUnits[c], GrossOf(amount))
    BY <2>3, <2>4, UnitsParity
  <2>6. UnitsIn(QuotedUnits[c], GrossOf(amount))
          <= UnitsIn(QuoteUnits[c], GrossOf(amount))
    BY <2>3, <2>4, MoreUnitsCostMore
  <2>. QED
    BY <2>1, <2>3, <2>5, <2>6 DEF IssueQuote, ProgramAsks
<1>. QED
  BY <1>1, AlwaysReliable, PTL

-----------------------------------------------------------------------------
(* The auction view.                                                       *)

LEMMA MaxWithZero ==
  ASSUME NEW x \in Int
  PROVE  Max({0, x}) = IF x > 0 THEN x ELSE 0
<1>1. CASE x > 0
  <2>1. \A y \in {0, x} : x >= y
    BY <1>1
  <2>2. \A y \in {0, x} : (\A z \in {0, x} : y >= z) => y = x
    BY <1>1
  <2>. QED
    BY <1>1, <2>1, <2>2 DEF Max
<1>2. CASE ~(x > 0)
  <2>1. \A y \in {0, x} : 0 >= y
    BY <1>2
  <2>2. \A y \in {0, x} : (\A z \in {0, x} : y >= z) => y = 0
    BY <1>2
  <2>. QED
    BY <1>2, <2>1, <2>2 DEF Max
<1>. QED
  BY <1>1, <1>2

\* The two limits of a snapshot nothing has happened under are the program's.
LEMMA LimitsOfSnapshot ==
  ASSUME Reliable, reading = "held", touched = "no", NEW c \in components
  PROVE  /\ TargetOf(c) = TargetBalance(c) /\ CapOf(c) = BuyCap(c)
         /\ TargetBalance(c) \in Nat /\ BuyCap(c) \in Nat
         /\ snapshot.balances[c] = vault[c] /\ vault[c] \in Nat
<1>1. /\ SameFigures /\ snapshot.balances = vault /\ snapshot.supply = supply
  BY DEF Reliable, Faithful, LedgerStands
<1>2. /\ targetUnits[c] \in Nat /\ vault[c] \in Nat /\ supply \in Nat
      /\ params.maxPremium \in Nat /\ BPS \in Nat \ {0}
      /\ UNIT_SCALE \in Nat \ {0}
  <2>1. TypeOK /\ c \in Mints
    BY DEF Reliable, TypeOK
  <2>2. targetUnits[c] \in Nat /\ vault[c] \in Nat /\ supply \in Nat
    BY <2>1, U64IsNat DEF TypeOK
  <2>3. params.maxPremium \in Nat
    BY <2>1, IndexAssumption DEF TypeOK, WithinCaps
  <2>. QED
    BY <2>2, <2>3, MathAssumption
<1>3. TargetOf(c) = TargetBalance(c)
  BY <1>1, <1>2, FloorParity
  DEF TargetOf, TargetBalance, UnitsOut, MulDivFloor, mulDivFloor, SameFigures
<1>4. TargetBalance(c) \in Nat
  BY <1>2, UnitsInOutBounds DEF TargetBalance
<1>5. /\ quot(TargetBalance(c) * params.maxPremium, BPS)
           = MulDivFloor(TargetBalance(c), params.maxPremium, BPS)
      /\ MulDivFloor(TargetBalance(c), params.maxPremium, BPS) \in Nat
  BY <1>2, <1>4, FloorParity, FloorBounds DEF mulDivFloor
<1>6. CapOf(c) = BuyCap(c) /\ BuyCap(c) \in Nat
  BY <1>1, <1>3, <1>4, <1>5 DEF CapOf, BuyCap, SameFigures
<1>. QED
  BY <1>1, <1>2, <1>3, <1>4, <1>6

\* docs/integrating.md:59: the legs of the auction view are the sizes the two
\* caps of the program let through, and its value of the fund is the one the
\* floor is compared with.
THEOREM LegsAlwaysExact == ClientSpec => []LegsExact
<1>1. Reliable => LegsExact
  <2> SUFFICES ASSUME Reliable, reading = "held", touched = "no"
               PROVE  LegsExact
    BY DEF LegsExact
  <2>1. ASSUME NEW c \in components, NEW size \in 1 .. VAULT_LIMIT
        PROVE  /\ size <= SellableLeg(c) <=> size <= SellRoom(c)
               /\ size <= BuyableLeg(c) <=> vault[c] + size <= BuyCap(c)
    <3> DEFINE room == vault[c] - TargetBalance(c)
               gap  == BuyCap(c) - vault[c]
    <3>1. /\ TargetOf(c) = TargetBalance(c) /\ CapOf(c) = BuyCap(c)
          /\ TargetBalance(c) \in Nat /\ BuyCap(c) \in Nat
          /\ snapshot.balances[c] = vault[c] /\ vault[c] \in Nat
      BY LimitsOfSnapshot
    <3>2. room \in Int /\ gap \in Int /\ size \in Nat \ {0}
      BY <3>1, IndexAssumption
    <3>3. /\ SellableLeg(c) = Max({0, room}) /\ BuyableLeg(c) = Max({0, gap})
          /\ SellRoom(c) = room
      BY <3>1 DEF SellableLeg, BuyableLeg, SellRoom
    <3>4. vault[c] + size <= BuyCap(c) <=> size <= gap
      BY <3>1, <3>2
    <3> HIDE DEF room, gap
    <3>5. \A x \in Int : size <= Max({0, x}) <=> size <= x
      BY <3>2, MaxWithZero
    <3>. QED
      BY <3>2, <3>3, <3>4, <3>5
  <2>2. NavAtReferencePrices \div NAV_SCALE = NavE6(vault, refPrice)
    <3>1. SameFigures /\ snapshot.balances = vault
      BY DEF Reliable, Faithful, LedgerStands
    <3>2. ASSUME NEW c \in components
          PROVE  valueE9(vault[c], DECIMALS_SCALE[c], refPrice[c])
                   = ValueE9(vault[c], DECIMALS_SCALE[c], refPrice[c])
      <4>1. /\ vault[c] \in Nat /\ refPrice[c] \in Nat
            /\ DECIMALS_SCALE[c] \in Nat \ {0}
        BY U64IsNat, IndexAssumption DEF Reliable, TypeOK
      <4>. QED
        BY <4>1, FloorParity DEF valueE9, ValueE9
    <3>3. [c \in components |->
             valueE9(vault[c], DECIMALS_SCALE[c], refPrice[c])]
            = [c \in components |->
                 ValueE9(vault[c], DECIMALS_SCALE[c], refPrice[c])]
      BY <3>2
    <3>. QED
      BY <3>1, <3>3 DEF NavAtReferencePrices, NavE6, SameFigures
  <2>. QED
    BY <2>1, <2>2 DEF LegsExact
<1>. QED
  BY <1>1, AlwaysReliable, PTL

-----------------------------------------------------------------------------
(* What every program that takes snapshots keeps.                          *)

\* The auction a snapshot has seen is one the program could have published.
SnapSound ==
  Plan.active =>
    /\ Plan.startTs < Plan.endTs
    /\ Plan.startPremium <= Plan.endPremium
    /\ Plan.endPremium <= MAX_PREMIUM_CEILING_BPS
    /\ \A c \in snapshot.account.components : snapshot.account.refPrice[c] # 0

Grounded == Reliable /\ Lifecycle /\ SnapSound

\* What a step of such a program may do to the chain and its snapshot.
ClientMoves ==
  \/ ChainMoves \/ StartSnapshot \/ ReadAccount \/ ReadLedger \/ DropSnapshot
  \/ UNCHANGED allVars
LEMMA MovesAreClients ==
  ASSUME ClientMoves
  PROVE  [ClientNext]_allVars /\ [Next]_vars
BY DEF ClientMoves, ClientNext, ChainMoves, StartSnapshot, ReadAccount,
       ReadLedger, DropSnapshot, allVars

LEMMA SoundPlan ==
  ASSUME TypeOK, ClientTypeOK, Lifecycle, SnapSound, ClientMoves
  PROVE  SnapSound'
<1>1. CASE snapshot'.account = snapshot.account
  BY <1>1 DEF SnapSound, Plan
<1>2. CASE ReadAccount
  <2>1. snapshot'.account = AccountNow
    BY <1>2 DEF ReadAccount, ClientTypeOK, SnapshotType
  <2>. QED
    BY <2>1 DEF AccountNow, SnapSound, Plan, Lifecycle
<1>3. CASE snapshot'.account = NoAccount
  BY <1>3 DEF SnapSound, Plan, NoAccount, Closed
<1>4. CASE StartSnapshot \/ DropSnapshot
  BY <1>3, <1>4 DEF StartSnapshot, DropSnapshot, NoSnapshot
<1>5. CASE ReadLedger
  BY <1>1, <1>5 DEF ReadLedger, ClientTypeOK, SnapshotType
<1>. QED
  BY <1>1, <1>2, <1>4, <1>5
  DEF ClientMoves, ChainMoves, clientVars, allVars

LEMMA GroundedMove == Grounded /\ ClientMoves => Grounded'
<1> SUFFICES ASSUME Grounded, ClientMoves PROVE Grounded'
  OBVIOUS
<1>1. [ClientNext]_allVars /\ [Next]_vars
  BY MovesAreClients
<1>2. Reliable'
  BY <1>1, ClientChainType, ClientTypeStep, FaithfulStep
  DEF Grounded, Reliable
<1>3. Lifecycle'
  BY <1>1, LifecycleStep DEF Grounded, Reliable
<1>. QED
  BY <1>2, <1>3, SoundPlan DEF Grounded, Reliable

\* A transaction, whatever it does, that leaves no snapshot to be wrong.
LEMMA GroundedNothing ==
  ASSUME TypeOK', Lifecycle', snapshot' = NoSnapshot, reading' = "idle",
         touched' \in {"no", "fees", "yes"}
  PROVE  Grounded'
<1>1. ClientTypeOK'
  BY NoSnapshotType DEF ClientTypeOK
<1>2. now' \in Nat
  BY IndexAssumption DEF TypeOK
<1>3. Faithful'
  BY <1>2 DEF Faithful, AccountStands, LedgerStands, NoSnapshot
<1>4. SnapSound'
  BY DEF SnapSound, Plan, NoSnapshot, NoAccount, Closed
<1>. QED
  BY <1>1, <1>3, <1>4 DEF Grounded, Reliable

LEMMA GroundedIdle ==
  ASSUME Grounded, reading = "idle", UNCHANGED <<clientVars, touched>>,
         TypeOK', Lifecycle'
  PROVE  Grounded'
<1>1. /\ snapshot' = NoSnapshot /\ reading' = "idle"
      /\ touched' \in {"no", "fees", "yes"}
  BY DEF Grounded, Reliable, ClientTypeOK, clientVars
<1>. QED
  BY <1>1, GroundedNothing

-----------------------------------------------------------------------------
(* The numbers of a plan.                                                  *)

LEMMA SnapFields ==
  ASSUME ClientTypeOK, NEW c \in snapshot.account.components
  PROVE  /\ c \in Mints
         /\ snapshot.balances[c] \in U64 /\ snapshot.supply \in U64
         /\ snapshot.account.targetUnits[c] \in U64
         /\ snapshot.account.refPrice[c] \in U64
         /\ snapshot.account.params.maxPremium \in Nat
         /\ TargetOf(c) \in Nat /\ CapOf(c) \in Nat
<1>1. /\ c \in Mints /\ snapshot.balances[c] \in U64 /\ snapshot.supply \in U64
      /\ snapshot.account.targetUnits[c] \in U64
      /\ snapshot.account.refPrice[c] \in U64
      /\ snapshot.account.params.maxPremium \in Nat
  BY DEF ClientTypeOK, SnapshotType, ParamType
<1>2. /\ snapshot.account.targetUnits[c] \in Nat /\ snapshot.supply \in Nat
      /\ UNIT_SCALE \in Nat \ {0} /\ BPS \in Nat \ {0}
  BY <1>1, U64IsNat, MathAssumption
<1>3. TargetOf(c) \in Nat
  BY <1>2, FloorParity, FloorBounds DEF TargetOf, mulDivFloor
<1>4. quot(TargetOf(c) * snapshot.account.params.maxPremium, BPS) \in Nat
  BY <1>1, <1>2, <1>3, FloorParity, FloorBounds DEF mulDivFloor
<1>. QED
  BY <1>1, <1>3, <1>4 DEF CapOf

\* What the auction of a snapshot asks at an instant t.
PlanPrice(s, b, sold, t) ==
  Price(sold, SnapLeg(s), SnapLeg(b),
        PremiumAt(Plan.startPremium, Plan.endPremium, Plan.startTs, Plan.endTs,
                  t))

LEMMA PlanFields ==
  ASSUME ClientTypeOK, SnapSound, Plan.active
  PROVE  /\ Plan.startTs \in Nat /\ Plan.endTs \in Nat
         /\ Plan.startPremium \in Int /\ Plan.endPremium \in Int
         /\ Plan.startPremium <= Plan.endPremium /\ Plan.endPremium <= BPS
         /\ Plan.startTs < Plan.endTs
<1>1. /\ Plan.startTs \in Nat /\ Plan.endTs \in Nat
      /\ Plan.startPremium \in Int /\ Plan.endPremium \in Int
  BY DEF ClientTypeOK, SnapshotType, Plan
<1>. QED
  BY <1>1, IndexAssumption, MathAssumption DEF SnapSound

LEMMA SnapLegType ==
  ASSUME ClientTypeOK, SnapSound, Plan.active,
         NEW c \in snapshot.account.components
  PROVE  SnapLeg(c) \in Leg
<1>1. c \in Mints /\ snapshot.account.refPrice[c] \in Nat \ {0}
  BY SnapFields, U64IsNat DEF SnapSound
<1>. QED
  BY <1>1, IndexAssumption DEF SnapLeg, Leg

\* The client's quote at an instant of the auction is the program's price,
\* and no later quote is higher.
PlanQuote(s, b, sold, t) ==
  bidCost(sold, SnapLeg(s), SnapLeg(b),
          premiumAt(Plan.startPremium, Plan.endPremium, Plan.startTs,
                    Plan.endTs, t))

LEMMA QuoteIsPrice ==
  ASSUME ClientTypeOK, SnapSound, Plan.active,
         NEW t \in Plan.startTs .. Plan.endTs,
         NEW s \in snapshot.account.components,
         NEW b \in snapshot.account.components, NEW sold \in Nat
  PROVE  /\ PlanQuote(s, b, sold, t) = PlanPrice(s, b, sold, t)
         /\ PlanQuote(s, b, sold, t) \in Nat
<1> DEFINE prem == PremiumAt(Plan.startPremium, Plan.endPremium, Plan.startTs,
                             Plan.endTs, t)
<1>1. /\ Plan.startTs \in Nat /\ Plan.endTs \in Nat
      /\ Plan.startPremium \in Int /\ Plan.endPremium \in Int
      /\ Plan.startPremium <= Plan.endPremium /\ Plan.endPremium <= BPS
      /\ Plan.startTs < Plan.endTs
  BY PlanFields
<1>2. t \in Nat /\ PremiumDefined(Plan.startTs, Plan.endTs, t)
  BY <1>1 DEF PremiumDefined
<1>3. premiumAt(Plan.startPremium, Plan.endPremium, Plan.startTs, Plan.endTs, t)
        = prem
  BY <1>1, <1>2, PremiumParity
<1>4. prem \in Int /\ prem <= BPS
  <2>1. prem \in Plan.startPremium .. Plan.endPremium
    BY <1>1, <1>2, PremiumInBand
  <2> HIDE DEF prem
  <2>. QED
    BY <1>1, <2>1, MathAssumption
<1>5. SnapLeg(s) \in Leg /\ SnapLeg(b) \in Leg
  BY SnapLegType
<1> HIDE DEF prem
<1>6. /\ bidCost(sold, SnapLeg(s), SnapLeg(b), prem)
           = Price(sold, SnapLeg(s), SnapLeg(b), prem)
      /\ Price(sold, SnapLeg(s), SnapLeg(b), prem) \in Nat
  BY <1>4, <1>5, BidCostParity
<1>. QED
  BY <1>3, <1>6 DEF PlanQuote, PlanPrice, prem

LEMMA QuoteFalls ==
  ASSUME ClientTypeOK, SnapSound, Plan.active,
         NEW t \in Plan.startTs .. Plan.endTs,
         NEW u \in Plan.startTs .. Plan.endTs, t <= u,
         NEW s \in snapshot.account.components,
         NEW b \in snapshot.account.components, NEW sold \in Nat
  PROVE  PlanQuote(s, b, sold, u) <= PlanQuote(s, b, sold, t)
<1>1. /\ Plan.startTs \in Nat /\ Plan.endTs \in Nat
      /\ Plan.startPremium \in Int /\ Plan.endPremium \in Int
      /\ Plan.startPremium <= Plan.endPremium /\ Plan.endPremium <= BPS
      /\ Plan.startTs < Plan.endTs
  BY PlanFields
<1>2. /\ t \in Nat /\ PremiumDefined(Plan.startTs, Plan.endTs, t)
      /\ u \in Nat /\ PremiumDefined(Plan.startTs, Plan.endTs, u)
  BY <1>1 DEF PremiumDefined
<1>3. SnapLeg(s) \in Leg /\ SnapLeg(b) \in Leg
  BY SnapLegType
<1>4. PlanPrice(s, b, sold, u) <= PlanQuote(s, b, sold, t)
  BY <1>1, <1>2, <1>3, LaterBidCostsNoMore DEF PlanPrice, PlanQuote
<1>. QED
  BY <1>4, QuoteIsPrice

LEMMA PricesType ==
  ASSUME NEW answer \in MarketChoices, Readable(answer)
  PROVE  parsePriceResponse(answer) \in [Mints -> Nat]
<1> SUFFICES ASSUME NEW c \in Mints
             PROVE  parsePriceResponse(answer)[c] \in Nat
  BY DEF parsePriceResponse
<1>1. answer[c] \in Nat
  BY PricesAssumption DEF Readable
<1>2. Rounded(answer[c]) \in Nat
  <2>1. 2 * answer[c] + FINE \in Nat /\ 2 * FINE \in Nat \ {0}
    BY <1>1, PricesAssumption
  <2>. QED
    BY <2>1, Division DEF Rounded
<1>. QED
  BY <1>2 DEF parsePriceResponse, toPriceE9
==============================================================================
