\* The commands, from a create to a bid, on an index that others use too.
SPECIFICATION CliSpec
CONSTANTS
  gov = gov
  mgr = mgr
  ann = ann
  a = a
  b = b
  None = None
  UNIT_SCALE = 2
  BPS = 4
  SECONDS_PER_YEAR = 2
  U64_MAX = 1000
  U128_MAX = 10000
  NAV_SCALE = 1
  MAX_COMPONENTS = 2
  MAX_STREAMING_FEE_BPS = 2
  MAX_MINT_REDEEM_FEE_BPS = 1
  MAX_PREMIUM_CEILING_BPS = 2
  MIN_REBALANCE_DELAY = 1
  MAX_AUCTION_DURATION = 2
  Keys = {mgr, ann}
  Signers = {ann}
  Mints = {a, b}
  DECIMALS_SCALE <- MixedDecimals
  AuthorityChoices <- CliStrangers
  ParamChoices <- CliParams
  NewAuthorities = {}
  SeedUnits = {}
  Amounts = {2}
  Limits = {100}
  TargetChoices = {}
  PriceChoices = {}
  AuctionChoices = {}
  SellAmounts = {1}
  Donations = {}
  Holders = {}
  MintChoices <- FundMint
  InitialAccounts = {}
  VAULT_LIMIT = 8
  SUPPLY_LIMIT = 2
  HORIZON = 3
  UserAmounts = {1, 2}
  Slippage = 1
  MAX_ATTEMPTS = 2
  FINE = 2
  MarketChoices <- CliMarket
  Payer = mgr
  LaunchRequests <- CliLaunches
  WholeAmounts = {2}
  ProposeRequests <- CliProposals
  BidRequests <- CliBids
  QUOTED_SCALE <- MixedDecimals
  INTERFERENCE = 1
INVARIANTS
  ClientTypeOK
  CliTypeOK
  SizedToNav
  BidQuoteStands
  LegsExact
  QuotesExact
  QuoteStands
PROPERTIES
  LaunchedAsAsked
  TargetsAffordable
CHECK_DEADLOCK FALSE
