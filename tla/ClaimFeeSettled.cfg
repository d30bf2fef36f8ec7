\* set_params charges the old rate for its time?
SPECIFICATION Spec
CONSTANTS
  gov = gov
  mgr = mgr
  ann = ann
  a = a
  b = b
  None = None
  UNIT_SCALE = 2
  BPS = 4
  SECONDS_PER_YEAR = 2
  U64_MAX = 1000
  U128_MAX = 10000
  NAV_SCALE = 1
  MAX_COMPONENTS = 1
  MAX_STREAMING_FEE_BPS = 1
  MAX_MINT_REDEEM_FEE_BPS = 1
  MAX_PREMIUM_CEILING_BPS = 1
  MIN_REBALANCE_DELAY = 1
  MAX_AUCTION_DURATION = 2
  Keys = {gov, ann}
  Signers = {gov, ann}
  Mints = {a}
  DECIMALS_SCALE <- WholeTokens
  AuthorityChoices <- FundAuthorities
  ParamChoices <- FundParams
  NewAuthorities = {}
  SeedUnits = {3}
  Amounts = {1, 4}
  Limits = {2, 100}
  TargetChoices = {}
  PriceChoices = {}
  AuctionChoices = {}
  SellAmounts = {}
  Donations = {1}
  Holders = {}
  MintChoices <- FundMint
  InitialAccounts = {gov, ann}
  VAULT_LIMIT = 10
  SUPPLY_LIMIT = 10
  HORIZON = 3
INVARIANT FeeSettled
CHECK_DEADLOCK FALSE
