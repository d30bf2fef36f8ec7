\* Redemption is always open?
SPECIFICATION Spec
CONSTANTS
  gov = gov
  mgr = mgr
  ann = ann
  a = a
  b = b
  None = None
  UNIT_SCALE = 2
  BPS = 4
  SECONDS_PER_YEAR = 2
  U64_MAX = 1000
  U128_MAX = 10000
  NAV_SCALE = 1
  MAX_COMPONENTS = 1
  MAX_STREAMING_FEE_BPS = 1
  MAX_MINT_REDEEM_FEE_BPS = 1
  MAX_PREMIUM_CEILING_BPS = 1
  MIN_REBALANCE_DELAY = 1
  MAX_AUCTION_DURATION = 2
  Keys = {gov, ann}
  Signers = {gov, ann}
  Mints = {a}
  DECIMALS_SCALE <- WholeTokens
  AuthorityChoices <- FundAuthorities
  ParamChoices <- LaunchParams
  NewAuthorities = {}
  SeedUnits = {2}
  Amounts = {1, 2}
  Limits = {100}
  TargetChoices = {}
  PriceChoices = {}
  AuctionChoices = {}
  SellAmounts = {}
  Donations = {}
  Holders = {gov, ann}
  MintChoices <- FundMint
  InitialAccounts = {ann}
  VAULT_LIMIT = 10
  SUPPLY_LIMIT = 5
  HORIZON = 1
INVARIANT RedemptionAlwaysOpen
CHECK_DEADLOCK FALSE
