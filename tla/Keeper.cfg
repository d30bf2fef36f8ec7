\* Passes of a bidding keeper on an index that others use too.
SPECIFICATION KeeperSpec
CONSTANTS
  gov = gov
  mgr = mgr
  ann = ann
  a = a
  b = b
  None = None
  UNIT_SCALE = 2
  BPS = 4
  SECONDS_PER_YEAR = 2
  U64_MAX = 1000
  U128_MAX = 10000
  NAV_SCALE = 1
  MAX_COMPONENTS = 2
  MAX_STREAMING_FEE_BPS = 1
  MAX_MINT_REDEEM_FEE_BPS = 1
  MAX_PREMIUM_CEILING_BPS = 2
  MIN_REBALANCE_DELAY = 1
  MAX_AUCTION_DURATION = 2
  Keys = {gov}
  Signers = {gov}
  Mints = {a, b}
  DECIMALS_SCALE <- MixedDecimals
  AuthorityChoices <- KeeperAuthorities
  ParamChoices <- NoFee
  NewAuthorities = {}
  SeedUnits = {4}
  Amounts = {4}
  Limits = {100}
  TargetChoices = {2, 4}
  PriceChoices = {3}
  AuctionChoices <- KeeperAuction
  SellAmounts = {}
  Donations = {}
  Holders = {}
  MintChoices <- FundMint
  InitialAccounts = {gov}
  VAULT_LIMIT = 8
  SUPPLY_LIMIT = 4
  HORIZON = 3
  UserAmounts = {}
  Slippage = 0
  KeeperKey = gov
  MinAccrual = 1
  MinEdge = 1
  MaxLegShare = 4
  MAX_ATTEMPTS = 1
  FINE = 2
  MarketChoices <- KeeperMarket
  Inventories = {3}
  INTERFERENCE = 2
INVARIANTS
  KeeperTypeOK
  
PROPERTY EdgeKept
CHECK_DEADLOCK FALSE
