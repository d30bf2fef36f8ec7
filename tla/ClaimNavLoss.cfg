\* A filled proposal costs at most the loss it declared?
SPECIFICATION Spec
CONSTANTS
  gov = gov
  mgr = mgr
  ann = ann
  a = a
  b = b
  None = None
  UNIT_SCALE = 2
  BPS = 4
  SECONDS_PER_YEAR = 2
  U64_MAX = 1000
  U128_MAX = 10000
  NAV_SCALE = 1
  MAX_COMPONENTS = 2
  MAX_STREAMING_FEE_BPS = 1
  MAX_MINT_REDEEM_FEE_BPS = 1
  MAX_PREMIUM_CEILING_BPS = 2
  MIN_REBALANCE_DELAY = 1
  MAX_AUCTION_DURATION = 2
  Keys = {gov, ann}
  Signers = {gov, ann}
  Mints = {a, b}
  DECIMALS_SCALE <- MixedDecimals
  AuthorityChoices <- FundAuthorities
  ParamChoices <- AuctionParams
  NewAuthorities = {}
  SeedUnits = {2}
  Amounts = {2}
  Limits = {100}
  TargetChoices = {1, 3}
  PriceChoices = {3}
  AuctionChoices <- OneAuction
  SellAmounts = {1, 2}
  Donations = {}
  Holders = {}
  MintChoices <- FundMint
  InitialAccounts = {gov, ann}
  VAULT_LIMIT = 8
  SUPPLY_LIMIT = 4
  HORIZON = 3
PROPERTY NavLossAsDeclared
CHECK_DEADLOCK FALSE
