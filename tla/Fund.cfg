\* A fund from its founder's mint on: frozen accounts, issues, redemptions,
\* fees, transfers, burns, donations, a governor who is away.
SPECIFICATION Spec
CONSTANTS
  gov = gov
  mgr = mgr
  ann = ann
  a = a
  b = b
  None = None
  UNIT_SCALE = 2
  BPS = 4
  SECONDS_PER_YEAR = 2
  U64_MAX = 1000
  U128_MAX = 10000
  NAV_SCALE = 1
  MAX_COMPONENTS = 1
  MAX_STREAMING_FEE_BPS = 1
  MAX_MINT_REDEEM_FEE_BPS = 1
  MAX_PREMIUM_CEILING_BPS = 1
  MIN_REBALANCE_DELAY = 1
  MAX_AUCTION_DURATION = 2
  Keys = {gov, mgr, ann}
  Signers = {mgr, ann}
  Mints = {a}
  DECIMALS_SCALE <- WholeTokens
  AuthorityChoices <- LaunchAuthorities
  ParamChoices <- LaunchParams
  NewAuthorities = {gov}
  SeedUnits = {3}
  Amounts = {1, 2}
  Limits = {2, 100}
  TargetChoices = {}
  PriceChoices = {}
  AuctionChoices = {}
  SellAmounts = {}
  Donations = {1}
  Holders = {mgr, ann}
  MintChoices <- LaunchMint
  InitialAccounts = {ann}
  VAULT_LIMIT = 10
  SUPPLY_LIMIT = 4
  HORIZON = 2
INVARIANTS
  TypeOK
  HoldersWhole
  RedemptionOpen
  Backed
  NeverOverbilled
PROPERTIES
  GovernorOnly
  HolderNotDiluted
  RoundTripsCost
  PromiseKept
CHECK_DEADLOCK FALSE
