SPECIFICATION MCSpec
CONSTANTS
  Parts = {"sessions", "support", "chat", "shop", "rewards"}
  Accounts = {a1, a2}
  Links = {l1}
  Sids = {s1, s2}
  Threads = {t1, t2}
  NoAccount = NoAccount
  None = None
  Crates = {1, 2}
  Garments = {"k1"}
  Loot = {0, 1}
  Rate = 2
  CratePrice = 2
  CarePrice = 1
  SaplingPrice = 2
  SaplingBeans = 1
  SilverAtFirst = 1
  YellowAtFirst = 1
  BeansAtFirst = 1
  DrinksBought = {"d1", "d2"}
  Attempts = 2
  MaxPosts = 2
  Gap = 1
  FreeMessages = 1
  MessagePrice = 1
  Milestones = {1}
  Every = 4
  ProfileCoins = 2
  DrinkCoins = 1
  PostCoins = 1
  MaxDays = 1
  MaxMessages = 2
  Sales = {"o1", "o2"}
  SoldAt <- MCSoldAt
  Editions = {"v1", "v2"}
  InForce <- MCInForce
  Materials <- MCMaterials
  Writers = {"c1", "c2"}
  Chats = {a1, a2}
  Updates = {a1, a2}
  ChatOf <- MCChatOf
  CodeOf <- MCCodeOf
  StartCodes = {"k1"}
  Sayings = {"m1"}
  ChatRows = 3
  ChatTime = 4
  ChatFaults = 1
SYMMETRY Copies
CHECK_DEADLOCK FALSE
INVARIANTS
  LogoutIsFinal
  OneAccountPerEmail
  LinkOpensOnce
  SessionsAreFound
  WalletMatchesRows
PROPERTY
  ConversationsAreKept
