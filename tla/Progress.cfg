\* Two transfers that lock the same rows, a full pool and /api/info waiting for it.
SPECIFICATION FairSpec
CONSTANTS
  u1 = u1  u2 = u2  u3 = u3  u4 = u4  u5 = u5
  UserID = {u1, u2}
  NoUser = NoUser
  NoRequest = NoRequest
  Username = {"alice", "bob"}
  Password = {"secret"}
  SeedPassword = "secret"
  SeededUsers <- Seed2
  Request = {s1, s2}
  SendRequest = {s1, s2}
  BuyRequest = {}
  AuthRequest = {}
  InfoRequest = {i1}
  SendBody <- OneCoin
  BuyItem = {}
  AuthBody = {}
  StaleTokens = {}
  Items = {"cup", "hoody"}
  Price <- Prices
  DefaultBalance = 2
  MaxInt32 = 4
  PoolSize = 2
  ScanOrders <- AnyOrder
PROPERTIES EveryRequestAnswered LocksReleased
