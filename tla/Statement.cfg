\* /api/info while a transfer and a purchase commit.
SPECIFICATION Spec
CONSTANTS
  u1 = u1  u2 = u2  u3 = u3  u4 = u4  u5 = u5
  UserID = {u1, u2, u3}
  NoUser = NoUser
  NoRequest = NoRequest
  Username = {"alice", "bob"}
  Password = {"secret"}
  SeedPassword = "secret"
  SeededUsers <- Seed2
  Request = {s1, b1}
  SendRequest = {s1}
  BuyRequest = {b1}
  AuthRequest = {}
  InfoRequest = {i1}
  SendBody <- OneCoin
  BuyItem = {"hoody"}
  AuthBody = {}
  StaleTokens = {u3}
  Items = {"cup", "hoody"}
  Price <- Prices
  DefaultBalance = 3
  MaxInt32 = 4
  PoolSize = 2
  ScanOrders <- AnyOrder
INVARIANTS Inv InfoTypeOK LedgerInv InfoInv InfoAddsUp
PROPERTIES RefinesShop
