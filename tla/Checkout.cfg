\* Two purchases at a time, unknown items, a token without account, crashes.
SPECIFICATION Spec
CONSTANTS
  u1 = u1  u2 = u2  u3 = u3  u4 = u4  u5 = u5
  UserID = {u1, u2, u3}
  NoUser = NoUser
  NoRequest = NoRequest
  Username = {"alice", "bob"}
  Password = {"secret"}
  SeedPassword = "secret"
  SeededUsers <- Seed2
  Request = {b1, b2}
  SendRequest = {}
  BuyRequest = {b1, b2}
  AuthRequest = {}
  InfoRequest = {}
  SendBody = {}
  BuyItem = {"cup", "hoody", "boat", ""}
  AuthBody = {}
  StaleTokens = {u3}
  Items = {"cup", "hoody"}
  Price <- Prices
  DefaultBalance = 3
  MaxInt32 = 4
  PoolSize = 2
  ScanOrders <- AnyOrder
INVARIANTS FreshBalances AnswersMatchLedger
PROPERTIES RefinesShop
