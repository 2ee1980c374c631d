\* Two transfers at a time, every body, cancelled requests, crashes.
SPECIFICATION Spec
CONSTANTS
  u1 = u1  u2 = u2  u3 = u3  u4 = u4  u5 = u5
  UserID = {u1, u2, u3}
  NoUser = NoUser
  NoRequest = NoRequest
  Username = {"alice", "bob", "nobody"}
  Password = {"secret"}
  SeedPassword = "secret"
  SeededUsers <- Seed2
  Request = {s1, s2}
  SendRequest = {s1, s2}
  BuyRequest = {}
  AuthRequest = {}
  InfoRequest = {}
  SendBody <- AllBodies
  BuyItem = {}
  AuthBody = {}
  StaleTokens = {u3}
  Items = {"cup", "hoody"}
  Price <- Prices
  DefaultBalance = 2
  MaxInt32 = 3
  PoolSize = 2
  ScanOrders <- AnyOrder
INVARIANTS TypeOK FreshBalances LedgerBalances AnswersInv AnswersMatchLedger
PROPERTIES RefinesShop
