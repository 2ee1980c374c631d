\* A transfer, a purchase and a first authentication share one connection.
SPECIFICATION FairSpec
CONSTANTS
  u1 = u1  u2 = u2  u3 = u3  u4 = u4  u5 = u5
  UserID = {u1, u2, u3}
  NoUser = NoUser
  NoRequest = NoRequest
  Username = {"alice", "bob", "carol"}
  Password = {"secret"}
  SeedPassword = "secret"
  SeededUsers <- Seed2
  Request = {s1, b1}
  SendRequest = {s1}
  BuyRequest = {b1}
  AuthRequest = {a1}
  InfoRequest = {}
  SendBody <- OneCoin
  BuyItem = {"cup"}
  AuthBody <- NewUser
  StaleTokens = {}
  Items = {"cup", "hoody"}
  Price <- Prices
  DefaultBalance = 2
  MaxInt32 = 4
  PoolSize = 1
  ScanOrders <- AnyOrder
INVARIANTS LedgerBalances
PROPERTIES EveryRequestAnswered
