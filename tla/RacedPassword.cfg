\* Two callers create the same account with different passwords.
SPECIFICATION Spec
CONSTANTS
  u1 = u1  u2 = u2  u3 = u3  u4 = u4  u5 = u5
  UserID = {u1, u2, u3, u4, u5}
  NoUser = NoUser
  NoRequest = NoRequest
  Username = {"alice", "bob", "carol"}
  Password = {"secret", "other"}
  SeedPassword = "secret"
  SeededUsers <- Seed2
  Request = {}
  SendRequest = {}
  BuyRequest = {}
  AuthRequest = {a1, a2}
  InfoRequest = {}
  SendBody = {}
  BuyItem = {}
  AuthBody <- AuthBodies
  StaleTokens = {}
  Items = {"cup", "hoody"}
  Price <- Prices
  DefaultBalance = 2
  MaxInt32 = 4
  PoolSize = 2
  ScanOrders <- AnyOrder
INVARIANTS TokenNeedsPassword
