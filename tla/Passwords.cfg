\* Two accounts, registered and checked with all parameters.
SPECIFICATION HasherSpec
CONSTANTS
  Account = {a1, a2}
  Password = {secret, other}
  Argon2IDParams <- Params
  Random = {x}
  NoHash = NoHash
INVARIANTS PasswordsKeepWorking
