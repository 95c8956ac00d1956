SPECIFICATION FairSpec
CONSTANTS
  s0 = s0  s1 = s1  s2 = s2  a0 = a0  a1 = a1
  Shards = {s0, s1}
  Accounts = {a0, a1}
  Genesis <- GenesisTogether
  InitBalance = 3
  MaxMigSize = 1
  Rounds = 1
  Amounts <- PaysAndReceipts
  MaxTxs = 2
  NoShard = NoShard
  NoBalance = NoBalance
  Client = Client
INVARIANT CountersExact
PROPERTY RoundsEnd
