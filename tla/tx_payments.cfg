SPECIFICATION FairSpec
CONSTANTS
  s0 = s0  s1 = s1  s2 = s2  alice = alice  bob = bob  carol = carol  p1 = p1  p2 = p2
  Shards = {s0, s1, s2}
  Accounts = {alice, bob, carol}
  Client = Client
  Genesis <- Placed
  Payments = {p1, p2}
  Payer <- FromAliceAndCarol
  Payee <- AllToBob
  Moves <- BobAndCarolMove
  MaxBlockSize = 2
INVARIANTS PayersWaitAtHome CreditedOnce NothingLost CommittedMeansPaid
PROPERTIES EveryPaymentArrives
CHECK_DEADLOCK FALSE
