SPECIFICATION Spec
CONSTANTS
  Poll = 1
  Abort = 1
  Fresh = 3
  BlockWait = 4
  Skews <- ClockSkews
  Chains = {main, test}
  Hashes = {h1, h2}
  h1 = h1
  h2 = h2
  Batches <- SomeBatches
  Choices = {lan, tor}
  MaxRequests = 2
  OldAge = 5
  MaxAge = 7
  None = None
INVARIANTS
  TypeOK
  OneStatusRequest
  SyncedIsFresh
  NoticeIsFresh
  HeadersNotWithheld
PROPERTIES
  BlockDetailsKept
  PollGoesOn
