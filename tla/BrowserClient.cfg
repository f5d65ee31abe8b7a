SPECIFICATION FairSpec
CONSTANTS
  None = None
  Sent = Sent
  Requests = {page, login}
  Required = {login}
  Ttl = 3
  Skew = 1
  MaxDelay = 2
  NoToken = NoToken
  MaxOps = 1
INVARIANTS TypeOK CachedTokenAccepted NobodyForgotten
PROPERTIES StaysStopped LetThrough
