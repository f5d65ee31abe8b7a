SPECIFICATION FairSpec
CONSTANTS
  None = None
  Sent = Sent
  Requests = {login}
  Required = {login}
  Ttl = 3
  Skew = 1
  MaxDelay = 2
  NoToken = NoToken
  MaxOps = 1
PROPERTY FreshTelemetryWhenNeeded
