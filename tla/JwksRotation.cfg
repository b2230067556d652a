\* Two verifiers and the refresher while the provider rotates its keys, one
\* retry, and a clock that passes every expiry.  Key ids are numbers.
CONSTANTS
  a = a
  b = b
  Verifiers = {v1, v2}
  Refresher = r
  Kids = {1, 2}
  Keys = {a, b}
  NoToken = NoToken
  NoKey = NoKey
  Tokens <- MCTokens
  Last = 3
  KeySet <- Rotation
  MaxRetries = 2
  MaxTime = 1
SPECIFICATION FairSpec
INVARIANTS
  CacheIsAKeySet
  RefusedForAReason
PROPERTIES
  OutageKeepsKeys
  AcceptsTheGenuine
  VerifyReturns
  SettlesOnLast
  StopEndsRefresher
