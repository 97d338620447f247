SPECIFICATION ClientSpec
CONSTANTS
  t1 = t1
  t2 = t2
  t3 = t3
  t4 = t4
  b1 = b1
  b2 = b2
  q1 = q1
  q2 = q2
  h1 = h1
  h2 = h2
  Tokens = {t1, t2, t3}
  NoToken = NoToken
  Calls = {h1, h2}
  FaultsAllowed = TRUE
  NoTab = NoTab
  Tabs <- OneTab
  Reqs = {q1, q2}
  TabOf <- AllInFirst
  MaxLogins = 1
CONSTRAINT TokensInOrder
CONSTRAINT RequestsInOrder
INVARIANT SessionInv
INVARIANT QueueIsServed
PROPERTY ChainSpec
PROPERTY EndedStaysEnded
PROPERTY LoginHasReason
PROPERTY RequestsSettle
CHECK_DEADLOCK FALSE
