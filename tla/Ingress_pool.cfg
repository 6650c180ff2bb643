SPECIFICATION Spec
CONSTANTS
  h1 = h1
  h2 = h2
  p1 = p1
  p2 = p2
  m1 = m1
  m2 = m2
  m3 = m3
  Handlers <- TwoHandlers
  Webhooks <- TwoWebhooks
  MessagesOf <- OneAndTwo
  Messages <- AllMessages
  IdOf <- EchoIds
  Wanted <- NotSecond
  Authorized <- TwoWebhooks
  MaxPerMin = 3
  MaxAttempts = 2
  MaxFaults = 1
  MaxExpiries = 1
CHECK_DEADLOCK FALSE
INVARIANTS
  PublishedOnce
  WithinLimit
  AcceptedUnlessFailed
