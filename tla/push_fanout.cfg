SPECIFICATION FairSpec
CONSTANTS
  a1 = a1
  a2 = a2
  b = b
  c = c
  q = q
  w = w
  NoEmail = NoEmail
  Emails = {a1, a2}
  Requests = {b, c, q, w}
  Batches = {b, c}
  Entries <- TwoBatches
  Headers <- DefaultHeaders
  Sent <- NewNames
INVARIANTS
  TypeOK
  AnswerIsExact
  OneCopyPerEntry
PROPERTIES
  RequestsEnd
  ShutdownEndsServer
