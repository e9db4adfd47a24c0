\* Four messages through a ring of five bytes: it holds a largest message and is then full, or two
\* small ones, and headers and payloads run around its end.
CONSTANTS
  HeaderSize = 2
  PayloadCapacity = 1
  BufSize = 5
  MaxMessages = 4
SPECIFICATION Spec
INVARIANTS
  TypeOK
  DeliveredAsSent
  NoMessageHeldBack
  NeverStalled
  ReceivesIntoFreeBytes
