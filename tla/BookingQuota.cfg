SPECIFICATION FairSpec
CONSTANTS
  r1 = r1
  r2 = r2
  r3 = r3
  p1 = p1
  p2 = p2
  resA = resA
  resB = resB
  resC = resC
  ana = ana
  beto = beto
  mail = mail
  k1 = k1
  NoResource = NoResource
  NoContact = NoContact
  NoKey = NoKey
  Req = {r1, r2, r3}
  Prior = {p1}
  Stored <- QuotaStored
  Resource = {resA, resB, resC}
  Active = {resA, resB}
  Contact = {ana, beto, mail}
  ContactKey <- Colliding
  Namespace = 100
  Key = {k1}
  Day = {1, 2, 3}
  Blocks <- OneBlock
  Step = 1
  MaxActive = 1
  Instants <- Overnight
  Start <- Morning
  Bookings <- QuotaBookings
  Moves <- QuotaMoves
  Statuses <- None
CHECK_DEADLOCK FALSE
INVARIANTS ContactQuota
PROPERTIES RetryFindsItsBooking EveryRequestAnswered
