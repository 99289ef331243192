SPECIFICATION Spec
CONSTANTS
  p1 = p1
  p2 = p2
  c1 = c1
  c2 = c2
  cut = cut
  dye = dye
  chair = chair
  room = room
  NoResource = NoResource
  AnyService = AnyService
  Nothing = Nothing
  Panel = {p1, p2}
  Client = {c1, c2}
  Service = {cut, dye}
  Resource = {chair, room}
  Day = {1, 2}
  Today = 1
  Minute = 1
  Forms <- AllForms
  Asks <- AllAsks
  Initial <- AllInitial
SYMMETRY Symmetry
CHECK_DEADLOCK FALSE
INVARIANTS TypeOK OfferedIsAccepted
PROPERTIES BookedInHours
