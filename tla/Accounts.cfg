SPECIFICATION Spec
CONSTANTS
  r1 = r1
  r2 = r2
  r3 = r3
  e1 = e1
  e2 = e2
  olga = olga
  omar = omar
  ana = ana
  NoRole = NoRole
  Nobody = Nobody
  Nothing = Nothing
  Req = {r1, r2, r3}
  Earlier = {e1, e2}
  User = {olga, omar, ana}
  Operations <- AllOperations
  Businesses <- Starting
  Rosters <- Memberships
  People <- Populations
  Issued <- Tokens
  Opened <- Logins
  Lapsing = {e1}
SYMMETRY Symmetry
CHECK_DEADLOCK FALSE
INVARIANTS TypeOK AlwaysAnOwner LaterRequestRevokes NoSessionSurvives ApprovedOwnersAreInvited
PROPERTIES ImplementsRoster
