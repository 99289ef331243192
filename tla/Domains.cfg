SPECIFICATION Spec
CONSTANTS
  q1 = q1
  q2 = q2
  q3 = q3
  o = o
  site = site
  site2 = site2
  shop = shop
  other = other
  local = local
  NoRow = NoRow
  DReq = {q1, q2, q3}
  Host = {site, site2}
  Business = {shop, other}
  Default = shop
  Before = {o}
  Rows <- FirstRows
  Acts <- AllActs
  Reserved = {}
  Platform = {local}
  Visits <- AllVisits
SYMMETRY Permuted
CHECK_DEADLOCK FALSE
INVARIANTS TypeOK TenantsAreProven
PROPERTIES ImplementsLifecycle
