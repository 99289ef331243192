SPECIFICATION Spec
CONSTANTS
  u1 = u1
  u2 = u2
  web = web
  a = a
  b = b
  b2 = b2
  c = c
  Nobody = Nobody
  Runner = {u1, u2}
  App = {web}
  Releases <- AllReleases
  Databases <- AllDatabases
SYMMETRY Symmetry
INVARIANTS TypeOK RecordsTellSchema PlanStillValid
