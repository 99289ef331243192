SPECIFICATION Spec
CONSTANTS
  r1 = r1
  r2 = r2
  r3 = r3
  ana = ana
  beto = beto
  a1 = a1
  a2 = a2
  a3 = a3
  w1 = w1
  w2 = w2
  k1 = k1
  k2 = k2
  NoPhone = NoPhone
  Nobody = Nobody
  Nothing = Nothing
  Req = {r1, r2, r3}
  Phone = {ana, beto}
  Appt = {a1, a2, a3}
  PhoneOf <- Phones
  Reward = {w1, w2}
  Key = {k1, k2}
  Operations <- AllOperations
  Cost <- Costs
  Opening <- FourAndOne
SYMMETRY Symmetry
CHECK_DEADLOCK FALSE
INVARIANTS TypeOK NeverOverdrawn RedemptionsArePaid UnpaidHasAReason
PROPERTIES ImplementsPoints OnlyRecalculatingDrifts
