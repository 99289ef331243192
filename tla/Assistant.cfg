SPECIFICATION Spec
CONSTANTS
  m1 = m1
  m2 = m2
  m3 = m3
  p = p
  v = v
  Nothing = Nothing
  Msg = {m1, m2, m3}
  Phone = {p}
  Visitor = {v}
  Senders <- AllSenders
  Decisions = {"active"}
  Watched = {p}
  Wants = {m1}
  Responses <- AllResponses
  MaxIterations = 2
  MaxAttempts = 2
CHECK_DEADLOCK FALSE
INVARIANTS TypeOK CallsBounded OneConversationPerPhone VisitorsGoOn
PROPERTIES EveryMessageAnswered ImplementsReception
