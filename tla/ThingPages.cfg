CONSTANTS
  p1 = p1
  p2 = p2
  c1 = c1
  c2 = c2
  g1 = g1
  g2 = g2
  username = username
  password = password
  k1 = k1
  None = None
  Calls = {c1, c2}
  Pages = {p1, p2}
  Groups = {g1, g2}
  Parts = {username, password}
  Secrets = {k1}
  Given <- AllGiven
  MaxChannels = 1
  MaxStarts = 2
  RuleNames = {"all", "elsewhere"}
  MaxEvents = 1
  MaxEdits = 1
  MaxClicks = 2
SPECIFICATION AllSpec
SYMMETRY Symmetry
INVARIANTS
  NoDuplicateGroups
  RevealCurrent
  PagesTypeOK
  PagesShow
  NoticePerMatch
CHECK_DEADLOCK FALSE
