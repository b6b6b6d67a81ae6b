CONSTANTS
  t1 = t1
  t2 = t2
  c1 = c1
  c2 = c2
  None = None
  New = New
  Tabs = {t1, t2}
  Calls = {c1, c2}
  MaxTokens = 3
  MaxLogins = 1
  MaxStarts = 3
  MaxOthers = 1
  Networks = {t1, t2}
  Texts = {1, 2}
  Limit = 1
  Things = {1, 2}
  Named = {2}
  MaxClicks = 3
SPECIFICATION AllSpec
SYMMETRY Symmetry
INVARIANTS
  SuccessorBound
  TokenKept
  QuietLogout
  PagesTypeOK
  PagesShow
PROPERTIES
  WritesAsAsked
CHECK_DEADLOCK FALSE
