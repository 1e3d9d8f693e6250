SPECIFICATION Spec
CHECK_DEADLOCK FALSE
CONSTANTS
  Absent = Absent
  p1 = p1
  p2 = p2
  p3 = p3
  p4 = p4
  pg = pg
  phone = phone
  tablet = tablet
  apple = apple
  appel = appel
  sam = sam
  iph = iph
  gal = gal
  tab = tab
  black = black
  white = white
  m1 = m1
  m2 = m2
  m3 = m3
  m4 = m4
  mg = mg
  n1 = n1
  n2 = n2
  n3 = n3
  n4 = n4
  ng = ng
  s1 = s1
  s2 = s2
  s3 = s3
  s4 = s4
  sg = sg
  pro = pro
  gla = gla
  zzz = zzz
  yyy = yyy
  iphx = iphx
  Texts <- TextSet
  Norm <- Spelling
  Points = {p1, p2, p3, p4, pg}
  Products <- ProductTable
  Loaded = {p1, p2, p3, p4}
  Follows <- FollowsOf
  WordsOf <- WordsIn
  Near <- NearTo
  Recall <- RecallOf
  Place <- PlaceOf
  Score <- ScoreOf
  RelevanceLimit = 3
  SortLimit = 2
  DirectionalLimit = 2
  FieldLimit = 1
  AlternativeScore = 39
  Directional = TRUE
  Plans <- PlanSet
  FlatArguments <- FlatSet
  Stores <- StoreSet
  MaxEdits = 2
  EntityScore <- EntityScores
  EntityMinScore = 62
  EntityMargin = 6
  Spoken = {apple, gal}
INVARIANTS
  ItemsSatisfyFilter
  StableMatchFound
  FirstOptionFirst
  ConflictExplained
  OnlyGrounded
  NotDominated
  ComparedShown
