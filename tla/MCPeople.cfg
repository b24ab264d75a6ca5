SPECIFICATION MCSpec
CONSTANTS
  p1 = p1
  p2 = p2
  v1 = v1
  v2 = v2
  k1 = k1
  k2 = k2
  l1 = l1
  l2 = l2
  Phones = {p1, p2}
  AdminPhone = p2
  Verifs = {v1, v2}
  Passes = {k1, k2}
  Slots = {s1, s2}
  OTPRateLimit = 1
  OTPMaxAttempts = 2
  IsProd = TRUE
  LastSecond = 1
  None = None
  Wide = {k1}
  Loads = {l1, l2}
  Vehicle <- MCVehicle
  Bids = {b1}
  m1 = m1
  m2 = m2
  m3 = m3
  Members = {m1, m2, m3}
  Stars = {0, 2, 5}
  Works = {w1}
  Parts <- MCParts
  Clerks = {q1, q2}
  Nobody = Nobody
  cl = cl
  e1 = e1
  People = {cl, e1, ad}
  Client = cl
  Admin = ad
  Executors = {cl, e1}
  Moves <- MCMoves
  Desks = {d1, d2}
  Events <- MCEvents
  Conns = {}
  Owner <- MCOwner
  ChanCap = 1
  Unassigned = Unassigned
SYMMETRY SlotSymmetry
INVARIANTS
  PeopleTypeOK
  PassMadeOnce
  IdentityOfPhone
  TokenSpentOnce
  CarriersLicensed
  ReviewedWorkWasDone
  RatingWasTrue
  RatingCatchesUp
  ChangesAreTold
  ToldOnce
  ActorToldOnlyAlone
PROPERTIES
  FullWindowHolds
  DeadCodesStay
  TakenPhoneKept
CHECK_DEADLOCK FALSE
