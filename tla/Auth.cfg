SPECIFICATION Spec
CONSTANTS
  Users = {u1, u2}
  Logins = {l1, l2}
  Keys = {k1, k2}
  Tokens = {t1, t2}
  Browsers = {b1}
  visitor = visitor
  admin = admin
  Requests = {visitor, admin}
  May <- MCMay
  MaxRequests = 3
  Nobody = Nobody
  NoUser = NoUser
  NoSession = NoSession
  NoToken = NoToken
  NoKey = NoKey
SYMMETRY Symmetry
INVARIANTS VerifiedByToken
PROPERTIES BlockLasts
CHECK_DEADLOCK FALSE
