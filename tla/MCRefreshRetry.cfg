SPECIFICATION Spec
CONSTANTS
  Accounts = {a1}
  WebRoles = {}
  Sessions = {s1}
  Calls = {c1, c2}
  NoAccount = NoAccount
  NoSession = NoSession
  MaxSecret = 2
SYMMETRY AnyOrder
INVARIANTS
  NetworkErrorKeepsSession
