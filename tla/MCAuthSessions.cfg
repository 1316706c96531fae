SPECIFICATION Spec
CONSTANTS
  Accounts = {a1, a2}
  WebRoles = {a1}
  Sessions = {s1, s2}
  Calls = {c1, c2}
  NoAccount = NoAccount
  NoSession = NoSession
  MaxSecret = 2
SYMMETRY AnyOrder
CONSTRAINT OneAccountAtWork
INVARIANTS
  TypeOK
  OneSessionPerChannel
  SingleAccountSession
  NoSessionOfInactive
  NoFalseReuse
PROPERTIES
  ExchangedOnceWhileCurrent
  AppSessionReplacedByRight
