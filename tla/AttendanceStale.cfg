SPECIFICATION Spec
SYMMETRY Alike
CONSTANTS
  r1 = r1
  r2 = r2
  r3 = r3
  e1 = e1
  e2 = e2
  None = None
  Req <- MCReq
  Mixes <- MCMixes
  Employee <- MCEmployee
  Business = {"business"}
  Conn = {"connection"}
  Row0 <- MCRow0
  StaleAfter = 1
  MaxHour = 3
INVARIANT StaleIsClosed
