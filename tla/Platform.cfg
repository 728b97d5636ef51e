SPECIFICATION Spec
SYMMETRY Alike
CONSTANTS
  r1 = r1
  r2 = r2
  r3 = r3
  u1 = u1
  u2 = u2
  w1 = w1
  None = None
  Req <- MCReq
  Mixes <- MCMixes
  Person <- MCPerson
  Role0 <- MCRole0
  Cap <- MCCap
  NewRoles <- MCNewRoles
  Change <- MCChange
  Signups <- MCSignups
  Warehouse0 <- MCWarehouse0
  Limit0 <- MCLimit0
  Limits = {1}
  Periods = {1}
  Settings <- MCSettings
  MaxNow = 3
  MaxFailures = 2
  LockSteps = 2
  Start = 1
  MaxStep = 4
  Business <- MCBusiness
  Conn <- MCConn
  Row0 <- MCRow0
  Employee <- MCPerson
  StaleAfter = 1
  MaxHour = 3
  Key <- MCKey
  Expense0 <- MCExpense0
  Barcode <- MCBarcode
  CopyOf <- MCCopyOf
  Price = {1, 2}
  Quantity = {1, 2}
  Step <- MCStep
  MinStock = 2
  MaxQuantity = 2
  Thresholds = {1, 2}
  Absences = {1}
  EndHour = 5
  Day = 2
INVARIANTS EndedStaysEnded VersionTellsRights GrantsHold OneDefaultWarehouse CodesWorkOnce GuessingIsBounded RowsStayApart HoursAreTrue NamesResolve OrderNeverDearer RemindedOnce OneOfEach
PROPERTIES ConsoleKeepsAnOwner
