SPECIFICATION Spec
CONSTANTS
  scheduler = scheduler
  thread = thread
  h1 = h1
  h2 = h2
  None = None
  Scanners <- TwoScanners
  Hosts <- TwoHosts
  MaxScans = 4
SYMMETRY Alike
INVARIANTS TypeOK DevicesAreAnnouncedOnce ReportsAreFounded OneAlertPerOutage
PROPERTIES LoneScansAreExact ScansAreAtomic
CHECK_DEADLOCK FALSE
