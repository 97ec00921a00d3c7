SPECIFICATION Spec
CONSTANTS
  root = root
  ada = ada
  ada2 = ada2
  s1 = s1
  s2 = s2
  s3 = s3
  t1 = t1
  t2 = t2
  None = None
  Users <- ThreeUsers
  Username <- Names
  Root = "root"
  Sections <- ThreeSections
  SectionKey <- SectionKeys
  ModuleOf <- SectionModules
  Modules <- TwoModules
  OtherRoles <- OneOther
  Forms <- ThreeForms
  MinRoles <- TwoMinRoles
  BulkRoles <- TwoBulkRoles
  Requests <- TwoThreads
  MaxRequests = 2
SYMMETRY Alike
INVARIANTS TypeOK TablesAgree MenuAgreesWithGuard
PROPERTY OtherColumnsStay
CHECK_DEADLOCK FALSE
