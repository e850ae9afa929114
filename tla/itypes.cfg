SPECIFICATION Spec
CONSTANTS
  SM_COUNT <- MCSmCount
  PROGRAMS <- MCPrograms
INVARIANTS
  TypeOK
  CountsAgree
  RegionsInside
  OutputsWritten
  InPlaceApart
  DependenciesExact
CHECK_DEADLOCK FALSE
