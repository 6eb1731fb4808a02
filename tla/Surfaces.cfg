SPECIFICATION SurfacesSpec
CONSTANTS
  None = None
  Procs = {"page", "run"}
  Renewing = {"page", "run"}
  MaxToken = 2
  MaxIds = 1
  MaxMishaps = 1
INVARIANTS
  WellTyped
  ShownBelongs
  LoginsKept
PROPERTIES
  FilesStayWhole
CHECK_DEADLOCK FALSE
