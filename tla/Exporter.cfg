SPECIFICATION ExporterSpec
CONSTANTS
  MaxKey = 1
  Width = 2
  Configs <- MCConfigs
  StartChecks = 1
  MaxFile = 2
  Run = {r1}
  Requests <- MCRequests
  Unflushed = {1}
  Filters = {{0}, {1}}
INVARIANT UpToDate
PROPERTY NeverRemoves
