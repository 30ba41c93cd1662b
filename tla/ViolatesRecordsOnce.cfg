SPECIFICATION ExporterSpec
CONSTANTS
  MaxKey = 2
  Width = 3
  Configs <- MCLines
  StartChecks = 1
  MaxFile = 3
  Run = {}
  Requests = {}
  Unflushed = {}
  Filters = {}
INVARIANT RecordsOnce
