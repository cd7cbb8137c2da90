SPECIFICATION PagesSpec
CONSTANTS
  GroupOrder <- MCGroupOrder
  DashWords <- MCDashWords
  Mains <- MCMains
  Requests <- MCRequests
  UserLines <- MCUserLines
  None = None
  MaxSaves = 2
  MaxEdits = 1
INVARIANTS SavedReadBack PagesFixpoint RulesKept
PROPERTY UserLinesKept
