SPECIFICATION PagesSpec
CONSTANTS
  GroupOrder <- MCGroupOrder
  DashWords <- MCDashWords
  Mains <- MCMains
  Requests <- MCGroupRequests
  UserLines <- MCUserLines
  None = None
  MaxSaves = 2
  MaxEdits = 1
INVARIANT GroupsKept
