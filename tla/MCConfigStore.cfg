SPECIFICATION StoreSpec
CONSTANTS
  Savers = {s1, s2}
  Pages <- MCPages
  AssetPages <- MCAssetPages
  Main = "smartdns.conf"
  SetFile = "set"
  Texts = {t1, t2}
  Items = {i1, i2}
  Absent = Absent
  Torn = Torn
  Plain = Plain
  Managed = Managed
  TornManaged = TornManaged
  None = None
  MaxSaves = 3
  MaxErrors = 1
SYMMETRY StoreSymmetry
INVARIANTS  WholeUnlessRaced
PROPERTIES OverwriteBackedUp AnsweredInPlace SetEditExact
CHECK_DEADLOCK FALSE
