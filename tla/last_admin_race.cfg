SPECIFICATION Spec
CONSTANTS
  u1 = u1
  u2 = u2
  u3 = u3
  root = root
  helper = helper
  o1 = o1
  o2 = o2
  t1 = t1
  app = app
  web = web
  Users = {u1, u2}
  Orgs = {o1}
  Tools = {}
  RowIds = {i1, i2}
  SuperAdmins = {}
  ToolAdmins = {}
  Clients = {web}
  ClientOf <- MCNoClients
  Contacts = {u1, u2}
  Names = {n1}
  Slots = {s1, s2}
  Ops = {"remove"}
  Faults = {}
  Seed <- MCSeedTwoAdmins
SYMMETRY MCSymmetry
PROPERTIES
  RemovalLeavesAdmin
