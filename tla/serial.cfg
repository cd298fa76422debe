SPECIFICATION ApartSpec
CONSTANTS
  u1 = u1
  u2 = u2
  u3 = u3
  root = root
  helper = helper
  o1 = o1
  o2 = o2
  t1 = t1
  app = app
  web = web
  Users = {u1, u2}
  Orgs = {o1, o2}
  Tools = {t1}
  RowIds = {i1, i2, i3}
  SuperAdmins = {}
  ToolAdmins = {}
  Clients = {app}
  ClientOf <- MCClientOfTool
  Contacts = {u1, u2}
  Names = {n1, n2}
  Slots = {s1, s2}
  Ops = {"join", "update", "remove", "create_org", "authorise", "revoke"}
  Faults = {}
  Seed <- MCNoSeed
SYMMETRY MCFullSymmetry
INVARIANTS
  OneRolePerOrg
  ToolAuthorisedOnce
  ShortNamesUnique
PROPERTIES
  RemovalLeavesAdmin
  ImplementsRegistry
