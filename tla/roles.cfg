SPECIFICATION Spec
CONSTANTS
  u1 = u1
  u2 = u2
  u3 = u3
  root = root
  helper = helper
  o1 = o1
  o2 = o2
  t1 = t1
  app = app
  web = web
  Users = {u1, u2, helper}
  Orgs = {o1}
  Tools = {t1}
  RowIds = {i1, i2, i3}
  SuperAdmins = {}
  ToolAdmins <- MCHelper
  Clients = {app}
  ClientOf <- MCClientOfTool
  Contacts = {u1, u2, helper}
  Names = {n1}
  Slots = {s1, s2}
  Ops = {"join", "update", "remove", "authorise", "revoke"}
  Faults = {}
  Seed <- MCSeedAdmin
SYMMETRY MCSymmetry
INVARIANTS
  TypeOK
  RoleHasRelationship
  NobodyLockedOut
PROPERTIES
  PromotionByAuthority
  RemovalByAuthority
  ToolsByAuthority
