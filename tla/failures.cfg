SPECIFICATION FairSpec
CONSTANTS
  u1 = u1
  u2 = u2
  u3 = u3
  root = root
  helper = helper
  o1 = o1
  o2 = o2
  t1 = t1
  app = app
  web = web
  Users = {u1, u2, root}
  Orgs = {o1, o2}
  Tools = {}
  RowIds = {i1, i2, i3}
  SuperAdmins = {root}
  ToolAdmins = {}
  Clients = {web}
  ClientOf <- MCNoClients
  Contacts = {u1, root}
  Names = {n1}
  Slots = {s1}
  Ops = {"join", "update", "remove", "create_org"}
  Faults = {"crm_call", "crm_reply", "db_call", "crash"}
  Seed <- MCNoSeed
INVARIANTS
  SuperAdminsHoldNoRole
  RequestsSound
  ShortNamesUnique
PROPERTIES
  FailedCreationLeavesNoAccount
  EveryRequestAnswered
