SPECIFICATION MFairSpec
CONSTANTS
  u1 = u1
  u2 = u2
  u3 = u3
  root = root
  o1 = o1
  o2 = o2
  web = web
  Users = {u1, u2, u3, root}
  Orgs = {o1, o2}
  Tools = {}
  RowIds = {i1, i2, i3}
  SuperAdmins = {root}
  ToolAdmins = {}
  Clients = {web}
  ClientOf <- MCNoClients
  Contacts = {u1, u2, u3, root}
  Names = {n1, n2}
  Slots = {s1}
  Ops = {"create_org", "join"}
  Faults = {"crm_call", "crash"}
  Seed <- MCSeedTwoAdmins
INVARIANTS
  MembershipTypeOK
  FailedJoinTellsNobody
  ListingFailsOnlyOnJoins
PROPERTIES
  ImplementsRydApi
  EveryAdminTold
