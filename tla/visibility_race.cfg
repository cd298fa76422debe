SPECIFICATION Spec
CONSTANTS
  u1 = u1
  o1 = o1
  o2 = o2
  web = web
  Users = {u1}
  Orgs = {o1}
  Registered = {o1}
  Tools = {}
  RowIds = {i1}
  SuperAdmins = {}
  ToolAdmins = {}
  Authorised = {}
  Clients = {web}
  ClientOf <- MCNoClients
  DatasetIds = {d1}
  DatasetNames = {n1}
  PageSize = 3
  Slots = {s1, s2}
  Ops = {"create_dataset", "update_dataset"}
  Faults = {}
SYMMETRY MCSymmetry
PROPERTIES
  VisibilityByAuthority
