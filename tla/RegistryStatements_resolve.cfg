SPECIFICATION StatementsSpec
CONSTANTS
  school = school
  h1 = h1
  amd64 = amd64
  NULL = NULL
  Admin = Admin
  c1 = c1
  Macs <- MCMacs
  Profiles = {school}
  Architectures = {amd64}
  ArchitectureOf <- MCArchitectureOf
  Holders = {h1}
  Ttls = {1}
  MaxTime = 1
  CanCrash = FALSE
  Wirings = {w}
  RuleIds = {1}
  Rules <- MCRules
  Calls = {c1}
PROPERTIES
  RulesTakeUnknownMachines
