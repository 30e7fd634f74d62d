SPECIFICATION Spec
CONSTANTS
  h = h
  a = a
  b = b
  c = c
  Nodes = {h, a, b, c}
  Hub = h
  Rank <- MCRank
  MaxMembers = 2
  LocalCommands = FALSE
  MaxGrants = 1
  MaxRestarts = 1
INVARIANTS
  AdminRemains
  OneAdmissionPerInvitation
  ShadowIsLowestMember
VIEW MCView
