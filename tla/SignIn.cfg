SPECIFICATION Spec
CHECK_DEADLOCK FALSE
CONSTANTS
  t1 = t1
  s2 = s2
  siteA = siteA
  siteB = siteB
  ada = ada
  bob = bob
  other = other
  team = team
  Servers = {s1, s2}
  Terminals = {t1}
  Outs = {o1}
  Accounts = {ada, bob}
  Sites = {siteA, siteB}
  Spaces = {notes, other, team}
  Notes = notes
  NoSpace = NoSpace
  Nobody = Nobody
  SiteOf <- MCSiteOf
  Asked <- MCAsked
  Consent <- MCConsent
  Polls = 0
  MaxCodes = 2
  MaxFaults = 1
  MaxCommands = 3
  FirstReach <- MCFirstReach
  Approvers <- MCApprovers
INVARIANTS
  KeysAccounted
  OneLoginPerEndpoint
PROPERTIES
  ReplacedWithConsent
  PageIsPolled
