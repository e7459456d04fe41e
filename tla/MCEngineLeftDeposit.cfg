CONSTANTS
  alice = alice
  irene = irene
  bob = bob
  brian = brian
  L1 = L1
  L2 = L2
  L3 = L3
  Clients = {alice, irene, bob}
  NumTargets = 1
  LedgerIDs = {L1, L2}
  Participants <- OneWay
  InitialOutcome <- Outcomes
  LedgerParticipants <- IreneFollows
  LedgerBalance <- Plenty
  Requests = {}
  OpenLedgers = {L1, L2}
  LedgerRequests = {}
  Overtaking = FALSE
  Patient = TRUE
  Refused = {}
SPECIFICATION Spec
INVARIANTS BalancesExact
CHECK_DEADLOCK FALSE
