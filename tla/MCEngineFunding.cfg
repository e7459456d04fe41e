CONSTANTS
  alice = alice
  irene = irene
  bob = bob
  brian = brian
  L1 = L1
  L2 = L2
  L3 = L3
  Clients = {alice, irene, bob}
  NumTargets = 2
  LedgerIDs = {L1, L2}
  Participants <- BothWays
  InitialOutcome <- Outcomes
  LedgerParticipants <- IreneFollows
  LedgerBalance <- Plenty
  Requests = {}
  OpenLedgers = {L1, L2}
  LedgerRequests = {}
  Overtaking = TRUE
  Patient = TRUE
  Refused = {}
SPECIFICATION Spec
INVARIANTS NoClientStops
PROPERTIES EventuallyFunded
CHECK_DEADLOCK FALSE
