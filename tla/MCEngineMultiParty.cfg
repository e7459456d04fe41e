CONSTANTS
  alice = alice
  irene = irene
  bob = bob
  brian = brian
  L1 = L1
  L2 = L2
  L3 = L3
  Clients = {alice, irene, bob, brian}
  NumTargets = 2
  LedgerIDs = {L1, L2, L3}
  Participants <- MultiParty
  InitialOutcome <- Outcomes
  LedgerParticipants <- LeftLeads
  LedgerBalance <- Plenty
  Requests = {}
  OpenLedgers = {L1, L2, L3}
  LedgerRequests = {}
  Overtaking = TRUE
  Patient = TRUE
  Refused = {}
SPECIFICATION Spec
PROPERTIES EventuallyFunded
CHECK_DEADLOCK FALSE
