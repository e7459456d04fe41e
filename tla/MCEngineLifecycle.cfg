CONSTANTS
  alice = alice
  irene = irene
  bob = bob
  brian = brian
  L1 = L1
  L2 = L2
  L3 = L3
  Clients = {alice, irene, bob}
  NumTargets = 1
  LedgerIDs = {L1, L2}
  Participants <- OneWay
  InitialOutcome <- Outcomes
  LedgerParticipants <- LeftLeads
  LedgerBalance <- Plenty
  Requests <- AliceCloses
  OpenLedgers = {}
  LedgerRequests <- CloseLedgers
  Overtaking = FALSE
  Patient = TRUE
  Refused = {}
SPECIFICATION Spec
INVARIANTS LedgersBacked PaidOutExactly LedgersFollowProtocol
PROPERTIES EventuallyDefunded
CHECK_DEADLOCK FALSE
