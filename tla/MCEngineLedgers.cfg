CONSTANTS
  alice = alice
  irene = irene
  bob = bob
  brian = brian
  L1 = L1
  L2 = L2
  L3 = L3
  Clients = {alice, irene, bob}
  NumTargets = 0
  LedgerIDs = {L1, L2}
  Participants <- OneWay
  InitialOutcome <- Outcomes
  LedgerParticipants <- LeftLeads
  LedgerBalance <- Plenty
  Requests = {}
  OpenLedgers = {}
  LedgerRequests <- CloseLedgers
  Overtaking = TRUE
  Patient = TRUE
  Refused = {}
SPECIFICATION Spec
INVARIANTS NoClientStops DepositsInOrder LedgersBacked PaidOutExactly
PROPERTIES EventuallyOpen EventuallyWithdrawn
CHECK_DEADLOCK FALSE
