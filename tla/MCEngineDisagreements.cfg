CONSTANTS
  alice = alice
  irene = irene
  bob = bob
  brian = brian
  L1 = L1
  L2 = L2
  L3 = L3
  Clients = {alice, irene, bob}
  NumTargets = 2
  LedgerIDs = {L1, L2}
  Participants <- OneWay
  InitialOutcome <- Outcomes
  LedgerParticipants <- LeftLeads
  LedgerBalance <- Plenty
  Requests <- BothClose
  OpenLedgers = {L1, L2}
  LedgerRequests = {}
  Overtaking = TRUE
  Patient = FALSE
  Refused <- BobRefusesSecond
SPECIFICATION Spec
INVARIANTS StaysFunded AgreedPayment RejectedNeverFunded
CHECK_DEADLOCK FALSE
