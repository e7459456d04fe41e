CONSTANTS
  NumTargets = 2
  LedgerIDs = {L}
  ID = L
  Amounts = {0, 1, 2}
  InitBalance <- MCInitBalance
  InitTurnNum = 1
  MaxTurnNum = 4
SPECIFICATION Spec
INVARIANTS TypeOK OneHistory ConsensusIsSupported NoConflictingSignatures FundsConserved ReceiveNeverFails Chain
PROPERTIES ConsensusAdvances ImplementsAtomicLedger
