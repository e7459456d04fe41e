CONSTANTS
  Uint48 = 16
  Uint256 = 32
  Channels <- MCChannels
  Externals <- MCExternals
  nParticipants <- MCParticipants
  challengeDuration <- MCDurations
  History <- LedgerHistory
  Deposits <- MCDeposits
  Watchful = TRUE
  OnlyFinal = TRUE
  OnlySimple = TRUE
  MaxTime = 4
SPECIFICATION Spec
CHECK_DEADLOCK FALSE
INVARIANT ClaimPays
