SPECIFICATION FairSpec
CONSTANTS
  r1 = r1
  Requests = {r1}
  Plans <- TwoPlans
  Price <- Prices
  Period = 2
  TrialPeriod = 1
  GracePeriod = 1
  Window = 1
  Credits = {5}
  Adjustments <- Withdrawals
  Keys = {1}
  Worker = Worker
  None = None
  MaxTime = 4
  MaxEntries = 3
  MaxQueue = 1

  
PROPERTIES
  WalletIsALedger
  
  EndedIsDisconnected
  
CHECK_DEADLOCK FALSE
