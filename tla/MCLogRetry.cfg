\* An int of three bits; lags below, at and above the number of retries.
CONSTANTS
  MaxInt = 3
  LogMaxRetries <- Retries
  MaxLag = 4
SPECIFICATION Spec
INVARIANTS TypeOK RetriesExhausted LagTolerated
PROPERTY CallReturns
CHECK_DEADLOCK FALSE
