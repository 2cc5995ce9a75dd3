SPECIFICATION Spec
CONSTANTS
  Configs <- AllConfigs
  Candles <- AllCandles
  Batches <- AllBatches
  MaxCandles = 3
  CandlesPerDay = 1
  Precision = 100
CHECK_DEADLOCK FALSE
INVARIANTS
  RunIsSound
  ReserveIsKept
  ResultIsVerifiable
  ReportsAgree
