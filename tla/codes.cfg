CONSTANTS
  Categories = {"programming", "audio"}
  Txs = {t1, t2}
  NoTx = NoTx
  Apps = {a1, a2}
  NoApp = NoApp
  Legacy = TRUE
  MaxNumber = 3
SPECIFICATION Spec
SYMMETRY Interchangeable
INVARIANTS TypeOK CodesAreFresh AllocationSucceeds RetiredForGood
