SPECIFICATION Spec
CONSTANTS
  Transactions = {1, 2, 3}
  Opaque = {3}
  MaxTxs = 5
  MaxIndex = 6
INVARIANT ClientVerdict
