SPECIFICATION Spec
CONSTANTS
  u1 = u1
  u2 = u2
  Requests = {q1, q2}
  Students = {u1, u2}
  Topups = {t1}
  Keys = {k1, k2}
  Amounts = {1}
  MaxPending = 1
  MaxRows = 4
  Opening <- MCOpening
  Nobody = Nobody
INVARIANTS
  RefundsWithinPrice
