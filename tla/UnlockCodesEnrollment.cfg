SPECIFICATION Spec
CONSTANTS
  Requests = {q1, q2}
  Students = {u1, u2}
  CourseCodes = {a}
  WalletCodes = {w}
  Nobody = Nobody
SYMMETRY Interchangeable
INVARIANTS
  EntitledAreEnrolled
