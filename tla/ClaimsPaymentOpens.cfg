SPECIFICATION Spec
CONSTANTS
  Requests = {q1, q2}
  Students = {u1}
  Dated = {course}
  Undated = {term}
  Ids = {s1, s2}
  Grants = {g1, g2}
  Transfers = {x1, x2}
  MaxUses = 1
  None = None
SYMMETRY Interchangeable
PROPERTY PaymentOpens
