SPECIFICATION Spec
CONSTANTS
  Names = {n1, n2}
  GivenRoles = {"USER", "OPERATOR"}
  Sessions = {s1, s2}
  MaxAccounts = 3
  None = None
  Labels = {l1, l2}
  Limit = 1
  MaxBets = 2
SYMMETRY Interchangeable
PROPERTY
  TerminalReviewsAreKept
