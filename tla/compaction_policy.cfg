SPECIFICATION Spec
CONSTANTS
  NewSizes = {1, 2, 3, 5}
  MaxMerged = 7
  MaxAdded = 9
INVARIANTS RunWithinStack RewritesPaid QuietWhenBalanced
CHECK_DEADLOCK FALSE
