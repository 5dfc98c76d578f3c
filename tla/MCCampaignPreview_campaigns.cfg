SPECIFICATION PreviewSpec
CONSTANTS
  q1 = q1
  q2 = q2
  Requests <- TwoRequests
  Free = Free
  Creators = {1, 2, 3}
  Missing <- NoMetric
  Campaigns = {1, 2, 3}
  Operated = {1, 2}
  Submissions = {"a"}
  Markets <- OneMarket
  Targets = {0, 2, 3}
  Ceiling = 2
  Metrics = {0, 1, 2}
  Marks = {"DELIVERY_UNKNOWN"}
  Contacted = {2}
  MaxVersion = 6
INVARIANTS PreviewTypeOK NamesAreUnique CloneOnce ReservationsAreOwned
PROPERTIES PreviewIsBest
SYMMETRY RequestSymmetry
CHECK_DEADLOCK FALSE
