CONSTANTS
  Entities = {e1, e2}
  Requests = {r1, r2, r3}
  Stewards = {clerk, admin}
  Admins = {admin}
  Reviewers = {w1, w2}
  Created = {"Draft", "PendingReview", "Active"}
  Patches = {"PendingReview", "Active"}
  None = None
SPECIFICATION Spec
INVARIANTS PendingHasRequest PublishedWasApproved
PROPERTY ClosedForGood
SYMMETRY Symmetry
CHECK_DEADLOCK FALSE
