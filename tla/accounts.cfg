SPECIFICATION Spec
CONSTANTS
    Users = {owner, admin, guest}
    Founder = owner
    Admins = {admin}
    Requests = {q1, q2, q3}
    Signing = {admin, guest}
    Overlap = 2
    Limits = {1, 2, 3}
    MaxAttempts = 1
INVARIANTS OneOwner LeftIsSignedOut RotatedOnce AttemptsBounded
PROPERTY SeatsBounded
SYMMETRY RequestSymmetry
CHECK_DEADLOCK FALSE
