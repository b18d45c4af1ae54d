\* Three users, two concurrent role changes or script runs.
SPECIFICATION FairSpec
CONSTANTS
  Users = {1, 2, 3}
  NoUser = NoUser
  Requests = {r1, r2}
INVARIANT IInv
PROPERTIES KeepsAnAdmin AuditTellsTruth EventuallyAnswered
