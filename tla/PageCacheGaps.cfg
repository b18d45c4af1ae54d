\* Module PageCache: what the code does not do.
SPECIFICATION CacheSpec
CONSTANTS
  Users = {a1, a2}
  Admins = {a2}
  Guest = Guest
  Nothing = Nothing
  Unread = Unread
  MaxChanges = 2
INVARIANTS SignedInSeesOwn AggregatesRefresh
