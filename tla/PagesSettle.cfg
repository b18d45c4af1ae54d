SPECIFICATION PagesSpec
CONSTANTS
  a1 = a1
  a2 = a2
  Users = {a1, a2}
  Admins = {a2}
  Guest = Guest
  Nothing = Nothing
  Unread = Unread
  MaxChanges = 2
  None = None
  Addresses = {"login", "money"}
  MaxFlights = 1
INVARIANTS NothingOfAnother ChangeIsShown InOneLanguage AskedOnce ResumesWork
PROPERTY OwnText
