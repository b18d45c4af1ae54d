\* Module AuthDialog: what the code does not do.
SPECIFICATION Spec
CONSTANTS
  None = None
  Addresses = {"add", "login", "settings"}
  MaxFlights = 1
PROPERTY ExpiryIsOffered
