\* Module CoinPhotos: what the code does not do.
SPECIFICATION CoinPhotosSpec
CONSTANTS
  MaxPicks = 2
  MaxEncodes = 3
  MaxRemovals = 1
INVARIANT ShowsStoredPhotos
CHECK_DEADLOCK FALSE
