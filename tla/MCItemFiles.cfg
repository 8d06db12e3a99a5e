SPECIFICATION ItemSpec
CONSTANTS
  none = none
  NoLayer = none
  NoHeader = none
  NumLayers = 2
  ShortName = 1
  Byte = 4
  EndId = 255
  MaxAnimals = 2
  MaxField = 1
  MaxAdded = 1
  ToOem <- MCToOem
  ToAnsi <- MCToAnsi
  Cells = {0, 1}
  Rest = {"rest"}
  Headers <- MCHeaders
  Animals <- MCAnimals
  Found <- MCFound
  MaxTracks = 2
  Tracks <- MCTracks
  Bad <- MCBad
  Leavings <- MCLeavings
  FoundXmi <- MCFoundXmi
INVARIANTS
  LayersFit
  RoundTrip
  CutIsNoticed
  CacheShowsTrack
  CrashNeedsRefusal
  TracksSurvive
PROPERTY
  LoadEnds
CHECK_DEADLOCK FALSE
