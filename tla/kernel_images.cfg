SPECIFICATION Spec
CONSTANTS
  Function = {f1}
  Kernel = {k1}
  File = {a, b}
  NoFunction = NoFunction
  NoUnit = NoUnit
  NoFile = NoFile
INVARIANTS FnTypeOK OrderlyLoadsRun PlacedWhereLoaded
PROPERTIES StartsTheLoadedImage
