CONSTANTS
  u1 = u1  j1 = j1  t1 = t1  start = start  title0 = title0
  noArg = noArg  inputJs = inputJs
  Urls <- MCUrls
  Scripts <- MCScripts
  Titles <- MCTitles
  StartUrl <- start
  InitialTitle <- title0
  NoArg <- noArg
  InputJs <- inputJs
  ViewW = 2
  ViewH = 1
  FrameSizes <- MCFrameSizes
  MaxConns = 3
  MaxPaints = 2
  PostMayFail = FALSE
  BindMayFail = FALSE
  ClientsMayStall = FALSE
SPECIFICATION Spec
INVARIANTS InputCounterAccounting
