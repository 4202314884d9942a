SPECIFICATION FairSpec
CONSTANTS
  Degrees <- MildOrHot
  Lux <- DimBright
  Capacity = 2
INVARIANT TypeOK
INVARIANT HotIsMeasured
PROPERTY StaysHot
PROPERTY StaysMild
