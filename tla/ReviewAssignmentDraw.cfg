SPECIFICATION DrawSpec
CONSTANTS
    N = 6
    NumPeers = 2
INVARIANTS DrawTypeOK SomethingToDraw ResultIsADraw FallbackOnlyAtTheEnd AtMostTwiceTheShare
