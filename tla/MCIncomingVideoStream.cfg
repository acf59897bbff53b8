SPECIFICATION Spec
CONSTANT MaxFrames = 2
INVARIANT TypeOK
INVARIANT CalleeAlive
PROPERTY FrameShown
PROPERTY StopReturns
