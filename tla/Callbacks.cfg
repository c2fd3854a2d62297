CONSTANTS
  Workers = {w1, w2}
  MaxEvents = 2
  ReaderEvents = 1
  BufferSize = 0
  Default = 2
  MaxFired = 2
SPECIFICATION FanOutSpec
INVARIANTS SenderInv LogInv
PROPERTIES FlushCoversEarlier ProcessEnds
