\* The host's view of the transmitter, across wraps and resets.
SPECIFICATION FairSpec
CONSTANTS
  Bits = 2
  Ring = 3
  Bytes = {1, 2}
  MaxAsked = 4
INVARIANT TypeOK
INVARIANT HostReadsWhatWasSent
PROPERTY SentAfterAllBits
PROPERTY EveryByteEnds
