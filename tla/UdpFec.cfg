\* Three frames of three shards, two of which are enough; two entries, two frames
\* remembered, a window of two.
SPECIFICATION FecSpec
CONSTRAINT OneDropped
CONSTANTS W = 2
          MaxSeq = 3
          K = 2
          M = 1
          Capacity = 2
          Remember = 2
INVARIANTS FecInv
           FreshStaysAcceptable
           KShardsDeliver
PROPERTY ChannelSpec
