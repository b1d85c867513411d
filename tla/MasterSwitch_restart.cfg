\* Two overlapping captures, one peer.
SPECIFICATION Spec
CONSTANTS Peer = {p}
          None = None
          Gone = Gone
          MaxCapture = 2
          QueueBound = 1
CONSTRAINT QuietRegistry
INVARIANT Inv
