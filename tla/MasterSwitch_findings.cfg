\* Two captures, whose threads may overlap.
SPECIFICATION Spec
CONSTANTS Peer = {p}
          None = None
          Gone = Gone
          MaxCapture = 2
          QueueBound = 1
INVARIANTS EngineAgrees
           MasterHearsHooks
           SuppressedIffAway
