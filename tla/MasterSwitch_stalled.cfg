\* A peer that takes nothing, and a user who waits for hotkey 0.
SPECIFICATION FairSpec
CONSTANTS Peer = {p}
          None = None
          Gone = Gone
          MaxCapture = 1
          QueueBound = 1
PROPERTY HotkeyAlwaysReturns
