\* Two peers and one call of become_master; sends may block, for good or not.
SPECIFICATION OneSpec
CONSTANTS Peer = {p, q}
          None = None
          Gone = Gone
          MaxCapture = 1
          QueueBound = 1
INVARIANT MasterAgrees
PROPERTIES HotkeyReturnsLocal
           VanishedTargetReleased
