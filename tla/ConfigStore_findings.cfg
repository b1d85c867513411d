\* Saves that overlap, a window that moves while the page saves, a save after a reset.
SPECIFICATION Spec
CONSTANTS PeerIds = {p, q}
          PeerSavers = {s1, s2}
          Settings = {a, b}
          Windows = {v, w}
          Identities = {i1, i2}
          MaxJobs = 5
          MaxTmp = 3
          Missing = Missing
          Damaged = Damaged
          None = None
PROPERTIES WindowSaveKeepsSettings
           AlwaysOldOrNew
           ResetForgets
CHECK_DEADLOCK FALSE
