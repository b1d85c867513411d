\* Saves that fail, overlap and are interrupted anywhere; a migrated and a new identity.
SPECIFICATION BoundedSpec
CONSTANTS PeerIds = {p}
          PeerSavers = {s1, s2}
          Settings = {a}
          Windows = {v, w}
          Identities = {i1, i2}
          MaxJobs = 2
          MaxTmp = 1
          Missing = Missing
          Damaged = Damaged
          None = None
SYMMETRY Symmetry
INVARIANT PeersAreSaved
PROPERTIES OldOrNew
           IdentityIsKept
CHECK_DEADLOCK FALSE
