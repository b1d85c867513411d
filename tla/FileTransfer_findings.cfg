\* Two transfers, the second of an absolute path; a call may fail.
SPECIFICATION Spec
CONSTANTS Transfers <- Two
          Sessions <- One
          SessionOf <- OneSession
          Offer <- OfferRoot
          Children <- NoDirs
          Content <- RootContent
          ChunkUnits = 2
          Threads = 2
          Absent = Absent
          ChanCap = 2
          MaxFaults = 1
PROPERTIES OfferedArrives
           VerifiedIsWritten
CHECK_DEADLOCK FALSE
