\* Two transfers from two devices: a directory with a file of a chunk and a half and an
\* empty one, which wait for each other's permit, and a file that goes to the same
\* destination; channels of two messages.
SPECIFICATION Spec
CONSTANTS Transfers <- Two
          Sessions <- Two
          SessionOf <- OneEach
          Offer <- OfferDir
          Children <- DirFiles
          Content <- DirContent
          ChunkUnits = 2
          Threads = 1
          Absent = Absent
          ChanCap = 2
          MaxFaults = 1
INVARIANTS Inv
           DoneIsAccounted
PROPERTIES VerifiedOnDisk
           TransferEnds
CHECK_DEADLOCK FALSE
