\* Two handshakes with two attempts, across a stop and a start, under fairness.
SPECIFICATION AdmissionFairSpec
CONSTANTS Device = {a}
          None = None
          MaxAttempts = 2
          MaxConn = 2
          MaxPin = 1
          MaxStart = 2
CHECK_DEADLOCK FALSE
INVARIANT AdmissionInv
PROPERTY HandshakeEnds
