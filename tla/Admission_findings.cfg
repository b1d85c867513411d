\* Two devices, overlapping start_pairing_mode commands, an unpairing during a handshake.
SPECIFICATION AdmissionSpec
CONSTANTS Device = {a, b}
          None = None
          MaxAttempts = 2
          MaxConn = 2
          MaxPin = 2
          MaxStart = 1
INVARIANT PinUsedOnce
PROPERTIES PinStays
           UnpairedNeedsPin
CHECK_DEADLOCK FALSE
