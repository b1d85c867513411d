--------------------------- MODULE MCVideoEncoder ---------------------------
(* VideoEncoder for TLC.                                                     *)
EXTENDS VideoEncoder

Works == [activates |-> TRUE, works |-> {"async"}]
NoDriver == [activates |-> FALSE, works |-> {"async"}]
Refuses == [activates |-> TRUE, works |-> {"sync"}]

\* The first candidate without a driver, the first one failing to be set up.
Machines == {<<NoDriver, Works>>, <<Refuses, Works>>}
=============================================================================
