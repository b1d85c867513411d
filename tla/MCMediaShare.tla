---------------------------- MODULE MCMediaShare ----------------------------
(* MediaShare for TLC.                                                       *)
EXTENDS MediaShare

Hardware(async, works) == [async |-> async, activates |-> TRUE, works |-> works]

\* A GPU whose transform is async, one whose transform only the synchronous encoder can set
\* up, no GPU and no software transform, a screen too small to encode.
Gpu == [d3d |-> TRUE, hw |-> <<Hardware(TRUE, {"async"})>>, sw |-> TRUE, cisco |-> TRUE, small |-> FALSE]
BadGpu == [d3d |-> TRUE, hw |-> <<Hardware(FALSE, {"sync"})>>, sw |-> TRUE, cisco |-> TRUE, small |-> FALSE]
Bare == [d3d |-> FALSE, hw |-> <<>>, sw |-> FALSE, cisco |-> FALSE, small |-> FALSE]
Small == [BadGpu EXCEPT !.small = TRUE]
ThreeMachines == {BadGpu, Bare, Small}
TwoMachines == {BadGpu, Gpu}

\* Frames of the streams.
Frames21 == <<2, 1>>
Frames3 == <<3>>
=============================================================================
