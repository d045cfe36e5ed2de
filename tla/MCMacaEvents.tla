----------------------------- MODULE MCMacaEvents -----------------------------
(* Instances of MacaEvents for TLC.                                          *)
EXTENDS MacaEvents

(* Two streams of two devices, or two of one of which one has a priority.    *)
Stream(d, priority) == [device |-> d, priority |-> priority]
TwoStreams == {<<Stream(0, FALSE)>>,
               <<Stream(0, FALSE), Stream(1, FALSE)>>,
               <<Stream(0, FALSE), Stream(0, TRUE)>>}
=============================================================================
