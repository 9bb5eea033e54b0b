---------------------------- MODULE MCFrameRace ----------------------------
(***************************************************************************)
(* Two maps that got clones of one frame from the relay: each has a thread.*)
(***************************************************************************)
EXTENDS FrameSharing

CONSTANTS left, right

MCHolder == {left, right}
MCThreadOf == [h \in MCHolder |-> h]
=============================================================================
