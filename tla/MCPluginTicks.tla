---------------------------- MODULE MCPluginTicks ----------------------------
(***************************************************************************)
(* Two plugins with the same interval, or one with twice the interval of   *)
(* the other.                                                              *)
(***************************************************************************)
EXTENDS PluginTicks, TLC

MCIntervals == {"p" :> 1 @@ "q" :> 1, "p" :> 1 @@ "q" :> 2}
=============================================================================
