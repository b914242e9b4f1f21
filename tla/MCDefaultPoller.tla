--------------------------- MODULE MCDefaultPoller ---------------------------
(* The pollers for TLC: four channels, two of which use the same descriptor, and *)
(* descriptor 0 among them.                                                     *)
EXTENDS DefaultPoller, TLC

CONSTANTS a, b, c, d

MCFdOf == (a :> 0) @@ (b :> 1) @@ (c :> 1) @@ (d :> 2)
=============================================================================
