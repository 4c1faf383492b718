------------------------- MODULE MCPassThroughStream -------------------------
(* Channels of two events: what is probed may overflow them. *)
EXTENDS PassThroughStream
=============================================================================
