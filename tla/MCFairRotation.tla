--------------------------- MODULE MCFairRotation ----------------------------
(* Three channels; only the first has routes to rotate over.                *)
EXTENDS FairRotation

MCChannel == 1 .. 3
MCRoute == {1} \X (1 .. 3)
MCRouteCycle == 6
==============================================================================
