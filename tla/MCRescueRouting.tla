--------------------------- MODULE MCRescueRouting ---------------------------
(* Channel 1 has two exact routes (two keys), channel 2 has one; all        *)
(* requests ask for one model, so that they share their rings.              *)
EXTENDS RescueRouting

Routes == {<<1, 1>>, <<1, 2>>, <<2, 1>>}
Models == {"m"}
ModelOfAll == [q \in Request |-> "m"]
==============================================================================
