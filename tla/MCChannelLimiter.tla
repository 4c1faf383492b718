-------------------------- MODULE MCChannelLimiter ---------------------------
(* ChannelLimiter on four goroutines, of which the queue holds two.         *)
EXTENDS ChannelLimiter

CONSTANTS r1, r2, r3, r4
==============================================================================
