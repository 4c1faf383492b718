----------------------- MODULE MCUsageSettlement -----------------------
(* Small instances of UsageSettlement. *)
EXTENDS UsageSettlement, TLC

CONSTANTS c1, c2, c3, c4, r1, r2, r3, anna, ben

\* r1 is settled by two calls; anna uses ben's channel, ben uses anna's.
MCTwice == (c1 :> r1) @@ (c2 :> r1) @@ (c3 :> r3)

\* Two requests of anna on ben's channel, one of ben on anna's.
MCOneEach == (c1 :> r1) @@ (c2 :> r2) @@ (c3 :> r3)

\* All three requests, r1 twice.
MCAll == (c1 :> r1) @@ (c2 :> r1) @@ (c3 :> r2) @@ (c4 :> r3)

\* The two calls for r1 are interchangeable.
MCTwins == Permutations({c1, c2})

MCCaller == (r1 :> anna) @@ (r2 :> anna) @@ (r3 :> ben)
MCOwner == (r1 :> ben) @@ (r2 :> ben) @@ (r3 :> anna)
MCTokens == (r1 :> 3) @@ (r2 :> 2) @@ (r3 :> 2)
MCBalances == (anna :> 2) @@ (ben :> 1)
=============================================================================
