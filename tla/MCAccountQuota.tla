--------------------------- MODULE MCAccountQuota ---------------------------
(* From a Saturday afternoon in Beijing to the Monday, with words of five bits. *)
EXTENDS AccountQuota

CONSTANTS c1, c2, c3

Report(prompt, completion, total, details, cached) ==
    [prompt |-> prompt, completion |-> completion, total |-> total,
     details |-> details, cached |-> cached]

\* One token, a fully cached prompt, and counts whose sum overflows.
MCReports ==
    {Report(3, 1, 4, TRUE, 3), Report(2, 0, 2, TRUE, 2), Report(15, 15, -1, FALSE, 0)}

\* Two tokens besides two read from a cache, when nobody noted that it was known.
MCOldReports == {Report(3, 1, 4, TRUE, 2)}
=============================================================================
