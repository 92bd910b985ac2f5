--------------------------- MODULE MCSearchClient ---------------------------
EXTENDS SearchClient, TLC

MCTitle == (1 :> 1) @@ (2 :> 2) @@ (3 :> 1)
MCMatches == ("all" :> {1, 2, 3}) @@ ("some" :> {2, 3})
=============================================================================
