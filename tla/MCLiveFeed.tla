----------------------------- MODULE MCLiveFeed -----------------------------
(* The browsers are interchangeable; symmetry is not used, for a liveness    *)
(* property is checked.                                                      *)
EXTENDS LiveFeed
==============================================================================
