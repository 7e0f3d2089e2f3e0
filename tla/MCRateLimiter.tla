--------------------------- MODULE MCRateLimiter ---------------------------
(* An instance of RateLimiter for TLC: two clients, two tokens each. *)
EXTENDS RateLimiter, TLC

CONSTANTS home, office

MCAddresses == {home, office}
Symmetry == Permutations(MCAddresses)
=============================================================================
