--------------------------- MODULE MCPortalTokens ---------------------------
(* Values for the constants of PortalTokens under TLC.                     *)
EXTENDS PortalTokens, TLC

\* Portals are alike.
Symmetry == Permutations(Portal)
=============================================================================
