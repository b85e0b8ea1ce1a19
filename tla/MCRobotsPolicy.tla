--------------------------- MODULE MCRobotsPolicy ---------------------------
(* A small instance of RobotsPolicy. *)
EXTENDS RobotsPolicy

CONSTANTS a, b, c, open, closed

=============================================================================
