---- MODULE MCFileStore ----
(* Three runs, a batch of one or two records each, and files of two        *)
(* records or three bytes: a batch may fill what another one left, rotate  *)
(* in its middle, or follow one that failed or was dropped.                *)
EXTENDS FileStore, TLC

CONSTANTS a, b, c

MCClients == {a, b, c}
MCSymmetry == Permutations(MCClients)
====
