---------------------------- MODULE MCWebClient ----------------------------
(* Two queries, one after the other or as fast as one can click. *)
EXTENDS WebClient

TwoAsks == 1 .. 2
=============================================================================
