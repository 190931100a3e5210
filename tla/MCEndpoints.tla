---------------------------- MODULE MCEndpoints ----------------------------
(* Two identifiers, so that two requests may differ in each of theirs. *)
EXTENDS Endpoints

MCIds == {1, 2}
=============================================================================
