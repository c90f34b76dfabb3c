------------------------------- MODULE MCRest -------------------------------
(* The library client and its server, for TLC. *)
EXTENDS RestClient
=============================================================================
