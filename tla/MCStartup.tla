------------------------------- MODULE MCStartup -------------------------------
(* A small instance of Startup: two processes that migrate the same database, *)
(* one file that cannot be run twice and one that can, and one rotation.      *)
EXTENDS Startup
================================================================================
