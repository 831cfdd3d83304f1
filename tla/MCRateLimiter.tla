----------------------------- MODULE MCRateLimiter -----------------------------
(* Two clients, a window of three units and a budget of two.                  *)
EXTENDS RateLimiter

CONSTANTS c1, c2
================================================================================
