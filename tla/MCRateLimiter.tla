---------------------------- MODULE MCRateLimiter ----------------------------
(* The instance of RateLimiter for TLC: more callers than slots, more slots *)
(* than tokens, and a window of grants longer than a full refill.           *)
EXTENDS RateLimiter
=============================================================================
