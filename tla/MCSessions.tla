----------------------------- MODULE MCSessions -----------------------------
(* Instances of Sessions for TLC: calls of one page that find the access   *)
(* token expired together, and calls of two tabs.                          *)
EXTENDS Sessions

Usual == {{"logout", "prune"}, {"logout", "prune", "expiry"}, {"logout", "inFlight", "lost"}, {"password"},
          {"tabs", "logout"}, {"staff"}, {"staff", "inFlight"}, {"error", "logout"}, {"archive"}}
=============================================================================
