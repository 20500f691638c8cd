--------------------------- MODULE MC_WebSession ---------------------------
(* Instances of WebSession for TLC: one browser session and two handlers at  *)
(* a time. Resolving is the same for every handler, so that a step-up beside *)
(* a proxied call also stands for two proxied calls.                         *)
EXTENDS WebSession

CONSTANTS r1, r2, u1, u2

McAnything == [r \in Requests |-> IF r = r1 THEN {"stepup", "logout", "login"} ELSE {"bff", "stepup"}]
=============================================================================
