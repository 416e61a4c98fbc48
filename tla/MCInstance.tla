----------------------------- MODULE MCInstance -----------------------------
(* Instances of Instance for TLC. *)
EXTENDS Instance, TLC

CONSTANTS p1, p2, p3, h1, h2

\* Two processes on one host and a third on another; the other host already
\* has the next version of the bot.
Deployment == (p1 :> h1) @@ (p2 :> h1) @@ (p3 :> h2)
RollingUpdate == (p1 :> 1) @@ (p2 :> 1) @@ (p3 :> 2)
=============================================================================
