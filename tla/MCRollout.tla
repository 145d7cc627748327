------------------------------- MODULE MCRollout ------------------------------
(* Rollout on a small instance, with the property that the code does not    *)
(* keep.                                                                     *)
EXTENDS Rollout

(* sentry.py:126, "the background pusher only ever touches *finalised*      *)
(* episode artifacts on disk": a session that ends well leaves a copy on the *)
(* Hub that can be loaded.                                                   *)
LeftReadable == main = "done" /\ hub.rows > 0 => hub.closed
===============================================================================
