---------------------------- MODULE MCActorLearner ----------------------------
(* ActorLearner on a small instance.                                        *)
EXTENDS ActorLearner

TwoThenOne == <<2, 1>>
===============================================================================
