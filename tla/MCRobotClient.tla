---------------------------- MODULE MCRobotClient -----------------------------
(* RobotClient on a small instance, with what the repository says of it and *)
(* the code does not do.                                                    *)
EXTENDS RobotClient

(* robot_client.py:126, the lock is there to "protect queue operations": no *)
(* pop happens while the receiver reads the queue.                          *)
ReceiverSurvives == rcv # "dead"
===============================================================================
