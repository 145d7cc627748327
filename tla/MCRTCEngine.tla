------------------------------ MODULE MCRTCEngine ------------------------------
(* RTCEngine on a small instance, with the properties that need fairness.    *)
EXTENDS RTCEngine

InLoop == main \in {"top", "resume", "notify", "get", "flush"}

(* rtc.py:219, reset: what was predicted before the operator took over goes *)
(* away. A robot the policy drives ends up performing actions predicted     *)
(* from what it saw since it got control back, if it is left to drive.      *)
StaleReplaced ==
  \A e \in 1..MaxEra :
    (era = e /\ InLoop /\ ~paused) ~> (performed.era = e \/ paused \/ ~InLoop)

(* rtc.py:166, ready: "True once torch.compile warmup is complete". The     *)
(* main loop waits for the warmup, and the warmup comes to an end (in RTC   *)
(* mode, the default).                                                      *)
WarmupEnds == (enabled /\ ~ready /\ InLoop /\ ~paused) ~> (ready \/ paused \/ ~InLoop)
===============================================================================
