-------------------------- MODULE MCPushDelivery --------------------------
(* PushDelivery on a small instance; see push_retry.cfg. *)
EXTENDS PushDelivery, TLC

CONSTANTS e1, t1, t2, c1, c2

ServiceFaults == {"fcm"}
=============================================================================
