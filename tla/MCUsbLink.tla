------------------------------- MODULE MCUsbLink -------------------------------
(* Three sessions, one after or over another: two jobs of the IDE, which   *)
(* exclude each other, and a bystander that reads a sensor or probes.      *)
EXTENDS UsbLink

MCPlan == [h \in Hosts |-> IF h < 3 THEN {"upload", "stop"} ELSE {"read", "probe"}]

\* An upload tried again and again while the controller hangs.
MCUploads == [h \in Hosts |-> {"upload"}]
=============================================================================
