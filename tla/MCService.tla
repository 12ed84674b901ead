----------------------------- MODULE MCService -----------------------------
(* Settings for checking Service: either receiver or none.                 *)
EXTENDS Service, TLC

MCProcesses == {"process 1", "process 2", "process 3"}
MCReceivers == {"nwws", "noaa", "none"}
=============================================================================
