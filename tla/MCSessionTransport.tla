------------------------ MODULE MCSessionTransport ------------------------
(***************************************************************************)
(* SessionTransport with queues of three and two items instead of 128, and *)
(* the thresholds of the flow control scaled down with them.               *)
(***************************************************************************)
EXTENDS SessionTransport

MCInputSize == 3
MCHighWater == 2
MCLowWater == 1
MCOutputSize == 2
=============================================================================
