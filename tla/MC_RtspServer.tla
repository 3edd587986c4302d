--------------------------- MODULE MC_RtspServer ---------------------------
(* The RTSP server for TLC: its constants get their values in the .cfg. *)
EXTENDS RtspServer
=============================================================================
