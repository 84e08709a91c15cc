---------------------------- MODULE MCFtpAccept ----------------------------
(* FtpAccept as TLC runs it: all its constants are numbers. *)
EXTENDS FtpAccept
=============================================================================
