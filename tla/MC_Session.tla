---------------------------- MODULE MC_Session ----------------------------
(* The module VncSession as the session run checks it; its constants are  *)
(* given in MC_Session.cfg.                                                 *)
EXTENDS VncSession

(* The security types the server may announce: MS-Logon (-6), invalid     *)
(* (0), none (1), VNC password (2) and an unknown code (7).  Defined here  *)
(* since a .cfg cannot hold a negative number.                             *)
MCSecurityTypes == {-6, 0, 1, 2, 7}
=============================================================================
