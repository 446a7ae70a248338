---- MODULE MCDesktopServices ----
(* The instances of DesktopServices for TLC: Desktop, DesktopRetry and     *)
(* DesktopQuit.                                                            *)
EXTENDS DesktopServices
====
