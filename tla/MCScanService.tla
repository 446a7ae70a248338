---- MODULE MCScanService ----
(* The instances of ScanService for TLC: Scan, ScanDelete. *)
EXTENDS ScanService
====
