---- MODULE MCCollector ----
(* The instances of Collector for TLC: Collector, CollectorMemory and      *)
(* CollectorFlush.                                                         *)
EXTENDS Collector
====
