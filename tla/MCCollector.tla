---------------------------- MODULE MCCollector ----------------------------
(***************************************************************************)
(* Instances of Collector, with the objects of MCController.               *)
(***************************************************************************)
EXTENDS MCController, Collector
=============================================================================
