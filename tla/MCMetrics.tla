------------------------------ MODULE MCMetrics -----------------------------
(* Metrics with the crashes and failures of its .cfg.  The history grows    *)
(* with them only, so the state space is finite.                           *)
EXTENDS Metrics
=============================================================================
