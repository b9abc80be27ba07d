-------------------------- MODULE MCMetricsCleaner --------------------------
(***************************************************************************)
(* One or two targets, two overlapping scrapes (a Prometheus pair, or one  *)
(* scrape that outlives the scrape interval).                              *)
(***************************************************************************)
EXTENDS MetricsCleaner
=============================================================================
