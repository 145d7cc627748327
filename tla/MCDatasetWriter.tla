---------------------------- MODULE MCDatasetWriter ---------------------------
(* Model checking of DatasetWriter with the constants of recording.cfg.      *)
EXTENDS DatasetWriter
===============================================================================
