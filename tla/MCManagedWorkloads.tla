-------------------------- MODULE MCManagedWorkloads --------------------------
(* Two manifests that may be saved for a workload.                           *)
EXTENDS ManagedWorkloads
=============================================================================
