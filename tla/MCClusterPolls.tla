---------------------------- MODULE MCClusterPolls ----------------------------
(* Two clusters, between which the user goes back and forth.                 *)
EXTENDS ClusterPolls

MCClusters == {"a", "b"}
=============================================================================
