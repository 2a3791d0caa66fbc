------------------------------- MODULE DbData -------------------------------
(***************************************************************************)
(* The content of makoon's database file (struct DbData) and what each     *)
(* writing operation of JsonRepository makes of a content it has loaded.   *)
(*                                                                         *)
(* A cluster is its name and a body standing for the rest of the record; a *)
(* log entry is the name of its cluster and an entry.  The vectors of the  *)
(* code are sets here: nothing in the repository depends on their order,   *)
(* and a name occurs once among the clusters (NamesUnique, proved).        *)
(***************************************************************************)
CONSTANTS Names,     \* cluster names
          Bodies,    \* what a cluster record holds besides its name
          Entries,   \* what a log entry holds besides its cluster's name
          Unreadable \* what a file that does not parse is read as

Cluster  == [name : Names, body : Bodies]
LogEntry == [name : Names, entry : Entries]

DB      == [clusters : SUBSET Cluster, action_log : SUBSET LogEntry]
EmptyDB == [clusters |-> {}, action_log |-> {}]

ASSUME UnreadableAssumption == Unreadable \notin DB

NoData == Unreadable   \* a thread that holds no data

\* The operations that write the file.
SaveClusterOps   == [op : {"save_cluster"}, cluster : Cluster]
DeleteClusterOps == [op : {"delete_cluster"}, name : Names]
SaveLogOps       == [op : {"save_log"}, entry : LogEntry]
DeleteLogsOps    == [op : {"delete_logs"}, name : Names]

WriteOps ==
    SaveClusterOps \cup DeleteClusterOps \cup SaveLogOps \cup DeleteLogsOps

HasCluster(db, n) == \E c \in db.clusters : c.name = n

\* The record takes the place of the one with its name, or is pushed.
SaveCluster(db, cluster) ==
    [db EXCEPT !.clusters =
        IF HasCluster(db, cluster.name)
        THEN {IF c.name = cluster.name THEN cluster ELSE c : c \in @}
        ELSE @ \cup {cluster}]

DeleteLogs(db, n) ==
    [db EXCEPT !.action_log = {e \in @ : e.name # n}]

DeleteCluster(db, n) ==
    [DeleteLogs(db, n) EXCEPT !.clusters = {c \in @ : c.name # n}]

SaveLog(db, e) ==
    [db EXCEPT !.action_log = @ \cup {e}]

Apply(o, db) ==
    CASE o.op = "save_cluster"   -> SaveCluster(db, o.cluster)
      [] o.op = "delete_cluster" -> DeleteCluster(db, o.name)
      [] o.op = "save_log"       -> SaveLog(db, o.entry)
      [] o.op = "delete_logs"    -> DeleteLogs(db, o.name)

NamesUnique(db) ==
    \A c, d \in db.clusters : c.name = d.name => c = d
=============================================================================
