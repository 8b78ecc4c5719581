----------------------------- MODULE MCJobRuns -----------------------------
(***************************************************************************)
(* Instances of JobRuns for TLC: two jobs of a service. In the first the   *)
(* pattern of each matches its own archives and one keeps a single one; in *)
(* the second the names of their volumes are such as data and data-cache.  *)
(***************************************************************************)
EXTENDS JobRuns, TLC

CONSTANTS data, other

TwoJobs == {data, other}
KeepOne == [j \in Jobs |-> IF j = data THEN 1 ELSE 0]

Apart == [j \in Jobs |-> {j}]
Alike == [j \in Jobs |-> 0]

\* data-*.tar matches data-cache-2026...tar, which sort -r puts before data-2026...
Prefix == [j \in Jobs |-> IF j = data THEN Jobs ELSE {j}]
ByName == [j \in Jobs |-> IF j = data THEN 0 ELSE 1]
=============================================================================
