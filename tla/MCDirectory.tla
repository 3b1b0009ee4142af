---------------------------- MODULE MCDirectory ----------------------------
(* Instances of Directory: three servers, two of which share the mount point  *)
(* and a second path, in two buckets.                                         *)
EXTENDS Directory, TLC

CONSTANTS s1, s2, s3, root, a, b

MCServers == {s1, s2, s3}
MCPaths == {root, a, b}
MCBuckets == {0, 1}
MCBucket == root :> 0 @@ a :> 1 @@ b :> 0
MCMountPaths == s1 :> <<root, a>> @@ s2 :> <<root, a>> @@ s3 :> <<b>>
NoBoot == <<>>
NoChains == [i \in MCBuckets |-> <<>>]

============================================================================
