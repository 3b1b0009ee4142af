--------------------------- MODULE MCCopyTransfer ---------------------------
(* Two copies, of a long and a short file that bear one name in different    *)
(* directories, into one directory; each may also be one of the three that   *)
(* are refused.  A connection holds one chunk, and the descriptors are just  *)
(* enough for two copies at a time.                                          *)
EXTENDS CopyTransfer, TLC

CONSTANTS k1, k2, s1, s2, long, brief, lost, dir1, dir2, nowhere

TwoCopies == {k1, k2}
TwoServers == {s1, s2}
Job(x, y) == [source |-> x, target |-> y]
MCBase == long :> "notes" @@ brief :> "notes" @@ lost :> "other"
MCListed == {<<dir2, "notes">>}
MCJobs == {Job(long, dir1), Job(brief, dir1), Job(lost, dir1), Job(long, nowhere),
           Job(brief, dir2)}
MCIndexed == {long, brief, dir1, dir2}
MCLocation == [x \in Sources \cup Targets |-> IF x \in {long, brief, lost} THEN s1 ELSE s2]
MCLength == long :> 2 @@ brief :> 1 @@ lost :> 1
============================================================================
