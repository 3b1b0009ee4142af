--------------------------- MODULE MCNamingServer ---------------------------
(* Instances of NamingServer.  Every server reports its mount point, s1 a    *)
(* file besides; clients create the file f, with backups f1 and f2 in the    *)
(* directories b1 and b2.                                                    *)
EXTENDS NamingServer, TLC

CONSTANTS s1, s2, s3, c1, c2, root, a, f, b1, b2, f1, f2

ThreeServers == {s1, s2, s3}
OneClient == {c1}
TwoClients == {c1, c2}
ClientsSymmetry == Permutations(TwoClients)
MCThreads == Servers \cup Agents

OneNewFile == {root, a, f, b1, b2, f1, f2}
MCDirs == {root, b1, b2}
MCAncestors == [x \in Paths |-> CASE x = root -> {}
                                  [] x = f1 -> {root, b1}
                                  [] x = f2 -> {root, b2}
                                  [] OTHER -> {root}]
MCBackup == 1 :> (f :> f1) @@ 2 :> (f :> f2)
MCBuckets == {0, 1}
MCBucket == [x \in Paths |-> IF x \in {a, f, f1} THEN 1 ELSE 0]

MCMountPaths == [s \in Servers |-> IF s = s1 THEN <<root, a>> ELSE <<root>>]

ThreeBooted == <<s1, s2, s3>>
TwoBooted == <<s1, s2>>
At(x, s) == [path |-> x, server |-> s]
ThreeBootedChains == 0 :> <<At(root, s3), At(root, s2), At(root, s1)>> @@ 1 :> <<At(a, s1)>>
TwoBootedChains == 0 :> <<At(root, s2), At(root, s1)>> @@ 1 :> <<At(a, s1)>>

Command(op, x) == [op |-> op, path |-> x]

\* Every kind of command, on the new path, the reported one and the mount point.
AllCommands ==
    {Command("READ", f), Command("WRITE", f), Command("WRITE", a), Command("GETSIZE", a),
     Command("CREATE", f), Command("DELETE", f), Command("DELETE", a),
     Command("DELETE", root), Command("LISTALL", root)}

\* The commands whose effects meet at one path.
RacingCommands == {Command("CREATE", f), Command("DELETE", f), Command("WRITE", f)}

============================================================================
