-------------------------- MODULE MCStorageServer --------------------------
(* Instances of ReadHistory: two writes of different lengths, readers, a     *)
(* creation and a deletion of the same file, and one of its directory.       *)
EXTENDS ReadHistory, TLC

CONSTANTS w1, w2, rd, gs, cr, dl, dd, other, x, y, z

AllRequests == {w1, w2, rd, gs, cr, dl, dd, other}
TwoWriters == {w1, w2}
MCOp == [t \in Requests |-> CASE t \in {w1, w2} -> "WRITE"
                              [] t = rd -> "READ"
                              [] t = gs -> "GETSIZE"
                              [] t = cr -> "CREATE"
                              [] t = dl -> "DELETE"
                              [] t = dd -> "DELETEDIR"
                              [] t = other -> "OTHER"]
\* CREATE and DELETE of one path are equally long, the directory's path is shorter
\* and the other path longer.
MCSize == [t \in Requests |-> CASE t = dd -> 1 [] t = other -> 3 [] OTHER -> 2]
MCPayload == [t \in Requests |-> IF t = w1 THEN <<x, x>> ELSE <<y>>]
MCFirstBytes == <<z, z, z>>

============================================================================
