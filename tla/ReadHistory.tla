---------------------------- MODULE ReadHistory ----------------------------
(***************************************************************************)
(* A storage server and what its readers could have seen.  The server is   *)
(* the one of StorageServer, step for step; this module adds two histories *)
(* that say what a READ may answer: the bytes the file had under its name  *)
(* while the READ had it open, and the inodes that a DELETE, of the file   *)
(* or of a directory above it, took the name from while a WRITE had them   *)
(* open.                                                                   *)
(***************************************************************************)
EXTENDS StorageServer

VARIABLES
    held,    \* what the file has held since a READ that has it open opened it
    orphans  \* the inodes removed under a WRITE

readVars == <<vars, held, orphans>>

Readers == {r \in Requests : Op[r] = "READ"}

\* The bytes of the file, if there is one.
Shown == IF name = 0 THEN {} ELSE {contents[name]}

\* A WRITE has the inode open and has not flushed.
Pending(i) == \E w \in Writers : pc[w] \in {"opened", "flushing"} /\ handle[w] = i

Watch ==
    /\ held' = [r \in Readers |-> IF pc'[r] = "opened" THEN held[r] \cup Shown' ELSE {}]
    /\ orphans' = IF name' = 0 /\ Pending(name) THEN orphans \cup {name} ELSE orphans

ReadInit == Init /\ held = [r \in Readers |-> {}] /\ orphans = {}

ReadNext == Next /\ Watch

ReadSpec == ReadInit /\ [][ReadNext]_readVars

FairReadSpec == ReadSpec /\ Fairness

\* A READ answers with bytes that the file really held at some moment between the
\* READ's fopen and its fread, whatever opens, empties, flushes and removes it
\* meanwhile, and however often the name has passed to another inode, or says that
\* it could not read.  The one exception is a file removed while a WRITE had it
\* open: the WRITE flushes into what the READ still reads, and no such file ever
\* existed.
ReadsAreRegular ==
    [][\A r \in Readers : pc[r] = "opened" /\ pc'[r] = "done" =>
           result'[r] \in held[r] \/ handle[r] \in orphans \/ r \in faulted']_readVars

============================================================================
