----------------------------- MODULE Directory -----------------------------
(***************************************************************************)
(* The naming server's directory: the array storageServers with its        *)
(* counter and its mutex, the uthash table serversByPath that maps a path  *)
(* to a copy of a storage server's record, and the registration threads    *)
(* (handleStorageServer) that fill both.                                    *)
(*                                                                         *)
(* The mutex covers the array only.  The hash table is shared by every     *)
(* registration thread, every client thread and every asynchronous CREATE  *)
(* thread without any lock, so one HASH_ADD_STR is two steps here: reading *)
(* the table and the bucket, and linking the new entry in front of what    *)
(* was read.  Two overlapping additions then lose entries as the real      *)
(* list insertion does.                                                    *)
(***************************************************************************)
EXTENDS Naturals, Sequences, SequencesExt

CONSTANTS
    Servers,                  \* storage servers, named by their address and ports
    Threads,                  \* naming server threads that add to the hash table
    Paths,                    \* the path strings of the instance
    NULL,                     \* no server, no table, the empty string in a listing
    MAX_STORAGE_SERVERS,      \* length of the array storageServers
    MAX_PATHS,                \* length of accessiblePaths, 500 in the code
    Buckets,                  \* buckets of the hash table
    Bucket,                   \* the bucket a path hashes to
    HASH_BKT_CAPACITY_THRESH, \* chain length at which uthash expands, 10 in the code
    MountPaths,               \* what each server's directory walk reports
    Boot,                     \* servers registered before the behaviour starts
    BootChains                \* and what their registration left in the table

Entry == [path : Paths, server : Servers]

ASSUME SizesAssumption ==
    /\ MAX_STORAGE_SERVERS \in Nat \ {0}
    /\ MAX_PATHS \in Nat \ {0}
    /\ HASH_BKT_CAPACITY_THRESH \in Nat \ {0, 1}

ASSUME NamesAssumption ==
    /\ Servers \subseteq Threads
    /\ NULL \notin Threads
    /\ NULL \notin Paths
    /\ Bucket \in [Paths -> Buckets]

\* A server reports its mount point first, so at least one path.
ASSUME MountAssumption ==
    /\ MountPaths \in [Servers -> Seq(Paths)]
    /\ \A s \in Servers : Len(MountPaths[s]) \in 1 .. MAX_PATHS

ASSUME BootAssumption ==
    /\ Boot \in Seq(Servers)
    /\ Len(Boot) <= MAX_STORAGE_SERVERS
    /\ \A i, j \in 1 .. Len(Boot) : Boot[i] = Boot[j] => i = j
    /\ BootChains \in [Buckets -> Seq(Entry)]
    /\ \A b \in Buckets : \A i \in 1 .. Len(BootChains[b]) :
           /\ Bucket[BootChains[b][i].path] = b
           /\ \E j \in 1 .. Len(Boot) : Boot[j] = BootChains[b][i].server
           /\ \E k \in 1 .. Len(MountPaths[BootChains[b][i].server]) :
                  MountPaths[BootChains[b][i].server][k] = BootChains[b][i].path
    /\ \A j \in 1 .. Len(Boot) : \A k \in 1 .. Len(MountPaths[Boot[j]]) :
           \E i \in 1 .. Len(BootChains[Bucket[MountPaths[Boot[j]][k]]]) :
               BootChains[Bucket[MountPaths[Boot[j]][k]]][i]
                   = [path |-> MountPaths[Boot[j]][k], server |-> Boot[j]]

VARIABLES
    regPc,               \* where each server's registration thread is
    slotOf,              \* the array index a registration thread has taken
    nextPath,            \* loop counter path_no of a registration thread
    storageServerMutex,  \* holder of the mutex, or NULL
    storageServerCount,
    storageServers,
    serversByPath,       \* 0 while NULL, then the number of the current bucket array
    chains,              \* the entries of each bucket, first found first
    hashView,            \* what a thread inside HASH_ADD_STR has read
    raced                \* history: two HASH_ADD_STR have overlapped

tableVars == <<serversByPath, chains, hashView, raced>>
arrayVars == <<storageServerMutex, storageServerCount, storageServers>>
dirVars == <<regPc, slotOf, nextPath, arrayVars, tableVars>>

----------------------------------------------------------------------------
(* The records the array holds *)

Slots == 0 .. MAX_STORAGE_SERVERS - 1
Listing == [0 .. MAX_PATHS - 1 -> Paths \cup {NULL}]
SlotRecord == [server : Servers \cup {NULL}, numPaths : 0 .. MAX_PATHS,
               accessiblePaths : Listing]

\* memset of the whole array by initializeNamingServer.
EmptySlot == [server |-> NULL, numPaths |-> 0,
              accessiblePaths |-> [i \in 0 .. MAX_PATHS - 1 |-> NULL]]

\* The array part of a listing that holds the paths of a sequence.
ListingOf(paths) ==
    [i \in 0 .. MAX_PATHS - 1 |-> IF i < Len(paths) THEN paths[i + 1] ELSE NULL]

\* The record a storage server sends: its ports and the paths it walked.
ReportOf(s) == [server |-> s, numPaths |-> Len(MountPaths[s]),
                accessiblePaths |-> ListingOf(MountPaths[s])]

----------------------------------------------------------------------------
(* serversByPath *)

\* HASH_FIND_STR returns the first entry of the bucket with the wanted key.
Finds(p, s) ==
    LET chain == chains[Bucket[p]] IN
    \E i \in 1 .. Len(chain) :
        /\ chain[i] = [path |-> p, server |-> s]
        /\ \A j \in 1 .. i - 1 : chain[j].path # p

FindsNothing(p) ==
    \A i \in 1 .. Len(chains[Bucket[p]]) : chains[Bucket[p]][i].path # p

HasEntry(p, s) ==
    \E i \in 1 .. Len(chains[Bucket[p]]) :
        chains[Bucket[p]][i] = [path |-> p, server |-> s]

TableAt(p) == [tbl |-> serversByPath, chain |-> chains[Bucket[p]]]

\* First half of HASH_ADD_STR: the table pointer and the bucket's head are read.
HashAddBegin(t, p) ==
    /\ hashView' = [hashView EXCEPT ![t] = TableAt(p)]
    /\ UNCHANGED <<serversByPath, chains, raced>>

\* Second half, when there was no table: the thread publishes one of its own
\* that holds only the new entry, in place of any published since.
LinkInNewTable(seen, p, s) ==
    /\ seen.tbl = 0
    /\ serversByPath' = serversByPath + 1
    /\ chains' = [b \in Buckets |->
                     IF b = Bucket[p] THEN <<[path |-> p, server |-> s]>> ELSE <<>>]

\* Mutant: the new entry's next pointer is left NULL.
LinkedNoNext(seen, p, s) ==
    [chains EXCEPT ![Bucket[p]] = <<[path |-> p, server |-> s]>>]

\* The chains once the entry is linked in front of the chain that was read.
Linked(seen, p, s) ==
    [chains EXCEPT ![Bucket[p]] = <<[path |-> p, server |-> s]>> \o seen.chain]

LinkInBucket(seen, p, s) ==
    /\ seen.tbl # 0
    /\ seen.tbl = serversByPath
    /\ chains' = Linked(seen, p, s)
    /\ UNCHANGED serversByPath

\* A chain that has become long enough may make uthash move every entry to a
\* new bucket array (unless its expand_mult or noexpand says otherwise).  The
\* move reverses each chain.  Which entries share a bucket is kept as it was.
LinkAndExpand(seen, p, s) ==
    /\ seen.tbl # 0
    /\ seen.tbl = serversByPath
    /\ Len(Linked(seen, p, s)[Bucket[p]]) >= HASH_BKT_CAPACITY_THRESH
    /\ chains' = [b \in Buckets |-> Reverse(Linked(seen, p, s)[b])]
    /\ serversByPath' = serversByPath + 1

\* The entry is linked into a bucket array that has been replaced since.
LinkInOldTable(seen) ==
    /\ seen.tbl # 0
    /\ seen.tbl # serversByPath
    /\ UNCHANGED <<serversByPath, chains>>

HashAddLink(t, p, s) ==
    /\ \/ LinkInNewTable(hashView[t], p, s)
       \/ LinkInBucket(hashView[t], p, s)
       \/ LinkAndExpand(hashView[t], p, s)
       \/ LinkInOldTable(hashView[t])
    /\ hashView' = [hashView EXCEPT ![t] = NULL]
    /\ raced' = (raced \/ hashView[t] # TableAt(p))

----------------------------------------------------------------------------
(* handleStorageServer, one thread per registering server *)

\* The thread has received the record the server sent in reportToNamingServer.
RegRecv(s) ==
    /\ regPc[s] = "none"
    /\ regPc' = [regPc EXCEPT ![s] = "recvd"]
    /\ UNCHANGED <<slotOf, nextPath, arrayVars, tableVars>>

\* Mutant: no mutex around the array.
RegLockFree(s) ==
    /\ regPc[s] = "recvd"
    /\ storageServerMutex' = s
    /\ regPc' = [regPc EXCEPT ![s] = "locked"]
    /\ UNCHANGED <<slotOf, nextPath, storageServerCount, storageServers, tableVars>>

RegLock(s) ==
    /\ regPc[s] = "recvd"
    /\ storageServerMutex = NULL
    /\ storageServerMutex' = s
    /\ regPc' = [regPc EXCEPT ![s] = "locked"]
    /\ UNCHANGED <<slotOf, nextPath, storageServerCount, storageServers, tableVars>>

\* Mutant: the limit is checked with <=.
RegCheckOffByOne(s) ==
    /\ regPc[s] = "locked"
    /\ storageServerCount <= MAX_STORAGE_SERVERS
    /\ slotOf' = [slotOf EXCEPT ![s] = storageServerCount]
    /\ regPc' = [regPc EXCEPT ![s] = "admitted"]
    /\ UNCHANGED <<nextPath, arrayVars, tableVars>>

\* storageServerCount < MAX_STORAGE_SERVERS, and the load of the counter.
RegCheck(s) ==
    /\ regPc[s] = "locked"
    /\ storageServerCount < MAX_STORAGE_SERVERS
    /\ slotOf' = [slotOf EXCEPT ![s] = storageServerCount]
    /\ regPc' = [regPc EXCEPT ![s] = "admitted"]
    /\ UNCHANGED <<nextPath, arrayVars, tableVars>>

\* Mutant: a server is refused while one slot is left.
RegRefuseEarly(s) ==
    /\ regPc[s] = "locked"
    /\ ~(storageServerCount < MAX_STORAGE_SERVERS - 1)
    /\ storageServerMutex' = NULL
    /\ regPc' = [regPc EXCEPT ![s] = "refused"]
    /\ UNCHANGED <<slotOf, nextPath, storageServerCount, storageServers, tableVars>>

\* "Storage server limit reached": unlock, send the message, close.
RegRefuse(s) ==
    /\ regPc[s] = "locked"
    /\ ~(storageServerCount < MAX_STORAGE_SERVERS)
    /\ storageServerMutex' = NULL
    /\ regPc' = [regPc EXCEPT ![s] = "refused"]
    /\ UNCHANGED <<slotOf, nextPath, storageServerCount, storageServers, tableVars>>

\* Mutant: storageServers[storageServerCount] = newServer, without the ++.
RegCountForgotten(s) ==
    /\ regPc[s] = "admitted"
    /\ regPc' = [regPc EXCEPT ![s] = "counted"]
    /\ UNCHANGED <<slotOf, nextPath, arrayVars, tableVars>>

\* storageServerCount++: the build stores the counter before it copies the record.
RegCount(s) ==
    /\ regPc[s] = "admitted"
    /\ storageServerCount' = slotOf[s] + 1
    /\ regPc' = [regPc EXCEPT ![s] = "counted"]
    /\ UNCHANGED <<slotOf, nextPath, storageServerMutex, storageServers, tableVars>>

\* Mutant: the success path does not unlock.
RegCopyKeepsLock(s) ==
    /\ regPc[s] = "counted"
    /\ storageServers' = [storageServers EXCEPT ![slotOf[s]] = ReportOf(s)]
    /\ nextPath' = [nextPath EXCEPT ![s] = 0]
    /\ regPc' = [regPc EXCEPT ![s] = "indexing"]
    /\ UNCHANGED <<slotOf, storageServerMutex, storageServerCount, tableVars>>

\* The record is copied into the array and the mutex released.
RegCopy(s) ==
    /\ regPc[s] = "counted"
    /\ storageServers' = [storageServers EXCEPT ![slotOf[s]] = ReportOf(s)]
    /\ storageServerMutex' = NULL
    /\ nextPath' = [nextPath EXCEPT ![s] = 0]
    /\ regPc' = [regPc EXCEPT ![s] = "indexing"]
    /\ UNCHANGED <<slotOf, storageServerCount, tableVars>>

\* One round of the loop over accessiblePaths, in the two halves of HASH_ADD_STR.
RegAddBegin(s) ==
    /\ regPc[s] = "indexing"
    /\ nextPath[s] < Len(MountPaths[s])
    /\ HashAddBegin(s, MountPaths[s][nextPath[s] + 1])
    /\ regPc' = [regPc EXCEPT ![s] = "linking"]
    /\ UNCHANGED <<slotOf, nextPath, arrayVars>>

RegAddLink(s) ==
    /\ regPc[s] = "linking"
    /\ HashAddLink(s, MountPaths[s][nextPath[s] + 1], s)
    /\ nextPath' = [nextPath EXCEPT ![s] = @ + 1]
    /\ regPc' = [regPc EXCEPT ![s] = "indexing"]
    /\ UNCHANGED <<slotOf, arrayVars>>

\* Mutant: the loop over accessiblePaths ends one path early.
RegAckEarly(s) ==
    /\ regPc[s] = "indexing"
    /\ nextPath[s] + 1 = Len(MountPaths[s])
    /\ regPc' = [regPc EXCEPT ![s] = "acked"]
    /\ UNCHANGED <<slotOf, nextPath, arrayVars, tableVars>>

\* "Registration Successful" is sent and the connection closed.  The server has
\* closed its end after sending the record and never reads the message.
RegAck(s) ==
    /\ regPc[s] = "indexing"
    /\ nextPath[s] = Len(MountPaths[s])
    /\ regPc' = [regPc EXCEPT ![s] = "acked"]
    /\ UNCHANGED <<slotOf, nextPath, arrayVars, tableVars>>

----------------------------------------------------------------------------
BootServers == {Boot[i] : i \in 1 .. Len(Boot)}

DirInit ==
    /\ regPc = [s \in Servers |-> IF s \in BootServers THEN "acked" ELSE "none"]
    /\ slotOf = [s \in Servers |->
                    IF s \in BootServers
                    THEN (CHOOSE i \in 1 .. Len(Boot) : Boot[i] = s) - 1
                    ELSE 0]
    /\ nextPath = [s \in Servers |->
                      IF s \in BootServers THEN Len(MountPaths[s]) ELSE 0]
    /\ storageServerMutex = NULL
    /\ storageServerCount = Len(Boot)
    /\ storageServers = [i \in Slots |-> IF i < Len(Boot) THEN ReportOf(Boot[i + 1])
                                                          ELSE EmptySlot]
    /\ serversByPath = IF Boot = <<>> THEN 0 ELSE 1
    /\ chains = BootChains
    /\ hashView = [t \in Threads |-> NULL]
    /\ raced = FALSE

\* What a registration thread does once it has the record.
RegThread(s) ==
    \/ RegLock(s)
    \/ RegCheck(s)
    \/ RegRefuse(s)
    \/ RegCount(s)
    \/ RegCopy(s)
    \/ RegAddBegin(s)
    \/ RegAddLink(s)
    \/ RegAck(s)

Register(s) == RegRecv(s) \/ RegThread(s)

DirNext == \E s \in Servers : Register(s)
DirSpec == DirInit /\ [][DirNext]_dirVars

\* A thread that can run is eventually scheduled; whether and when a storage
\* server reports is up to whoever starts it.
DirFairSpec == DirSpec /\ \A s \in Servers : WF_dirVars(RegThread(s))

----------------------------------------------------------------------------
(* Properties *)

RegStates == {"none", "recvd", "locked", "admitted", "counted", "indexing",
              "linking", "acked", "refused"}
TableView == [tbl : Nat, chain : Seq(Entry)]

\* Type invariant of the directory.
DirTypeOK ==
    /\ regPc \in [Servers -> RegStates]
    /\ slotOf \in [Servers -> Slots]
    /\ nextPath \in [Servers -> 0 .. MAX_PATHS]
    /\ storageServerMutex \in Servers \cup {NULL}
    /\ storageServerCount \in 0 .. MAX_STORAGE_SERVERS
    /\ storageServers \in [Slots -> SlotRecord]
    /\ serversByPath \in Nat
    /\ chains \in [Buckets -> Seq(Entry)]
    /\ hashView \in [Threads -> TableView \cup {NULL}]
    /\ raced \in BOOLEAN

\* A server whose record is in the array.
Copied(s) == regPc[s] \in {"indexing", "linking", "acked"}

\* Registration hands out slots one by one: a server whose record was copied
\* sits in exactly one slot below the counter, every slot below the counter is
\* some server's, and a refused server has none.  The check of the counter, its
\* increment and the copy are separate steps of racing threads; only the mutex
\* in handleStorageServer keeps them together.
SlotsHandedOutOnce ==
    /\ \A s \in Servers : Copied(s) =>
           {i \in Slots : storageServers[i].server = s} = {slotOf[s]}
    /\ \A i \in Slots : i < storageServerCount =>
           \/ storageServers[i].server # NULL
           \/ \E s \in Servers : regPc[s] = "counted" /\ slotOf[s] = i
    /\ \A s \in Servers : regPc[s] = "refused" =>
           \A i \in Slots : storageServers[i].server # s

\* Every entry of serversByPath belongs to a server that the array knows, below
\* the counter.  DELETE and COPY search the array for the server the table gave
\* them and use an uninitialised index when the search finds none.
IndexedServersHaveSlots ==
    \A b \in Buckets : \A i \in 1 .. Len(chains[b]) :
        \E k \in Slots : /\ k < storageServerCount
                         /\ storageServers[k].server = chains[b][i].server

\* Once "Registration Successful" is sent for a server, the table has it under
\* every path it reported, as long as no two HASH_ADD_STR overlapped.
AckedServersAreIndexed ==
    ~raced => \A s \in Servers : regPc[s] = "acked" =>
                  \A k \in 1 .. Len(MountPaths[s]) : HasEntry(MountPaths[s][k], s)

\* The same without the proviso, which is what the acknowledgement says.
AckMeansIndexed ==
    \A s \in Servers : regPc[s] = "acked" =>
        \A k \in 1 .. Len(MountPaths[s]) : HasEntry(MountPaths[s][k], s)

\* A slot that holds a server keeps it, the counter never goes back, and while
\* additions do not overlap no entry ever leaves the table.
DirectoryOnlyGrows ==
    [][/\ storageServerCount' >= storageServerCount
       /\ \A i \in Slots : storageServers[i].server # NULL =>
              storageServers'[i].server = storageServers[i].server
       /\ ~raced' => \A p \in Paths, s \in Servers : HasEntry(p, s) => HasEntry(p, s)'
      ]_dirVars

\* A registration thread that has a record comes to its end: the server's success
\* or its refusal is sent, and the mutex is not kept from the others.
RegistrationIsAnswered ==
    \A s \in Servers : regPc[s] = "recvd" ~> regPc[s] \in {"acked", "refused"}

----------------------------------------------------------------------------
(* Registration seen as single steps: the detailed threads implement Roster *)

RosterLength ==
    IF \E s \in Servers : regPc[s] = "counted"
    THEN storageServerCount - 1 ELSE storageServerCount

RosterOf == [i \in 1 .. RosterLength |-> storageServers[i - 1].server]

Abstract == INSTANCE Roster WITH
    Capacity <- MAX_STORAGE_SERVERS,
    First <- Boot,
    roster <- RosterOf,
    refused <- {s \in Servers : regPc[s] = "refused"}

\* The locked, multi-step registration is one atomic admission or refusal: the
\* mutex makes the half-filled states between RegCheck and RegCopy invisible.
ImplementsRoster == Abstract!Spec

============================================================================
