---------------------------- MODULE NamingServer ----------------------------
(***************************************************************************)
(* The naming server at work: one handleClientInput thread per client, the *)
(* three detached send_request_async threads of a replicated CREATE, the   *)
(* storage servers they talk to, and the registration threads of Directory *)
(* that run at the same time.                                              *)
(*                                                                         *)
(* An agent is a naming server thread that talks to a storage server: a    *)
(* client's handler, or a job <<c, n, k>>, the asynchronous thread that    *)
(* sends the n-th command of client c to the server in slot k.             *)
(*                                                                         *)
(* Not part of this module: COPY, the acknowledgement that precedes each   *)
(* reply, the handshake inside GETPATHS, paths that end in a slash, and    *)
(* what happens inside a storage server, a request read into a recycled    *)
(* buffer included (StorageServer).                                        *)
(***************************************************************************)
EXTENDS Directory

CONSTANTS
    Clients,      \* client programs, each with its handler thread
    MaxRequests,  \* bound: commands a client sends
    Commands,     \* the commands clients choose from
    Root,         \* MOUNT, the path "."
    Dirs,         \* the paths that name directories
    Ancestors,    \* the directories above a path
    Backup,       \* Backup[k][p]: p without its "." behind ./Backup<k-1>, k = 1, 2
    MaxFaults     \* bound: storage server crashes and failing fopens

Ops == {"READ", "WRITE", "GETSIZE", "CREATE", "DELETE", "LISTALL"}
Replicas == 0 .. 2
Jobs == Clients \X (1 .. MaxRequests) \X Replicas
Agents == Clients \cup Jobs

ASSUME AgentsAssumption ==
    /\ Agents \subseteq Threads
    /\ Agents \cap Servers = {}
    /\ Clients \cap Jobs = {}
    /\ IsFiniteSet(Clients)
    /\ MaxRequests \in Nat \ {0}
    /\ MaxFaults \in Nat

ASSUME CommandsAssumption ==
    /\ Commands \subseteq [op : Ops, path : Paths]
    /\ Root \in Dirs
    /\ Dirs \subseteq Paths
    /\ Ancestors \in [Paths -> SUBSET Dirs]
    /\ \A cmd \in Commands : cmd.op = "CREATE" =>
           cmd.path \notin Dirs /\ \A k \in {1, 2} : Backup[k][cmd.path] \in Paths \ Dirs

\* Every CREATE of the instance fits in a listing, after a registration and after
\* a refresh that finds every path (the code does not check).
ASSUME RoomAssumption ==
    /\ 3 <= MAX_PATHS
    /\ IsFiniteSet(Paths)
    /\ Cardinality(Paths) + Cardinality(Clients) * MaxRequests <= MAX_PATHS
    /\ \A s \in Servers : Len(MountPaths[s]) + Cardinality(Clients) * MaxRequests <= MAX_PATHS

VARIABLES
    clientPc,   \* what each client program is doing
    requests,   \* the commands each client has sent
    answers,    \* how many replies the naming server has sent each client
    routed,     \* the storage server a client was told to contact
    received,   \* how many commands each handler has received
    pc,         \* where each agent is
    target,     \* the storage server an agent talks to
    reply,      \* what the agent's storage server has answered
    loaded,     \* the value of numPaths an agent has loaded to increment
    walk,       \* the paths a refreshing handler receives from GETPATHS
    ssState,    \* whether a storage server's listeners run
    disk,       \* what each storage server stores under each path
    faults,     \* how many faults may still happen
    stored,     \* history: paths a server has reported or stored
    acked       \* history: paths whose creation on a server a client was told of

clientVars == <<clientPc, requests, answers, routed>>
agentVars == <<received, pc, target, reply, loaded, walk>>
storeVars == <<ssState, disk, faults, stored>>
nsVars == <<clientVars, agentVars, storeVars, acked>>
vars == <<dirVars, nsVars>>

Current(c) == requests[c][received[c]]

----------------------------------------------------------------------------
(* The client program: one command at a time, the next after the reply *)

ClientSend(c, cmd) ==
    /\ clientPc[c] = "ready"
    /\ Len(requests[c]) < MaxRequests
    /\ requests' = [requests EXCEPT ![c] = Append(@, cmd)]
    /\ clientPc' = [clientPc EXCEPT ![c] = "waiting"]
    /\ UNCHANGED <<answers, routed, agentVars, storeVars, acked, dirVars>>

\* connect to the storage server of the reply; a refusal ends the client.
ClientConnect(c) ==
    /\ clientPc[c] = "routed"
    /\ clientPc' = [clientPc EXCEPT ![c] =
                       IF ssState[routed[c]] = "listening" THEN "connected" ELSE "exited"]
    /\ UNCHANGED <<requests, answers, routed, agentVars, storeVars, acked, dirVars>>

\* executeClientRequest.  READ and GETSIZE only look; WRITE opens the file with
\* mode "w", which makes it when its directory exists, and fails on a directory.
ClientServed(c) ==
    LET cmd == requests[c][Len(requests[c])]
        s == routed[c]
        opens == /\ cmd.op = "WRITE"
                 /\ cmd.path \notin Dirs
                 /\ \A q \in Ancestors[cmd.path] : disk[s][q] = "dir"
    IN
    /\ clientPc[c] = "connected"
    /\ ssState[s] = "listening"
    /\ disk' = IF opens THEN [disk EXCEPT ![s][cmd.path] = "data"] ELSE disk
    /\ stored' = IF opens THEN stored \cup {<<cmd.path, s>>} ELSE stored
    /\ clientPc' = [clientPc EXCEPT ![c] = "ready"]
    /\ UNCHANGED <<requests, answers, routed, agentVars, ssState, faults, acked, dirVars>>

----------------------------------------------------------------------------
(* The storage servers *)

\* main starts the listeners once the report is sent, without waiting for the
\* naming server's answer to it.
SSListen(s) ==
    /\ ssState[s] = "starting"
    /\ regPc[s] # "none"
    /\ ssState' = [ssState EXCEPT ![s] = "listening"]
    /\ UNCHANGED <<disk, faults, stored, clientVars, agentVars, acked, dirVars>>

\* The process dies: whoever waits for it reads the end of the stream.
SSCrash(s) ==
    /\ ssState[s] = "listening"
    /\ faults > 0
    /\ faults' = faults - 1
    /\ ssState' = [ssState EXCEPT ![s] = "down"]
    /\ reply' = [a \in Agents |->
                    IF target[a] = s /\ reply[a] = "pending" THEN "lost" ELSE reply[a]]
    /\ clientPc' = [c \in Clients |->
                       IF clientPc[c] = "connected" /\ routed[c] = s
                       THEN "ready" ELSE clientPc[c]]
    /\ UNCHANGED <<disk, stored, requests, answers, routed, received, pc, target,
                   loaded, walk, acked, dirVars>>

\* The path an agent's request names: a job for slot 1 or 2 asks for a backup.
PathOf(a) ==
    IF a \in Clients THEN Current(a).path
    ELSE LET p == requests[a[1]][a[2]].path
         IN IF a[3] = 0 THEN p ELSE Backup[a[3]][p]

OpOf(a) == IF a \in Clients THEN Current(a).op ELSE "CREATE"

\* mkdir_p of everything above a path.
WithAncestors(d, p) ==
    [q \in Paths |-> IF q \in Ancestors[p] THEN "dir" ELSE d[q]]

Asked(a) == reply[a] = "pending" /\ ssState[target[a]] = "listening"

\* executeNMRequest, CREATE of a file: the directories, then fopen with mode
\* "w", which empties a file that exists.
SSCreate(a) ==
    /\ Asked(a)
    /\ OpOf(a) = "CREATE"
    /\ disk' = [disk EXCEPT ![target[a]] =
                   [WithAncestors(@, PathOf(a)) EXCEPT ![PathOf(a)] = "empty"]]
    /\ stored' = stored \cup {<<PathOf(a), target[a]>>}
    /\ reply' = [reply EXCEPT ![a] = "4"]
    /\ UNCHANGED <<ssState, faults, clientVars, received, pc, target, loaded, walk,
                   acked, dirVars>>

\* fopen fails after the directories were made.
SSCreateFails(a) ==
    /\ Asked(a)
    /\ OpOf(a) = "CREATE"
    /\ faults > 0
    /\ faults' = faults - 1
    /\ disk' = [disk EXCEPT ![target[a]] = WithAncestors(@, PathOf(a))]
    /\ reply' = [reply EXCEPT ![a] = "3"]
    /\ UNCHANGED <<ssState, stored, clientVars, received, pc, target, loaded, walk,
                   acked, dirVars>>

\* A file is removed, a directory with all it holds.  rmdir refuses the mount
\* point itself, whose contents are gone by then.
Removed(d, p) ==
    {q \in Paths : q # Root /\ (q = p \/ (d[p] = "dir" /\ p \in Ancestors[q]))}

\* executeNMRequest, DELETE.
SSDelete(a) ==
    LET p == PathOf(a)
        d == disk[target[a]]
    IN
    /\ Asked(a)
    /\ OpOf(a) = "DELETE"
    /\ disk' = [disk EXCEPT ![target[a]] =
                   [q \in Paths |-> IF q \in Removed(d, p) THEN "absent" ELSE d[q]]]
    /\ reply' = [reply EXCEPT ![a] =
                    CASE d[p] = "absent" \/ p = Root -> "-1"
                      [] d[p] = "dir" /\ p # Root -> "2"
                      [] OTHER -> "3"]
    /\ UNCHANGED <<ssState, faults, stored, clientVars, received, pc, target, loaded,
                   walk, acked, dirVars>>

----------------------------------------------------------------------------
(* Steps that several handlers share *)

Goto(a, label) == pc' = [pc EXCEPT ![a] = label]

\* send to the client's socket; a client that waits takes the reply.
Answer(c, next) ==
    /\ answers' = [answers EXCEPT ![c] = @ + 1]
    /\ clientPc' = [clientPc EXCEPT ![c] = IF @ = "waiting" THEN next ELSE @]
    /\ UNCHANGED requests

\* connect to the target's naming server port and send the request.
Connect(a, connected, refused) ==
    IF target[a] # NULL /\ ssState[target[a]] = "listening"
    THEN Goto(a, connected) /\ reply' = [reply EXCEPT ![a] = "pending"]
    ELSE Goto(a, refused) /\ UNCHANGED reply

\* recv of one command, strip, and the acknowledgement.
Receive(c) ==
    /\ pc[c] = "idle"
    /\ received[c] < Len(requests[c])
    /\ received' = [received EXCEPT ![c] = @ + 1]
    /\ Goto(c, "dispatch")
    /\ UNCHANGED <<target, reply, loaded, walk, clientVars, storeVars, acked, dirVars>>

----------------------------------------------------------------------------
(* READ, WRITE, GETSIZE and LISTALL: answered from the directory alone *)

\* Mutant: the client is sent to the server that registered last.
LookupLatest(c) ==
    /\ pc[c] = "dispatch"
    /\ Current(c).op \in {"READ", "WRITE", "GETSIZE"}
    /\ \/ /\ ~FindsNothing(Current(c).path)
          /\ routed' = [routed EXCEPT ![c] = storageServers[storageServerCount - 1].server]
          /\ Answer(c, "routed")
       \/ /\ FindsNothing(Current(c).path)
          /\ Answer(c, "ready")
          /\ UNCHANGED routed
    /\ Goto(c, "idle")
    /\ UNCHANGED <<received, target, reply, loaded, walk, storeVars, acked, dirVars>>

Lookup(c) ==
    /\ pc[c] = "dispatch"
    /\ Current(c).op \in {"READ", "WRITE", "GETSIZE"}
    /\ \/ \E s \in Servers :
              /\ Finds(Current(c).path, s)
              /\ routed' = [routed EXCEPT ![c] = s]
              /\ Answer(c, "routed")
       \/ /\ FindsNothing(Current(c).path)
          /\ Answer(c, "ready")
          /\ UNCHANGED routed
    /\ Goto(c, "idle")
    /\ UNCHANGED <<received, target, reply, loaded, walk, storeVars, acked, dirVars>>

\* What LISTALL prints of a slot: numPaths entries, the empty ones too.
Listed(i) == {storageServers[i].accessiblePaths[j] : j \in 0 .. storageServers[i].numPaths - 1}

ListAll(c) ==
    /\ pc[c] = "dispatch"
    /\ Current(c).op = "LISTALL"
    /\ Answer(c, "ready")
    /\ Goto(c, "idle")
    /\ UNCHANGED <<routed, received, target, reply, loaded, walk, storeVars, acked, dirVars>>

----------------------------------------------------------------------------
(* CREATE *)

\* "File Already Exists" is logged and nothing is sent to the client.
CreateExists(c) ==
    /\ pc[c] = "dispatch"
    /\ Current(c).op = "CREATE"
    /\ ~FindsNothing(Current(c).path)
    /\ Goto(c, "idle")
    /\ UNCHANGED <<received, target, reply, loaded, walk, clientVars, storeVars, acked, dirVars>>

\* The path is new: address and port of slot 0 are read.
CreateMissing(c) ==
    /\ pc[c] = "dispatch"
    /\ Current(c).op = "CREATE"
    /\ FindsNothing(Current(c).path)
    /\ target' = [target EXCEPT ![c] = storageServers[0].server]
    /\ Goto(c, "notfound")
    /\ UNCHANGED <<received, reply, loaded, walk, clientVars, storeVars, acked, dirVars>>

JobsOf(c) == {c} \X {received[c]} \X Replicas

\* Mutant: the backups go to the slots counted from 0.
CreateSpreadShifted(c) ==
    /\ pc[c] = "notfound"
    /\ storageServerCount >= 3
    /\ pc' = [a \in Agents |-> CASE a = c -> "idle"
                                 [] a \in JobsOf(c) -> "spawned"
                                 [] OTHER -> pc[a]]
    /\ target' = [a \in Agents |->
                     IF a \in JobsOf(c)
                     THEN storageServers[IF a[3] = 0 THEN 0 ELSE a[3] - 1].server
                     ELSE target[a]]
    /\ UNCHANGED <<received, reply, loaded, walk, clientVars, storeVars, acked, dirVars>>

\* Three servers or more: one detached thread for each of the slots 0, 1 and 2.
\* pthread_join of a detached thread does not wait.
CreateSpread(c) ==
    /\ pc[c] = "notfound"
    /\ storageServerCount >= 3
    /\ pc' = [a \in Agents |-> CASE a = c -> "idle"
                                 [] a \in JobsOf(c) -> "spawned"
                                 [] OTHER -> pc[a]]
    /\ target' = [a \in Agents |-> IF a \in JobsOf(c) THEN storageServers[a[3]].server
                                                      ELSE target[a]]
    /\ UNCHANGED <<received, reply, loaded, walk, clientVars, storeVars, acked, dirVars>>

\* Fewer: the handler itself asks slot 0, and gives up its client if it cannot.
CreateAlone(c) ==
    /\ pc[c] = "notfound"
    /\ storageServerCount < 3
    /\ Connect(c, "asked", "returned")
    /\ UNCHANGED <<received, target, loaded, walk, clientVars, storeVars, acked, dirVars>>

\* Mutant: is_original guards the connection as well as the reply.
JobConnectOriginal(j) ==
    /\ j \in Jobs
    /\ pc[j] = "spawned"
    /\ IF j[3] = 0 THEN Connect(j, "asked", "failed")
                   ELSE Goto(j, "failed") /\ UNCHANGED reply
    /\ UNCHANGED <<received, target, loaded, walk, clientVars, storeVars, acked, dirVars>>

JobConnect(j) ==
    /\ j \in Jobs
    /\ pc[j] = "spawned"
    /\ Connect(j, "asked", "failed")
    /\ UNCHANGED <<received, target, loaded, walk, clientVars, storeVars, acked, dirVars>>

\* The slot whose listing gets the new path.
SlotUsed(a) == IF a \in Clients THEN 0 ELSE a[3]

\* The place in the listing.  The asynchronous thread uses the slot number.
PlaceUsed(a) == IF a \in Clients THEN storageServers[0].numPaths ELSE a[3]

\* Any reply but "-1", an empty one included: the path goes into the listing,
\* and numPaths is loaded to be incremented.
RecordPath(a) ==
    /\ pc[a] = "asked"
    /\ OpOf(a) = "CREATE"
    /\ reply[a] # "pending"
    /\ storageServers' =
          [storageServers EXCEPT ![SlotUsed(a)].accessiblePaths[PlaceUsed(a)] = PathOf(a)]
    /\ loaded' = [loaded EXCEPT ![a] = storageServers[SlotUsed(a)].numPaths]
    /\ Goto(a, "recording")
    /\ UNCHANGED <<received, target, reply, walk, clientVars, storeVars, acked, regPc, slotOf,
                   nextPath, storageServerMutex, storageServerCount, tableVars>>

\* Mutant: the record of slot 0 is copied whichever server made the path.
CountPathSlotZero(a) ==
    /\ pc[a] = "recording"
    /\ storageServers' = [storageServers EXCEPT ![SlotUsed(a)].numPaths = loaded[a] + 1]
    /\ target' = [target EXCEPT ![a] = storageServers[0].server]
    /\ HashAddBegin(a, PathOf(a))
    /\ Goto(a, "linking")
    /\ UNCHANGED <<received, reply, loaded, walk, clientVars, storeVars, acked, regPc, slotOf,
                   nextPath, storageServerMutex, storageServerCount>>

\* After a lost reply the handler compares a buffer it never cleared, which may
\* hold "-1" as well: then nothing is recorded.  A reply that arrives, "4" or "3",
\* is no "-1" whatever bytes follow it.
RecordNothing(c) ==
    /\ c \in Clients
    /\ pc[c] = "asked"
    /\ OpOf(c) = "CREATE"
    /\ reply[c] = "lost"
    /\ Goto(c, "linked")
    /\ UNCHANGED <<received, target, reply, loaded, walk, clientVars, storeVars, acked, dirVars>>

\* numPaths is stored, the slot's record copied for the table, and HASH_ADD_STR begun.
CountPath(a) ==
    /\ pc[a] = "recording"
    /\ storageServers' = [storageServers EXCEPT ![SlotUsed(a)].numPaths = loaded[a] + 1]
    /\ target' = [target EXCEPT ![a] = storageServers[SlotUsed(a)].server]
    /\ HashAddBegin(a, PathOf(a))
    /\ Goto(a, "linking")
    /\ UNCHANGED <<received, reply, loaded, walk, clientVars, storeVars, acked, regPc, slotOf,
                   nextPath, storageServerMutex, storageServerCount>>

\* Mutant: only the backups' paths are added to the table.
LinkPathBackups(a) ==
    /\ pc[a] = "linking"
    /\ IF SlotUsed(a) # 0 THEN HashAddLink(a, PathOf(a), target[a])
       ELSE /\ hashView' = [hashView EXCEPT ![a] = NULL]
            /\ UNCHANGED <<serversByPath, chains, raced>>
    /\ Goto(a, "linked")
    /\ UNCHANGED <<received, target, reply, loaded, walk, clientVars, storeVars, acked, regPc,
                   slotOf, nextPath, arrayVars>>

LinkPath(a) ==
    /\ pc[a] = "linking"
    /\ HashAddLink(a, PathOf(a), target[a])
    /\ Goto(a, "linked")
    /\ UNCHANGED <<received, target, reply, loaded, walk, clientVars, storeVars, acked, regPc,
                   slotOf, nextPath, arrayVars>>

Acknowledge(a, p) ==
    acked' = IF reply[a] = "4" THEN acked \cup {<<p, target[a]>>} ELSE acked

\* Mutant: is_original is not looked at.
JobReplyAll(j) ==
    /\ j \in Jobs
    /\ pc[j] = "linked"
    /\ Answer(j[1], "ready")
    /\ Acknowledge(j, PathOf(j))
    /\ Goto(j, "done")
    /\ UNCHANGED <<routed, received, target, reply, loaded, walk, storeVars, dirVars>>

\* Mutant: the thread goes back to wait for the next command like a handler.
JobReplyLoops(j) ==
    /\ j \in Jobs
    /\ pc[j] = "linked"
    /\ \/ /\ j[3] = 0 /\ reply[j] # "lost"
          /\ Answer(j[1], "ready")
          /\ Acknowledge(j, PathOf(j))
       \/ /\ j[3] # 0 \/ reply[j] = "lost"
          /\ UNCHANGED <<clientPc, requests, answers, acked>>
    /\ Goto(j, "idle")
    /\ UNCHANGED <<routed, received, target, reply, loaded, walk, storeVars, dirVars>>

\* The original's thread relays the reply; an empty reply sends nothing.  The
\* backups' threads end.
JobReply(j) ==
    /\ j \in Jobs
    /\ pc[j] = "linked"
    /\ \/ /\ j[3] = 0 /\ reply[j] # "lost"
          /\ Answer(j[1], "ready")
          /\ Acknowledge(j, PathOf(j))
       \/ /\ j[3] # 0 \/ reply[j] = "lost"
          /\ UNCHANGED <<clientPc, requests, answers, acked>>
    /\ Goto(j, "done")
    /\ UNCHANGED <<routed, received, target, reply, loaded, walk, storeVars, dirVars>>

\* The handler relays its own buffer, neither cleared before the reply is read
\* into it nor terminated after: what the client gets is the reply alone or with
\* old bytes behind it, which it cannot tell for a code; after a lost reply it is
\* anything, the empty string included.
CreateReply(c) ==
    /\ c \in Clients
    /\ pc[c] = "linked"
    /\ \/ /\ Answer(c, "ready")
          /\ Acknowledge(c, PathOf(c)) \/ UNCHANGED acked
       \/ /\ reply[c] = "lost"
          /\ UNCHANGED <<clientPc, requests, answers, acked>>
    /\ Goto(c, "idle")
    /\ UNCHANGED <<routed, received, target, reply, loaded, walk, storeVars, dirVars>>

----------------------------------------------------------------------------
(* DELETE *)
\* Mutant: an unknown path is not answered.
DeleteMissingSilent(c) ==
    /\ pc[c] = "dispatch"
    /\ Current(c).op = "DELETE"
    /\ FindsNothing(Current(c).path)
    /\ Goto(c, "idle")
    /\ UNCHANGED <<received, target, reply, loaded, walk, clientVars, storeVars, acked, dirVars>>

DeleteMissing(c) ==
    /\ pc[c] = "dispatch"
    /\ Current(c).op = "DELETE"
    /\ FindsNothing(Current(c).path)
    /\ Answer(c, "ready")
    /\ Goto(c, "idle")
    /\ UNCHANGED <<routed, received, target, reply, loaded, walk, storeVars, acked, dirVars>>

DeleteFound(c) ==
    /\ pc[c] = "dispatch"
    /\ Current(c).op = "DELETE"
    /\ \E s \in Servers : /\ Finds(Current(c).path, s)
                          /\ target' = [target EXCEPT ![c] = s]
    /\ Goto(c, "found")
    /\ UNCHANGED <<received, reply, loaded, walk, clientVars, storeVars, acked, dirVars>>

DeleteConnect(c) ==
    /\ pc[c] = "found"
    /\ Connect(c, "asked", "returned")
    /\ UNCHANGED <<received, target, loaded, walk, clientVars, storeVars, acked, dirVars>>

\* The reply is relayed, with whatever old bytes follow it in the buffer (anything,
\* or nothing, after a lost one), and the array searched for the server; the table
\* keeps its entry.  The handler does not look at the reply.
DeleteReply(c) ==
    /\ c \in Clients
    /\ pc[c] = "asked"
    /\ OpOf(c) = "DELETE"
    /\ reply[c] # "pending"
    /\ \/ Answer(c, "ready")
       \/ reply[c] = "lost" /\ UNCHANGED <<clientPc, requests, answers>>
    /\ Goto(c, "search")
    /\ UNCHANGED <<routed, received, target, reply, loaded, walk, storeVars, acked, dirVars>>

\* What a walk of the mount point finds, the mount point first.
WalkOf(d) == <<Root>> \o SetToSeq({q \in Paths \ {Root} : d[q] # "absent"})

\* The search for the server's slot stops at the first one.
IsSlotOf(i, s) ==
    /\ i < storageServerCount
    /\ storageServers[i].server = s
    /\ \A j \in Slots : j < i => storageServers[j].server # s

\* The slot found, update_list_of_accessiblepaths connects and stores the count
\* of GETPATHS in the slot; it returns at once if it cannot connect.
RefreshCount(c) ==
    /\ pc[c] = "search"
    /\ \E i \in Slots :
           /\ IsSlotOf(i, target[c])
           /\ IF ssState[target[c]] = "listening"
              THEN /\ walk' = [walk EXCEPT ![c] = WalkOf(disk[target[c]])]
                   /\ storageServers' = [storageServers EXCEPT
                                            ![i].numPaths = Len(walk'[c])]
                   /\ loaded' = [loaded EXCEPT ![c] = i]
                   /\ Goto(c, "refresh")
              ELSE /\ Goto(c, "idle")
                   /\ UNCHANGED <<walk, loaded, storageServers>>
    /\ UNCHANGED <<received, target, reply, clientVars, storeVars, acked, regPc, slotOf,
                   nextPath, storageServerMutex, storageServerCount, tableVars>>

\* "OK" arrives by itself: the listing is cleared and filled with the walk.
RefreshFill(c) ==
    /\ pc[c] = "refresh"
    /\ ssState[target[c]] = "listening"
    /\ storageServers' = [storageServers EXCEPT ![loaded[c]].accessiblePaths = ListingOf(walk[c])]
    /\ Goto(c, "idle")
    /\ UNCHANGED <<received, target, reply, loaded, walk, clientVars, storeVars, acked, regPc,
                   slotOf, nextPath, storageServerMutex, storageServerCount, tableVars>>

\* "OK" arrives together with the first path, or the stream ends: the function
\* returns with the new count and the old paths.
RefreshAbort(c) ==
    /\ pc[c] = "refresh"
    /\ Goto(c, "idle")
    /\ UNCHANGED <<received, target, reply, loaded, walk, clientVars, storeVars, acked, dirVars>>

----------------------------------------------------------------------------
NSInit ==
    /\ DirInit
    /\ clientPc = [c \in Clients |-> "ready"]
    /\ requests = [c \in Clients |-> <<>>]
    /\ answers = [c \in Clients |-> 0]
    /\ routed = [c \in Clients |-> NULL]
    /\ received = [c \in Clients |-> 0]
    /\ pc = [a \in Agents |-> IF a \in Clients THEN "idle" ELSE "unborn"]
    /\ target = [a \in Agents |-> NULL]
    /\ reply = [a \in Agents |-> "none"]
    /\ loaded = [a \in Agents |-> 0]
    /\ walk = [c \in Clients |-> <<>>]
    /\ ssState = [s \in Servers |-> IF s \in BootServers THEN "listening" ELSE "starting"]
    /\ disk = [s \in Servers |-> [p \in Paths |->
                  IF \E k \in 1 .. Len(MountPaths[s]) : MountPaths[s][k] = p
                  THEN IF p \in Dirs THEN "dir" ELSE "data"
                  ELSE "absent"]]
    /\ faults = MaxFaults
    /\ stored = {ps \in Paths \X Servers :
                    \E k \in 1 .. Len(MountPaths[ps[2]]) : MountPaths[ps[2]][k] = ps[1]}
    /\ acked = {}

\* What the handler thread of a client does.
Handler(c) ==
    \/ Receive(c)
    \/ Lookup(c)
    \/ ListAll(c)
    \/ CreateExists(c)
    \/ CreateMissing(c)
    \/ CreateSpread(c)
    \/ CreateAlone(c)
    \/ RecordNothing(c)
    \/ CreateReply(c)
    \/ DeleteMissing(c)
    \/ DeleteFound(c)
    \/ DeleteConnect(c)
    \/ DeleteReply(c)
    \/ RefreshCount(c)
    \/ RefreshFill(c)
    \/ RefreshAbort(c)

\* What both kinds of agents do once they have the reply to a CREATE.
IndexPath(a) ==
    \/ RecordPath(a)
    \/ CountPath(a)
    \/ LinkPath(a)

Job(j) == JobConnect(j) \/ JobReply(j)

Serve(a) == SSCreate(a) \/ SSDelete(a)

ClientProgram(c) == ClientConnect(c) \/ ClientServed(c)

Registration(s) == Register(s) /\ UNCHANGED nsVars

NSNext ==
    \/ \E s \in Servers : Registration(s) \/ SSListen(s) \/ SSCrash(s)
    \/ \E c \in Clients : \/ Handler(c)
                          \/ ClientProgram(c)
                          \/ \E cmd \in Commands : ClientSend(c, cmd)
    \/ \E j \in Jobs : Job(j)
    \/ \E a \in Agents : IndexPath(a) \/ Serve(a) \/ SSCreateFails(a)

NSSpec == NSInit /\ [][NSNext]_vars

\* Threads of the naming server, of live storage servers and of clients that
\* have been answered are scheduled; sending commands, starting servers, faults
\* are not promised.
NSFairSpec ==
    /\ NSSpec
    /\ \A s \in Servers : WF_vars(RegThread(s) /\ UNCHANGED nsVars)
    /\ \A c \in Clients : WF_vars(Handler(c)) /\ WF_vars(ClientProgram(c))
    /\ \A j \in Jobs : WF_vars(Job(j))
    /\ \A a \in Agents : WF_vars(IndexPath(a)) /\ WF_vars(Serve(a))

----------------------------------------------------------------------------
(* Properties *)

HandlerStates == {"idle", "dispatch", "notfound", "found", "asked", "recording", "linking",
                  "linked", "search", "refresh", "returned"}
JobStates == {"unborn", "spawned", "asked", "recording", "linking", "linked", "done", "failed"}

\* Type invariant of the naming server and what surrounds it.
NSTypeOK ==
    /\ DirTypeOK
    /\ clientPc \in [Clients -> {"ready", "waiting", "routed", "connected", "exited"}]
    /\ requests \in [Clients -> Seq(Commands)]
    /\ answers \in [Clients -> Nat]
    /\ routed \in [Clients -> Servers \cup {NULL}]
    /\ received \in [Clients -> 0 .. MaxRequests]
    /\ \A a \in Agents : pc[a] \in IF a \in Clients THEN HandlerStates ELSE JobStates
    /\ target \in [Agents -> Servers \cup {NULL}]
    /\ reply \in [Agents -> {"none", "pending", "lost", "-1", "2", "3", "4"}]
    /\ loaded \in [Agents -> Nat]
    /\ walk \in [Clients -> Seq(Paths)]
    /\ ssState \in [Servers -> {"starting", "listening", "down"}]
    /\ disk \in [Servers -> [Paths -> {"absent", "dir", "empty", "data"}]]
    /\ faults \in 0 .. MaxFaults
    /\ stored \subseteq Paths \X Servers
    /\ acked \subseteq Paths \X Servers

\* The naming server sends a client at most one reply for each command, and a
\* client is ready for its next command only after the reply to its last one.
\* A CREATE has three threads that could each answer it, and its handler has
\* moved on by then; one reply too many and every later one is read as the
\* answer to the wrong command.
OneAnswerPerRequest ==
    \A c \in Clients :
        /\ answers[c] <= Len(requests[c])
        /\ clientPc[c] # "waiting" => answers[c] = Len(requests[c])

\* As long as no additions overlapped, a client that was told "4" for a CREATE
\* can have the path found at the server that made it: the reply follows the
\* insertion, in the handler and in the asynchronous threads.
CreateAckedLocatable ==
    ~raced => \A ps \in acked : HasEntry(ps[1], ps[2])

\* Without faults, whatever the table says a server has, that server reported
\* or stored at some time: no thread indexes a path under another thread's
\* server, whichever of the registrations and creations interleave.
EntriesWereStored ==
    faults = MaxFaults =>
        \A b \in Buckets : \A i \in 1 .. Len(chains[b]) :
            <<chains[b][i].path, chains[b][i].server>> \in stored

\* The three threads of one CREATE talk to three different servers, also when
\* the third slot is being filled as the threads are started.
ReplicasApart ==
    \A c \in Clients, n \in 1 .. MaxRequests : \A k, m \in Replicas :
        k # m /\ target[<<c, n, k>>] # NULL => target[<<c, n, k>>] # target[<<c, n, m>>]

\* The agent's thread has ended because its storage server does not listen (yet).
GaveUp(a) ==
    /\ pc[a] \in {"returned", "failed"}
    /\ target[a] # NULL => ssState[target[a]] # "listening"

\* While storage servers accept connections and stay up, every command is
\* answered, but for a CREATE that finds its path in the table.
AnsweredUnlessKnown ==
    \A c \in Clients :
        /\ (/\ clientPc[c] = "waiting"
            /\ requests[c][Len(requests[c])].op # "CREATE"
            /\ pc[c] # "returned")
               ~> clientPc[c] # "waiting" \/ GaveUp(c) \/ faults < MaxFaults
        /\ pc[c] = "notfound"
               ~> clientPc[c] # "waiting" \/ GaveUp(c)
                  \/ (\E n \in 1 .. MaxRequests : GaveUp(<<c, n, 0>>))
                  \/ faults < MaxFaults

\* As long as no additions overlapped, a file with data on a server that has been
\* told "Registration Successful" is in the table under that server: data gets
\* there by a WRITE that the table routed, or was reported.  So a CREATE that looks
\* the path up afterwards finds it, and does not send it to be emptied.
DataIsIndexed ==
    ~raced => \A s \in Servers, p \in Paths :
                  regPc[s] = "acked" /\ disk[s][p] = "data" => HasEntry(p, s)

\* While storage servers accept connections and stay up, each of the three
\* servers a CREATE is sent to stores its copy, though nobody waits for the
\* backups' threads.
ReplicasAreMade ==
    \A j \in Jobs : pc[j] = "spawned" ~>
        \/ pc[j] # "unborn" /\ <<PathOf(j), target[j]>> \in stored
        \/ GaveUp(j) \/ faults < MaxFaults

----------------------------------------------------------------------------
(* The naming server seen from outside: it implements Catalogue *)

\* The entries of the table that a look-up can find: each in its path's bucket.
TableEntries ==
    LET In(b) == {chains[b][i] : i \in 1 .. Len(chains[b])}
    IN  UNION {{<<e.path, e.server>> : e \in {x \in In(b) : Bucket[x.path] = b}} : b \in Buckets}

Service == INSTANCE Catalogue WITH
    entries <- TableEntries,
    loose <- raced,
    faulty <- faults < MaxFaults

\* The handlers and the detached threads, the unlocked table and the storage
\* servers are together one catalogue: every reply follows from what the table
\* and the servers hold when it is sent, although the thread that sends it looked
\* the path up, created it and listed it in steps that others interleave with.
ImplementsCatalogue == Service!Spec

============================================================================
