------------------------- MODULE NamingServerProofs -------------------------
(***************************************************************************)
(* Proofs that the naming server at work keeps its promises while clients, *)
(* handlers, asynchronous CREATE threads, storage servers and registration *)
(* threads interleave, for every number of them, and with crashes.         *)
(***************************************************************************)
EXTENDS NamingServer, DirectoryProofs, FiniteSetTheorems

\* An agent with a command at hand.
Busy(a) == IF a \in Clients THEN pc[a] \notin {"idle", "returned"} ELSE pc[a] # "unborn"

\* An agent between the connection of a CREATE and the end of its work for it.
Creating(a) == pc[a] \in {"asked", "recording", "linking", "linked"} /\ OpOf(a) = "CREATE"

\* A handler that still owes its client the reply, and a job that may send it.
Owing == {"dispatch", "notfound", "found", "asked", "recording", "linking", "linked"}
Live == {"spawned", "asked", "recording", "linking", "linked"}

\* The commands a handler and its jobs work on are commands of the client, and
\* fit the place in the code the thread has reached.
RequestInv ==
    /\ \A c \in Clients :
           /\ Len(requests[c]) <= MaxRequests
           /\ received[c] <= Len(requests[c])
           /\ Busy(c) => received[c] >= 1
           /\ pc[c] \in {"notfound", "recording", "linking", "linked"} =>
                  Current(c).op = "CREATE"
           /\ pc[c] = "found" => Current(c).op = "DELETE"
    /\ \A j \in Jobs : Busy(j) =>
           /\ requests[j[1]][j[2]].op = "CREATE"
           /\ \/ j[2] < received[j[1]]
              \/ j[2] = received[j[1]] /\ pc[j[1]] = "idle"

\* An agent that creates talks to the server in the slot it will write to.
TargetInv ==
    /\ \A c \in Clients :
           /\ pc[c] \in {"found", "asked", "search", "refresh"} => target[c] # NULL
           /\ pc[c] = "notfound" /\ target[c] # NULL => storageServers[0].server = target[c]
    /\ \A j \in Jobs : target[j] # NULL =>
           j[3] \in Slots /\ storageServers[j[3]].server = target[j]
    /\ \A a \in Agents : Creating(a) =>
           target[a] # NULL /\ storageServers[SlotUsed(a)].server = target[a]

\* A reply is awaited only by an agent that has asked.
ReplyInv == \A a \in Agents : reply[a] = "pending" => pc[a] = "asked"

\* A client that goes to a storage server was told one for a command it has sent.
RoutedInv ==
    \A c \in Clients : clientPc[c] \in {"routed", "connected"} =>
        routed[c] # NULL /\ Len(requests[c]) >= 1

\* An agent inside HASH_ADD_STR has read a table of servers with slots.
ViewInv ==
    \A a \in Agents : pc[a] = "linking" =>
        hashView[a] \in TableView /\ Within(hashView[a].chain, CopiedServers)

\* The commands that may still add a path to the listing in slot k.
Unused(k) ==
    {cn \in Clients \X (1 .. MaxRequests) :
        \/ cn[2] > received[cn[1]]
        \/ /\ cn[2] = received[cn[1]]
           /\ pc[cn[1]] \in {"dispatch", "notfound", "found", "asked", "recording"}
        \/ /\ k \in Replicas
           /\ pc[<<cn[1], cn[2], k>>] \in {"spawned", "asked", "recording"}}

\* There is room in each listing for what may still be added, counted from the
\* listing as it is and as any agent has loaded it.
RoomInv ==
    /\ \A k \in Slots : storageServers[k].numPaths + Cardinality(Unused(k)) <= MAX_PATHS
    /\ \A a \in Agents : pc[a] = "recording" =>
           loaded[a] + Cardinality(Unused(SlotUsed(a))) <= MAX_PATHS

\* A client waits exactly while its last command is unanswered, and then at most
\* one thread can answer it: the handler, or the job for the original.
AnswerInv ==
    /\ \A c \in Clients :
           /\ clientPc[c] = "waiting" => answers[c] + 1 = Len(requests[c])
           /\ clientPc[c] # "waiting" => answers[c] = Len(requests[c])
           /\ received[c] < Len(requests[c]) =>
                  clientPc[c] = "waiting" /\ received[c] + 1 = Len(requests[c])
           /\ pc[c] \in Owing => clientPc[c] = "waiting" /\ received[c] = Len(requests[c])
    /\ \A j \in Jobs : j[3] = 0 /\ pc[j] \in Live =>
           /\ clientPc[j[1]] = "waiting"
           /\ j[2] = received[j[1]]
           /\ received[j[1]] = Len(requests[j[1]])
           /\ pc[j[1]] = "idle"

\* The path is in the table before the client is told of it.
AckInv ==
    ~raced => \A a \in Agents : pc[a] = "linked" /\ reply[a] = "4" =>
                  HasEntry(PathOf(a), target[a])

\* The entries whose path their server has reported or stored.
StoredEntries == {e \in Entry : <<e.path, e.server>> \in stored}

\* A thread inside HASH_ADD_STR.
Linking(t) == (t \in Servers /\ regPc[t] = "linking") \/ (t \in Agents /\ pc[t] = "linking")

\* Without faults a server that has answered a CREATE has stored the path, and
\* what threads have read of the table was stored, as the table itself.
StoredInv ==
    /\ \A s \in Servers : \A k \in 1 .. Len(MountPaths[s]) : <<MountPaths[s][k], s>> \in stored
    /\ faults = MaxFaults =>
           /\ \A b \in Buckets : Among(chains[b], StoredEntries)
           /\ \A t \in Servers \cup Agents : Linking(t) =>
                  Among(hashView[t].chain, StoredEntries)
           /\ \A a \in Agents : Creating(a) =>
                  \/ reply[a] = "pending"
                  \/ reply[a] = "4" /\ <<PathOf(a), target[a]>> \in stored

PcTyped == pc \in [Agents -> HandlerStates \cup JobStates]
WorkInv == RequestInv /\ TargetInv /\ ReplyInv /\ ViewInv
NSInv ==
    /\ NSTypeOK /\ PcTyped /\ DirInv
    /\ WorkInv /\ RoutedInv
    /\ RoomInv
    /\ AnswerInv
    /\ AckInv /\ CreateAckedLocatable
    /\ StoredInv

----------------------------------------------------------------------------
(* The control flow of handlers and jobs *)

\* The steps an agent takes by itself, from where it is to label.
Edge(a, label) ==
    \/ /\ a \in Clients /\ pc[a] = "dispatch"
       /\ \/ label = "idle"
          \/ label = "notfound" /\ OpOf(a) = "CREATE"
          \/ label = "found" /\ OpOf(a) = "DELETE"
    \/ a \in Clients /\ pc[a] \in {"notfound", "found"} /\ label \in {"asked", "returned"}
    \/ a \in Jobs /\ pc[a] = "spawned" /\ label \in {"asked", "failed"}
    \/ pc[a] = "asked" /\ label = "recording" /\ OpOf(a) = "CREATE"
    \/ a \in Clients /\ pc[a] = "asked" /\ label = "linked" /\ OpOf(a) = "CREATE"
    \/ a \in Clients /\ pc[a] = "asked" /\ label = "search" /\ OpOf(a) = "DELETE"
    \/ pc[a] = "recording" /\ label = "linking"
    \/ pc[a] = "linking" /\ label = "linked"
    \/ a \in Clients /\ pc[a] = "linked" /\ label = "idle"
    \/ a \in Jobs /\ pc[a] = "linked" /\ label = "done"
    \/ a \in Clients /\ pc[a] = "search" /\ label \in {"refresh", "idle"}
    \/ a \in Clients /\ pc[a] = "refresh" /\ label = "idle"

Moves(a, label) ==
    /\ Edge(a, label)
    /\ pc' = [pc EXCEPT ![a] = label]
    /\ UNCHANGED <<received, requests>>

\* Every step of the naming server is the receipt of a command, the start of the
\* three jobs of a CREATE, one step of one agent, or none of an agent.
LEMMA ControlFlow ==
    ASSUME NSNext
    PROVE  \/ \E c \in Clients : Receive(c)
           \/ \E c \in Clients : CreateSpread(c)
           \/ \E a \in Agents : \E label \in HandlerStates \cup JobStates : Moves(a, label)
           \/ UNCHANGED <<pc, received>>
<1> DEFINE Goal == \/ \E c \in Clients : Receive(c)
                   \/ \E c \in Clients : CreateSpread(c)
                   \/ \E a \in Agents : \E label \in HandlerStates \cup JobStates :
                          Moves(a, label)
                   \/ UNCHANGED <<pc, received>>
<1>1. ASSUME NEW s \in Servers, Registration(s) \/ SSListen(s) \/ SSCrash(s) PROVE Goal
  BY <1>1 DEF Registration, SSListen, SSCrash, nsVars, agentVars
<1>2. ASSUME NEW c \in Clients, ClientProgram(c) \/ \E cmd \in Commands : ClientSend(c, cmd)
      PROVE  Goal
  BY <1>2 DEF ClientProgram, ClientConnect, ClientServed, ClientSend, agentVars
<1>3. ASSUME NEW a \in Agents, Serve(a) \/ SSCreateFails(a) PROVE Goal
  BY <1>3 DEF Serve, SSCreate, SSDelete, SSCreateFails
<1>4. ASSUME NEW c \in Clients, Handler(c) PROVE Goal
  <2> USE DEF Goto, HandlerStates, clientVars
  <2>0. c \in Agents /\ OpOf(c) = Current(c).op
    BY DEF Agents, OpOf
  <2>1. CASE Lookup(c) \/ ListAll(c) \/ CreateExists(c) \/ DeleteMissing(c)
    <3>1. Moves(c, "idle")
      BY <2>1 DEF Lookup, ListAll, CreateExists, DeleteMissing, Answer, Moves, Edge
    <3> QED BY <3>1, <2>0
  <2>2. CASE CreateMissing(c)
    <3>1. Moves(c, "notfound")
      BY <2>0, <2>2 DEF CreateMissing, Moves, Edge
    <3> QED BY <3>1, <2>0
  <2>3. CASE DeleteFound(c)
    <3>1. Moves(c, "found")
      BY <2>0, <2>3 DEF DeleteFound, Moves, Edge
    <3> QED BY <3>1, <2>0
  <2>4. CASE CreateAlone(c) \/ DeleteConnect(c)
    <3>1. Moves(c, "asked") \/ Moves(c, "returned")
      BY <2>4 DEF CreateAlone, DeleteConnect, Connect, Moves, Edge
    <3> QED BY <3>1, <2>0
  <2>5. CASE RecordNothing(c)
    <3>1. Moves(c, "linked")
      BY <2>5 DEF RecordNothing, Moves, Edge
    <3> QED BY <3>1, <2>0
  <2>6. CASE CreateReply(c) \/ RefreshFill(c) \/ RefreshAbort(c)
    <3>1. Moves(c, "idle")
      BY <2>6 DEF CreateReply, RefreshFill, RefreshAbort, Answer, Moves, Edge
    <3> QED BY <3>1, <2>0
  <2>7. CASE DeleteReply(c)
    <3>1. Moves(c, "search")
      BY <2>7 DEF DeleteReply, Answer, Moves, Edge
    <3> QED BY <3>1, <2>0
  <2>8. CASE RefreshCount(c)
    <3>1. Moves(c, "refresh") \/ Moves(c, "idle")
      BY <2>8 DEF RefreshCount, Moves, Edge
    <3> QED BY <3>1, <2>0
  <2>9. CASE Receive(c) \/ CreateSpread(c)
    BY <2>9
  <2> QED BY <1>4, <2>1, <2>2, <2>3, <2>4, <2>5, <2>6, <2>7, <2>8, <2>9 DEF Handler
<1>5. ASSUME NEW j \in Jobs, Job(j) PROVE Goal
  <2> USE DEF Goto, JobStates, clientVars
  <2>0. j \in Agents
    BY DEF Agents
  <2>1. CASE JobConnect(j)
    <3>1. Moves(j, "asked") \/ Moves(j, "failed")
      BY <2>1 DEF JobConnect, Connect, Moves, Edge
    <3> QED BY <3>1, <2>0
  <2>2. CASE JobReply(j)
    <3>1. Moves(j, "done")
      BY <2>2 DEF JobReply, Answer, Moves, Edge
    <3> QED BY <3>1, <2>0
  <2> QED BY <1>5, <2>1, <2>2 DEF Job
<1>6. ASSUME NEW a \in Agents, IndexPath(a) PROVE Goal
  <2> USE DEF Goto, JobStates, clientVars
  <2>1. CASE RecordPath(a)
    <3>1. Moves(a, "recording")
      BY <2>1 DEF RecordPath, Moves, Edge
    <3> QED BY <3>1
  <2>2. CASE CountPath(a)
    <3>1. Moves(a, "linking")
      BY <2>2 DEF CountPath, Moves, Edge
    <3> QED BY <3>1
  <2>3. CASE LinkPath(a)
    <3>1. Moves(a, "linked")
      BY <2>3 DEF LinkPath, Moves, Edge
    <3> QED BY <3>1
  <2> QED BY <1>6, <2>1, <2>2, <2>3 DEF IndexPath
<1> QED BY <1>1, <1>2, <1>3, <1>4, <1>5, <1>6 DEF NSNext

\* Commands are only added, by the client they belong to.
LEMMA RequestsGrow ==
    ASSUME NSTypeOK, NSNext
    PROVE  \/ UNCHANGED requests
           \/ \E c \in Clients, cmd \in Commands : ClientSend(c, cmd)
<1>1. ASSUME NEW c \in Clients, Handler(c) PROVE UNCHANGED requests
  BY <1>1
  DEF Handler, Receive, Lookup, ListAll, CreateExists, CreateMissing, CreateSpread,
      CreateAlone, RecordNothing, CreateReply, DeleteMissing, DeleteFound, DeleteConnect,
      DeleteReply, RefreshCount, RefreshFill, RefreshAbort, Answer, clientVars
<1>2. ASSUME NEW j \in Jobs, Job(j) PROVE UNCHANGED requests
  BY <1>2 DEF Job, JobConnect, JobReply, Answer, clientVars
<1>3. ASSUME NEW a \in Agents, IndexPath(a) \/ Serve(a) \/ SSCreateFails(a)
      PROVE  UNCHANGED requests
  BY <1>3
  DEF IndexPath, RecordPath, CountPath, LinkPath, Serve, SSCreate, SSDelete, SSCreateFails,
      clientVars
<1>4. ASSUME NEW s \in Servers, Registration(s) \/ SSListen(s) \/ SSCrash(s)
      PROVE  UNCHANGED requests
  BY <1>4 DEF Registration, SSListen, SSCrash, nsVars, clientVars
<1>5. ASSUME NEW c \in Clients, ClientProgram(c) PROVE UNCHANGED requests
  BY <1>5 DEF ClientProgram, ClientConnect, ClientServed
<1> QED BY <1>1, <1>2, <1>3, <1>4, <1>5 DEF NSNext

\* A job names its client, the number of the command and its replica, and is no
\* client itself.
LEMMA JobParts ==
    ASSUME NEW j \in Jobs
    PROVE  /\ j \in Agents /\ j \notin Clients
           /\ j[1] \in Clients /\ j[2] \in 1 .. MaxRequests /\ j[3] \in Replicas
           /\ j = <<j[1], j[2], j[3]>>
BY AgentsAssumption DEF Jobs, Agents

\* A command once sent keeps its number.
LEMMA RequestsKept ==
    ASSUME NSTypeOK, NSNext, NEW c \in Clients, NEW n \in 1 .. Len(requests[c])
    PROVE  n \in 1 .. Len(requests'[c]) /\ requests'[c][n] = requests[c][n]
<1>1. CASE UNCHANGED requests
  BY <1>1
<1>2. ASSUME NEW d \in Clients, NEW cmd \in Commands, ClientSend(d, cmd)
      PROVE  n \in 1 .. Len(requests'[c]) /\ requests'[c][n] = requests[c][n]
  <2>1. /\ requests' = [requests EXCEPT ![d] = Append(@, cmd)]
        /\ requests \in [Clients -> Seq(Commands)]
    BY <1>2 DEF ClientSend, NSTypeOK
  <2>2. requests[c] \in Seq(Commands)
    BY <2>1
  <2>3. CASE c = d
    <3>1. requests'[c] = Append(requests[c], cmd)
      BY <2>1, <2>3
    <3> QED BY <3>1, <2>2, AppendProperties
  <2>4. CASE c # d
    BY <2>1, <2>4
  <2> QED BY <2>3, <2>4
<1> QED BY <1>1, <1>2, RequestsGrow

\* An agent at work on a command stays with it.
LEMMA WorkKept ==
    ASSUME NSTypeOK, RequestInv, NSNext, NEW a \in Agents, Busy(a)
    PROVE  /\ PathOf(a)' = PathOf(a) /\ OpOf(a)' = OpOf(a)
           /\ a \in Clients => received'[a] = received[a] /\ Current(a)' = Current(a)
           /\ a \in Jobs => /\ a[2] \in 1 .. Len(requests[a[1]])
                            /\ requests'[a[1]][a[2]] = requests[a[1]][a[2]]
<1>1. CASE a \in Clients
  <2>1. /\ received[a] \in 1 .. Len(requests[a]) /\ pc[a] \notin {"idle", "returned"}
        /\ DOMAIN received = Clients
    BY <1>1 DEF RequestInv, Busy, NSTypeOK
  <2>2. received'[a] = received[a]
    <3>1. ASSUME NEW c \in Clients, Receive(c) PROVE received'[a] = received[a]
      BY <3>1, <2>1, <1>1 DEF Receive
    <3> QED BY <3>1, ControlFlow DEF CreateSpread, Moves
  <2>3. requests'[a][received[a]] = requests[a][received[a]]
    BY <1>1, <2>1, RequestsKept
  <2>4. Current(a)' = Current(a)
    BY <2>2, <2>3 DEF Current
  <2>5. a \notin Jobs
    BY <1>1, AgentsAssumption
  <2> QED BY <1>1, <2>2, <2>4, <2>5 DEF PathOf, OpOf
<1>2. CASE a \in Jobs
  <2>1. a \notin Clients /\ a[1] \in Clients /\ a[2] \in 1 .. MaxRequests
    BY <1>2, JobParts
  <2>2. a[2] \in 1 .. Len(requests[a[1]])
    <3>1. /\ received[a[1]] <= Len(requests[a[1]])
          /\ a[2] < received[a[1]] \/ a[2] = received[a[1]]
      BY <1>2, <2>1 DEF RequestInv
    <3>2. Len(requests[a[1]]) \in Nat /\ received[a[1]] \in Nat
      BY <2>1, AgentsAssumption DEF NSTypeOK
    <3> QED BY <2>1, <3>1, <3>2, AgentsAssumption
  <2>3. requests'[a[1]][a[2]] = requests[a[1]][a[2]]
    BY <2>1, <2>2, RequestsKept
  <2> QED BY <2>1, <2>2, <2>3 DEF PathOf, OpOf
<1> QED BY <1>1, <1>2 DEF Agents

\* The path an agent works on is a path of the instance, and a file to create.
LEMMA WorkTyped ==
    ASSUME NSTypeOK, RequestInv, NEW a \in Agents, Busy(a)
    PROVE  PathOf(a) \in Paths
<1>1. CASE a \in Clients
  <2>1. received[a] \in 1 .. Len(requests[a]) /\ requests[a] \in Seq(Commands)
    BY <1>1 DEF RequestInv, NSTypeOK
  <2>2. Current(a) \in Commands
    BY <2>1 DEF Current
  <2>3. Current(a).path \in Paths
    BY <2>2, CommandsAssumption
  <2> QED BY <1>1, <2>3 DEF PathOf
<1>2. CASE a \in Jobs
  <2>1. /\ a \notin Clients /\ a[1] \in Clients /\ a[2] \in 1 .. MaxRequests
        /\ a[3] \in Replicas
    BY <1>2, JobParts
  <2>2. /\ received[a[1]] <= Len(requests[a[1]])
        /\ a[2] < received[a[1]] \/ a[2] = received[a[1]]
        /\ requests[a[1]][a[2]].op = "CREATE"
    BY <1>2, <2>1 DEF RequestInv
  <2>3. requests[a[1]] \in Seq(Commands) /\ received[a[1]] \in Nat
    BY <2>1, AgentsAssumption DEF NSTypeOK
  <2>4. a[2] \in 1 .. Len(requests[a[1]])
    BY <2>1, <2>2, <2>3, AgentsAssumption
  <2>5. requests[a[1]][a[2]] \in Commands
    BY <2>3, <2>4
  <2>6. /\ requests[a[1]][a[2]].path \in Paths
        /\ \A k \in {1, 2} : Backup[k][requests[a[1]][a[2]].path] \in Paths
    BY <2>2, <2>5, CommandsAssumption
  <2>7. a[3] = 0 \/ a[3] \in {1, 2}
    BY <2>1 DEF Replicas
  <2> QED BY <2>1, <2>6, <2>7 DEF PathOf
<1> QED BY <1>1, <1>2 DEF Agents

\* A replicated CREATE frees its handler and starts its three jobs, each with
\* the server in its slot.
LEMMA SpreadStarts ==
    ASSUME NSTypeOK, PcTyped, RequestInv, NEW d \in Clients, CreateSpread(d)
    PROVE  /\ pc[d] = "notfound" /\ pc'[d] = "idle"
           /\ \A c \in Clients : pc'[c] = "idle" \/ pc'[c] = pc[c]
           /\ \A c \in Clients : c # d => pc'[c] = pc[c]
           /\ \A c \in Clients : target'[c] = target[c]
           /\ \A j \in Jobs :
                  \/ /\ j[1] = d /\ j[2] = received[d]
                     /\ pc'[j] = "spawned" /\ target'[j] = storageServers[j[3]].server
                  \/ /\ ~(j[1] = d /\ j[2] = received[d])
                     /\ pc'[j] = pc[j] /\ target'[j] = target[j]
           /\ pc' \in [Agents -> HandlerStates \cup JobStates]
           /\ DOMAIN target' = Agents
<1>1. /\ pc[d] = "notfound"
      /\ pc' = [a \in Agents |-> CASE a = d -> "idle"
                                   [] a \in JobsOf(d) -> "spawned"
                                   [] OTHER -> pc[a]]
      /\ target' = [a \in Agents |-> IF a \in JobsOf(d) THEN storageServers[a[3]].server
                                                        ELSE target[a]]
  BY DEF CreateSpread
<1>2. received[d] \in 1 .. MaxRequests
  <2>1. received[d] \in 0 .. MaxRequests
    BY DEF NSTypeOK
  <2>2. Busy(d)
    BY <1>1 DEF Busy
  <2>3. received[d] >= 1
    BY <2>2 DEF RequestInv
  <2> QED BY <2>1, <2>3, AgentsAssumption
<1>3. JobsOf(d) \subseteq Jobs
  BY <1>2 DEF JobsOf, Jobs
<1>4. \A c \in Clients : c \in Agents /\ c \notin JobsOf(d)
  BY <1>3, AgentsAssumption DEF Agents
<1>5. \A j \in Jobs : j \in Agents /\ j # d
  BY AgentsAssumption DEF Agents
<1>6. \A j \in Jobs : j \in JobsOf(d) <=> j[1] = d /\ j[2] = received[d]
  <2> TAKE j \in Jobs
  <2>1. j = <<j[1], j[2], j[3]>> /\ j[3] \in Replicas
    BY JobParts
  <2> QED BY <2>1 DEF JobsOf
<1>7. pc'[d] = "idle"
  BY <1>1, <1>4
<1>8. \A c \in Clients : c # d => pc'[c] = pc[c]
  BY <1>1, <1>4
<1>9. \A c \in Clients : target'[c] = target[c]
  BY <1>1, <1>4
<1>10. \A j \in Jobs :
          /\ j \in JobsOf(d) =>
                 pc'[j] = "spawned" /\ target'[j] = storageServers[j[3]].server
          /\ j \notin JobsOf(d) => pc'[j] = pc[j] /\ target'[j] = target[j]
  BY <1>1, <1>5
<1>11. \A a \in Agents : pc'[a] \in {"idle", "spawned", pc[a]}
  BY <1>1, <1>7, <1>8, <1>10 DEF Agents
<1>12. pc' \in [Agents -> HandlerStates \cup JobStates]
  BY <1>1, <1>11 DEF PcTyped, HandlerStates, JobStates
<1>13. DOMAIN target' = Agents
  BY <1>1
<1> QED BY <1>1, <1>6, <1>7, <1>8, <1>9, <1>10, <1>12, <1>13

\* Commands and control flow stay in step: RequestInv is inductive.
LEMMA RequestStep ==
    ASSUME NSTypeOK, PcTyped, RequestInv, NSNext
    PROVE  RequestInv'
<1>0. /\ requests \in [Clients -> Seq(Commands)] /\ received \in [Clients -> 0 .. MaxRequests]
      /\ DOMAIN pc = Agents /\ MaxRequests \in Nat /\ Clients \subseteq Agents
      /\ \A c \in Clients : c \notin Jobs
  BY AgentsAssumption DEF NSTypeOK, PcTyped, Agents
<1>1. \A c \in Clients : requests'[c] \in Seq(Commands) /\ Len(requests'[c]) <= MaxRequests
                         /\ Len(requests[c]) <= Len(requests'[c])
  <2> TAKE c \in Clients
  <2>0. requests[c] \in Seq(Commands) /\ Len(requests[c]) <= MaxRequests
    BY <1>0 DEF RequestInv
  <2>1. CASE UNCHANGED requests
    BY <2>0, <2>1
  <2>2. ASSUME NEW d \in Clients, NEW cmd \in Commands, ClientSend(d, cmd)
        PROVE  requests'[c] \in Seq(Commands) /\ Len(requests'[c]) <= MaxRequests
               /\ Len(requests[c]) <= Len(requests'[c])
    <3>1. requests' = [requests EXCEPT ![d] = Append(@, cmd)] /\ Len(requests[d]) < MaxRequests
      BY <2>2 DEF ClientSend
    <3>2. requests'[c] = IF c = d THEN Append(requests[c], cmd) ELSE requests[c]
      BY <3>1, <1>0
    <3> QED BY <2>0, <3>1, <3>2, AppendProperties, <1>0
  <2> QED BY <2>1, <2>2, RequestsGrow
<1>2. ASSUME NEW c \in Clients
      PROVE  /\ received'[c] \in Nat
             /\ received'[c] <= Len(requests'[c])
             /\ Busy(c)' => received'[c] >= 1
             /\ pc'[c] \in {"notfound", "recording", "linking", "linked"} =>
                    Current(c)'.op = "CREATE"
             /\ pc'[c] = "found" => Current(c)'.op = "DELETE"
  <2>0. /\ received[c] \in Nat /\ Len(requests[c]) \in Nat /\ Len(requests'[c]) \in Nat
        /\ received[c] <= Len(requests[c]) /\ Len(requests[c]) <= Len(requests'[c])
    BY <1>0, <1>1 DEF RequestInv
  <2>1. ASSUME NEW d \in Clients, Receive(d) PROVE <1>2!2
    <3>1. /\ pc[d] = "idle" /\ received[d] < Len(requests[d])
          /\ received' = [received EXCEPT ![d] = @ + 1]
          /\ pc' = [pc EXCEPT ![d] = "dispatch"] /\ UNCHANGED requests
      BY <2>1 DEF Receive, Goto, clientVars
    <3>2. CASE c = d
      <4>1. pc'[c] = "dispatch" /\ received'[c] = received[c] + 1
        BY <3>1, <3>2, <1>0
      <4> QED BY <4>1, <2>0, <3>1, <3>2
    <3>3. CASE c # d
      <4>1. pc'[c] = pc[c] /\ received'[c] = received[c] /\ requests'[c] = requests[c]
        BY <3>1, <3>3, <1>0
      <4> QED BY <4>1, <2>0, <1>0 DEF RequestInv, Busy, Current
    <3> QED BY <3>2, <3>3
  <2>2. ASSUME NEW d \in Clients, CreateSpread(d) PROVE <1>2!2
    <3>1. UNCHANGED <<received, requests>>
      BY <2>2 DEF CreateSpread, clientVars
    <3>3. pc'[c] = "idle" \/ pc'[c] = pc[c]
      BY <2>2, SpreadStarts
    <3> QED BY <3>1, <3>3, <2>0 DEF RequestInv, Busy, Current
  <2>3. ASSUME NEW a \in Agents, NEW label \in HandlerStates \cup JobStates, Moves(a, label)
        PROVE  <1>2!2
    <3>1. /\ UNCHANGED <<received, requests>> /\ Edge(a, label)
          /\ pc' = [pc EXCEPT ![a] = label]
      BY <2>3 DEF Moves
    <3>2. CASE c = a
      <4>1. pc'[c] = label /\ OpOf(c) = Current(c).op /\ Current(c)' = Current(c)
        BY <3>1, <3>2, <1>0 DEF OpOf, Current
      <4>2. pc[c] \notin {"idle", "returned"}
        BY <3>1, <3>2 DEF Edge
      <4>3. received[c] >= 1
        BY <4>2 DEF RequestInv, Busy
      <4>4. /\ label \in {"notfound", "recording", "linking", "linked"} =>
                   Current(c).op = "CREATE"
            /\ label = "found" => Current(c).op = "DELETE"
        BY <3>1, <3>2, <4>1, <1>0 DEF Edge, RequestInv
      <4> QED BY <3>1, <4>1, <4>3, <4>4, <2>0
    <3>3. CASE c # a
      <4>1. pc'[c] = pc[c] /\ received'[c] = received[c] /\ Current(c)' = Current(c)
        BY <3>1, <3>3, <1>0 DEF Current
      <4> QED BY <3>1, <4>1, <2>0 DEF RequestInv, Busy
    <3> QED BY <3>2, <3>3
  <2>4. CASE UNCHANGED <<pc, received>>
    <3>1. Busy(c) => Current(c)' = Current(c)
      BY WorkKept, <1>0
    <3>2. Busy(c)' <=> Busy(c)
      BY <2>4 DEF Busy
    <3>3. pc[c] \in {"notfound", "recording", "linking", "linked", "found"} => Busy(c)
      BY DEF Busy
    <3> QED BY <2>4, <3>1, <3>2, <3>3, <2>0 DEF RequestInv
  <2> QED BY <2>1, <2>2, <2>3, <2>4, ControlFlow
<1>3. ASSUME NEW j \in Jobs, Busy(j)'
      PROVE  /\ requests'[j[1]][j[2]].op = "CREATE"
             /\ \/ j[2] < received'[j[1]]
                \/ j[2] = received'[j[1]] /\ pc'[j[1]] = "idle"
  <2>0. /\ j \in Agents /\ j \notin Clients /\ j[1] \in Clients /\ j[2] \in 1 .. MaxRequests
        /\ received[j[1]] \in Nat
    BY JobParts, <1>0
  <2>1. CASE Busy(j)
    <3>1. requests'[j[1]][j[2]].op = "CREATE"
      BY <2>1, WorkKept, <2>0 DEF RequestInv
    <3>2. j[2] < received[j[1]] \/ (j[2] = received[j[1]] /\ pc[j[1]] = "idle")
      BY <2>0, <2>1 DEF RequestInv
    <3>3. \/ received'[j[1]] = received[j[1]] + 1
          \/ /\ received'[j[1]] = received[j[1]]
             /\ pc[j[1]] = "idle" => pc'[j[1]] = "idle"
      <4>1. ASSUME NEW d \in Clients, Receive(d) PROVE <3>3!:
        <5>1. /\ received' = [received EXCEPT ![d] = @ + 1]
              /\ pc' = [pc EXCEPT ![d] = "dispatch"]
          BY <4>1 DEF Receive, Goto
        <5>2. CASE j[1] = d
          <6>1. received'[d] = received[d] + 1
            BY <5>1, <1>0
          <6>2. received'[j[1]] = received[j[1]] + 1
            BY <6>1, <5>2
          <6> QED BY <6>2
        <5>3. CASE j[1] # d
          <6>1. received'[j[1]] = received[j[1]] /\ pc'[j[1]] = pc[j[1]]
            BY <5>1, <5>3, <1>0, <2>0
          <6> QED BY <6>1
        <5> QED BY <5>2, <5>3
      <4>2. ASSUME NEW d \in Clients, CreateSpread(d) PROVE <3>3!:
        <5>1. pc'[j[1]] = "idle" \/ pc'[j[1]] = pc[j[1]]
          BY <4>2, <2>0, SpreadStarts
        <5> QED BY <4>2, <5>1 DEF CreateSpread
      <4>3. ASSUME NEW a \in Agents, NEW label \in HandlerStates \cup JobStates, Moves(a, label)
            PROVE  <3>3!:
        BY <4>3, <1>0, <2>0 DEF Moves, Edge
      <4> QED BY <4>1, <4>2, <4>3, ControlFlow
    <3> QED BY <3>1, <3>2, <3>3, <2>0
  <2>2. CASE ~Busy(j)
    <3>1. pc[j] = "unborn" /\ pc'[j] # "unborn"
      BY <1>3, <2>0, <2>2 DEF Busy
    <3>2. PICK d \in Clients : CreateSpread(d)
      <4>1. ASSUME NEW d \in Clients, Receive(d) PROVE FALSE
        BY <4>1, <3>1, <2>0, <1>0 DEF Receive, Goto
      <4>2. ASSUME NEW a \in Agents, NEW label \in HandlerStates \cup JobStates, Moves(a, label)
            PROVE  FALSE
        BY <4>2, <3>1, <2>0, <1>0 DEF Moves, Edge
      <4> QED BY <3>1, <4>1, <4>2, ControlFlow
    <3>3. pc[d] = "notfound" /\ UNCHANGED <<requests, received>>
      BY <3>2 DEF CreateSpread, clientVars
    <3>5. j[1] = d /\ j[2] = received[d]
      BY <3>1, <3>2, SpreadStarts
    <3>6. Current(d).op = "CREATE" /\ pc'[d] = "idle"
      <4>1. Current(d).op = "CREATE"
        BY <3>3 DEF RequestInv
      <4>2. pc'[d] = "idle"
        BY <3>2, SpreadStarts
      <4> QED BY <4>1, <4>2
    <3> QED BY <3>3, <3>5, <3>6 DEF Current
  <2> QED BY <2>1, <2>2
<1> QED BY <1>1, <1>2, <1>3 DEF RequestInv

----------------------------------------------------------------------------
(* Listings and walks *)

\* What a directory walk reports fits a listing: each path at most once.
LEMMA WalkTyped ==
    ASSUME NEW d
    PROVE  /\ WalkOf(d) \in Seq(Paths)
           /\ Len(WalkOf(d)) \in Nat /\ Len(WalkOf(d)) <= Cardinality(Paths)
<1> DEFINE S == {q \in Paths \ {Root} : d[q] # "absent"}
           w == SetToSeq(S)
<1>1. Root \in Paths /\ IsFiniteSet(Paths)
  BY CommandsAssumption, RoomAssumption
<1>2. /\ IsFiniteSet(Paths \ {Root})
      /\ Cardinality(Paths \ {Root}) = Cardinality(Paths) - 1
      /\ Cardinality(Paths) \in Nat
  BY <1>1, FS_RemoveElement, FS_CardinalityType
<1>3. S \in SUBSET (Paths \ {Root})
  OBVIOUS
<1> HIDE DEF S
<1>4. IsFiniteSet(S) /\ Cardinality(S) <= Cardinality(Paths) - 1 /\ Cardinality(S) \in Nat
  <2>1. IsFiniteSet(S) /\ Cardinality(S) <= Cardinality(Paths \ {Root})
    BY <1>2, <1>3, FS_Subset
  <2>2. Cardinality(S) \in Nat
    BY <2>1, FS_CardinalityType
  <2> QED BY <1>2, <2>1, <2>2
<1>5. \E f \in [1 .. Cardinality(S) -> S] : IsInjective(f)
  <2>1. ExistsBijection(1 .. Cardinality(S), S)
    BY <1>4, FS_CardinalityType
  <2>2. PICK f : f \in Bijection(1 .. Cardinality(S), S)
    BY <2>1 DEF ExistsBijection
  <2>3. f \in [1 .. Cardinality(S) -> S] /\ IsInjective(f)
    BY <2>2 DEF Bijection, Injection
  <2> QED BY <2>3
<1>6. w \in [1 .. Cardinality(S) -> S]
  BY <1>5 DEF SetToSeq
<1> HIDE DEF w
<1>7. w \in Seq(Paths) /\ Len(w) = Cardinality(S)
  <2>1. w \in [1 .. Cardinality(S) -> Paths]
    BY <1>3, <1>6
  <2> QED BY <2>1, <1>4
<1>8. <<Root>> \o w \in Seq(Paths) /\ Len(<<Root>> \o w) = 1 + Cardinality(S)
  BY <1>1, <1>7, <1>4
<1> QED BY <1>2, <1>4, <1>8 DEF WalkOf, w, S

\* Writing a path into a listing leaves the other fields of every slot alone.
LEMMA ListingWritten ==
    ASSUME DirTypeOK, NEW k \in Slots, NEW i, NEW p \in Paths,
           storageServers' = [storageServers EXCEPT ![k].accessiblePaths[i] = p]
    PROVE  /\ storageServers' \in [Slots -> SlotRecord]
           /\ \A m \in Slots : /\ storageServers'[m].server = storageServers[m].server
                               /\ storageServers'[m].numPaths = storageServers[m].numPaths
<1>1. storageServers \in [Slots -> SlotRecord]
  BY DEF DirTypeOK
<1> DEFINE r == storageServers[k]
           l == [r.accessiblePaths EXCEPT ![i] = p]
<1>2. r \in SlotRecord
  BY <1>1
<1>3. l \in Listing
  BY <1>2 DEF SlotRecord, Listing
<1>4. storageServers' = [storageServers EXCEPT ![k] = [r EXCEPT !.accessiblePaths = l]]
  OBVIOUS
<1> HIDE DEF l
<1>5. /\ [r EXCEPT !.accessiblePaths = l] \in SlotRecord
      /\ [r EXCEPT !.accessiblePaths = l].server = r.server
      /\ [r EXCEPT !.accessiblePaths = l].numPaths = r.numPaths
  BY <1>2, <1>3 DEF SlotRecord
<1> QED BY <1>1, <1>4, <1>5

\* The same for filling a whole listing.
LEMMA ListingFilled ==
    ASSUME DirTypeOK, NEW k, NEW w \in Seq(Paths),
           storageServers' = [storageServers EXCEPT ![k].accessiblePaths = ListingOf(w)]
    PROVE  /\ storageServers' \in [Slots -> SlotRecord]
           /\ \A m \in Slots : /\ storageServers'[m].server = storageServers[m].server
                               /\ storageServers'[m].numPaths = storageServers[m].numPaths
<1>1. storageServers \in [Slots -> SlotRecord]
  BY DEF DirTypeOK
<1> DEFINE r == storageServers[k]
           l == ListingOf(w)
<1>2. l \in Listing
  <2>1. Len(w) \in Nat /\ \A i \in 1 .. Len(w) : w[i] \in Paths
    OBVIOUS
  <2>2. \A i \in 0 .. MAX_PATHS - 1 : i < Len(w) => w[i + 1] \in Paths
    BY <2>1, SizesAssumption
  <2> QED BY <2>2 DEF ListingOf, Listing
<1>3. storageServers' = [storageServers EXCEPT ![k] = [r EXCEPT !.accessiblePaths = l]]
  OBVIOUS
<1> HIDE DEF l
<1>4. CASE k \in Slots
  <2>1. r \in SlotRecord
    BY <1>1, <1>4
  <2>2. /\ [r EXCEPT !.accessiblePaths = l] \in SlotRecord
        /\ [r EXCEPT !.accessiblePaths = l].server = r.server
        /\ [r EXCEPT !.accessiblePaths = l].numPaths = r.numPaths
    BY <1>2, <2>1 DEF SlotRecord
  <2> QED BY <1>1, <1>3, <1>4, <2>2
<1>5. CASE k \notin Slots
  <2>1. storageServers' = storageServers
    BY <1>1, <1>3, <1>5
  <2> QED BY <1>1, <2>1
<1> QED BY <1>4, <1>5

\* Storing a count that fits leaves servers and paths alone.
LEMMA CountStored ==
    ASSUME DirTypeOK, NEW k \in Slots, NEW n \in 0 .. MAX_PATHS,
           storageServers' = [storageServers EXCEPT ![k].numPaths = n]
    PROVE  /\ storageServers' \in [Slots -> SlotRecord]
           /\ \A m \in Slots :
                  /\ storageServers'[m].server = storageServers[m].server
                  /\ storageServers'[m].numPaths = IF m = k THEN n ELSE storageServers[m].numPaths
<1>1. storageServers \in [Slots -> SlotRecord]
  BY DEF DirTypeOK
<1> DEFINE r == storageServers[k]
<1>2. r \in SlotRecord
  BY <1>1
<1>3. storageServers' = [storageServers EXCEPT ![k] = [r EXCEPT !.numPaths = n]]
  OBVIOUS
<1>4. /\ [r EXCEPT !.numPaths = n] \in SlotRecord
      /\ [r EXCEPT !.numPaths = n].server = r.server
      /\ [r EXCEPT !.numPaths = n].numPaths = n
  BY <1>2 DEF SlotRecord
<1> QED BY <1>1, <1>3, <1>4

----------------------------------------------------------------------------
(* Room in the listings *)

\* The command an agent works on, as client and number.
Pair(a) == IF a \in Clients THEN <<a, received[a]>> ELSE <<a[1], a[2]>>

\* No more commands can add to a listing than clients may send.
LEMMA UnusedBound ==
    ASSUME NEW k
    PROVE  /\ IsFiniteSet(Unused(k)) /\ Cardinality(Unused(k)) \in Nat
           /\ Cardinality(Unused(k)) <= Cardinality(Clients) * MaxRequests
<1> DEFINE P == Clients \X (1 .. MaxRequests)
<1>1. MaxRequests \in Nat /\ MaxRequests >= 1 /\ IsFiniteSet(Clients)
  BY AgentsAssumption
<1>2. IsFiniteSet(1 .. MaxRequests) /\ Cardinality(1 .. MaxRequests) = MaxRequests
  <2>1. /\ IsFiniteSet(1 .. MaxRequests)
        /\ Cardinality(1 .. MaxRequests)
               = IF 1 > MaxRequests THEN 0 ELSE MaxRequests - 1 + 1
    BY <1>1, FS_Interval
  <2> QED BY <1>1, <2>1
<1>3. IsFiniteSet(P) /\ Cardinality(P) = Cardinality(Clients) * MaxRequests
  BY <1>1, <1>2, FS_Product
<1>4. Unused(k) \in SUBSET P
  BY DEF Unused
<1> HIDE DEF P
<1>5. IsFiniteSet(Unused(k)) /\ Cardinality(Unused(k)) <= Cardinality(P)
  BY <1>3, <1>4, FS_Subset
<1>6. Cardinality(Unused(k)) \in Nat
  BY <1>5, FS_CardinalityType
<1> QED BY <1>3, <1>5, <1>6

\* An agent about to count a path has its command among those with room.
LEMMA PairUnused ==
    ASSUME NSTypeOK, RequestInv, NEW a \in Agents, pc[a] = "recording"
    PROVE  Pair(a) \in Unused(SlotUsed(a))
<1>1. CASE a \in Clients
  <2>1. received[a] \in 0 .. MaxRequests /\ received[a] >= 1
    BY <1>1 DEF NSTypeOK, RequestInv, Busy
  <2>2. Pair(a) = <<a, received[a]>> /\ received[a] \in 1 .. MaxRequests
    BY <1>1, <2>1, AgentsAssumption DEF Pair
  <2> QED BY <1>1, <2>2 DEF Unused
<1>2. CASE a \in Jobs
  <2>1. /\ a \notin Clients /\ a[1] \in Clients /\ a[2] \in 1 .. MaxRequests
        /\ a[3] \in Replicas /\ a = <<a[1], a[2], a[3]>>
    BY <1>2, JobParts
  <2>2. Pair(a) = <<a[1], a[2]>> /\ SlotUsed(a) = a[3]
    BY <2>1 DEF Pair, SlotUsed
  <2>3. pc[<<a[1], a[2], a[3]>>] = "recording"
    BY <2>1
  <2> QED BY <2>1, <2>2, <2>3 DEF Unused
<1> QED BY <1>1, <1>2 DEF Agents

\* So the count it stores fits the listing.
LEMMA RoomLeft ==
    ASSUME NSTypeOK, RequestInv, RoomInv, NEW a \in Agents, pc[a] = "recording"
    PROVE  loaded[a] + 1 \in 0 .. MAX_PATHS
<1> DEFINE U == Unused(SlotUsed(a))
<1>1. Pair(a) \in U
  BY PairUnused
<1>2. IsFiniteSet(U) /\ Cardinality(U) \in Nat
  BY UnusedBound
<1>3. loaded[a] + Cardinality(U) <= MAX_PATHS
  BY DEF RoomInv
<1> HIDE DEF U
<1>4. Cardinality(U) >= 1
  BY <1>1, <1>2, FS_EmptySet
<1>5. loaded[a] \in Nat /\ MAX_PATHS \in Nat
  BY SizesAssumption DEF NSTypeOK
<1> QED BY <1>2, <1>3, <1>4, <1>5

\* No command regains its room.
LEMMA UnusedShrinks ==
    ASSUME NSTypeOK, PcTyped, RequestInv, NSNext, NEW k
    PROVE  Unused(k)' \subseteq Unused(k)
<1>0. /\ received \in [Clients -> 0 .. MaxRequests] /\ DOMAIN pc = Agents
      /\ MaxRequests \in Nat /\ Clients \subseteq Agents
  BY AgentsAssumption DEF NSTypeOK, PcTyped, Agents
<1> DEFINE Early == {"dispatch", "notfound", "found", "asked", "recording"}
           Begun == {"spawned", "asked", "recording"}
           Open(c, n) == \/ n > received[c]
                         \/ n = received[c] /\ pc[c] \in Early
                         \/ k \in Replicas /\ pc[<<c, n, k>>] \in Begun
<1> SUFFICES ASSUME NEW c \in Clients, NEW n \in 1 .. MaxRequests, Open(c, n)'
             PROVE  Open(c, n)
  BY DEF Unused
<1>1. /\ k \in Replicas => <<c, n, k>> \in Jobs /\ <<c, n, k>> \in Agents
      /\ received[c] \in Nat /\ n \in Nat
  BY <1>0 DEF Jobs, Agents
<1>2. ASSUME NEW d \in Clients, Receive(d) PROVE Open(c, n)
  <2>1. /\ received' = [received EXCEPT ![d] = @ + 1]
        /\ pc' = [pc EXCEPT ![d] = "dispatch"]
    BY <1>2 DEF Receive, Goto
  <2>2. k \in Replicas => pc'[<<c, n, k>>] = pc[<<c, n, k>>]
    BY <2>1, <1>0, <1>1, AgentsAssumption
  <2>3. CASE c = d
    <3>1. received'[c] = received[c] + 1
      BY <2>1, <2>3, <1>0
    <3> QED BY <3>1, <2>2, <1>1
  <2>4. CASE c # d
    <3>1. received'[c] = received[c] /\ pc'[c] = pc[c]
      BY <2>1, <2>4, <1>0
    <3> QED BY <3>1, <2>2
  <2> QED BY <2>3, <2>4
<1>3. ASSUME NEW d \in Clients, CreateSpread(d) PROVE Open(c, n)
  <2>1. received' = received
    BY <1>3 DEF CreateSpread
  <2>2. /\ pc[d] = "notfound" /\ pc'[d] = "idle"
        /\ c # d => pc'[c] = pc[c]
    BY <1>3, SpreadStarts
  <2>3. ASSUME k \in Replicas, pc'[<<c, n, k>>] \in Begun PROVE Open(c, n)
    <3> DEFINE j == <<c, n, k>>
    <3>1. \/ j[1] = d /\ j[2] = received[d]
          \/ pc'[j] = pc[j]
      BY <1>1, <1>3, <2>3, SpreadStarts
    <3>2. CASE j[1] = d /\ j[2] = received[d]
      BY <3>2, <2>2
    <3>3. CASE pc'[j] = pc[j]
      BY <3>3, <2>3
    <3> QED BY <3>1, <3>2, <3>3
  <2> QED BY <2>1, <2>2, <2>3
<1>4. ASSUME NEW a \in Agents, NEW label \in HandlerStates \cup JobStates, Moves(a, label)
      PROVE  Open(c, n)
  <2>1. /\ received' = received /\ pc' = [pc EXCEPT ![a] = label] /\ Edge(a, label)
    BY <1>4 DEF Moves
  <2>2. pc'[c] \in Early => pc[c] \in Early
    BY <2>1, <1>0, AgentsAssumption DEF Edge
  <2>3. k \in Replicas /\ pc'[<<c, n, k>>] \in Begun => pc[<<c, n, k>>] \in Begun
    <3> SUFFICES ASSUME k \in Replicas, pc'[<<c, n, k>>] \in Begun
                 PROVE  pc[<<c, n, k>>] \in Begun
      OBVIOUS
    <3>1. CASE a = <<c, n, k>>
      <4>1. a \in Jobs /\ a \notin Clients
        BY <3>1, <1>1, JobParts
      <4>2. label \in Begun
        BY <2>1, <3>1, <1>0
      <4> QED BY <2>1, <3>1, <4>1, <4>2 DEF Edge
    <3>2. CASE a # <<c, n, k>>
      BY <2>1, <3>2, <1>0, <1>1
    <3> QED BY <3>1, <3>2
  <2> QED BY <2>1, <2>2, <2>3
<1>5. CASE UNCHANGED <<pc, received>>
  BY <1>5
<1> QED BY <1>2, <1>3, <1>4, <1>5, ControlFlow

\* A command whose path is counted gives up its room.
LEMMA PairUsed ==
    ASSUME NSTypeOK, PcTyped, RequestInv, NEW a \in Agents, CountPath(a)
    PROVE  Pair(a) \notin Unused(SlotUsed(a))'
<1>0. /\ received \in [Clients -> 0 .. MaxRequests] /\ DOMAIN pc = Agents
      /\ MaxRequests \in Nat
  BY AgentsAssumption DEF NSTypeOK, PcTyped
<1>1. /\ pc[a] = "recording" /\ pc' = [pc EXCEPT ![a] = "linking"] /\ received' = received
  BY DEF CountPath, Goto
<1>2. pc'[a] = "linking"
  BY <1>0, <1>1
<1>3. CASE a \in Clients
  <2> DEFINE j == <<a, received[a], 0>>
  <2>1. Pair(a) = <<a, received[a]>> /\ SlotUsed(a) = 0
    BY <1>3 DEF Pair, SlotUsed
  <2>2. received[a] \in 1 .. MaxRequests
    BY <1>0, <1>1, <1>3 DEF RequestInv, Busy
  <2>3. j \in Jobs /\ j[1] = a /\ j[2] = received[a]
    BY <1>3, <2>2 DEF Jobs, Replicas
  <2>4. j # a /\ j \in Agents /\ j \notin Clients
    BY <1>3, <2>3, JobParts
  <2>5. ~Busy(j)
    <3> SUFFICES ASSUME Busy(j) PROVE FALSE
      OBVIOUS
    <3>1. j[2] < received[j[1]] \/ (j[2] = received[j[1]] /\ pc[j[1]] = "idle")
      BY <2>3 DEF RequestInv
    <3> QED BY <3>1, <2>3, <1>1, <1>0, <2>2
  <2>6. pc'[j] = "unborn"
    <3>1. pc[j] = "unborn"
      BY <2>4, <2>5 DEF Busy
    <3>2. pc'[j] = pc[j]
      BY <1>0, <1>1, <2>4
    <3> QED BY <3>1, <3>2
  <2>7. ~(received[a] > received'[a])
    BY <1>1, <2>2
  <2> QED BY <1>1, <1>2, <2>1, <2>6, <2>7 DEF Unused
<1>4. CASE a \in Jobs
  <2>1. /\ a \notin Clients /\ a[1] \in Clients /\ a[2] \in 1 .. MaxRequests
        /\ a[3] \in Replicas /\ a = <<a[1], a[2], a[3]>>
    BY <1>4, JobParts
  <2>2. Pair(a) = <<a[1], a[2]>> /\ SlotUsed(a) = a[3]
    BY <2>1 DEF Pair, SlotUsed
  <2>3. a[2] < received[a[1]] \/ (a[2] = received[a[1]] /\ pc[a[1]] = "idle")
    <3>1. Busy(a)
      BY <1>1, <2>1 DEF Busy
    <3> QED BY <1>4, <3>1 DEF RequestInv
  <2>4. received[a[1]] \in Nat /\ a[2] \in Nat /\ a[1] # a
    BY <2>1, <1>0
  <2>5. ~(a[2] > received'[a[1]])
    BY <1>1, <2>3, <2>4
  <2>6. ~(a[2] = received'[a[1]]
              /\ pc'[a[1]] \in {"dispatch", "notfound", "found", "asked", "recording"})
    <3>1. pc'[a[1]] = pc[a[1]]
      BY <1>1, <2>4
    <3>2. received'[a[1]] = received[a[1]]
      BY <1>1
    <3> QED BY <3>1, <3>2, <2>3, <2>4
  <2>7. pc'[<<a[1], a[2], a[3]>>] = "linking"
    BY <1>2, <2>1
  <2> QED BY <2>2, <2>5, <2>6, <2>7 DEF Unused
<1> QED BY <1>3, <1>4 DEF Agents

----------------------------------------------------------------------------
(* The directory *)

\* An agent that records, links or has linked a path is at a CREATE.
LEMMA IndexingCreates ==
    ASSUME RequestInv, NEW a \in Agents, pc[a] \in {"recording", "linking", "linked"}
    PROVE  Creating(a) /\ Busy(a)
<1>1. CASE a \in Clients
  BY <1>1 DEF RequestInv, Creating, OpOf, Busy
<1>2. CASE a \notin Clients
  BY <1>2 DEF Creating, OpOf, Busy
<1> QED BY <1>1, <1>2

\* The slot an agent writes to exists, and holds the server it talks to.
LEMMA CreatingSlot ==
    ASSUME NSTypeOK, DirInv, TargetInv, NEW a \in Agents, Creating(a)
    PROVE  /\ SlotUsed(a) \in Slots /\ SlotUsed(a) \in Replicas
           /\ storageServers[SlotUsed(a)].server = target[a]
           /\ target[a] \in Servers /\ target[a] \in CopiedServers
<1>1. target[a] # NULL /\ storageServers[SlotUsed(a)].server = target[a]
  BY DEF TargetInv
<1>2. target[a] \in Servers
  BY <1>1 DEF NSTypeOK
<1>3. SlotUsed(a) \in Slots /\ SlotUsed(a) \in Replicas
  <2>1. CASE a \in Clients
    BY <2>1, SizesAssumption DEF SlotUsed, Slots, Replicas
  <2>2. CASE a \in Jobs
    BY <1>1, <2>2, JobParts DEF SlotUsed, TargetInv
  <2> QED BY <2>1, <2>2 DEF Agents
<1>4. Copied(target[a])
  BY <1>1, <1>3 DEF DirInv, SlotInv, OwnerInv
<1> QED BY <1>1, <1>2, <1>3, <1>4 DEF CopiedServers

\* Slots and critical section do not depend on the listings.
LEMMA SlotsKept ==
    ASSUME DirTypeOK, SlotInv,
           \A m \in Slots : storageServers'[m].server = storageServers[m].server,
           UNCHANGED <<regPc, slotOf, storageServerMutex, storageServerCount>>
    PROVE  SlotInv'
<1>0. slotOf \in [Servers -> Slots]
  BY DEF DirTypeOK
<1>1. \A s : Copied(s)' <=> Copied(s)
  BY DEF Copied
<1>2. MutexInv' /\ CounterInv'
  BY <1>0 DEF SlotInv, MutexInv, CounterInv
<1>3. CopiedInv'
  BY <1>0, <1>1 DEF SlotInv, CopiedInv
<1>4. OwnerInv'
  BY <1>1 DEF SlotInv, OwnerInv
<1>5. FilledInv'
  BY DEF SlotInv, FilledInv
<1> QED BY <1>2, <1>3, <1>4, <1>5 DEF SlotInv

\* A change of listings alone keeps the directory sound.
LEMMA ListingsFree ==
    ASSUME DirInv, storageServers' \in [Slots -> SlotRecord],
           \A m \in Slots : storageServers'[m].server = storageServers[m].server,
           UNCHANGED <<regPc, slotOf, nextPath, storageServerMutex, storageServerCount,
                       tableVars>>
    PROVE  DirInv'
<1>1. SlotInv'
  BY SlotsKept DEF DirInv, TypeInv
<1>2. TypeInv'
  BY DEF DirInv, TypeInv, DirTypeOK, LinkingInv, tableVars
<1>3. ChainInv'
  BY DEF DirInv, ChainInv, CopiedServers, Copied, tableVars
<1>4. EmptyInv'
  BY DEF DirInv, EmptyInv, tableVars
<1>5. IndexInv'
  BY DEF DirInv, IndexInv, HasEntry, Copied, tableVars
<1> QED BY <1>1, <1>2, <1>3, <1>4, <1>5 DEF DirInv

\* A handler or job that begins an addition to the table disturbs no
\* registration thread.
LEMMA AgentBegins ==
    ASSUME DirInv, NEW a \in Agents, NEW p \in Paths, HashAddBegin(a, p),
           storageServers' \in [Slots -> SlotRecord],
           \A m \in Slots : storageServers'[m].server = storageServers[m].server,
           UNCHANGED <<regPc, slotOf, nextPath, storageServerMutex, storageServerCount>>
    PROVE  /\ DirInv'
           /\ hashView'[a] = TableAt(p) /\ hashView'[a] \in TableView
           /\ \A t \in Threads : t # a => hashView'[t] = hashView[t]
<1>0. a \in Threads /\ a \notin Servers /\ Servers \subseteq Threads
  BY AgentsAssumption, NamesAssumption
<1>1. /\ hashView' = [hashView EXCEPT ![a] = TableAt(p)]
      /\ UNCHANGED <<serversByPath, chains, raced>>
      /\ DOMAIN hashView = Threads
  BY DEF HashAddBegin, DirInv, TypeInv, DirTypeOK
<1>2. \A t \in Threads : t # a => hashView'[t] = hashView[t]
  BY <1>1
<1>3. /\ hashView' \in [Threads -> TableView \cup {NULL}]
      /\ hashView'[a] \in TableView
  BY <1>0, HashAddBeginType DEF DirInv, TypeInv
<1>4. SlotInv'
  BY SlotsKept DEF DirInv, TypeInv
<1>5. DirTypeOK'
  BY <1>1, <1>3 DEF DirInv, TypeInv, DirTypeOK
<1>6. LinkingInv'
  BY <1>0, <1>2 DEF DirInv, TypeInv, LinkingInv
<1>7. ChainInv'
  BY <1>0, <1>1, <1>2 DEF DirInv, ChainInv, CopiedServers, Copied
<1>8. EmptyInv'
  BY <1>1 DEF DirInv, EmptyInv
<1>9. IndexInv'
  BY <1>1 DEF DirInv, IndexInv, HasEntry, Copied
<1>10. hashView'[a] = TableAt(p)
  BY <1>0, <1>1
<1> QED BY <1>2, <1>3, <1>4, <1>5, <1>6, <1>7, <1>8, <1>9, <1>10 DEF DirInv, TypeInv

\* A handler or job that links an entry for a registered server keeps the
\* directory sound, and adds to the table what a registration thread would.
LEMMA AgentLinks ==
    ASSUME DirInv, NEW a \in Agents, NEW p \in Paths, NEW s \in CopiedServers,
           hashView[a] \in TableView, Within(hashView[a].chain, CopiedServers),
           HashAddLink(a, p, s), UNCHANGED <<regPc, slotOf, nextPath, arrayVars>>
    PROVE  /\ DirInv'
           /\ \A t \in Threads : t # a => hashView'[t] = hashView[t]
<1>0. a \in Threads /\ a \notin Servers /\ Servers \subseteq Threads /\ s \in Servers
  BY AgentsAssumption, NamesAssumption DEF CopiedServers
<1>1. /\ hashView' = [hashView EXCEPT ![a] = NULL]
      /\ DOMAIN hashView = Threads
  BY DEF HashAddLink, DirInv, TypeInv, DirTypeOK
<1>2. \A t \in Threads : t # a => hashView'[t] = hashView[t]
  BY <1>1
<1>3. /\ serversByPath' \in Nat
      /\ chains' \in [Buckets -> Seq(Entry)]
      /\ hashView' \in [Threads -> TableView \cup {NULL}]
      /\ raced' \in BOOLEAN
  BY <1>0, HashAddLinkType DEF DirInv, TypeInv
<1>4. DirTypeOK'
  BY <1>3 DEF DirInv, TypeInv, DirTypeOK, arrayVars
<1>5. LinkingInv'
  BY <1>0, <1>2 DEF DirInv, TypeInv, LinkingInv
<1>6. SlotInv'
  BY SlotsKept DEF DirInv, TypeInv, arrayVars
<1>7. ChainInv'
  <2>1. CopiedServers' = CopiedServers
    BY DEF CopiedServers, Copied
  <2>2. \A b \in Buckets : Within(chains'[b], CopiedServers)
    BY <1>0, HashAddLinkWithin DEF DirInv, TypeInv, ChainInv
  <2>3. \A t \in Servers : regPc'[t] = "linking" => Within(hashView'[t].chain, CopiedServers)
    BY <1>0, <1>2 DEF DirInv, ChainInv
  <2> QED BY <2>1, <2>2, <2>3 DEF ChainInv
<1>8. EmptyInv'
  <2>1. serversByPath \in Nat
    BY DEF DirInv, TypeInv, DirTypeOK
  <2>2. UNCHANGED <<serversByPath, chains>> \/ serversByPath' # 0
    BY <2>1 DEF HashAddLink, LinkInNewTable, LinkInBucket, LinkAndExpand, LinkInOldTable
  <2> QED BY <2>2 DEF DirInv, EmptyInv
<1>9. IndexInv'
  <2> SUFFICES ASSUME NEW t \in Servers
               PROVE  /\ nextPath'[t] <= Len(MountPaths[t])
                      /\ regPc'[t] = "acked" => nextPath'[t] = Len(MountPaths[t])
                      /\ ~raced' /\ Copied(t)' =>
                             \A k \in 1 .. nextPath'[t] : HasEntry(MountPaths[t][k], t)'
    BY DEF IndexInv
  <2>1. /\ nextPath'[t] <= Len(MountPaths[t])
        /\ regPc'[t] = "acked" => nextPath'[t] = Len(MountPaths[t])
    BY DEF DirInv, IndexInv
  <2>2. ASSUME ~raced', Copied(t)', NEW k \in 1 .. nextPath'[t]
        PROVE  HasEntry(MountPaths[t][k], t)'
    <3>1. ~raced /\ \A q \in Paths, u \in Servers : HasEntry(q, u) => HasEntry(q, u)'
      BY <1>0, <2>2, HashAddLinkKeeps DEF DirInv, TypeInv
    <3>2. Copied(t)
      BY <2>2 DEF Copied
    <3>3. HasEntry(MountPaths[t][k], t)
      BY <2>2, <3>1, <3>2 DEF DirInv, IndexInv
    <3>4. nextPath[t] \in Nat /\ MountPaths[t] \in Seq(Paths)
      BY MountAssumption DEF DirInv, TypeInv, DirTypeOK
    <3>5. k \in 1 .. Len(MountPaths[t])
      BY <2>1, <3>4
    <3>6. MountPaths[t][k] \in Paths
      BY <3>4, <3>5
    <3> QED BY <3>1, <3>3, <3>6
  <2> QED BY <2>1, <2>2
<1> QED BY <1>2, <1>4, <1>5, <1>6, <1>7, <1>8, <1>9 DEF DirInv, TypeInv

\* The steps that touch the directory.
LEMMA DirCases ==
    ASSUME NSNext
    PROVE  \/ UNCHANGED dirVars
           \/ \E s \in Servers : Registration(s)
           \/ \E c \in Clients : RefreshCount(c) \/ RefreshFill(c)
           \/ \E a \in Agents : RecordPath(a) \/ CountPath(a) \/ LinkPath(a)
<1>1. ASSUME NEW c \in Clients, Handler(c)
      PROVE  UNCHANGED dirVars \/ RefreshCount(c) \/ RefreshFill(c)
  BY <1>1
  DEF Handler, Receive, Lookup, ListAll, CreateExists, CreateMissing, CreateSpread,
      CreateAlone, RecordNothing, CreateReply, DeleteMissing, DeleteFound, DeleteConnect,
      DeleteReply, RefreshAbort
<1>2. ASSUME NEW j \in Jobs, Job(j) PROVE UNCHANGED dirVars
  BY <1>2 DEF Job, JobConnect, JobReply
<1>3. ASSUME NEW a \in Agents, Serve(a) \/ SSCreateFails(a) PROVE UNCHANGED dirVars
  BY <1>3 DEF Serve, SSCreate, SSDelete, SSCreateFails
<1>4. ASSUME NEW s \in Servers, SSListen(s) \/ SSCrash(s) PROVE UNCHANGED dirVars
  BY <1>4 DEF SSListen, SSCrash
<1>5. ASSUME NEW c \in Clients, ClientProgram(c) \/ \E cmd \in Commands : ClientSend(c, cmd)
      PROVE  UNCHANGED dirVars
  BY <1>5 DEF ClientProgram, ClientConnect, ClientServed, ClientSend
<1> QED BY <1>1, <1>2, <1>3, <1>4, <1>5 DEF NSNext, IndexPath

\* A server once registered stays so.
LEMMA CopiedStays ==
    ASSUME DirTypeOK, NEW s \in Servers, Register(s)
    PROVE  CopiedServers \subseteq CopiedServers'
BY DEF Register, RegThread, RegRecv, RegLock, RegCheck, RegRefuse, RegCount, RegCopy,
       RegAddBegin, RegAddLink, RegAck, CopiedServers, Copied, DirTypeOK

\* A registration thread reads and links only for itself, and an overlap of
\* additions is not forgotten.
LEMMA RegisterViews ==
    ASSUME DirTypeOK, NEW s \in Servers, Register(s)
    PROVE  /\ raced => raced'
           /\ \A t \in Threads : t # s => hashView'[t] = hashView[t]
<1>0. DOMAIN hashView = Threads
  BY DEF DirTypeOK
<1>1. CASE UNCHANGED tableVars
  BY <1>1 DEF tableVars
<1>2. CASE RegAddBegin(s)
  BY <1>0, <1>2 DEF RegAddBegin, HashAddBegin
<1>3. CASE RegAddLink(s)
  BY <1>0, <1>3 DEF RegAddLink, HashAddLink
<1> QED
  BY <1>1, <1>2, <1>3
  DEF Register, RegThread, RegRecv, RegLock, RegCheck, RegRefuse, RegCount, RegCopy, RegAck

\* The directory stays sound and only grows while clients are served: the
\* unlocked writes to slots and table by handlers and jobs take nothing from it.
LEMMA DirStep ==
    ASSUME NSTypeOK, PcTyped, DirInv, WorkInv, RoomInv, NSNext
    PROVE  /\ DirInv' /\ Grows
           /\ CopiedServers \subseteq CopiedServers'
           /\ raced => raced'
           /\ \A a \in Agents : \/ hashView'[a] = hashView[a]
                                \/ CountPath(a) \/ LinkPath(a)
<1>0. /\ DirTypeOK /\ RequestInv /\ TargetInv /\ ViewInv /\ storageServerCount \in Nat
      /\ Agents \subseteq Threads /\ \A a \in Agents : a \notin Servers
  BY AgentsAssumption, SizesAssumption DEF DirInv, TypeInv, WorkInv, DirTypeOK
<1> DEFINE Goal == /\ DirInv' /\ Grows
                   /\ CopiedServers \subseteq CopiedServers'
                   /\ raced => raced'
                   /\ \A a \in Agents : \/ hashView'[a] = hashView[a]
                                        \/ CountPath(a) \/ LinkPath(a)
<1>1. CASE UNCHANGED dirVars
  <2>1. DirInv'
    BY <1>1, DirInvStep
  <2> QED BY <1>0, <1>1, <2>1
      DEF Grows, HasEntry, CopiedServers, Copied, dirVars, arrayVars, tableVars
<1>2. ASSUME NEW s \in Servers, Registration(s) PROVE Goal
  <2>1. Register(s)
    BY <1>2 DEF Registration
  <2>2. DirInv'
    BY <2>1, DirInvStep DEF DirNext
  <2>3. Grows
    BY <2>1, GrowsStep
  <2>4. CopiedServers \subseteq CopiedServers'
    BY <1>0, <2>1, CopiedStays
  <2>5. raced => raced'
    BY <1>0, <2>1, RegisterViews
  <2>6. \A a \in Agents : hashView'[a] = hashView[a]
    BY <1>0, <2>1, RegisterViews
  <2> QED BY <2>2, <2>3, <2>4, <2>5, <2>6
<1>3. ASSUME storageServers' \in [Slots -> SlotRecord],
             \A m \in Slots : storageServers'[m].server = storageServers[m].server,
             UNCHANGED <<regPc, slotOf, nextPath, storageServerMutex, storageServerCount,
                         tableVars>>
      PROVE  Goal
  <2>1. DirInv'
    BY <1>3, ListingsFree
  <2> QED BY <1>0, <1>3, <2>1 DEF Grows, HasEntry, CopiedServers, Copied, tableVars
<1>4. ASSUME NEW a \in Agents, RecordPath(a) PROVE Goal
  <2>1. Creating(a) /\ Busy(a)
    <3>1. pc[a] = "asked" /\ OpOf(a) = "CREATE"
      BY <1>4 DEF RecordPath
    <3> QED BY <3>1 DEF Creating, Busy
  <2>2. SlotUsed(a) \in Slots /\ PathOf(a) \in Paths
    BY <1>0, <2>1, CreatingSlot, WorkTyped
  <2>3. storageServers' =
          [storageServers EXCEPT ![SlotUsed(a)].accessiblePaths[PlaceUsed(a)] = PathOf(a)]
    BY <1>4 DEF RecordPath
  <2>4. /\ storageServers' \in [Slots -> SlotRecord]
        /\ \A m \in Slots : storageServers'[m].server = storageServers[m].server
    BY <1>0, <2>2, <2>3, ListingWritten
  <2> QED BY <1>3, <1>4, <2>4 DEF RecordPath
<1>5. ASSUME NEW c \in Clients, RefreshFill(c) PROVE Goal
  <2>1. walk[c] \in Seq(Paths)
    BY DEF NSTypeOK
  <2>2. storageServers' =
          [storageServers EXCEPT ![loaded[c]].accessiblePaths = ListingOf(walk[c])]
    BY <1>5 DEF RefreshFill
  <2>3. /\ storageServers' \in [Slots -> SlotRecord]
        /\ \A m \in Slots : storageServers'[m].server = storageServers[m].server
    BY <1>0, <2>1, <2>2, ListingFilled
  <2> QED BY <1>3, <1>5, <2>3 DEF RefreshFill
<1>6. ASSUME NEW c \in Clients, RefreshCount(c) PROVE Goal
  <2>1. CASE UNCHANGED storageServers
    BY <1>0, <1>3, <1>6, <2>1 DEF RefreshCount, DirTypeOK
  <2>2. CASE ~UNCHANGED storageServers
    <3>1. PICK i \in Slots :
              /\ walk' = [walk EXCEPT ![c] = WalkOf(disk[target[c]])]
              /\ storageServers' = [storageServers EXCEPT ![i].numPaths = Len(walk'[c])]
      BY <1>6, <2>2 DEF RefreshCount
    <3>2. walk'[c] = WalkOf(disk[target[c]])
      BY <3>1 DEF NSTypeOK
    <3>3. Len(walk'[c]) \in 0 .. MAX_PATHS
      <4>1. /\ Cardinality(Paths) \in Nat
            /\ Cardinality(Clients) * MaxRequests \in Nat
        <5>1. Cardinality(Clients) \in Nat /\ MaxRequests \in Nat
          BY AgentsAssumption, FS_CardinalityType
        <5>2. Cardinality(Paths) \in Nat
          BY RoomAssumption, FS_CardinalityType
        <5> QED BY <5>1, <5>2
      <4>2. Len(walk'[c]) \in Nat /\ Len(walk'[c]) <= Cardinality(Paths)
        BY <3>2, WalkTyped
      <4>3. Cardinality(Paths) <= MAX_PATHS
        BY <4>1, RoomAssumption, SizesAssumption
      <4> QED BY <4>1, <4>2, <4>3, SizesAssumption
    <3>4. /\ storageServers' \in [Slots -> SlotRecord]
          /\ \A m \in Slots : storageServers'[m].server = storageServers[m].server
      BY <1>0, <3>1, <3>3, CountStored
    <3> QED BY <1>3, <1>6, <3>4 DEF RefreshCount
  <2> QED BY <2>1, <2>2
<1>7. ASSUME NEW a \in Agents, CountPath(a) PROVE Goal
  <2>0. /\ pc[a] = "recording" /\ HashAddBegin(a, PathOf(a))
        /\ storageServers' = [storageServers EXCEPT ![SlotUsed(a)].numPaths = loaded[a] + 1]
        /\ UNCHANGED <<regPc, slotOf, nextPath, storageServerMutex, storageServerCount>>
    BY <1>7 DEF CountPath
  <2>1. Creating(a) /\ Busy(a)
    BY <1>0, <2>0, IndexingCreates
  <2>2. SlotUsed(a) \in Slots /\ PathOf(a) \in Paths
    BY <1>0, <2>1, CreatingSlot, WorkTyped
  <2>3. loaded[a] + 1 \in 0 .. MAX_PATHS
    BY <1>0, <2>0, RoomLeft
  <2>4. /\ storageServers' \in [Slots -> SlotRecord]
        /\ \A m \in Slots : storageServers'[m].server = storageServers[m].server
    BY <1>0, <2>0, <2>2, <2>3, CountStored
  <2>5. /\ DirInv'
        /\ \A t \in Threads : t # a => hashView'[t] = hashView[t]
    BY <2>0, <2>2, <2>4, AgentBegins
  <2>6. UNCHANGED <<chains, raced>>
    BY <2>0 DEF HashAddBegin
  <2>7. Grows /\ CopiedServers' = CopiedServers
    BY <1>0, <2>0, <2>4, <2>6 DEF Grows, HasEntry, CopiedServers, Copied
  <2> QED BY <1>0, <1>7, <2>5, <2>6, <2>7
<1>8. ASSUME NEW a \in Agents, LinkPath(a) PROVE Goal
  <2>0. /\ pc[a] = "linking" /\ HashAddLink(a, PathOf(a), target[a])
        /\ UNCHANGED <<regPc, slotOf, nextPath, arrayVars>>
    BY <1>8 DEF LinkPath
  <2>1. Creating(a) /\ Busy(a)
    BY <1>0, <2>0, IndexingCreates
  <2>2. target[a] \in CopiedServers /\ target[a] \in Servers /\ PathOf(a) \in Paths
    BY <1>0, <2>1, CreatingSlot, WorkTyped
  <2>3. hashView[a] \in TableView /\ Within(hashView[a].chain, CopiedServers)
    BY <1>0, <2>0 DEF ViewInv
  <2>4. /\ DirInv'
        /\ \A t \in Threads : t # a => hashView'[t] = hashView[t]
    BY <2>0, <2>2, <2>3, AgentLinks
  <2>5. ~raced' => \A q \in Paths, u \in Servers : HasEntry(q, u) => HasEntry(q, u)'
    <3>1. EmptyInv
      BY DEF DirInv
    <3> QED BY <1>0, <2>0, <2>2, <2>3, <3>1, HashAddLinkKeeps
  <2>6. Grows
    BY <1>0, <2>0, <2>5 DEF Grows, arrayVars
  <2>7. CopiedServers' = CopiedServers
    BY <2>0 DEF CopiedServers, Copied
  <2>8. raced => raced'
    BY <2>0 DEF HashAddLink
  <2> QED BY <1>0, <1>8, <2>4, <2>6, <2>7, <2>8
<1> QED BY <1>1, <1>2, <1>4, <1>5, <1>6, <1>7, <1>8, DirCases

----------------------------------------------------------------------------
(* Which step changes what *)

\* The steps that choose the server an agent talks to.
LEMMA TargetCases ==
    ASSUME NSNext
    PROVE  \/ UNCHANGED target
           \/ \E c \in Clients : CreateMissing(c) \/ CreateSpread(c) \/ DeleteFound(c)
           \/ \E a \in Agents : CountPath(a)
<1>1. ASSUME NEW c \in Clients, Handler(c)
      PROVE  UNCHANGED target \/ CreateMissing(c) \/ CreateSpread(c) \/ DeleteFound(c)
  BY <1>1
  DEF Handler, Receive, Lookup, ListAll, CreateExists, CreateAlone, RecordNothing,
      CreateReply, DeleteMissing, DeleteConnect, DeleteReply, RefreshCount,
      RefreshFill, RefreshAbort, agentVars, Goto, Connect
<1>2. ASSUME NEW j \in Jobs, Job(j)
      PROVE  UNCHANGED target
  BY <1>2
  DEF Job, JobConnect, JobReply, agentVars, Goto, Connect
<1>3. ASSUME NEW a \in Agents, IndexPath(a) \/ Serve(a) \/ SSCreateFails(a)
      PROVE  UNCHANGED target \/ CountPath(a)
  BY <1>3
  DEF IndexPath, Serve, RecordPath, LinkPath, SSCreate, SSDelete, SSCreateFails,
      agentVars, Goto, Connect
<1>4. ASSUME NEW s \in Servers, Registration(s) \/ SSListen(s) \/ SSCrash(s)
      PROVE  UNCHANGED target
  BY <1>4
  DEF Registration, SSListen, SSCrash, nsVars, agentVars, Goto, Connect
<1>5. ASSUME NEW c \in Clients, ClientProgram(c) \/ \E cmd \in Commands : ClientSend(c, cmd)
      PROVE  UNCHANGED target
  BY <1>5
  DEF ClientProgram, ClientConnect, ClientServed, ClientSend, agentVars, Goto, Connect
<1> QED BY <1>1, <1>2, <1>3, <1>4, <1>5 DEF NSNext

\* The steps that change what an agent's storage server has answered.
LEMMA ReplyCases ==
    ASSUME NSNext
    PROVE  \/ UNCHANGED reply
           \/ \E c \in Clients : CreateAlone(c) \/ DeleteConnect(c)
           \/ \E j \in Jobs : JobConnect(j)
           \/ \E a \in Agents : SSCreate(a) \/ SSDelete(a) \/ SSCreateFails(a)
           \/ \E s \in Servers : SSCrash(s)
<1>1. ASSUME NEW c \in Clients, Handler(c)
      PROVE  UNCHANGED reply \/ CreateAlone(c) \/ DeleteConnect(c)
  BY <1>1
  DEF Handler, Receive, Lookup, ListAll, CreateExists, CreateMissing, CreateSpread,
      RecordNothing, CreateReply, DeleteMissing, DeleteFound, DeleteReply,
      RefreshCount, RefreshFill, RefreshAbort, agentVars
<1>2. ASSUME NEW j \in Jobs, Job(j)
      PROVE  UNCHANGED reply \/ JobConnect(j)
  BY <1>2
  DEF Job, JobReply, agentVars
<1>3. ASSUME NEW a \in Agents, IndexPath(a) \/ Serve(a) \/ SSCreateFails(a)
      PROVE  UNCHANGED reply \/ SSCreate(a) \/ SSDelete(a) \/ SSCreateFails(a)
  BY <1>3
  DEF IndexPath, Serve, RecordPath, CountPath, LinkPath, agentVars
<1>4. ASSUME NEW s \in Servers, Registration(s) \/ SSListen(s) \/ SSCrash(s)
      PROVE  UNCHANGED reply \/ SSCrash(s)
  BY <1>4
  DEF Registration, SSListen, nsVars, agentVars
<1>5. ASSUME NEW c \in Clients, ClientProgram(c) \/ \E cmd \in Commands : ClientSend(c, cmd)
      PROVE  UNCHANGED reply
  BY <1>5
  DEF ClientProgram, ClientConnect, ClientServed, ClientSend, agentVars
<1> QED BY <1>1, <1>2, <1>3, <1>4, <1>5 DEF NSNext

\* The steps that load a count or receive a walk.
LEMMA LoadedCases ==
    ASSUME NSNext
    PROVE  \/ UNCHANGED <<loaded, walk>>
           \/ \E c \in Clients : RefreshCount(c)
           \/ \E a \in Agents : RecordPath(a)
<1>1. ASSUME NEW c \in Clients, Handler(c)
      PROVE  UNCHANGED <<loaded, walk>> \/ RefreshCount(c)
  BY <1>1
  DEF Handler, Receive, Lookup, ListAll, CreateExists, CreateMissing, CreateSpread,
      CreateAlone, RecordNothing, CreateReply, DeleteMissing, DeleteFound,
      DeleteConnect, DeleteReply, RefreshFill, RefreshAbort, agentVars
<1>2. ASSUME NEW j \in Jobs, Job(j)
      PROVE  UNCHANGED <<loaded, walk>>
  BY <1>2
  DEF Job, JobConnect, JobReply, agentVars
<1>3. ASSUME NEW a \in Agents, IndexPath(a) \/ Serve(a) \/ SSCreateFails(a)
      PROVE  UNCHANGED <<loaded, walk>> \/ RecordPath(a)
  BY <1>3
  DEF IndexPath, Serve, CountPath, LinkPath, SSCreate, SSDelete, SSCreateFails,
      agentVars
<1>4. ASSUME NEW s \in Servers, Registration(s) \/ SSListen(s) \/ SSCrash(s)
      PROVE  UNCHANGED <<loaded, walk>>
  BY <1>4
  DEF Registration, SSListen, SSCrash, nsVars, agentVars
<1>5. ASSUME NEW c \in Clients, ClientProgram(c) \/ \E cmd \in Commands : ClientSend(c, cmd)
      PROVE  UNCHANGED <<loaded, walk>>
  BY <1>5
  DEF ClientProgram, ClientConnect, ClientServed, ClientSend, agentVars
<1> QED BY <1>1, <1>2, <1>3, <1>4, <1>5 DEF NSNext

\* The steps that a client sees.
LEMMA ClientCases ==
    ASSUME NSNext
    PROVE  \/ UNCHANGED <<clientPc, answers, routed>>
           \/ \E c \in Clients : \/ Lookup(c) \/ ListAll(c) \/ CreateReply(c)
                                 \/ DeleteMissing(c) \/ DeleteReply(c)
           \/ \E c \in Clients : ClientConnect(c) \/ ClientServed(c)
           \/ \E c \in Clients, cmd \in Commands : ClientSend(c, cmd)
           \/ \E j \in Jobs : JobReply(j)
           \/ \E s \in Servers : SSCrash(s)
<1>1. ASSUME NEW c \in Clients, Handler(c)
      PROVE  \/ UNCHANGED <<clientPc, answers, routed>>
             \/ Lookup(c) \/ ListAll(c) \/ CreateReply(c) \/ DeleteMissing(c)
             \/ DeleteReply(c)
  BY <1>1
  DEF Handler, Receive, CreateExists, CreateMissing, CreateSpread, CreateAlone,
      RecordNothing, DeleteFound, DeleteConnect, RefreshCount, RefreshFill,
      RefreshAbort, clientVars
<1>2. ASSUME NEW j \in Jobs, Job(j)
      PROVE  UNCHANGED <<clientPc, answers, routed>> \/ JobReply(j)
  BY <1>2
  DEF Job, JobConnect, clientVars
<1>3. ASSUME NEW a \in Agents, IndexPath(a) \/ Serve(a) \/ SSCreateFails(a)
      PROVE  UNCHANGED <<clientPc, answers, routed>>
  BY <1>3
  DEF IndexPath, Serve, RecordPath, CountPath, LinkPath, SSCreate, SSDelete,
      SSCreateFails, clientVars
<1>4. ASSUME NEW s \in Servers, Registration(s) \/ SSListen(s) \/ SSCrash(s)
      PROVE  UNCHANGED <<clientPc, answers, routed>> \/ SSCrash(s)
  BY <1>4
  DEF Registration, SSListen, nsVars, clientVars
<1>5. ASSUME NEW c \in Clients, ClientProgram(c)
      PROVE  UNCHANGED <<clientPc, answers, routed>> \/ ClientConnect(c) \/ ClientServed(c)
  BY <1>5
  DEF ClientProgram, clientVars
<1> QED BY <1>1, <1>2, <1>3, <1>4, <1>5 DEF NSNext

\* The steps of the storage servers.
LEMMA StoreCases ==
    ASSUME NSNext
    PROVE  \/ UNCHANGED storeVars
           \/ \E c \in Clients : ClientServed(c)
           \/ \E a \in Agents : SSCreate(a) \/ SSDelete(a) \/ SSCreateFails(a)
           \/ \E s \in Servers : SSListen(s) \/ SSCrash(s)
<1>1. ASSUME NEW c \in Clients, Handler(c)
      PROVE  UNCHANGED storeVars
  BY <1>1
  DEF Handler, Receive, Lookup, ListAll, CreateExists, CreateMissing, CreateSpread,
      CreateAlone, RecordNothing, CreateReply, DeleteMissing, DeleteFound,
      DeleteConnect, DeleteReply, RefreshCount, RefreshFill, RefreshAbort,
      storeVars
<1>2. ASSUME NEW j \in Jobs, Job(j)
      PROVE  UNCHANGED storeVars
  BY <1>2
  DEF Job, JobConnect, JobReply, storeVars
<1>3. ASSUME NEW a \in Agents, IndexPath(a) \/ Serve(a) \/ SSCreateFails(a)
      PROVE  UNCHANGED storeVars \/ SSCreate(a) \/ SSDelete(a) \/ SSCreateFails(a)
  BY <1>3
  DEF IndexPath, Serve, RecordPath, CountPath, LinkPath, storeVars
<1>4. ASSUME NEW s \in Servers, Registration(s) \/ SSListen(s) \/ SSCrash(s)
      PROVE  UNCHANGED storeVars \/ SSListen(s) \/ SSCrash(s)
  BY <1>4
  DEF Registration, nsVars, storeVars
<1>5. ASSUME NEW c \in Clients, ClientProgram(c) \/ \E cmd \in Commands : ClientSend(c, cmd)
      PROVE  UNCHANGED storeVars \/ ClientServed(c)
  BY <1>5
  DEF ClientProgram, ClientConnect, ClientSend, storeVars
<1> QED BY <1>1, <1>2, <1>3, <1>4, <1>5 DEF NSNext

\* The steps that tell a client of a creation.
LEMMA AckedCases ==
    ASSUME NSNext
    PROVE  \/ UNCHANGED acked
           \/ \E c \in Clients : CreateReply(c)
           \/ \E j \in Jobs : JobReply(j)
<1>1. ASSUME NEW c \in Clients, Handler(c)
      PROVE  UNCHANGED acked \/ CreateReply(c)
  BY <1>1
  DEF Handler, Receive, Lookup, ListAll, CreateExists, CreateMissing, CreateSpread,
      CreateAlone, RecordNothing, DeleteMissing, DeleteFound, DeleteConnect,
      DeleteReply, RefreshCount, RefreshFill, RefreshAbort
<1>2. ASSUME NEW j \in Jobs, Job(j)
      PROVE  UNCHANGED acked \/ JobReply(j)
  BY <1>2
  DEF Job, JobConnect
<1>3. ASSUME NEW a \in Agents, IndexPath(a) \/ Serve(a) \/ SSCreateFails(a)
      PROVE  UNCHANGED acked
  BY <1>3
  DEF IndexPath, Serve, RecordPath, CountPath, LinkPath, SSCreate, SSDelete,
      SSCreateFails
<1>4. ASSUME NEW s \in Servers, Registration(s) \/ SSListen(s) \/ SSCrash(s)
      PROVE  UNCHANGED acked
  BY <1>4
  DEF Registration, SSListen, SSCrash, nsVars
<1>5. ASSUME NEW c \in Clients, ClientProgram(c) \/ \E cmd \in Commands : ClientSend(c, cmd)
      PROVE  UNCHANGED acked
  BY <1>5
  DEF ClientProgram, ClientConnect, ClientServed, ClientSend
<1> QED BY <1>1, <1>2, <1>3, <1>4, <1>5 DEF NSNext

----------------------------------------------------------------------------
(* Types *)

\* Threads stay in the states of their kind, and no handler receives more
\* commands than its client sends.
LEMMA ControlTyped ==
    ASSUME NSTypeOK, PcTyped, RequestInv, NSNext
    PROVE  /\ PcTyped'
           /\ \A a \in Agents : pc'[a] \in IF a \in Clients THEN HandlerStates ELSE JobStates
           /\ requests' \in [Clients -> Seq(Commands)]
           /\ received' \in [Clients -> 0 .. MaxRequests]
<1>0. /\ requests \in [Clients -> Seq(Commands)] /\ received \in [Clients -> 0 .. MaxRequests]
      /\ pc \in [Agents -> HandlerStates \cup JobStates]
      /\ MaxRequests \in Nat /\ Clients \subseteq Agents
      /\ \A c \in Clients : c \notin Jobs
      /\ \A a \in Agents : pc[a] \in IF a \in Clients THEN HandlerStates ELSE JobStates
  BY AgentsAssumption DEF NSTypeOK, PcTyped, Agents
<1>1. requests' \in [Clients -> Seq(Commands)]
  <2>1. ASSUME NEW d \in Clients, NEW cmd \in Commands, ClientSend(d, cmd)
        PROVE  requests' \in [Clients -> Seq(Commands)]
    <3>1. requests' = [requests EXCEPT ![d] = Append(@, cmd)]
      BY <2>1 DEF ClientSend
    <3>2. Append(requests[d], cmd) \in Seq(Commands)
      BY <1>0, AppendProperties
    <3> QED BY <3>1, <3>2, <1>0
  <2> QED BY <1>0, <2>1, RequestsGrow
<1> DEFINE Goal == /\ pc' \in [Agents -> HandlerStates \cup JobStates]
                   /\ \A a \in Agents :
                          pc'[a] \in IF a \in Clients THEN HandlerStates ELSE JobStates
                   /\ received' \in [Clients -> 0 .. MaxRequests]
<1>2. ASSUME NEW d \in Clients, Receive(d) PROVE Goal
  <2>1. /\ received[d] < Len(requests[d])
        /\ received' = [received EXCEPT ![d] = @ + 1]
        /\ pc' = [pc EXCEPT ![d] = "dispatch"]
    BY <1>2 DEF Receive, Goto
  <2>2. Len(requests[d]) <= MaxRequests /\ Len(requests[d]) \in Nat
        /\ received[d] \in 0 .. MaxRequests
    BY <1>0 DEF RequestInv
  <2>3. received[d] + 1 \in 0 .. MaxRequests
    BY <1>0, <2>1, <2>2
  <2>4. received' \in [Clients -> 0 .. MaxRequests]
    BY <1>0, <2>1, <2>3
  <2> QED BY <1>0, <2>1, <2>4 DEF HandlerStates
<1>3. ASSUME NEW d \in Clients, CreateSpread(d) PROVE Goal
  <2>1. received' \in [Clients -> 0 .. MaxRequests]
    BY <1>0, <1>3 DEF CreateSpread
  <2>2. pc' \in [Agents -> HandlerStates \cup JobStates]
    BY <1>3, SpreadStarts
  <2>3. \A c \in Clients : pc'[c] \in HandlerStates
    <3>1. \A c \in Clients : pc'[c] = "idle" \/ pc'[c] = pc[c]
      BY <1>3, SpreadStarts
    <3> QED BY <1>0, <3>1 DEF HandlerStates
  <2>4. \A j \in Jobs : pc'[j] \in JobStates
    <3>1. \A j \in Jobs : pc'[j] = "spawned" \/ pc'[j] = pc[j]
      BY <1>3, SpreadStarts
    <3> QED BY <1>0, <3>1, JobParts DEF JobStates
  <2> QED BY <2>1, <2>2, <2>3, <2>4, <1>0 DEF Agents
<1>4. ASSUME NEW a \in Agents, NEW label \in HandlerStates \cup JobStates, Moves(a, label)
      PROVE  Goal
  <2>1. /\ received' = received /\ pc' = [pc EXCEPT ![a] = label] /\ Edge(a, label)
    BY <1>4 DEF Moves
  <2>2. label \in IF a \in Clients THEN HandlerStates ELSE JobStates
    BY <2>1, <1>0 DEF Edge, HandlerStates, JobStates
  <2> QED BY <1>0, <2>1, <2>2
<1>5. ASSUME UNCHANGED <<pc, received>> PROVE Goal
  <2>1. pc' = pc /\ received' = received
    BY <1>5
  <2> QED BY <1>0, <2>1
<1> HIDE DEF Goal
<1>6. Goal
  BY <1>2, <1>3, <1>4, <1>5, ControlFlow
<1> QED BY <1>1, <1>6 DEF PcTyped, Goal

\* What an agent knows of its storage server keeps its type.
LEMMA AgentTyped ==
    ASSUME NSTypeOK, PcTyped, RequestInv, DirInv, TargetInv, NSNext
    PROVE  /\ target' \in [Agents -> Servers \cup {NULL}]
           /\ reply' \in [Agents -> {"none", "pending", "lost", "-1", "2", "3", "4"}]
           /\ loaded' \in [Agents -> Nat]
           /\ walk' \in [Clients -> Seq(Paths)]
<1>0. /\ target \in [Agents -> Servers \cup {NULL}]
      /\ reply \in [Agents -> {"none", "pending", "lost", "-1", "2", "3", "4"}]
      /\ loaded \in [Agents -> Nat] /\ walk \in [Clients -> Seq(Paths)]
      /\ Clients \subseteq Agents /\ Jobs \subseteq Agents
      /\ storageServers \in [Slots -> SlotRecord]
      /\ 0 \in Slots /\ MAX_STORAGE_SERVERS \in Nat /\ MAX_PATHS \in Nat
  BY SizesAssumption DEF NSTypeOK, DirTypeOK, Agents, Slots
<1>1. \A k \in Slots : /\ storageServers[k].server \in Servers \cup {NULL}
                       /\ storageServers[k].numPaths \in Nat
  BY <1>0 DEF SlotRecord
<1>2. target' \in [Agents -> Servers \cup {NULL}]
  <2>1. ASSUME NEW c \in Clients, CreateMissing(c) PROVE <1>2!:
    BY <2>1, <1>0, <1>1 DEF CreateMissing
  <2>2. ASSUME NEW c \in Clients, DeleteFound(c) PROVE <1>2!:
    BY <2>2, <1>0 DEF DeleteFound
  <2>3. ASSUME NEW c \in Clients, CreateSpread(c) PROVE <1>2!:
    <3>1. /\ storageServerCount >= 3 /\ storageServerCount <= MAX_STORAGE_SERVERS
          /\ storageServerCount \in Nat
      BY <2>3, <1>0 DEF CreateSpread, NSTypeOK, DirTypeOK
    <3>2. \A k \in Replicas : k \in Slots
      BY <3>1, <1>0 DEF Replicas, Slots
    <3>3. /\ \A d \in Clients : target'[d] \in Servers \cup {NULL}
          /\ DOMAIN target' = Agents
      BY <1>0, <2>3, SpreadStarts
    <3>4. \A j \in Jobs : target'[j] = storageServers[j[3]].server \/ target'[j] = target[j]
      BY <2>3, SpreadStarts
    <3>5. \A j \in Jobs : target'[j] \in Servers \cup {NULL}
      BY <1>0, <1>1, <3>2, <3>4, JobParts
    <3>6. target' = [a \in Agents |-> target'[a]]
      BY <2>3 DEF CreateSpread
    <3> QED BY <3>3, <3>5, <3>6 DEF Agents
  <2>4. ASSUME NEW a \in Agents, CountPath(a) PROVE <1>2!:
    <3>1. pc[a] = "recording" /\ target' = [target EXCEPT ![a] = storageServers[SlotUsed(a)].server]
      BY <2>4 DEF CountPath
    <3>2. Creating(a)
      BY <3>1, IndexingCreates
    <3>3. SlotUsed(a) \in Slots
      BY <3>2, CreatingSlot
    <3> QED BY <1>0, <1>1, <3>1, <3>3
  <2> QED BY <1>0, <2>1, <2>2, <2>3, <2>4, TargetCases
<1>3. reply' \in [Agents -> {"none", "pending", "lost", "-1", "2", "3", "4"}]
  <2>1. ASSUME NEW c \in Clients, CreateAlone(c) \/ DeleteConnect(c) PROVE <1>3!:
    BY <2>1, <1>0 DEF CreateAlone, DeleteConnect, Connect
  <2>2. ASSUME NEW j \in Jobs, JobConnect(j) PROVE <1>3!:
    BY <2>2, <1>0 DEF JobConnect, Connect
  <2>3. ASSUME NEW a \in Agents, SSCreate(a) \/ SSCreateFails(a) PROVE <1>3!:
    BY <2>3, <1>0 DEF SSCreate, SSCreateFails
  <2>4. ASSUME NEW a \in Agents, SSDelete(a) PROVE <1>3!:
    <3>1. PICK r \in {"-1", "2", "3"} : reply' = [reply EXCEPT ![a] = r]
      BY <2>4 DEF SSDelete
    <3> QED BY <3>1, <1>0
  <2>5. ASSUME NEW s \in Servers, SSCrash(s) PROVE <1>3!:
    BY <2>5, <1>0 DEF SSCrash
  <2> QED BY <1>0, <2>1, <2>2, <2>3, <2>4, <2>5, ReplyCases
<1>4. loaded' \in [Agents -> Nat] /\ walk' \in [Clients -> Seq(Paths)]
  <2>1. ASSUME NEW c \in Clients, RefreshCount(c) PROVE <1>4!:
    <3>1. PICK i \in Slots :
              \/ /\ walk' = [walk EXCEPT ![c] = WalkOf(disk[target[c]])]
                 /\ loaded' = [loaded EXCEPT ![c] = i]
              \/ UNCHANGED <<walk, loaded>>
      BY <2>1 DEF RefreshCount
    <3>2. i \in Nat /\ WalkOf(disk[target[c]]) \in Seq(Paths)
      BY WalkTyped DEF Slots
    <3> QED BY <1>0, <3>1, <3>2
  <2>2. ASSUME NEW a \in Agents, RecordPath(a) PROVE <1>4!:
    <3>1. /\ pc[a] = "asked" /\ OpOf(a) = "CREATE" /\ UNCHANGED walk
          /\ loaded' = [loaded EXCEPT ![a] = storageServers[SlotUsed(a)].numPaths]
      BY <2>2 DEF RecordPath
    <3>2. Creating(a)
      BY <3>1 DEF Creating
    <3>3. SlotUsed(a) \in Slots
      BY <3>2, CreatingSlot
    <3> QED BY <1>0, <1>1, <3>1, <3>3
  <2> QED BY <1>0, <2>1, <2>2, LoadedCases
<1> QED BY <1>2, <1>3, <1>4

\* A reply keeps the client's side well-formed.
LEMMA AnswerTyped ==
    ASSUME NSTypeOK, NEW c \in Clients, NEW next \in {"ready", "routed"}, Answer(c, next)
    PROVE  /\ clientPc' \in [Clients -> {"ready", "waiting", "routed", "connected", "exited"}]
           /\ answers' \in [Clients -> Nat]
           /\ answers'[c] = answers[c] + 1
           /\ clientPc'[c] = IF clientPc[c] = "waiting" THEN next ELSE clientPc[c]
           /\ \A d \in Clients : d # c => answers'[d] = answers[d] /\ clientPc'[d] = clientPc[d]
           /\ UNCHANGED requests
<1>0. /\ clientPc \in [Clients -> {"ready", "waiting", "routed", "connected", "exited"}]
      /\ answers \in [Clients -> Nat]
  BY DEF NSTypeOK
<1>1. /\ answers' = [answers EXCEPT ![c] = @ + 1]
      /\ clientPc' = [clientPc EXCEPT ![c] = IF @ = "waiting" THEN next ELSE @]
      /\ UNCHANGED requests
  BY DEF Answer
<1> QED BY <1>0, <1>1

\* So do all other steps.
LEMMA ClientTyped ==
    ASSUME NSTypeOK, NSNext
    PROVE  /\ clientPc' \in [Clients -> {"ready", "waiting", "routed", "connected", "exited"}]
           /\ answers' \in [Clients -> Nat]
           /\ routed' \in [Clients -> Servers \cup {NULL}]
<1>0. /\ clientPc \in [Clients -> {"ready", "waiting", "routed", "connected", "exited"}]
      /\ answers \in [Clients -> Nat]
      /\ routed \in [Clients -> Servers \cup {NULL}]
  BY DEF NSTypeOK
<1> DEFINE Goal ==
      /\ clientPc' \in [Clients -> {"ready", "waiting", "routed", "connected", "exited"}]
      /\ answers' \in [Clients -> Nat]
      /\ routed' \in [Clients -> Servers \cup {NULL}]
<1>1. ASSUME NEW c \in Clients, NEW next \in {"ready", "routed"}, Answer(c, next),
             routed' \in [Clients -> Servers \cup {NULL}]
      PROVE  Goal
  BY <1>1, AnswerTyped
<1>2. ASSUME NEW c \in Clients, Lookup(c) PROVE Goal
  <2>1. /\ Answer(c, "ready") \/ Answer(c, "routed")
        /\ \/ UNCHANGED routed
           \/ \E s \in Servers : routed' = [routed EXCEPT ![c] = s]
    BY <1>2 DEF Lookup
  <2>2. routed' \in [Clients -> Servers \cup {NULL}]
    BY <1>0, <2>1
  <2> QED BY <1>1, <2>1, <2>2
<1>3. ASSUME NEW c \in Clients,
             ListAll(c) \/ CreateReply(c) \/ DeleteMissing(c) \/ DeleteReply(c)
      PROVE  Goal
  <2>1. /\ Answer(c, "ready") \/ UNCHANGED <<clientPc, answers>>
        /\ UNCHANGED routed
    BY <1>3 DEF ListAll, CreateReply, DeleteMissing, DeleteReply
  <2> QED BY <1>0, <1>1, <2>1
<1>4. ASSUME NEW j \in Jobs, JobReply(j) PROVE Goal
  <2>1. /\ Answer(j[1], "ready") \/ UNCHANGED <<clientPc, answers>>
        /\ UNCHANGED routed
    BY <1>4 DEF JobReply
  <2>2. j[1] \in Clients
    BY JobParts
  <2> QED BY <1>0, <1>1, <2>1, <2>2
<1>5. ASSUME NEW c \in Clients, ClientConnect(c) \/ ClientServed(c) PROVE Goal
  BY <1>0, <1>5 DEF ClientConnect, ClientServed
<1>6. ASSUME NEW c \in Clients, NEW cmd \in Commands, ClientSend(c, cmd) PROVE Goal
  BY <1>0, <1>6 DEF ClientSend
<1>7. ASSUME NEW s \in Servers, SSCrash(s) PROVE Goal
  BY <1>0, <1>7 DEF SSCrash
<1> HIDE DEF Goal
<1>8. Goal
  <2>1. CASE UNCHANGED <<clientPc, answers, routed>>
    BY <1>0, <2>1 DEF Goal
  <2> QED BY <2>1, <1>2, <1>3, <1>4, <1>5, <1>6, <1>7, ClientCases
<1> QED BY <1>8 DEF Goal

\* An agent whose reply is pending has sent a request to a server.
LEMMA AskedServer ==
    ASSUME NSTypeOK, PcTyped, DirInv, WorkInv, NEW a \in Agents, reply[a] = "pending"
    PROVE  /\ pc[a] = "asked" /\ Busy(a) /\ target[a] \in Servers /\ PathOf(a) \in Paths
           /\ OpOf(a) = "CREATE" => Creating(a)
<1>1. pc[a] = "asked"
  BY DEF WorkInv, ReplyInv
<1>2. Busy(a) /\ (OpOf(a) = "CREATE" => Creating(a))
  BY <1>1 DEF Busy, Creating
<1>3. PathOf(a) \in Paths
  BY <1>2, WorkTyped DEF WorkInv
<1>4. target[a] # NULL
  <2>1. CASE a \in Clients
    BY <1>1, <2>1 DEF WorkInv, TargetInv
  <2>2. CASE a \notin Clients
    <3>1. OpOf(a) = "CREATE"
      BY <2>2 DEF OpOf
    <3> QED BY <1>2, <3>1 DEF WorkInv, TargetInv
  <2> QED BY <2>1, <2>2
<1>5. target[a] \in Servers
  BY <1>4 DEF NSTypeOK
<1> QED BY <1>1, <1>2, <1>3, <1>5

\* A client at its storage server has a command, and a server.
LEMMA ServedCommand ==
    ASSUME NSTypeOK, RoutedInv, NEW c \in Clients, clientPc[c] = "connected"
    PROVE  requests[c][Len(requests[c])].path \in Paths /\ routed[c] \in Servers
<1>1. routed[c] # NULL /\ Len(requests[c]) >= 1 /\ requests[c] \in Seq(Commands)
      /\ routed[c] \in Servers \cup {NULL}
  BY DEF RoutedInv, NSTypeOK
<1>2. requests[c][Len(requests[c])] \in Commands
  BY <1>1
<1>3. requests[c][Len(requests[c])].path \in Paths
  BY <1>2, CommandsAssumption
<1> QED BY <1>1, <1>3

\* The storage servers keep their types, and forget nothing they have stored.
LEMMA StoreTyped ==
    ASSUME NSTypeOK, PcTyped, DirInv, WorkInv, RoutedInv, NSNext
    PROVE  /\ ssState' \in [Servers -> {"starting", "listening", "down"}]
           /\ disk' \in [Servers -> [Paths -> {"absent", "dir", "empty", "data"}]]
           /\ faults' \in 0 .. MaxFaults
           /\ stored' \subseteq Paths \X Servers
           /\ stored \subseteq stored'
           /\ faults' <= faults
<1>0. /\ ssState \in [Servers -> {"starting", "listening", "down"}]
      /\ disk \in [Servers -> [Paths -> {"absent", "dir", "empty", "data"}]]
      /\ faults \in 0 .. MaxFaults /\ stored \subseteq Paths \X Servers
      /\ MaxFaults \in Nat
  BY AgentsAssumption DEF NSTypeOK
<1> DEFINE Kind == {"absent", "dir", "empty", "data"}
           Goal == /\ ssState' \in [Servers -> {"starting", "listening", "down"}]
                   /\ disk' \in [Servers -> [Paths -> Kind]]
                   /\ faults' \in 0 .. MaxFaults
                   /\ stored' \subseteq Paths \X Servers
                   /\ stored \subseteq stored'
                   /\ faults' <= faults
<1>1. ASSUME NEW s \in Servers, NEW d \in [Paths -> Kind],
             disk' = [disk EXCEPT ![s] = d], UNCHANGED ssState,
             faults' = faults \/ (faults > 0 /\ faults' = faults - 1),
             UNCHANGED stored \/ \E p \in Paths : stored' = stored \cup {<<p, s>>}
      PROVE  Goal
  <2>1. disk' \in [Servers -> [Paths -> Kind]]
    BY <1>0, <1>1
  <2>2. faults' \in 0 .. MaxFaults /\ faults' <= faults
    BY <1>0, <1>1
  <2>3. stored' \subseteq Paths \X Servers /\ stored \subseteq stored'
    BY <1>0, <1>1
  <2> QED BY <1>0, <1>1, <2>1, <2>2, <2>3
<1>2. ASSUME NEW c \in Clients, ClientServed(c) PROVE Goal
  <2> DEFINE p == requests[c][Len(requests[c])].path
  <2>1. p \in Paths /\ routed[c] \in Servers
    BY <1>2, ServedCommand DEF ClientServed
  <2>2. /\ UNCHANGED <<ssState, faults>>
        /\ \/ UNCHANGED <<disk, stored>>
           \/ /\ disk' = [disk EXCEPT ![routed[c]][p] = "data"]
              /\ stored' = stored \cup {<<p, routed[c]>>}
    BY <1>2 DEF ClientServed
  <2> HIDE DEF p
  <2>3. CASE UNCHANGED <<disk, stored>>
    BY <1>0, <2>2, <2>3
  <2>4. CASE /\ disk' = [disk EXCEPT ![routed[c]][p] = "data"]
             /\ stored' = stored \cup {<<p, routed[c]>>}
    <3> DEFINE d == [disk[routed[c]] EXCEPT ![p] = "data"]
    <3>1. d \in [Paths -> Kind]
      BY <1>0, <2>1
    <3>2. disk' = [disk EXCEPT ![routed[c]] = d]
      BY <2>4
    <3> HIDE DEF d, Kind, Goal
    <3> QED BY <1>1, <2>1, <2>2, <2>4, <3>1, <3>2
  <2> QED BY <2>2, <2>3, <2>4
<1>3. ASSUME NEW a \in Agents, SSCreate(a) PROVE Goal
  <2> DEFINE d == [WithAncestors(disk[target[a]], PathOf(a)) EXCEPT ![PathOf(a)] = "empty"]
  <2>1. /\ reply[a] = "pending"
        /\ disk' = [disk EXCEPT ![target[a]] = d]
        /\ stored' = stored \cup {<<PathOf(a), target[a]>>}
        /\ UNCHANGED <<ssState, faults>>
    BY <1>3 DEF SSCreate, Asked
  <2>2. target[a] \in Servers /\ PathOf(a) \in Paths
    BY <2>1, AskedServer
  <2>3. d \in [Paths -> Kind]
    BY <1>0, <2>2 DEF WithAncestors
  <2> HIDE DEF d, Kind, Goal
  <2> QED BY <1>1, <2>1, <2>2, <2>3
<1>4. ASSUME NEW a \in Agents, SSCreateFails(a) PROVE Goal
  <2> DEFINE d == WithAncestors(disk[target[a]], PathOf(a))
  <2>1. /\ reply[a] = "pending"
        /\ disk' = [disk EXCEPT ![target[a]] = d]
        /\ faults > 0 /\ faults' = faults - 1
        /\ UNCHANGED <<ssState, stored>>
    BY <1>4 DEF SSCreateFails, Asked
  <2>2. target[a] \in Servers /\ PathOf(a) \in Paths
    BY <2>1, AskedServer
  <2>3. d \in [Paths -> Kind]
    BY <1>0, <2>2 DEF WithAncestors
  <2> HIDE DEF d, Kind, Goal
  <2> QED BY <1>1, <2>1, <2>2, <2>3
<1>5. ASSUME NEW a \in Agents, SSDelete(a) PROVE Goal
  <2> DEFINE e == disk[target[a]]
             d == [q \in Paths |-> IF q \in Removed(e, PathOf(a)) THEN "absent" ELSE e[q]]
  <2>1. /\ reply[a] = "pending"
        /\ disk' = [disk EXCEPT ![target[a]] = d]
        /\ UNCHANGED <<ssState, faults, stored>>
    BY <1>5 DEF SSDelete, Asked
  <2>2. target[a] \in Servers /\ PathOf(a) \in Paths
    BY <2>1, AskedServer
  <2>3. d \in [Paths -> Kind]
    BY <1>0, <2>2
  <2> HIDE DEF d, Kind, Goal
  <2> QED BY <1>1, <2>1, <2>2, <2>3
<1>6. ASSUME NEW s \in Servers, SSListen(s) \/ SSCrash(s) PROVE Goal
  BY <1>0, <1>6 DEF SSListen, SSCrash
<1>7. ASSUME UNCHANGED storeVars PROVE Goal
  BY <1>0, <1>7 DEF storeVars
<1> HIDE DEF Goal
<1>8. Goal
  BY <1>2, <1>3, <1>4, <1>5, <1>6, <1>7, StoreCases
<1> QED BY <1>8 DEF Goal

\* A client is told of a creation by an agent that is through with it.
LEMMA AckedGrows ==
    ASSUME NSNext
    PROVE  \/ UNCHANGED acked
           \/ \E a \in Agents : /\ pc[a] = "linked" /\ reply[a] = "4"
                                /\ acked' = acked \cup {<<PathOf(a), target[a]>>}
                                /\ UNCHANGED dirVars
<1>1. ASSUME NEW c \in Clients, CreateReply(c)
      PROVE  \/ UNCHANGED acked
             \/ /\ c \in Agents /\ pc[c] = "linked" /\ reply[c] = "4"
                /\ acked' = acked \cup {<<PathOf(c), target[c]>>}
                /\ UNCHANGED dirVars
  BY <1>1 DEF CreateReply, Acknowledge, Agents
<1>2. ASSUME NEW j \in Jobs, JobReply(j)
      PROVE  \/ UNCHANGED acked
             \/ /\ j \in Agents /\ pc[j] = "linked" /\ reply[j] = "4"
                /\ acked' = acked \cup {<<PathOf(j), target[j]>>}
                /\ UNCHANGED dirVars
  BY <1>2 DEF JobReply, Acknowledge, Agents
<1> QED BY <1>1, <1>2, AckedCases

\* An agent that is through with a creation has a path and a server for it.
LEMMA LinkedTyped ==
    ASSUME NSTypeOK, DirInv, WorkInv, NEW a \in Agents, pc[a] = "linked"
    PROVE  PathOf(a) \in Paths /\ target[a] \in Servers
<1>1. Creating(a) /\ Busy(a)
  BY IndexingCreates DEF WorkInv
<1>2. target[a] \in Servers
  BY <1>1, CreatingSlot DEF WorkInv
<1> QED BY <1>1, <1>2, WorkTyped DEF WorkInv

\* Every step keeps the types.
LEMMA NSTypeStep ==
    ASSUME NSTypeOK, PcTyped, DirInv, WorkInv, RoutedInv, RoomInv, NSNext
    PROVE  NSTypeOK' /\ PcTyped'
<1>1. DirTypeOK'
  BY DirStep DEF DirInv, TypeInv
<1>2. /\ PcTyped'
      /\ \A a \in Agents : pc'[a] \in IF a \in Clients THEN HandlerStates ELSE JobStates
      /\ requests' \in [Clients -> Seq(Commands)]
      /\ received' \in [Clients -> 0 .. MaxRequests]
  BY ControlTyped DEF WorkInv
<1>3. /\ target' \in [Agents -> Servers \cup {NULL}]
      /\ reply' \in [Agents -> {"none", "pending", "lost", "-1", "2", "3", "4"}]
      /\ loaded' \in [Agents -> Nat]
      /\ walk' \in [Clients -> Seq(Paths)]
  BY AgentTyped DEF WorkInv
<1>4. acked' \subseteq Paths \X Servers
  <2>1. acked \subseteq Paths \X Servers
    BY DEF NSTypeOK
  <2>2. ASSUME NEW a \in Agents, pc[a] = "linked",
               acked' = acked \cup {<<PathOf(a), target[a]>>}
        PROVE  acked' \subseteq Paths \X Servers
    BY <2>1, <2>2, LinkedTyped
  <2> QED BY <2>1, <2>2, AckedGrows
<1> QED BY <1>1, <1>2, <1>3, <1>4, ClientTyped, StoreTyped DEF NSTypeOK

\* A client is told a server only in a reply to a command.
LEMMA RoutedStep ==
    ASSUME NSTypeOK, PcTyped, RequestInv, RoutedInv, NSNext
    PROVE  RoutedInv'
<1>0. /\ clientPc \in [Clients -> {"ready", "waiting", "routed", "connected", "exited"}]
      /\ routed \in [Clients -> Servers \cup {NULL}] /\ NULL \notin Servers
      /\ requests \in [Clients -> Seq(Commands)]
      /\ received \in [Clients -> 0 .. MaxRequests] /\ MaxRequests \in Nat
  BY NamesAssumption, AgentsAssumption DEF NSTypeOK
<1> DEFINE Away == {"routed", "connected"}
           Stays(c) == clientPc[c] \in Away /\ routed'[c] = routed[c]
           Told(c) == received[c] >= 1 /\ routed'[c] # NULL
<1> SUFFICES ASSUME NEW c \in Clients, clientPc'[c] \in Away
             PROVE  routed'[c] # NULL /\ Len(requests'[c]) >= 1
  BY DEF RoutedInv
<1>1. ASSUME NEW d \in Clients, Answer(d, "ready"), UNCHANGED routed PROVE Stays(c)
  BY <1>1, <1>0, AnswerTyped
<1>2. ASSUME NEW d \in Clients, Lookup(d) PROVE Stays(c) \/ Told(c)
  <2>1. CASE Answer(d, "ready") /\ UNCHANGED routed
    BY <2>1, <1>1
  <2>2. ASSUME NEW s \in Servers, routed' = [routed EXCEPT ![d] = s], Answer(d, "routed")
        PROVE  Stays(c) \/ Told(c)
    <3>1. CASE c = d
      <4>1. routed'[c] = s
        BY <1>0, <2>2, <3>1
      <4>2. received[c] >= 1
        BY <1>2, <3>1 DEF Lookup, RequestInv, Busy
      <4> QED BY <1>0, <4>1, <4>2
    <3>2. CASE c # d
      BY <1>0, <2>2, <3>2, AnswerTyped
    <3> QED BY <3>1, <3>2
  <2> QED BY <1>2, <2>1, <2>2 DEF Lookup
<1>3. ASSUME NEW d \in Clients,
             ListAll(d) \/ CreateReply(d) \/ DeleteMissing(d) \/ DeleteReply(d)
      PROVE  Stays(c)
  <2>1. /\ Answer(d, "ready") \/ UNCHANGED <<clientPc, answers>>
        /\ UNCHANGED routed
    BY <1>3 DEF ListAll, CreateReply, DeleteMissing, DeleteReply
  <2> QED BY <1>1, <2>1
<1>4. ASSUME NEW j \in Jobs, JobReply(j) PROVE Stays(c)
  <2>1. /\ Answer(j[1], "ready") \/ UNCHANGED <<clientPc, answers>>
        /\ UNCHANGED routed
    BY <1>4 DEF JobReply
  <2>2. j[1] \in Clients
    BY JobParts
  <2> QED BY <1>1, <2>1, <2>2
<1>5. ASSUME NEW d \in Clients, ClientConnect(d) \/ ClientServed(d) PROVE Stays(c)
  BY <1>0, <1>5 DEF ClientConnect, ClientServed
<1>6. ASSUME NEW d \in Clients, NEW cmd \in Commands, ClientSend(d, cmd) PROVE Stays(c)
  BY <1>0, <1>6 DEF ClientSend
<1>7. ASSUME NEW s \in Servers, SSCrash(s) PROVE Stays(c)
  BY <1>0, <1>7 DEF SSCrash
<1>8. Stays(c) \/ Told(c)
  <2>1. CASE UNCHANGED <<clientPc, answers, routed>>
    BY <2>1
  <2> HIDE DEF Stays, Told
  <2>2. UNCHANGED <<clientPc, answers, routed>> => Stays(c) \/ Told(c)
    BY <2>1
  <2> QED BY <2>2, <1>2, <1>3, <1>4, <1>5, <1>6, <1>7, ClientCases
<1>9. routed'[c] # NULL /\ Len(requests[c]) >= 1
  <2>1. Len(requests[c]) \in Nat /\ received[c] \in Nat /\ received[c] <= Len(requests[c])
    BY <1>0 DEF RequestInv
  <2> QED BY <1>8, <2>1 DEF RoutedInv
<1>10. Len(requests[c]) \in 1 .. Len(requests'[c])
  <2>1. Len(requests[c]) \in 1 .. Len(requests[c])
    BY <1>0, <1>9
  <2> QED BY <2>1, RequestsKept
<1> QED BY <1>9, <1>10

----------------------------------------------------------------------------
(* The servers agents talk to *)

\* How an agent comes to each place in its code.
LEMMA Entering ==
    ASSUME NSTypeOK, PcTyped, RequestInv, NSNext, NEW a \in Agents, pc'[a] # pc[a]
    PROVE  /\ pc'[a] = "found" => a \in Clients /\ DeleteFound(a)
           /\ pc'[a] = "notfound" => a \in Clients /\ CreateMissing(a)
           /\ pc'[a] = "asked" => \/ a \in Clients /\ (CreateAlone(a) \/ DeleteConnect(a))
                                  \/ a \in Jobs /\ JobConnect(a)
           /\ pc'[a] = "recording" => RecordPath(a)
           /\ pc'[a] = "linking" => CountPath(a)
           /\ pc'[a] = "linked" => LinkPath(a) \/ (a \in Clients /\ RecordNothing(a))
           /\ pc'[a] = "search" => a \in Clients /\ DeleteReply(a)
           /\ pc'[a] = "refresh" => a \in Clients /\ RefreshCount(a)
<1>0. DOMAIN pc = Agents /\ Clients \subseteq Agents /\ Jobs \subseteq Agents
  BY DEF PcTyped, Agents
<1> DEFINE Goal ==
      /\ pc'[a] = "found" => a \in Clients /\ DeleteFound(a)
      /\ pc'[a] = "notfound" => a \in Clients /\ CreateMissing(a)
      /\ pc'[a] = "asked" => \/ a \in Clients /\ (CreateAlone(a) \/ DeleteConnect(a))
                             \/ a \in Jobs /\ JobConnect(a)
      /\ pc'[a] = "recording" => RecordPath(a)
      /\ pc'[a] = "linking" => CountPath(a)
      /\ pc'[a] = "linked" => LinkPath(a) \/ (a \in Clients /\ RecordNothing(a))
      /\ pc'[a] = "search" => a \in Clients /\ DeleteReply(a)
      /\ pc'[a] = "refresh" => a \in Clients /\ RefreshCount(a)
<1>1. ASSUME NEW x \in Agents, NEW label, Goto(x, label) PROVE a = x /\ pc'[a] = label
  BY <1>0, <1>1 DEF Goto
<1>2. ASSUME NEW c \in Clients, Handler(c) PROVE Goal
  <2>0. c \in Agents
    BY <1>0
  <2>1. CASE \/ Receive(c) \/ Lookup(c) \/ ListAll(c) \/ CreateExists(c) \/ CreateReply(c)
             \/ DeleteMissing(c) \/ RefreshFill(c) \/ RefreshAbort(c)
    <3>1. Goto(c, "dispatch") \/ Goto(c, "idle")
      BY <2>1 DEF Receive, Lookup, ListAll, CreateExists, CreateReply, DeleteMissing,
                  RefreshFill, RefreshAbort
    <3>2. pc'[a] \in {"dispatch", "idle"}
      BY <2>0, <3>1, <1>1
    <3> QED BY <3>2
  <2>2. CASE CreateMissing(c)
    <3>1. a = c /\ pc'[a] = "notfound"
      BY <2>0, <2>2, <1>1 DEF CreateMissing
    <3> QED BY <2>2, <3>1
  <2>3. CASE CreateSpread(c)
    <3>1. /\ \A d \in Clients : pc'[d] = "idle" \/ pc'[d] = pc[d]
          /\ \A j \in Jobs : pc'[j] = "spawned" \/ pc'[j] = pc[j]
      BY <2>3, SpreadStarts
    <3>2. pc'[a] \in {"idle", "spawned"}
      BY <3>1 DEF Agents
    <3> QED BY <3>2
  <2>4. CASE CreateAlone(c) \/ DeleteConnect(c)
    <3>1. Goto(c, "asked") \/ Goto(c, "returned")
      BY <2>4 DEF CreateAlone, DeleteConnect, Connect
    <3>2. a = c /\ pc'[a] \in {"asked", "returned"}
      BY <2>0, <3>1, <1>1
    <3> QED BY <2>4, <3>2
  <2>5. CASE RecordNothing(c)
    <3>1. a = c /\ pc'[a] = "linked"
      BY <2>0, <2>5, <1>1 DEF RecordNothing
    <3> QED BY <2>5, <3>1
  <2>6. CASE DeleteFound(c)
    <3>1. a = c /\ pc'[a] = "found"
      BY <2>0, <2>6, <1>1 DEF DeleteFound
    <3> QED BY <2>6, <3>1
  <2>7. CASE DeleteReply(c)
    <3>1. a = c /\ pc'[a] = "search"
      BY <2>0, <2>7, <1>1 DEF DeleteReply
    <3> QED BY <2>7, <3>1
  <2>8. CASE RefreshCount(c)
    <3>1. Goto(c, "refresh") \/ Goto(c, "idle")
      BY <2>8 DEF RefreshCount
    <3>2. a = c /\ pc'[a] \in {"refresh", "idle"}
      BY <2>0, <3>1, <1>1
    <3> QED BY <2>8, <3>2
  <2> HIDE DEF Goal
  <2> QED BY <1>2, <2>1, <2>2, <2>3, <2>4, <2>5, <2>6, <2>7, <2>8 DEF Handler
<1>3. ASSUME NEW j \in Jobs, Job(j) PROVE Goal
  <2>0. j \in Agents
    BY <1>0
  <2>1. CASE JobConnect(j)
    <3>1. Goto(j, "asked") \/ Goto(j, "failed")
      BY <2>1 DEF JobConnect, Connect
    <3>2. a = j /\ pc'[a] \in {"asked", "failed"}
      BY <2>0, <3>1, <1>1
    <3> QED BY <2>1, <3>2
  <2>2. CASE JobReply(j)
    <3>1. pc'[a] = "done"
      BY <2>0, <2>2, <1>1 DEF JobReply
    <3> QED BY <3>1
  <2> QED BY <1>3, <2>1, <2>2 DEF Job
<1>4. ASSUME NEW x \in Agents, IndexPath(x) PROVE Goal
  <2>1. CASE RecordPath(x)
    <3>1. a = x /\ pc'[a] = "recording"
      BY <2>1, <1>1 DEF RecordPath
    <3> QED BY <2>1, <3>1
  <2>2. CASE CountPath(x)
    <3>1. a = x /\ pc'[a] = "linking"
      BY <2>2, <1>1 DEF CountPath
    <3> QED BY <2>2, <3>1
  <2>3. CASE LinkPath(x)
    <3>1. a = x /\ pc'[a] = "linked"
      BY <2>3, <1>1 DEF LinkPath
    <3> QED BY <2>3, <3>1
  <2> QED BY <1>4, <2>1, <2>2, <2>3 DEF IndexPath
<1>5. ASSUME NEW x \in Agents, Serve(x) \/ SSCreateFails(x) PROVE FALSE
  BY <1>5 DEF Serve, SSCreate, SSDelete, SSCreateFails
<1>6. ASSUME NEW s \in Servers, Registration(s) \/ SSListen(s) \/ SSCrash(s) PROVE FALSE
  BY <1>6 DEF Registration, SSListen, SSCrash, nsVars, agentVars
<1>7. ASSUME NEW c \in Clients, ClientProgram(c) \/ \E cmd \in Commands : ClientSend(c, cmd)
      PROVE  FALSE
  BY <1>7 DEF ClientProgram, ClientConnect, ClientServed, ClientSend, agentVars
<1> HIDE DEF Goal
<1>8. Goal
  BY <1>2, <1>3, <1>4, <1>5, <1>6, <1>7 DEF NSNext
<1> QED BY <1>8 DEF Goal

\* An agent keeps its server but where it is given one.
LEMMA TargetKept ==
    ASSUME NSTypeOK, PcTyped, RequestInv, DirInv, TargetInv, NSNext, NEW a \in Agents
    PROVE  \/ target'[a] = target[a]
           \/ a \in Clients /\ (CreateMissing(a) \/ DeleteFound(a))
           \/ /\ a \in Jobs /\ pc'[a] = "spawned" /\ a[3] \in Slots
              /\ target'[a] = storageServers[a[3]].server
              /\ UNCHANGED storageServers
<1>0. DOMAIN target = Agents /\ Clients \subseteq Agents
  BY DEF NSTypeOK, Agents
<1>1. ASSUME NEW c \in Clients, CreateMissing(c) \/ DeleteFound(c)
      PROVE  target'[a] = target[a] \/ a = c
  BY <1>0, <1>1 DEF CreateMissing, DeleteFound
<1>2. ASSUME NEW c \in Clients, CreateSpread(c)
      PROVE  \/ target'[a] = target[a]
             \/ /\ a \in Jobs /\ pc'[a] = "spawned" /\ a[3] \in Slots
                /\ target'[a] = storageServers[a[3]].server
                /\ UNCHANGED storageServers
  <2>1. CASE a \in Clients
    BY <1>2, <2>1, SpreadStarts
  <2>2. CASE a \in Jobs
    <3>1. \/ target'[a] = target[a]
          \/ pc'[a] = "spawned" /\ target'[a] = storageServers[a[3]].server
      BY <1>2, <2>2, SpreadStarts
    <3>2. /\ storageServerCount >= 3 /\ storageServerCount \in 0 .. MAX_STORAGE_SERVERS
          /\ UNCHANGED storageServers /\ MAX_STORAGE_SERVERS \in Nat
      BY <1>2, SizesAssumption DEF CreateSpread, NSTypeOK, DirTypeOK, dirVars, arrayVars
    <3>3. a[3] \in Slots
      BY <2>2, <3>2, JobParts DEF Replicas, Slots
    <3> QED BY <2>2, <3>1, <3>2, <3>3
  <2> QED BY <2>1, <2>2 DEF Agents
<1>3. ASSUME NEW x \in Agents, CountPath(x) PROVE target'[a] = target[a]
  <2>1. pc[x] = "recording" /\ target' = [target EXCEPT ![x] = storageServers[SlotUsed(x)].server]
    BY <1>3 DEF CountPath
  <2>2. Creating(x)
    BY <2>1, IndexingCreates
  <2>3. storageServers[SlotUsed(x)].server = target[x]
    BY <2>2 DEF TargetInv
  <2> QED BY <1>0, <2>1, <2>3
<1> QED BY <1>1, <1>2, <1>3, TargetCases

\* TargetInv is inductive: slots keep their servers.
LEMMA TargetStep ==
    ASSUME NSTypeOK, PcTyped, DirInv, WorkInv, RoomInv, NSNext
    PROVE  TargetInv'
<1>0. /\ RequestInv /\ TargetInv /\ Clients \subseteq Agents /\ Jobs \subseteq Agents
      /\ NULL \notin Servers /\ 0 \in Slots /\ RequestInv'
  BY RequestStep, NamesAssumption, SizesAssumption DEF WorkInv, Agents, Slots
<1>1. \A i \in Slots : storageServers[i].server # NULL =>
          storageServers'[i].server = storageServers[i].server
  BY DirStep DEF Grows
<1>2. ASSUME NEW c \in Clients, pc'[c] \in {"found", "asked", "search", "refresh"}
      PROVE  target'[c] # NULL
  <2>0. c \in Agents /\ \A x \in Agents : DOMAIN pc = Agents
    BY <1>0 DEF PcTyped
  <2>1. ~CreateMissing(c)
    BY <1>2, <2>0 DEF CreateMissing, Goto
  <2>2. DeleteFound(c) => target'[c] # NULL
    BY <1>0, <2>0 DEF DeleteFound, NSTypeOK
  <2>3. target'[c] = target[c] \/ target'[c] # NULL
    BY <1>0, <2>0, <2>1, <2>2, TargetKept, AgentsAssumption
  <2>4. CASE pc'[c] = pc[c]
    BY <1>0, <1>2, <2>3, <2>4 DEF TargetInv
  <2>5. CASE pc'[c] # pc[c]
    <3>1. CASE pc'[c] = "found"
      BY <1>0, <2>0, <2>2, <2>5, <3>1, Entering
    <3>2. CASE pc'[c] = "asked"
      <4>1. CreateAlone(c) \/ DeleteConnect(c)
        BY <1>0, <2>0, <2>5, <3>2, Entering, AgentsAssumption
      <4>2. target[c] # NULL
        BY <4>1, <2>0, <3>2 DEF CreateAlone, DeleteConnect, Connect, Goto
      <4> QED BY <4>2, <2>3
    <3>3. CASE pc'[c] = "search"
      <4>1. DeleteReply(c)
        BY <1>0, <2>0, <2>5, <3>3, Entering
      <4>2. target[c] # NULL
        BY <1>0, <4>1 DEF DeleteReply, TargetInv
      <4> QED BY <4>2, <2>3
    <3>4. CASE pc'[c] = "refresh"
      <4>1. RefreshCount(c)
        BY <1>0, <2>0, <2>5, <3>4, Entering
      <4>2. target[c] # NULL
        BY <1>0, <4>1 DEF RefreshCount, TargetInv
      <4> QED BY <4>2, <2>3
    <3> QED BY <1>2, <3>1, <3>2, <3>3, <3>4
  <2> QED BY <2>4, <2>5
<1>3. ASSUME NEW c \in Clients, pc'[c] = "notfound", target'[c] # NULL
      PROVE  storageServers'[0].server = target'[c]
  <2>0. c \in Agents /\ DOMAIN pc = Agents /\ DOMAIN target = Agents
    BY <1>0 DEF PcTyped, NSTypeOK
  <2>1. CASE pc'[c] = pc[c]
    <3>1. ~CreateMissing(c) /\ ~DeleteFound(c)
      BY <1>3, <2>1 DEF CreateMissing, DeleteFound
    <3>2. target'[c] = target[c]
      BY <1>0, <2>0, <3>1, TargetKept, AgentsAssumption
    <3> QED BY <1>0, <1>1, <1>3, <2>1, <3>2 DEF TargetInv
  <2>2. CASE pc'[c] # pc[c]
    <3>1. CreateMissing(c)
      BY <1>0, <1>3, <2>0, <2>2, Entering
    <3> QED BY <3>1, <2>0 DEF CreateMissing, dirVars, arrayVars
  <2> QED BY <2>1, <2>2
<1>4. ASSUME NEW j \in Jobs, target'[j] # NULL
      PROVE  j[3] \in Slots /\ storageServers'[j[3]].server = target'[j]
  <2>0. j \in Agents /\ j \notin Clients
    BY JobParts
  <2>1. CASE target'[j] = target[j]
    BY <1>0, <1>1, <1>4, <2>1 DEF TargetInv
  <2>2. CASE target'[j] # target[j]
    BY <1>0, <2>0, <2>2, TargetKept
  <2> QED BY <2>1, <2>2
<1>5. ASSUME NEW a \in Agents, Creating(a)'
      PROVE  target'[a] # NULL /\ storageServers'[SlotUsed(a)].server = target'[a]
  <2>0. /\ DOMAIN pc = Agents /\ DOMAIN target = Agents
        /\ pc'[a] \in {"asked", "recording", "linking", "linked"} /\ OpOf(a)' = "CREATE"
    BY <1>5 DEF PcTyped, NSTypeOK, Creating
  <2>1. target'[a] = target[a]
    <3>1. ~CreateMissing(a) /\ ~DeleteFound(a)
      BY <2>0 DEF CreateMissing, DeleteFound, Goto
    <3> QED BY <1>0, <2>0, <3>1, TargetKept
  <2>2. CASE pc[a] \in {"asked", "recording", "linking", "linked"}
    <3>1. Busy(a)
      BY <2>2 DEF Busy
    <3>2. Creating(a)
      BY <1>0, <2>0, <2>2, <3>1, WorkKept DEF Creating
    <3>3. /\ target[a] # NULL /\ storageServers[SlotUsed(a)].server = target[a]
          /\ SlotUsed(a) \in Slots
      BY <1>0, <3>2, CreatingSlot DEF TargetInv
    <3> QED BY <1>1, <2>1, <3>3
  <2>3. CASE pc[a] \notin {"asked", "recording", "linking", "linked"}
    <3>0. pc'[a] = "asked" /\ pc'[a] # pc[a]
      <4>1. pc'[a] # pc[a]
        BY <2>0, <2>3
      <4>2. /\ pc'[a] = "recording" => RecordPath(a)
            /\ pc'[a] = "linking" => CountPath(a)
            /\ pc'[a] = "linked" => LinkPath(a) \/ RecordNothing(a)
        BY <1>0, <4>1, Entering
      <4> QED BY <2>0, <2>3, <4>1, <4>2 DEF RecordPath, CountPath, LinkPath, RecordNothing
    <3>1. \/ a \in Clients /\ CreateAlone(a)
          \/ a \in Clients /\ DeleteConnect(a)
          \/ a \in Jobs /\ JobConnect(a)
      BY <1>0, <3>0, Entering
    <3>2. target[a] # NULL
      BY <3>0, <3>1, <2>0 DEF CreateAlone, DeleteConnect, JobConnect, Connect, Goto
    <3>3. CASE a \in Clients /\ CreateAlone(a)
      <4>1. storageServers[0].server = target[a] /\ SlotUsed(a) = 0
        BY <1>0, <3>2, <3>3 DEF TargetInv, CreateAlone, SlotUsed
      <4> QED BY <1>0, <1>1, <2>1, <3>2, <4>1
    <3>4. CASE a \in Clients /\ DeleteConnect(a)
      <4>1. pc[a] = "found" /\ OpOf(a) = "DELETE" /\ Busy(a)
        BY <1>0, <3>4 DEF DeleteConnect, RequestInv, OpOf, Busy
      <4>2. OpOf(a)' = "DELETE"
        BY <1>0, <4>1, WorkKept
      <4> QED BY <2>0, <4>2
    <3>5. CASE a \in Jobs /\ JobConnect(a)
      <4>1. /\ a[3] \in Slots /\ storageServers[a[3]].server = target[a] /\ SlotUsed(a) = a[3]
        BY <1>0, <3>2, <3>5, JobParts DEF TargetInv, SlotUsed
      <4> QED BY <1>1, <2>1, <3>2, <4>1
    <3> QED BY <3>1, <3>3, <3>4, <3>5
  <2> QED BY <2>2, <2>3
<1>6. \A a \in Agents : SlotUsed(a)' = SlotUsed(a)
  BY DEF SlotUsed
<1> QED BY <1>2, <1>3, <1>4, <1>5, <1>6 DEF TargetInv

\* An agent stops waiting only when it has the reply.
LEMMA ReplyStep ==
    ASSUME NSTypeOK, PcTyped, RequestInv, ReplyInv, NSNext
    PROVE  ReplyInv'
<1>0. /\ DOMAIN pc = Agents /\ DOMAIN reply = Agents
      /\ Clients \subseteq Agents /\ Jobs \subseteq Agents
      /\ \A c \in Clients : c \notin Jobs
  BY AgentsAssumption DEF PcTyped, NSTypeOK, Agents
<1> SUFFICES ASSUME NEW a \in Agents, reply'[a] = "pending" PROVE pc'[a] = "asked"
  BY DEF ReplyInv
<1>1. ASSUME reply[a] = "pending" PROVE pc'[a] = "asked"
  <2>1. pc[a] = "asked"
    BY <1>1 DEF ReplyInv
  <2> SUFFICES ASSUME pc'[a] # pc[a] PROVE FALSE
    BY <2>1
  <2>2. pc'[a] \in {"recording", "linked", "search"}
    <3>1. ASSUME NEW d \in Clients, Receive(d) PROVE FALSE
      BY <3>1, <1>0, <2>1 DEF Receive, Goto
    <3>2. ASSUME NEW d \in Clients, CreateSpread(d) PROVE FALSE
      <4>1. a \notin Clients
        BY <2>1, <3>2, SpreadStarts
      <4>2. a \in Jobs /\ Busy(a)
        BY <2>1, <4>1 DEF Busy, Agents
      <4>3. a[1] = d /\ a[2] = received[d]
        BY <3>2, <4>2, SpreadStarts
      <4>4. a[2] < received[d] \/ pc[d] = "idle"
        BY <4>2, <4>3 DEF RequestInv
      <4>5. pc[d] = "notfound" /\ received[d] \in Nat
        BY <3>2, AgentsAssumption DEF CreateSpread, NSTypeOK
      <4> QED BY <4>3, <4>4, <4>5
    <3>3. ASSUME NEW x \in Agents, NEW label \in HandlerStates \cup JobStates, Moves(x, label)
          PROVE  pc'[a] \in {"recording", "linked", "search"}
      <4>1. pc' = [pc EXCEPT ![x] = label] /\ Edge(x, label)
        BY <3>3 DEF Moves
      <4>2. x = a /\ pc'[a] = label
        BY <1>0, <4>1
      <4> QED BY <2>1, <4>1, <4>2 DEF Edge
    <3> QED BY <3>1, <3>2, <3>3, ControlFlow
  <2>3. RecordPath(a) \/ LinkPath(a) \/ RecordNothing(a) \/ DeleteReply(a)
    BY <2>2, Entering
  <2> QED BY <1>1, <2>1, <2>3 DEF RecordPath, LinkPath, RecordNothing, DeleteReply
<1>2. ASSUME NEW x \in Agents,
             \/ x \in Clients /\ (CreateAlone(x) \/ DeleteConnect(x))
             \/ x \in Jobs /\ JobConnect(x)
      PROVE  reply[a] = "pending" \/ pc'[a] = "asked"
  BY <1>0, <1>2 DEF CreateAlone, DeleteConnect, JobConnect, Connect, Goto
<1>3. ASSUME NEW x \in Agents, SSCreate(x) \/ SSDelete(x) \/ SSCreateFails(x)
      PROVE  reply[a] = "pending"
  <2>1. PICK r \in {"-1", "2", "3", "4"} : reply' = [reply EXCEPT ![x] = r]
    BY <1>3 DEF SSCreate, SSDelete, SSCreateFails
  <2> QED BY <1>0, <2>1
<1>4. ASSUME NEW s \in Servers, SSCrash(s) PROVE reply[a] = "pending"
  BY <1>4 DEF SSCrash
<1>5. reply[a] = "pending" \/ pc'[a] = "asked"
  BY <1>0, <1>2, <1>3, <1>4, ReplyCases
<1> QED BY <1>1, <1>5

\* What an agent has read of the table stays the table of registered servers.
LEMMA ViewStep ==
    ASSUME NSTypeOK, PcTyped, DirInv, WorkInv, RoomInv, NSNext
    PROVE  ViewInv'
<1>0. RequestInv /\ TargetInv /\ ViewInv /\ CopiedServers \subseteq CopiedServers'
      /\ DirTypeOK /\ ChainInv /\ DOMAIN hashView = Threads /\ Agents \subseteq Threads
  BY DirStep, AgentsAssumption DEF WorkInv, DirInv, TypeInv, DirTypeOK
<1> SUFFICES ASSUME NEW a \in Agents, pc'[a] = "linking"
             PROVE  hashView'[a] \in TableView /\ Within(hashView'[a].chain, CopiedServers')
  BY DEF ViewInv, Within
<1>1. ASSUME hashView'[a] \in TableView, Within(hashView'[a].chain, CopiedServers)
      PROVE  Within(hashView'[a].chain, CopiedServers')
  BY <1>0, <1>1 DEF Within
<1>2. CASE pc[a] = "linking"
  <2>1. ~CountPath(a) /\ ~LinkPath(a)
    <3>1. DOMAIN pc = Agents
      BY DEF PcTyped
    <3> QED BY <1>2, <3>1 DEF CountPath, LinkPath, Goto
  <2>2. hashView'[a] = hashView[a]
    BY <2>1, DirStep
  <2> QED BY <1>0, <1>1, <1>2, <2>2 DEF ViewInv
<1>3. CASE pc[a] # "linking"
  <2>1. CountPath(a)
    BY <1>0, <1>3, Entering
  <2>2. pc[a] = "recording" /\ HashAddBegin(a, PathOf(a))
    BY <2>1 DEF CountPath
  <2>3. PathOf(a) \in Paths
    BY <1>0, <2>2, IndexingCreates, WorkTyped
  <2>4. hashView'[a] \in TableView
    BY <1>0, <2>2, <2>3, HashAddBeginType
  <2>5. hashView'[a].chain = chains[Bucket[PathOf(a)]]
    BY <1>0, <2>2 DEF HashAddBegin, TableAt
  <2>6. Within(chains[Bucket[PathOf(a)]], CopiedServers)
    BY <1>0, <2>3, NamesAssumption DEF ChainInv
  <2> QED BY <1>1, <2>4, <2>5, <2>6
<1> QED BY <1>2, <1>3

\* The parts of an agent's work stay in step.
LEMMA WorkStep ==
    ASSUME NSTypeOK, PcTyped, DirInv, WorkInv, RoomInv, NSNext
    PROVE  WorkInv'
BY RequestStep, TargetStep, ReplyStep, ViewStep DEF WorkInv

----------------------------------------------------------------------------
(* Room stays *)

\* What a step leaves of the commands with room.
LEMMA UnusedLess ==
    ASSUME NSTypeOK, PcTyped, RequestInv, NSNext, NEW k
    PROVE  /\ Cardinality(Unused(k)') \in Nat
           /\ Cardinality(Unused(k)') <= Cardinality(Unused(k))
           /\ Cardinality(Unused(k)') <= Cardinality(Clients) * MaxRequests
           /\ Cardinality(Unused(k)) \in Nat
           /\ \A a \in Agents : CountPath(a) /\ SlotUsed(a) = k =>
                  Cardinality(Unused(k)') + 1 <= Cardinality(Unused(k))
<1> DEFINE U == Unused(k)
           V == Unused(k)'
<1>1. V \subseteq U
  BY UnusedShrinks
<1>2. IsFiniteSet(U) /\ Cardinality(U) \in Nat
      /\ Cardinality(U) <= Cardinality(Clients) * MaxRequests
  BY UnusedBound
<1>3. \A a \in Agents : CountPath(a) /\ SlotUsed(a) = k => Pair(a) \in U /\ Pair(a) \notin V
  <2> SUFFICES ASSUME NEW a \in Agents, CountPath(a), SlotUsed(a) = k
               PROVE  Pair(a) \in U /\ Pair(a) \notin V
    OBVIOUS
  <2>1. pc[a] = "recording"
    BY DEF CountPath
  <2>2. Pair(a) \in Unused(SlotUsed(a))
    BY <2>1, PairUnused
  <2>3. Pair(a) \notin Unused(SlotUsed(a))'
    BY PairUsed
  <2>4. Unused(SlotUsed(a))' = Unused(k)'
    BY DEF SlotUsed, Unused
  <2> QED BY <2>2, <2>3, <2>4
<1> HIDE DEF U, V
<1>4. IsFiniteSet(V) /\ Cardinality(V) \in Nat /\ Cardinality(V) <= Cardinality(U)
  BY <1>1, <1>2, FS_Subset, FS_CardinalityType
<1>5. Cardinality(Clients) * MaxRequests \in Nat
  <2>1. Cardinality(Clients) \in Nat /\ MaxRequests \in Nat
    BY AgentsAssumption, FS_CardinalityType
  <2> QED BY <2>1
<1>6. Cardinality(V) <= Cardinality(Clients) * MaxRequests
  BY <1>2, <1>4, <1>5
<1>7. ASSUME NEW a \in Agents, CountPath(a), SlotUsed(a) = k
      PROVE  Cardinality(V) + 1 <= Cardinality(U)
  <2> DEFINE W == U \ {Pair(a)}
  <2>1. IsFiniteSet(W) /\ Cardinality(W) = Cardinality(U) - 1
    BY <1>2, <1>3, <1>7, FS_RemoveElement
  <2>2. V \in SUBSET W
    BY <1>1, <1>3, <1>7
  <2> HIDE DEF W
  <2>3. Cardinality(V) <= Cardinality(W)
    BY <2>1, <2>2, FS_Subset
  <2> QED BY <1>2, <1>4, <2>1, <2>3
<1> QED BY <1>2, <1>4, <1>6, <1>7 DEF U, V

\* How the count of a listing changes.
LEMMA CountCases ==
    ASSUME NSTypeOK, PcTyped, DirInv, WorkInv, RoomInv, NSNext, NEW k \in Slots
    PROVE  \/ storageServers'[k].numPaths = storageServers[k].numPaths
           \/ /\ storageServers'[k].numPaths \in Nat
              /\ storageServers'[k].numPaths + Cardinality(Clients) * MaxRequests <= MAX_PATHS
           \/ \E a \in Agents : /\ CountPath(a) /\ k = SlotUsed(a)
                                /\ storageServers'[k].numPaths = loaded[a] + 1
<1>0. /\ RequestInv /\ TargetInv /\ ViewInv /\ DirTypeOK
      /\ storageServers \in [Slots -> SlotRecord] /\ slotOf \in [Servers -> Slots]
  BY DEF WorkInv, NSTypeOK, DirTypeOK
<1> DEFINE Goal ==
      \/ storageServers'[k].numPaths = storageServers[k].numPaths
      \/ /\ storageServers'[k].numPaths \in Nat
         /\ storageServers'[k].numPaths + Cardinality(Clients) * MaxRequests <= MAX_PATHS
      \/ \E a \in Agents : /\ CountPath(a) /\ k = SlotUsed(a)
                           /\ storageServers'[k].numPaths = loaded[a] + 1
<1>1. ASSUME UNCHANGED storageServers PROVE Goal
  BY <1>1
<1>2. ASSUME NEW s \in Servers, Registration(s) PROVE Goal
  <2>1. CASE RegCopy(s)
    <3>1. storageServers' = [storageServers EXCEPT ![slotOf[s]] = ReportOf(s)]
      BY <2>1 DEF RegCopy
    <3>2. CASE slotOf[s] = k
      <4>1. storageServers'[k].numPaths = Len(MountPaths[s])
        BY <1>0, <3>1, <3>2 DEF ReportOf
      <4>2. Len(MountPaths[s]) \in Nat
        BY MountAssumption
      <4> QED BY <4>1, <4>2, RoomAssumption
    <3>3. CASE slotOf[s] # k
      BY <1>0, <3>1, <3>3
    <3> QED BY <3>2, <3>3
  <2>2. CASE ~RegCopy(s)
    <3>1. UNCHANGED storageServers
      BY <1>2, <2>2
      DEF Registration, Register, RegThread, RegRecv, RegLock, RegCheck, RegRefuse, RegCount,
          RegAddBegin, RegAddLink, RegAck, arrayVars
    <3> QED BY <1>1, <3>1
  <2> QED BY <2>1, <2>2
<1>3. ASSUME NEW c \in Clients, RefreshCount(c) PROVE Goal
  <2>1. CASE UNCHANGED storageServers
    BY <1>1, <2>1
  <2>2. CASE ~UNCHANGED storageServers
    <3>1. PICK i \in Slots :
              /\ walk' = [walk EXCEPT ![c] = WalkOf(disk[target[c]])]
              /\ storageServers' = [storageServers EXCEPT ![i].numPaths = Len(walk'[c])]
      BY <1>3, <2>2 DEF RefreshCount
    <3>2. walk'[c] = WalkOf(disk[target[c]])
      BY <3>1 DEF NSTypeOK
    <3>3. Len(walk'[c]) \in Nat /\ Len(walk'[c]) <= Cardinality(Paths)
      BY <3>2, WalkTyped
    <3>4. CASE i = k
      <4>1. storageServers'[k].numPaths = Len(walk'[c])
        BY <1>0, <3>1, <3>4 DEF SlotRecord
      <4>2. Cardinality(Paths) \in Nat /\ Cardinality(Clients) * MaxRequests \in Nat
        <5>1. Cardinality(Clients) \in Nat /\ MaxRequests \in Nat
          BY AgentsAssumption, FS_CardinalityType
        <5>2. Cardinality(Paths) \in Nat
          BY RoomAssumption, FS_CardinalityType
        <5> QED BY <5>1, <5>2
      <4>3. /\ Cardinality(Paths) + Cardinality(Clients) * MaxRequests <= MAX_PATHS
            /\ MAX_PATHS \in Nat
        BY RoomAssumption, SizesAssumption
      <4> QED BY <3>3, <4>1, <4>2, <4>3
    <3>5. CASE i # k
      BY <1>0, <3>1, <3>5
    <3> QED BY <3>4, <3>5
  <2> QED BY <2>1, <2>2
<1>4. ASSUME NEW c \in Clients, RefreshFill(c) PROVE Goal
  <2>1. walk[c] \in Seq(Paths)
    BY DEF NSTypeOK
  <2>2. storageServers' =
          [storageServers EXCEPT ![loaded[c]].accessiblePaths = ListingOf(walk[c])]
    BY <1>4 DEF RefreshFill
  <2> QED BY <1>0, <2>1, <2>2, ListingFilled
<1>5. ASSUME NEW a \in Agents, RecordPath(a) PROVE Goal
  <2>1. Creating(a) /\ Busy(a)
    <3>1. pc[a] = "asked" /\ OpOf(a) = "CREATE"
      BY <1>5 DEF RecordPath
    <3> QED BY <3>1 DEF Creating, Busy
  <2>2. SlotUsed(a) \in Slots /\ PathOf(a) \in Paths
    BY <1>0, <2>1, CreatingSlot, WorkTyped
  <2>3. storageServers' =
          [storageServers EXCEPT ![SlotUsed(a)].accessiblePaths[PlaceUsed(a)] = PathOf(a)]
    BY <1>5 DEF RecordPath
  <2> QED BY <1>0, <2>2, <2>3, ListingWritten
<1>6. ASSUME NEW a \in Agents, CountPath(a) PROVE Goal
  <2>1. /\ pc[a] = "recording"
        /\ storageServers' = [storageServers EXCEPT ![SlotUsed(a)].numPaths = loaded[a] + 1]
    BY <1>6 DEF CountPath
  <2>2. SlotUsed(a) \in Slots
    BY <1>0, <2>1, IndexingCreates, CreatingSlot
  <2>3. loaded[a] + 1 \in 0 .. MAX_PATHS
    BY <1>0, <2>1, RoomLeft
  <2>4. storageServers'[k].numPaths
            = IF k = SlotUsed(a) THEN loaded[a] + 1 ELSE storageServers[k].numPaths
    BY <1>0, <2>1, <2>2, <2>3, CountStored
  <2> QED BY <1>6, <2>4
<1>7. ASSUME NEW a \in Agents, LinkPath(a) PROVE Goal
  BY <1>1, <1>7 DEF LinkPath, arrayVars
<1>8. ASSUME UNCHANGED dirVars PROVE Goal
  BY <1>1, <1>8 DEF dirVars, arrayVars
<1> HIDE DEF Goal
<1>9. Goal
  BY <1>2, <1>3, <1>4, <1>5, <1>6, <1>7, <1>8, DirCases
<1> QED BY <1>9 DEF Goal

\* RoomInv is inductive: a listing grows only on account of a command.
LEMMA RoomStep ==
    ASSUME NSTypeOK, PcTyped, DirInv, WorkInv, RoomInv, NSNext
    PROVE  RoomInv'
<1>0. /\ RequestInv /\ TargetInv /\ loaded \in [Agents -> Nat] /\ MAX_PATHS \in Nat
      /\ DOMAIN pc = Agents /\ Clients \subseteq Agents
      /\ Cardinality(Clients) * MaxRequests \in Nat
      /\ storageServers \in [Slots -> SlotRecord]
  <2>1. Cardinality(Clients) \in Nat /\ MaxRequests \in Nat
    BY AgentsAssumption, FS_CardinalityType
  <2>2. Cardinality(Clients) * MaxRequests \in Nat
    BY <2>1
  <2> QED BY <2>2, SizesAssumption DEF WorkInv, NSTypeOK, DirTypeOK, PcTyped, Agents
<1>1. \A k \in Slots : storageServers[k].numPaths \in Nat
  BY <1>0 DEF SlotRecord
<1>2. ASSUME NEW k \in Slots
      PROVE  storageServers'[k].numPaths + Cardinality(Unused(k)') <= MAX_PATHS
  <2> DEFINE n == storageServers[k].numPaths
             m == storageServers'[k].numPaths
             u == Cardinality(Unused(k))
             v == Cardinality(Unused(k)')
             r == Cardinality(Clients) * MaxRequests
  <2>1. v \in Nat /\ u \in Nat /\ v <= u /\ v <= r
    BY <1>0, UnusedLess
  <2>2. n \in Nat /\ n + u <= MAX_PATHS /\ r \in Nat
    BY <1>0, <1>1 DEF RoomInv
  <2>3. ASSUME m = n PROVE m + v <= MAX_PATHS
    <3> HIDE DEF n, m, u, v
    <3> QED BY <1>0, <2>1, <2>2, <2>3
  <2>4. ASSUME m \in Nat, m + r <= MAX_PATHS PROVE m + v <= MAX_PATHS
    <3> HIDE DEF n, m, u, v, r
    <3> QED BY <1>0, <2>1, <2>2, <2>4
  <2>5. ASSUME NEW a \in Agents, CountPath(a), k = SlotUsed(a), m = loaded[a] + 1
        PROVE  m + v <= MAX_PATHS
    <3>1. v + 1 <= u
      BY <1>0, <2>5, UnusedLess
    <3>2. loaded[a] + u <= MAX_PATHS /\ loaded[a] \in Nat
      <4>1. pc[a] = "recording"
        BY <2>5 DEF CountPath
      <4> QED BY <1>0, <2>5, <4>1 DEF RoomInv
    <3> HIDE DEF n, m, u, v
    <3> QED BY <1>0, <2>1, <2>5, <3>1, <3>2
  <2>6. \/ m = n
        \/ m \in Nat /\ m + r <= MAX_PATHS
        \/ \E a \in Agents : CountPath(a) /\ k = SlotUsed(a) /\ m = loaded[a] + 1
    BY CountCases
  <2> HIDE DEF n, m, u, v
  <2>7. m + v <= MAX_PATHS
    BY <2>3, <2>4, <2>5, <2>6
  <2> QED BY <2>7 DEF m, v
<1>3. ASSUME NEW a \in Agents, pc'[a] = "recording"
      PROVE  loaded'[a] + Cardinality(Unused(SlotUsed(a))') <= MAX_PATHS
  <2> DEFINE k == SlotUsed(a)
             u == Cardinality(Unused(k))
             v == Cardinality(Unused(k)')
  <2>1. v \in Nat /\ u \in Nat /\ v <= u
    BY <1>0, UnusedLess
  <2>2. loaded'[a] + u <= MAX_PATHS /\ loaded'[a] \in Nat
    <3>1. CASE pc[a] = "recording"
      <4>1. loaded'[a] = loaded[a]
        <5>1. ASSUME NEW c \in Clients, RefreshCount(c) PROVE loaded'[a] = loaded[a]
          BY <5>1, <1>0, <3>1 DEF RefreshCount
        <5>2. ASSUME NEW x \in Agents, RecordPath(x) PROVE loaded'[a] = loaded[a]
          BY <5>2, <1>0, <3>1 DEF RecordPath
        <5> QED BY <5>1, <5>2, LoadedCases
      <4> QED BY <1>0, <3>1, <4>1 DEF RoomInv
    <3>2. CASE pc[a] # "recording"
      <4>1. RecordPath(a)
        BY <1>0, <1>3, <3>2, Entering
      <4>2. /\ Creating(a) /\ loaded'[a] = storageServers[SlotUsed(a)].numPaths
        BY <1>0, <4>1 DEF RecordPath, Creating
      <4>3. SlotUsed(a) \in Slots
        BY <1>0, <4>2, CreatingSlot
      <4> QED BY <1>1, <4>2, <4>3 DEF RoomInv
    <3> QED BY <3>1, <3>2
  <2>3. Unused(SlotUsed(a))' = Unused(k)'
    OBVIOUS
  <2> HIDE DEF u, v
  <2>4. loaded'[a] + v <= MAX_PATHS
    BY <1>0, <2>1, <2>2
  <2> QED BY <2>4 DEF v
<1>4. \A a \in Agents : SlotUsed(a)' = SlotUsed(a)
  BY DEF SlotUsed
<1> QED BY <1>2, <1>3, <1>4 DEF RoomInv

----------------------------------------------------------------------------
(* Answers *)

\* The thread that answers client c has come to the end of its command.
Answered(c) ==
    /\ answers'[c] = answers[c] + 1
    /\ clientPc[c] = "waiting" => clientPc'[c] # "waiting"
    /\ UNCHANGED <<requests, received>>
    /\ \/ /\ pc[c] \in Owing
          /\ \E label \in {"idle", "search"} : pc' = [pc EXCEPT ![c] = label]
       \/ \E j \in Jobs : /\ j[1] = c /\ j[3] = 0 /\ pc[j] \in Live
                          /\ pc' = [pc EXCEPT ![j] = "done"]

\* A client's wait changes when it sends a command and when it is answered.
LEMMA WaitCases ==
    ASSUME NSTypeOK, PcTyped, NSNext, NEW c \in Clients
    PROVE  \/ /\ clientPc'[c] = "waiting" <=> clientPc[c] = "waiting"
              /\ answers'[c] = answers[c] /\ requests'[c] = requests[c]
           \/ \E cmd \in Commands : ClientSend(c, cmd)
           \/ Answered(c)
<1>0. /\ clientPc \in [Clients -> {"ready", "waiting", "routed", "connected", "exited"}]
      /\ DOMAIN requests = Clients /\ DOMAIN pc = Agents /\ Clients \subseteq Agents
  BY DEF NSTypeOK, PcTyped, Agents
<1> DEFINE Same == /\ clientPc'[c] = "waiting" <=> clientPc[c] = "waiting"
                   /\ answers'[c] = answers[c]
<1>1. ASSUME NEW d \in Clients, NEW next \in {"ready", "routed"}, Answer(d, next),
             UNCHANGED received,
             \/ pc[d] \in Owing /\ \E label \in {"idle", "search"} : pc' = [pc EXCEPT ![d] = label]
             \/ \E j \in Jobs : /\ j[1] = d /\ j[3] = 0 /\ pc[j] \in Live
                                /\ pc' = [pc EXCEPT ![j] = "done"]
      PROVE  Same \/ Answered(c)
  <2>1. CASE c = d
    <3>1. /\ answers'[c] = answers[c] + 1
          /\ clientPc[c] = "waiting" => clientPc'[c] # "waiting"
          /\ UNCHANGED requests
      BY <1>1, <2>1, AnswerTyped
    <3> QED BY <1>1, <2>1, <3>1 DEF Answered
  <2>2. CASE c # d
    <3>1. answers'[c] = answers[c] /\ clientPc'[c] = clientPc[c]
      BY <1>1, <2>2, AnswerTyped
    <3> QED BY <3>1
  <2> QED BY <2>1, <2>2
<1>2. ASSUME NEW d \in Clients,
             \/ Lookup(d) \/ ListAll(d) \/ CreateReply(d) \/ DeleteMissing(d) \/ DeleteReply(d)
      PROVE  Same \/ Answered(c)
  <2>1. /\ UNCHANGED received /\ pc[d] \in Owing
        /\ \E label \in {"idle", "search"} : pc' = [pc EXCEPT ![d] = label]
        /\ \/ Answer(d, "ready") \/ Answer(d, "routed")
           \/ UNCHANGED <<clientPc, answers>>
    BY <1>2
    DEF Lookup, ListAll, CreateReply, DeleteMissing, DeleteReply, Goto, Owing
  <2>2. CASE Answer(d, "ready") \/ Answer(d, "routed")
    BY <1>1, <2>1, <2>2
  <2>3. CASE UNCHANGED <<clientPc, answers>>
    BY <2>3
  <2> QED BY <2>1, <2>2, <2>3
<1>3. ASSUME NEW j \in Jobs, JobReply(j) PROVE Same \/ Answered(c)
  <2>1. /\ UNCHANGED received /\ pc[j] \in Live /\ pc' = [pc EXCEPT ![j] = "done"]
        /\ \/ j[3] = 0 /\ Answer(j[1], "ready")
           \/ UNCHANGED <<clientPc, answers>>
    BY <1>3 DEF JobReply, Goto, Live
  <2>2. j[1] \in Clients
    BY JobParts
  <2>3. CASE j[3] = 0 /\ Answer(j[1], "ready")
    BY <1>1, <2>1, <2>2, <2>3
  <2>4. CASE UNCHANGED <<clientPc, answers>>
    BY <2>4
  <2> QED BY <2>1, <2>3, <2>4
<1>4. ASSUME NEW d \in Clients, ClientConnect(d) \/ ClientServed(d) PROVE Same
  BY <1>0, <1>4 DEF ClientConnect, ClientServed
<1>5. ASSUME NEW d \in Clients, NEW cmd \in Commands, ClientSend(d, cmd)
      PROVE  Same \/ ClientSend(c, cmd)
  BY <1>0, <1>5 DEF ClientSend
<1>6. ASSUME NEW s \in Servers, SSCrash(s) PROVE Same
  BY <1>0, <1>6 DEF SSCrash
<1>7. Same \/ (\E cmd \in Commands : ClientSend(c, cmd)) \/ Answered(c)
  <2>1. UNCHANGED <<clientPc, answers, routed>> => Same
    OBVIOUS
  <2> HIDE DEF Same
  <2> QED BY <2>1, <1>2, <1>3, <1>4, <1>5, <1>6, ClientCases
<1>8. requests'[c] = requests[c] \/ \E cmd \in Commands : ClientSend(c, cmd)
  <2>1. ASSUME NEW d \in Clients, NEW cmd \in Commands, ClientSend(d, cmd)
        PROVE  requests'[c] = requests[c] \/ d = c
    BY <1>0, <2>1 DEF ClientSend
  <2> QED BY <2>1, RequestsGrow
<1> QED BY <1>7, <1>8

\* AnswerInv is inductive: of the threads that may answer a command at most one
\* is left at any time.
LEMMA AnswerStep ==
    ASSUME NSTypeOK, PcTyped, RequestInv, AnswerInv, NSNext
    PROVE  AnswerInv'
<1>0. /\ DOMAIN pc = Agents /\ DOMAIN received = Clients /\ DOMAIN requests = Clients
      /\ Clients \subseteq Agents /\ Jobs \subseteq Agents
      /\ \A c \in Clients : c \notin Jobs
      /\ \A c \in Clients : answers[c] \in Nat /\ received[c] \in Nat
      /\ \A c \in Clients : requests[c] \in Seq(Commands) /\ Len(requests[c]) \in Nat
      /\ \A c \in Clients : received[c] <= Len(requests[c])
  BY AgentsAssumption DEF NSTypeOK, PcTyped, Agents, RequestInv
<1> DEFINE Client(c) ==
      /\ clientPc[c] = "waiting" => answers[c] + 1 = Len(requests[c])
      /\ clientPc[c] # "waiting" => answers[c] = Len(requests[c])
      /\ received[c] < Len(requests[c]) =>
             clientPc[c] = "waiting" /\ received[c] + 1 = Len(requests[c])
      /\ pc[c] \in Owing => clientPc[c] = "waiting" /\ received[c] = Len(requests[c])
<1> DEFINE Original(j) ==
      j[3] = 0 /\ pc[j] \in Live =>
          /\ clientPc[j[1]] = "waiting"
          /\ j[2] = received[j[1]]
          /\ received[j[1]] = Len(requests[j[1]])
          /\ pc[j[1]] = "idle"
<1> SUFFICES ASSUME NEW c \in Clients
             PROVE  Client(c)' /\ \A j \in Jobs : j[1] = c => Original(j)'
  <2>1. \A j \in Jobs : j[1] \in Clients
    BY JobParts
  <2> QED BY <2>1 DEF AnswerInv
<1>1. Client(c) /\ \A j \in Jobs : j[1] = c => Original(j)
  BY DEF AnswerInv
<1>2. \A j \in Jobs : j \notin Clients /\ j # c /\ j = <<j[1], j[2], j[3]>>
  BY JobParts
<1>3. ASSUME NEW cmd \in Commands, ClientSend(c, cmd)
      PROVE  Client(c)' /\ \A j \in Jobs : j[1] = c => Original(j)'
  <2>1. /\ clientPc[c] = "ready" /\ clientPc'[c] = "waiting"
        /\ UNCHANGED <<answers, pc, received>>
        /\ requests'[c] = Append(requests[c], cmd)
    BY <1>0, <1>3 DEF ClientSend, agentVars, NSTypeOK
  <2>2. Len(requests'[c]) = Len(requests[c]) + 1
    BY <1>0, <2>1, AppendProperties
  <2>3. received[c] = Len(requests[c]) /\ answers[c] = Len(requests[c]) /\ pc[c] \notin Owing
    BY <1>0, <1>1, <2>1
  <2>4. \A j \in Jobs : j[1] = c => ~(j[3] = 0 /\ pc[j] \in Live)
    BY <1>1, <2>1
  <2> QED BY <1>0, <2>1, <2>2, <2>3, <2>4
<1>4. ASSUME Answered(c)
      PROVE  Client(c)' /\ \A j \in Jobs : j[1] = c => Original(j)'
  <2>0. /\ answers'[c] = answers[c] + 1
        /\ clientPc[c] = "waiting" => clientPc'[c] # "waiting"
        /\ UNCHANGED <<requests, received>>
    BY <1>4 DEF Answered
  <2>1. ASSUME pc[c] \in Owing, NEW label \in {"idle", "search"}, pc' = [pc EXCEPT ![c] = label]
        PROVE  Client(c)' /\ \A j \in Jobs : j[1] = c => Original(j)'
    <3>1. clientPc[c] = "waiting" /\ received[c] = Len(requests[c])
      BY <1>1, <2>1
    <3>2. pc'[c] \notin Owing /\ pc[c] # "idle"
      BY <1>0, <2>1 DEF Owing
    <3>3. \A j \in Jobs : j[1] = c => ~(j[3] = 0 /\ pc'[j] \in Live)
      BY <1>0, <1>1, <1>2, <2>1, <3>2
    <3> QED BY <1>0, <1>1, <2>0, <3>1, <3>2, <3>3
  <2>2. ASSUME NEW j \in Jobs, j[1] = c, j[3] = 0, pc[j] \in Live,
               pc' = [pc EXCEPT ![j] = "done"]
        PROVE  Client(c)' /\ \A i \in Jobs : i[1] = c => Original(i)'
    <3>1. /\ clientPc[c] = "waiting" /\ received[c] = Len(requests[c])
          /\ pc[c] = "idle" /\ j[2] = received[c]
      BY <1>1, <2>2
    <3>2. pc'[c] = "idle" /\ pc'[j] = "done"
      BY <1>0, <1>2, <2>2, <3>1
    <3>3. \A i \in Jobs : i[1] = c => ~(i[3] = 0 /\ pc'[i] \in Live)
      <4> SUFFICES ASSUME NEW i \in Jobs, i[1] = c, i[3] = 0, pc'[i] \in Live PROVE FALSE
        OBVIOUS
      <4>1. i # j
        BY <3>2 DEF Live
      <4>2. pc[i] \in Live
        BY <1>0, <2>2, <4>1
      <4>3. i[2] = received[c]
        BY <1>1, <4>2
      <4>4. i = <<i[1], i[2], i[3]>> /\ j = <<j[1], j[2], j[3]>>
        BY <1>2
      <4> QED BY <2>2, <3>1, <4>1, <4>3, <4>4
    <3> QED BY <1>0, <1>1, <2>0, <3>1, <3>2, <3>3 DEF Owing
  <2> QED BY <1>4, <2>1, <2>2 DEF Answered
<1>5. ASSUME clientPc'[c] = "waiting" <=> clientPc[c] = "waiting",
             answers'[c] = answers[c], requests'[c] = requests[c]
      PROVE  Client(c)' /\ \A j \in Jobs : j[1] = c => Original(j)'
  <2>1. ASSUME NEW d \in Clients, Receive(d)
        PROVE  Client(c)' /\ \A j \in Jobs : j[1] = c => Original(j)'
    <3>1. /\ pc[d] = "idle" /\ received[d] < Len(requests[d])
          /\ received' = [received EXCEPT ![d] = @ + 1]
          /\ pc' = [pc EXCEPT ![d] = "dispatch"]
      BY <2>1 DEF Receive, Goto
    <3>2. \A j \in Jobs : pc'[j] = pc[j]
      BY <1>0, <3>1
    <3>3. CASE c = d
      <4>1. pc'[c] = "dispatch" /\ received'[c] = received[c] + 1
        BY <1>0, <3>1, <3>3
      <4>2. clientPc[c] = "waiting" /\ received[c] + 1 = Len(requests[c])
        BY <1>1, <3>1, <3>3
      <4>3. \A j \in Jobs : j[1] = c => ~(j[3] = 0 /\ pc[j] \in Live)
        BY <1>0, <1>1, <3>1, <3>3
      <4> QED BY <1>0, <1>1, <1>5, <3>2, <4>1, <4>2, <4>3
    <3>4. CASE c # d
      <4>1. pc'[c] = pc[c] /\ received'[c] = received[c]
        BY <1>0, <3>1, <3>4
      <4> QED BY <1>1, <1>5, <3>2, <4>1
    <3> QED BY <3>3, <3>4
  <2>2. ASSUME NEW d \in Clients, CreateSpread(d)
        PROVE  Client(c)' /\ \A j \in Jobs : j[1] = c => Original(j)'
    <3>1. /\ UNCHANGED received /\ pc[d] = "notfound" /\ pc'[d] = "idle"
          /\ pc'[c] = "idle" \/ pc'[c] = pc[c]
          /\ c # d => pc'[c] = pc[c]
          /\ \A j \in Jobs : \/ j[1] = d /\ j[2] = received[d]
                             \/ pc'[j] = pc[j]
      BY <2>2, SpreadStarts DEF CreateSpread
    <3>2. Client(c)'
      BY <1>1, <1>5, <3>1 DEF Owing
    <3>3. ASSUME NEW j \in Jobs, j[1] = c PROVE Original(j)'
      <4>1. CASE c = d
        <5>1. /\ clientPc[c] = "waiting" /\ received[c] = Len(requests[c])
          BY <1>1, <3>1, <4>1 DEF Owing
        <5>2. pc[c] # "idle"
          BY <3>1, <4>1
        <5>3. j[3] = 0 /\ pc'[j] \in Live => j[2] = received[c]
          BY <1>1, <3>1, <3>3, <4>1, <5>2
        <5> QED BY <1>5, <3>1, <3>3, <4>1, <5>1, <5>3
      <4>2. CASE c # d
        <5>1. pc'[j] = pc[j] /\ pc'[c] = pc[c]
          BY <3>1, <3>3, <4>2
        <5> QED BY <1>1, <1>5, <3>1, <3>3, <5>1
      <4> QED BY <4>1, <4>2
    <3> QED BY <3>2, <3>3
  <2>3. ASSUME NEW a \in Agents, NEW label \in HandlerStates \cup JobStates, Moves(a, label)
        PROVE  Client(c)' /\ \A j \in Jobs : j[1] = c => Original(j)'
    <3>1. /\ UNCHANGED received /\ Edge(a, label) /\ pc' = [pc EXCEPT ![a] = label]
      BY <2>3 DEF Moves
    <3>2. CASE a = c
      <4>1. pc'[c] = label /\ pc[c] # "idle" /\ (label \in Owing => pc[c] \in Owing)
        BY <1>0, <3>1, <3>2 DEF Edge, Owing
      <4>2. \A j \in Jobs : j[1] = c => ~(j[3] = 0 /\ pc'[j] \in Live)
        BY <1>0, <1>1, <1>2, <3>1, <3>2, <4>1
      <4> QED BY <1>1, <1>5, <3>1, <4>1, <4>2
    <3>3. CASE a # c
      <4>1. pc'[c] = pc[c]
        BY <1>0, <3>1, <3>3
      <4>2. ASSUME NEW j \in Jobs, pc'[j] \in Live PROVE pc[j] \in Live
        <5>1. CASE a = j
          <6>1. pc'[j] = label /\ a \notin Clients
            BY <1>0, <1>2, <3>1, <5>1
          <6> QED BY <3>1, <4>2, <5>1, <6>1 DEF Edge, Live
        <5>2. CASE a # j
          BY <1>0, <3>1, <4>2, <5>2
        <5> QED BY <5>1, <5>2
      <4> QED BY <1>1, <1>5, <3>1, <4>1, <4>2
    <3> QED BY <3>2, <3>3
  <2>4. ASSUME UNCHANGED <<pc, received>>
        PROVE  Client(c)' /\ \A j \in Jobs : j[1] = c => Original(j)'
    <3>1. pc' = pc /\ received' = received
      BY <2>4
    <3> QED BY <1>1, <1>5, <3>1
  <2> HIDE DEF Client, Original
  <2> QED BY <2>1, <2>2, <2>3, <2>4, ControlFlow
<1> HIDE DEF Client, Original
<1> QED BY <1>3, <1>4, <1>5, WaitCases

----------------------------------------------------------------------------
(* The path is in the table before the client is told of it *)

\* Only its storage server tells an agent of a creation.
LEMMA ReplyFour ==
    ASSUME NSTypeOK, NSNext, NEW a \in Agents, reply'[a] = "4"
    PROVE  reply[a] = "4" \/ SSCreate(a)
<1>0. DOMAIN reply = Agents /\ Clients \subseteq Agents /\ Jobs \subseteq Agents
  BY DEF NSTypeOK, Agents
<1>1. ASSUME NEW c \in Clients, CreateAlone(c) \/ DeleteConnect(c) PROVE reply[a] = "4"
  BY <1>0, <1>1 DEF CreateAlone, DeleteConnect, Connect
<1>2. ASSUME NEW j \in Jobs, JobConnect(j) PROVE reply[a] = "4"
  BY <1>0, <1>2 DEF JobConnect, Connect
<1>3. ASSUME NEW x \in Agents, SSCreate(x) \/ SSCreateFails(x) \/ SSDelete(x)
      PROVE  reply[a] = "4" \/ SSCreate(a)
  <2>1. CASE SSCreate(x) \/ SSCreateFails(x)
    BY <1>0, <2>1 DEF SSCreate, SSCreateFails
  <2>2. CASE SSDelete(x)
    <3>1. PICK r \in {"-1", "2", "3"} : reply' = [reply EXCEPT ![x] = r]
      BY <2>2 DEF SSDelete
    <3> QED BY <1>0, <3>1
  <2> QED BY <1>3, <2>1, <2>2
<1>4. ASSUME NEW s \in Servers, SSCrash(s) PROVE reply[a] = "4"
  BY <1>4 DEF SSCrash
<1> QED BY <1>1, <1>2, <1>3, <1>4, ReplyCases

\* An agent that creates and goes on creating keeps command, path and server.
LEMMA CreationKept ==
    ASSUME NSTypeOK, PcTyped, DirInv, WorkInv, NSNext, NEW a \in Agents,
           pc[a] \in {"asked", "recording", "linking", "linked"},
           pc'[a] \in {"asked", "recording", "linking", "linked"}
    PROVE  /\ PathOf(a)' = PathOf(a) /\ OpOf(a)' = OpOf(a)
           /\ target'[a] = target[a]
<1>1. RequestInv /\ TargetInv /\ DOMAIN pc = Agents
  BY DEF WorkInv, PcTyped
<1>2. Busy(a)
  BY DEF Busy
<1>3. ~CreateMissing(a) /\ ~DeleteFound(a)
  BY <1>1 DEF CreateMissing, DeleteFound
<1>4. target'[a] = target[a]
  BY <1>1, <1>3, TargetKept
<1> QED BY <1>1, <1>2, <1>4, WorkKept

\* AckInv is inductive: between the link and the reply nothing takes the entry.
LEMMA AckStep ==
    ASSUME NSTypeOK, PcTyped, DirInv, WorkInv, RoomInv, AckInv, NSNext
    PROVE  AckInv'
<1>0. /\ RequestInv /\ TargetInv /\ ReplyInv /\ ViewInv /\ DOMAIN pc = Agents
      /\ Agents \subseteq Threads /\ DirTypeOK /\ EmptyInv
  BY AgentsAssumption DEF WorkInv, PcTyped, DirInv, TypeInv
<1> SUFFICES ASSUME ~raced', NEW a \in Agents, pc'[a] = "linked", reply'[a] = "4"
             PROVE  HasEntry(PathOf(a), target[a])'
  BY DEF AckInv
<1>1. /\ ~raced
      /\ \A p \in Paths, s \in Servers : HasEntry(p, s) => HasEntry(p, s)'
  BY DirStep DEF Grows
<1>2. CASE pc[a] = "linked"
  <2>1. reply[a] = "4"
    <3>1. ~SSCreate(a)
      BY <1>0, <1>2 DEF SSCreate, Asked, ReplyInv
    <3> QED BY <3>1, ReplyFour
  <2>2. PathOf(a)' = PathOf(a) /\ target'[a] = target[a]
    BY <1>2, CreationKept
  <2>3. HasEntry(PathOf(a), target[a]) /\ PathOf(a) \in Paths /\ target[a] \in Servers
    BY <1>1, <1>2, <2>1, LinkedTyped DEF AckInv
  <2> DEFINE p == PathOf(a)
             s == target[a]
  <2>4. \E i \in 1 .. Len(chains'[Bucket[p]]) :
            chains'[Bucket[p]][i] = [path |-> p, server |-> s]
    BY <1>1, <2>3 DEF HasEntry
  <2> QED BY <2>2, <2>4 DEF HasEntry
<1>3. CASE pc[a] # "linked"
  <2>1. LinkPath(a)
    <3>1. ~RecordNothing(a)
      BY DEF RecordNothing
    <3> QED BY <1>0, <1>3, <3>1, Entering
  <2>2. pc[a] = "linking" /\ HashAddLink(a, PathOf(a), target[a])
    BY <2>1 DEF LinkPath
  <2>3. PathOf(a)' = PathOf(a) /\ target'[a] = target[a]
    BY <2>2, CreationKept
  <2>4. PathOf(a) \in Paths /\ target[a] \in Servers
    <3>1. Creating(a) /\ Busy(a)
      BY <1>0, <2>2, IndexingCreates
    <3> QED BY <1>0, <3>1, CreatingSlot, WorkTyped
  <2> DEFINE p == PathOf(a)
             s == target[a]
  <2>5. \E i \in 1 .. Len(chains'[Bucket[p]]) :
            chains'[Bucket[p]][i] = [path |-> p, server |-> s]
    <3>1. hashView[a] \in TableView
      BY <1>0, <2>2 DEF ViewInv
    <3> QED BY <1>0, <2>2, <2>4, <3>1, HashAddLinkKeeps DEF HasEntry
  <2> QED BY <2>3, <2>5 DEF HasEntry
<1> QED BY <1>2, <1>3

\* And afterwards it stays.
LEMMA LocatableStep ==
    ASSUME NSTypeOK, PcTyped, DirInv, WorkInv, RoomInv, AckInv, CreateAckedLocatable, NSNext
    PROVE  CreateAckedLocatable'
<1> SUFFICES ASSUME ~raced', NEW ps \in acked'
             PROVE  HasEntry(ps[1], ps[2])'
  BY DEF CreateAckedLocatable
<1>1. /\ ~raced
      /\ \A p \in Paths, s \in Servers : HasEntry(p, s) => HasEntry(p, s)'
  BY DirStep DEF Grows
<1>2. CASE ps \in acked
  <2>1. ps[1] \in Paths /\ ps[2] \in Servers
    BY <1>2 DEF NSTypeOK
  <2>2. HasEntry(ps[1], ps[2])
    BY <1>1, <1>2 DEF CreateAckedLocatable
  <2> QED BY <1>1, <2>1, <2>2
<1>3. CASE ps \notin acked
  <2>1. PICK a \in Agents : /\ pc[a] = "linked" /\ reply[a] = "4"
                            /\ acked' = acked \cup {<<PathOf(a), target[a]>>}
    BY <1>3, AckedGrows
  <2>2. HasEntry(PathOf(a), target[a]) /\ PathOf(a) \in Paths /\ target[a] \in Servers
    BY <1>1, <2>1, LinkedTyped DEF AckInv
  <2>3. ps[1] = PathOf(a) /\ ps[2] = target[a]
    BY <1>3, <2>1
  <2> QED BY <1>1, <2>2, <2>3
<1> QED BY <1>2, <1>3

----------------------------------------------------------------------------
(* What the table says was stored *)

\* A thread inside HASH_ADD_STR has read what it had read, or the table now.
LEMMA LinkingKept ==
    ASSUME NSTypeOK, PcTyped, DirInv, WorkInv, RoomInv, NSNext,
           NEW t \in Servers \cup Agents, Linking(t)'
    PROVE  \/ Linking(t) /\ hashView'[t] = hashView[t]
           \/ \E p \in Paths : hashView'[t] = TableAt(p)
<1>0. /\ RequestInv /\ DOMAIN pc = Agents /\ DOMAIN hashView = Threads
      /\ Agents \subseteq Threads /\ Servers \subseteq Threads
      /\ \A s \in Servers : s \notin Agents
      /\ DirTypeOK /\ DOMAIN regPc = Servers
  BY AgentsAssumption, NamesAssumption DEF WorkInv, PcTyped, DirInv, TypeInv, DirTypeOK
<1>1. CASE t \in Agents
  <2>0. pc'[t] = "linking" /\ t \in Threads
    BY <1>0, <1>1 DEF Linking
  <2>1. CASE pc[t] = "linking"
    <3>1. ~CountPath(t) /\ ~LinkPath(t)
      BY <1>0, <1>1, <2>0, <2>1 DEF CountPath, LinkPath, Goto
    <3>2. hashView'[t] = hashView[t]
      BY <1>1, <3>1, DirStep
    <3> QED BY <1>1, <2>1, <3>2 DEF Linking
  <2>2. CASE pc[t] # "linking"
    <3>1. CountPath(t)
      BY <1>0, <1>1, <2>0, <2>2, Entering
    <3>2. pc[t] = "recording" /\ hashView' = [hashView EXCEPT ![t] = TableAt(PathOf(t))]
      BY <3>1 DEF CountPath, HashAddBegin
    <3>3. PathOf(t) \in Paths
      BY <1>0, <1>1, <3>2, IndexingCreates, WorkTyped
    <3> QED BY <1>0, <2>0, <3>2, <3>3
  <2> QED BY <2>1, <2>2
<1>2. CASE t \in Servers
  <2>0. regPc'[t] = "linking" /\ t \notin Agents /\ t \in Threads
    BY <1>0, <1>2 DEF Linking
  <2> DEFINE Goal == \/ regPc[t] = "linking" /\ hashView'[t] = hashView[t]
                     \/ \E p \in Paths : hashView'[t] = TableAt(p)
  <2>1. ASSUME UNCHANGED <<regPc, hashView>> PROVE Goal
    BY <2>0, <2>1
  <2>2. ASSUME NEW s \in Servers, Registration(s) PROVE Goal
    <3>0. Register(s)
      BY <2>2 DEF Registration
    <3>1. CASE s = t
      <4>1. RegAddBegin(t)
        BY <1>0, <2>0, <3>0, <3>1
        DEF Register, RegThread, RegRecv, RegLock, RegCheck, RegRefuse, RegCount, RegCopy,
            RegAddLink, RegAck
      <4>2. /\ hashView' = [hashView EXCEPT ![t] = TableAt(MountPaths[t][nextPath[t] + 1])]
            /\ nextPath[t] < Len(MountPaths[t])
        BY <4>1 DEF RegAddBegin, HashAddBegin
      <4>3. nextPath[t] \in Nat /\ MountPaths[t] \in Seq(Paths)
        BY <1>0, <1>2, MountAssumption DEF DirTypeOK
      <4>4. MountPaths[t][nextPath[t] + 1] \in Paths
        BY <4>2, <4>3
      <4> QED BY <1>0, <2>0, <4>2, <4>4
    <3>2. CASE s # t
      <4>0. \E label \in RegStates : regPc' = [regPc EXCEPT ![s] = label]
        BY <3>0
        DEF Register, RegThread, RegRecv, RegLock, RegCheck, RegRefuse, RegCount, RegCopy,
            RegAddBegin, RegAddLink, RegAck, RegStates
      <4>1. regPc'[t] = regPc[t]
        BY <1>0, <1>2, <3>2, <4>0
      <4>2. hashView'[t] = hashView[t]
        BY <1>0, <2>0, <3>0, <3>2, RegisterViews
      <4> QED BY <2>0, <4>1, <4>2
    <3> QED BY <3>1, <3>2
  <2>3. ASSUME NEW a \in Agents, CountPath(a) \/ LinkPath(a) PROVE Goal
    <3>1. regPc'[t] = regPc[t] /\ hashView'[t] = hashView[t]
      BY <1>0, <2>0, <2>3 DEF CountPath, LinkPath, HashAddBegin, HashAddLink
    <3> QED BY <2>0, <3>1
  <2>4. ASSUME NEW a \in Agents, RecordPath(a) PROVE Goal
    BY <2>1, <2>4 DEF RecordPath, tableVars
  <2>5. ASSUME NEW c \in Clients, RefreshCount(c) \/ RefreshFill(c) PROVE Goal
    BY <2>1, <2>5 DEF RefreshCount, RefreshFill, tableVars
  <2>6. ASSUME UNCHANGED dirVars PROVE Goal
    BY <2>1, <2>6 DEF dirVars, tableVars
  <2> HIDE DEF Goal
  <2>7. Goal
    BY <2>2, <2>3, <2>4, <2>5, <2>6, DirCases
  <2> QED BY <1>2, <2>7 DEF Goal, Linking
<1> QED BY <1>1, <1>2

\* The chains change only where a thread links: a registration thread a path its
\* server reported, an agent the path it creates.
LEMMA ChainCases ==
    ASSUME NSTypeOK, PcTyped, DirInv, WorkInv, NSNext
    PROVE  \/ UNCHANGED chains
           \/ \E t \in Servers \cup Agents, p \in Paths, s \in Servers :
                  /\ Linking(t) /\ hashView[t] \in TableView /\ HashAddLink(t, p, s)
                  /\ \/ \E k \in 1 .. Len(MountPaths[s]) : p = MountPaths[s][k]
                     \/ /\ t \in Agents /\ Creating(t) /\ pc[t] = "linking"
                        /\ p = PathOf(t) /\ s = target[t]
<1>0. /\ RequestInv /\ TargetInv /\ ViewInv /\ DirTypeOK /\ LinkingInv
  BY DEF WorkInv, DirInv, TypeInv
<1> DEFINE Goal ==
      \/ UNCHANGED chains
      \/ \E t \in Servers \cup Agents, p \in Paths, s \in Servers :
             /\ Linking(t) /\ hashView[t] \in TableView /\ HashAddLink(t, p, s)
             /\ \/ \E k \in 1 .. Len(MountPaths[s]) : p = MountPaths[s][k]
                \/ /\ t \in Agents /\ Creating(t) /\ pc[t] = "linking"
                   /\ p = PathOf(t) /\ s = target[t]
<1>1. ASSUME NEW s \in Servers, Registration(s) PROVE Goal
  <2>1. CASE RegAddLink(s)
    <3>1. regPc[s] = "linking" /\ HashAddLink(s, MountPaths[s][nextPath[s] + 1], s)
      BY <2>1 DEF RegAddLink
    <3>2. /\ nextPath[s] < Len(MountPaths[s]) /\ hashView[s] \in TableView
          /\ nextPath[s] \in Nat /\ MountPaths[s] \in Seq(Paths)
      BY <1>0, <3>1, MountAssumption DEF LinkingInv, DirTypeOK
    <3>3. nextPath[s] + 1 \in 1 .. Len(MountPaths[s]) /\ MountPaths[s][nextPath[s] + 1] \in Paths
      BY <3>2
    <3>4. Linking(s)
      BY <3>1 DEF Linking
    <3> QED BY <3>1, <3>2, <3>3, <3>4
  <2>2. CASE ~RegAddLink(s)
    BY <1>1, <2>2
    DEF Registration, Register, RegThread, RegRecv, RegLock, RegCheck, RegRefuse, RegCount,
        RegCopy, RegAddBegin, HashAddBegin, RegAck, tableVars
  <2> QED BY <2>1, <2>2
<1>2. ASSUME NEW a \in Agents, LinkPath(a) PROVE Goal
  <2>1. pc[a] = "linking" /\ HashAddLink(a, PathOf(a), target[a])
    BY <1>2 DEF LinkPath
  <2>2. Creating(a) /\ Busy(a)
    BY <1>0, <2>1, IndexingCreates
  <2>3. PathOf(a) \in Paths /\ target[a] \in Servers /\ hashView[a] \in TableView
    BY <1>0, <2>1, <2>2, CreatingSlot, WorkTyped DEF ViewInv
  <2>4. Linking(a)
    BY <2>1 DEF Linking
  <2> QED BY <2>1, <2>2, <2>3, <2>4
<1>3. ASSUME NEW a \in Agents, RecordPath(a) \/ CountPath(a) PROVE Goal
  BY <1>3 DEF RecordPath, CountPath, HashAddBegin, tableVars
<1>4. ASSUME NEW c \in Clients, RefreshCount(c) \/ RefreshFill(c) PROVE Goal
  BY <1>4 DEF RefreshCount, RefreshFill, tableVars
<1>5. ASSUME UNCHANGED dirVars PROVE Goal
  BY <1>5 DEF dirVars, tableVars
<1> HIDE DEF Goal
<1>6. Goal
  BY <1>1, <1>2, <1>3, <1>4, <1>5, DirCases
<1> QED BY <1>6 DEF Goal

\* A creation under way without faults is unanswered, or made on its server.
LEMMA CreationStored ==
    ASSUME NSTypeOK, PcTyped, DirInv, WorkInv, RoutedInv, RoomInv, StoredInv, NSNext,
           faults' = MaxFaults, faults = MaxFaults, NEW a \in Agents, Creating(a)'
    PROVE  \/ reply'[a] = "pending"
           \/ reply'[a] = "4" /\ <<PathOf(a)', target'[a]>> \in stored'
<1>0. /\ RequestInv /\ TargetInv /\ ReplyInv /\ DOMAIN pc = Agents /\ DOMAIN reply = Agents
      /\ Clients \subseteq Agents /\ Jobs \subseteq Agents /\ MaxFaults \in Nat
      /\ \A c \in Clients : c \notin Jobs
  BY AgentsAssumption DEF WorkInv, PcTyped, NSTypeOK, Agents
<1>1. pc'[a] \in {"asked", "recording", "linking", "linked"} /\ OpOf(a)' = "CREATE"
  BY DEF Creating
<1>2. CASE pc[a] \in {"asked", "recording", "linking", "linked"}
  <2>1. PathOf(a)' = PathOf(a) /\ OpOf(a) = "CREATE" /\ target'[a] = target[a]
    BY <1>1, <1>2, CreationKept
  <2>2. /\ Creating(a)
        /\ reply[a] = "pending" \/ (reply[a] = "4" /\ <<PathOf(a), target[a]>> \in stored)
    BY <1>2, <2>1 DEF Creating, StoredInv
  <2>3. stored \subseteq stored'
    BY StoreTyped
  <2>4. CASE SSCreate(a)
    <3>1. stored' = stored \cup {<<PathOf(a), target[a]>>} /\ reply'[a] = "4"
      BY <1>0, <2>4 DEF SSCreate
    <3> QED BY <2>1, <3>1
  <2>5. CASE ~SSCreate(a)
    <3>1. reply'[a] = reply[a] \/ reply'[a] = "pending"
      <4>1. ASSUME NEW c \in Clients, CreateAlone(c) \/ DeleteConnect(c)
            PROVE  reply'[a] = reply[a]
        BY <4>1, <1>0, <1>2 DEF CreateAlone, DeleteConnect, Connect
      <4>2. ASSUME NEW j \in Jobs, JobConnect(j) PROVE reply'[a] = reply[a]
        BY <4>2, <1>0, <1>2 DEF JobConnect, Connect
      <4>3. ASSUME NEW x \in Agents, SSCreate(x) \/ SSDelete(x) PROVE reply'[a] = reply[a]
        <5>1. x # a
          BY <2>1, <2>5, <4>3 DEF SSDelete
        <5> QED BY <1>0, <4>3, <5>1 DEF SSCreate, SSDelete
      <4>4. ASSUME NEW x \in Agents, SSCreateFails(x) PROVE FALSE
        BY <1>0, <4>4 DEF SSCreateFails
      <4>5. ASSUME NEW s \in Servers, SSCrash(s) PROVE FALSE
        BY <1>0, <4>5 DEF SSCrash
      <4> QED BY <4>1, <4>2, <4>3, <4>4, <4>5, ReplyCases
    <3> QED BY <2>1, <2>2, <2>3, <3>1
  <2> QED BY <2>4, <2>5
<1>3. CASE pc[a] \notin {"asked", "recording", "linking", "linked"}
  <2>1. pc'[a] # pc[a]
    BY <1>1, <1>3
  <2>2. /\ pc'[a] = "recording" => RecordPath(a)
        /\ pc'[a] = "linking" => CountPath(a)
        /\ pc'[a] = "linked" => LinkPath(a) \/ RecordNothing(a)
        /\ pc'[a] = "asked" => CreateAlone(a) \/ DeleteConnect(a) \/ JobConnect(a)
    BY <1>0, <2>1, Entering
  <2>3. pc'[a] = "asked"
    BY <1>1, <1>3, <2>2 DEF RecordPath, CountPath, LinkPath, RecordNothing
  <2>4. reply'[a] = "pending"
    BY <1>0, <2>2, <2>3 DEF CreateAlone, DeleteConnect, JobConnect, Connect, Goto
  <2> QED BY <2>4
<1> QED BY <1>2, <1>3

\* StoredInv is inductive.
LEMMA StoredStep ==
    ASSUME NSTypeOK, PcTyped, DirInv, WorkInv, RoutedInv, RoomInv, StoredInv, NSNext
    PROVE  StoredInv'
<1>0. /\ stored \subseteq stored' /\ StoredEntries \subseteq StoredEntries'
      /\ faults' <= faults /\ faults' \in 0 .. MaxFaults /\ faults \in 0 .. MaxFaults
      /\ MaxFaults \in Nat /\ DirTypeOK
      /\ Servers \subseteq Threads /\ Agents \subseteq Threads
  <2>1. stored \subseteq stored' /\ faults' <= faults /\ faults' \in 0 .. MaxFaults
    BY StoreTyped
  <2> QED BY <2>1, AgentsAssumption, NamesAssumption DEF StoredEntries, NSTypeOK
<1>1. \A s \in Servers : \A k \in 1 .. Len(MountPaths[s]) : <<MountPaths[s][k], s>> \in stored'
  BY <1>0 DEF StoredInv
<1> SUFFICES ASSUME faults' = MaxFaults
             PROVE  /\ \A b \in Buckets : Among(chains'[b], StoredEntries')
                    /\ \A t \in Servers \cup Agents : Linking(t)' =>
                           Among(hashView'[t].chain, StoredEntries')
                    /\ \A a \in Agents : Creating(a)' =>
                           \/ reply'[a] = "pending"
                           \/ reply'[a] = "4" /\ <<PathOf(a)', target'[a]>> \in stored'
  BY <1>1 DEF StoredInv, Among
<1>2. faults = MaxFaults
  BY <1>0
<1>3. /\ \A b \in Buckets : Among(chains[b], StoredEntries)
      /\ \A t \in Servers \cup Agents : Linking(t) => Among(hashView[t].chain, StoredEntries)
  BY <1>2 DEF StoredInv
<1>4. \A chain : Among(chain, StoredEntries) => Among(chain, StoredEntries')
  BY <1>0 DEF Among
<1>5. \A b \in Buckets : Among(chains'[b], StoredEntries)
  <2>1. ASSUME NEW t \in Servers \cup Agents, NEW p \in Paths, NEW s \in Servers,
               Linking(t), hashView[t] \in TableView, HashAddLink(t, p, s),
               \/ \E k \in 1 .. Len(MountPaths[s]) : p = MountPaths[s][k]
               \/ /\ t \in Agents /\ Creating(t) /\ pc[t] = "linking"
                  /\ p = PathOf(t) /\ s = target[t]
        PROVE  \A b \in Buckets : Among(chains'[b], StoredEntries)
    <3>1. <<p, s>> \in stored
      <4>1. CASE \E k \in 1 .. Len(MountPaths[s]) : p = MountPaths[s][k]
        BY <4>1 DEF StoredInv
      <4>2. CASE /\ t \in Agents /\ Creating(t) /\ pc[t] = "linking"
                 /\ p = PathOf(t) /\ s = target[t]
        <5>1. reply[t] # "pending"
          BY <4>2 DEF WorkInv, ReplyInv
        <5> QED BY <1>2, <4>2, <5>1 DEF StoredInv
      <4> QED BY <2>1, <4>1, <4>2
    <3>2. [path |-> p, server |-> s] \in StoredEntries
      BY <3>1 DEF StoredEntries, Entry
    <3>3. Among(hashView[t].chain, StoredEntries)
      BY <1>3, <2>1
    <3>4. t \in Threads
      BY <1>0, <2>1
    <3> QED BY <1>0, <1>3, <2>1, <3>2, <3>3, <3>4, HashAddLinkAmong
  <2>2. CASE UNCHANGED chains
    BY <1>3, <2>2
  <2> QED BY <2>1, <2>2, ChainCases
<1>6. ASSUME NEW t \in Servers \cup Agents, Linking(t)'
      PROVE  Among(hashView'[t].chain, StoredEntries)
  <2>1. CASE Linking(t) /\ hashView'[t] = hashView[t]
    BY <1>3, <2>1
  <2>2. ASSUME NEW p \in Paths, hashView'[t] = TableAt(p)
        PROVE  Among(hashView'[t].chain, StoredEntries)
    BY <1>3, <2>2, NamesAssumption DEF TableAt
  <2> QED BY <1>6, <2>1, <2>2, LinkingKept
<1> QED BY <1>2, <1>4, <1>5, <1>6, CreationStored

----------------------------------------------------------------------------
(* The theorems *)

\* The naming server starts with idle handlers, unborn jobs and listings with room.
LEMMA NSInvInit ==
    ASSUME NSInit
    PROVE  NSInv
<1>0. /\ DirInit
      /\ clientPc = [c \in Clients |-> "ready"] /\ requests = [c \in Clients |-> <<>>]
      /\ answers = [c \in Clients |-> 0] /\ routed = [c \in Clients |-> NULL]
      /\ received = [c \in Clients |-> 0]
      /\ pc = [a \in Agents |-> IF a \in Clients THEN "idle" ELSE "unborn"]
      /\ target = [a \in Agents |-> NULL] /\ reply = [a \in Agents |-> "none"]
      /\ loaded = [a \in Agents |-> 0] /\ walk = [c \in Clients |-> <<>>]
      /\ ssState = [s \in Servers |-> IF s \in BootServers THEN "listening" ELSE "starting"]
      /\ disk = [s \in Servers |-> [p \in Paths |->
                    IF \E k \in 1 .. Len(MountPaths[s]) : MountPaths[s][k] = p
                    THEN IF p \in Dirs THEN "dir" ELSE "data"
                    ELSE "absent"]]
      /\ faults = MaxFaults
      /\ stored = {ps \in Paths \X Servers :
                      \E k \in 1 .. Len(MountPaths[ps[2]]) : MountPaths[ps[2]][k] = ps[1]}
      /\ acked = {}
      /\ MaxRequests \in Nat /\ MaxFaults \in Nat
  BY AgentsAssumption DEF NSInit
<1>1. DirInv /\ DirTypeOK
  BY <1>0, DirInvInit DEF DirInv, TypeInv
<1>2. /\ \A c \in Clients : c \in Agents /\ pc[c] = "idle"
      /\ \A j \in Jobs : j \in Agents /\ j \notin Clients /\ pc[j] = "unborn"
      /\ \A a \in Agents : pc[a] \in {"idle", "unborn"} /\ reply[a] = "none" /\ target[a] = NULL
      /\ \A c \in Clients : requests[c] = <<>> /\ received[c] = 0 /\ Len(requests[c]) = 0
      /\ \A c \in Clients : answers[c] = 0 /\ clientPc[c] = "ready"
  BY <1>0, JobParts DEF Agents
<1>3. PcTyped
  BY <1>0 DEF PcTyped, HandlerStates, JobStates
<1>4. NSTypeOK
  <2>1. \A a \in Agents : pc[a] \in IF a \in Clients THEN HandlerStates ELSE JobStates
    BY <1>0 DEF HandlerStates, JobStates
  <2>2. disk \in [Servers -> [Paths -> {"absent", "dir", "empty", "data"}]]
    BY <1>0
  <2>3. stored \subseteq Paths \X Servers /\ acked \subseteq Paths \X Servers
    BY <1>0
  <2>4. requests \in [Clients -> Seq(Commands)] /\ walk \in [Clients -> Seq(Paths)]
    BY <1>0
  <2>5. /\ clientPc \in [Clients -> {"ready", "waiting", "routed", "connected", "exited"}]
        /\ answers \in [Clients -> Nat]
        /\ routed \in [Clients -> Servers \cup {NULL}]
        /\ received \in [Clients -> 0 .. MaxRequests]
        /\ target \in [Agents -> Servers \cup {NULL}]
        /\ reply \in [Agents -> {"none", "pending", "lost", "-1", "2", "3", "4"}]
        /\ loaded \in [Agents -> Nat]
        /\ ssState \in [Servers -> {"starting", "listening", "down"}]
        /\ faults \in 0 .. MaxFaults
    BY <1>0
  <2> QED BY <1>1, <2>1, <2>2, <2>3, <2>4, <2>5 DEF NSTypeOK
<1>5. RequestInv
  BY <1>0, <1>2 DEF RequestInv, Busy
<1>6. TargetInv /\ ReplyInv /\ ViewInv /\ RoutedInv
  BY <1>2 DEF TargetInv, ReplyInv, ViewInv, RoutedInv, Creating
<1>7. RoomInv
  <2>1. ASSUME NEW k \in Slots
        PROVE  storageServers[k].numPaths + Cardinality(Unused(k)) <= MAX_PATHS
    <3> DEFINE u == Cardinality(Unused(k))
               r == Cardinality(Clients) * MaxRequests
               n == storageServers[k].numPaths
    <3>1. u \in Nat /\ u <= r /\ r \in Nat
      <4>1. Cardinality(Clients) \in Nat
        BY AgentsAssumption, FS_CardinalityType
      <4> QED BY <1>0, <4>1, UnusedBound
    <3>2. n \in Nat /\ n + r <= MAX_PATHS
      <4>1. k \in Nat /\ Len(Boot) \in Nat
        BY BootAssumption DEF Slots
      <4>2. CASE k < Len(Boot)
        <5>1. Boot[k + 1] \in Servers
          BY <4>1, <4>2, BootAssumption
        <5>2. storageServers[k] = ReportOf(Boot[k + 1])
          BY <1>0, <4>2 DEF DirInit
        <5>3. n = Len(MountPaths[Boot[k + 1]])
          BY <5>2 DEF ReportOf
        <5>4. n \in Nat
          BY <5>1, <5>3, MountAssumption
        <5> HIDE DEF n
        <5> QED BY <5>1, <5>3, <5>4, RoomAssumption
      <4>3. CASE ~(k < Len(Boot))
        <5>1. n = 0
          BY <1>0, <4>3 DEF DirInit, EmptySlot
        <5>2. Cardinality(Paths) \in Nat /\ Cardinality(Paths) + r <= MAX_PATHS
          BY RoomAssumption, FS_CardinalityType
        <5> HIDE DEF n, r
        <5> QED BY <3>1, <5>1, <5>2, SizesAssumption
      <4> QED BY <4>2, <4>3
    <3> HIDE DEF u, r, n
    <3>3. n + u <= MAX_PATHS
      BY <3>1, <3>2, SizesAssumption
    <3> QED BY <3>3 DEF n, u
  <2> QED BY <1>2, <2>1 DEF RoomInv
<1>8. AnswerInv
  BY <1>2 DEF AnswerInv, Owing, Live
<1>9. AckInv /\ CreateAckedLocatable
  BY <1>0, <1>2 DEF AckInv, CreateAckedLocatable
<1>10. StoredInv
  <2>1. \A s \in Servers : \A k \in 1 .. Len(MountPaths[s]) : <<MountPaths[s][k], s>> \in stored
    <3> TAKE s \in Servers
    <3> TAKE k \in 1 .. Len(MountPaths[s])
    <3>1. MountPaths[s][k] \in Paths
      BY MountAssumption
    <3> QED BY <1>0, <3>1
  <2>2. ASSUME NEW b \in Buckets, NEW i \in 1 .. Len(chains[b])
        PROVE  chains[b][i] \in StoredEntries
    <3>1. chains = BootChains /\ chains[b][i] \in Entry
      BY <1>0, BootAssumption DEF DirInit
    <3>a. \A d \in Buckets : \A n \in 1 .. Len(BootChains[d]) :
              \E k \in 1 .. Len(MountPaths[BootChains[d][n].server]) :
                  MountPaths[BootChains[d][n].server][k] = BootChains[d][n].path
      BY BootAssumption, Zenon
    <3>2. PICK k \in 1 .. Len(MountPaths[chains[b][i].server]) :
              MountPaths[chains[b][i].server][k] = chains[b][i].path
      BY <3>1, <3>a, Zenon
    <3>3. chains[b][i].server \in Servers
      BY <3>1 DEF Entry
    <3>4. <<chains[b][i].path, chains[b][i].server>> \in stored
      BY <2>1, <3>2, <3>3
    <3> QED BY <3>1, <3>4 DEF StoredEntries
  <2>3. \A t \in Servers \cup Agents : ~Linking(t)
    BY <1>0, <1>2 DEF Linking, DirInit
  <2>4. \A a \in Agents : ~Creating(a)
    BY <1>2 DEF Creating
  <2> QED BY <2>1, <2>2, <2>3, <2>4 DEF StoredInv, Among
<1> QED BY <1>1, <1>3, <1>4, <1>5, <1>6, <1>7, <1>8, <1>9, <1>10 DEF NSInv, WorkInv

\* A step that changes nothing keeps everything.
LEMMA NSInvStutter ==
    ASSUME NSInv, UNCHANGED vars
    PROVE  NSInv'
<1>0. /\ UNCHANGED <<regPc, slotOf, nextPath, storageServerMutex, storageServerCount,
                     storageServers, serversByPath, chains, hashView, raced>>
      /\ UNCHANGED <<clientPc, requests, answers, routed, received, pc, target, reply,
                     loaded, walk, ssState, disk, faults, stored, acked>>
  BY DEF vars, dirVars, arrayVars, tableVars, nsVars, clientVars, agentVars, storeVars
<1>1. DirInv'
  BY <1>0, DirInvStep DEF NSInv, dirVars, arrayVars, tableVars
<1>2. NSTypeOK' /\ PcTyped'
  BY <1>0, <1>1 DEF NSInv, NSTypeOK, PcTyped, DirInv, TypeInv
<1>3. \A a : Busy(a)' = Busy(a) /\ PathOf(a)' = PathOf(a) /\ OpOf(a)' = OpOf(a)
             /\ Current(a)' = Current(a) /\ Creating(a)' = Creating(a)
  BY <1>0 DEF Busy, PathOf, OpOf, Current, Creating
<1>4. RequestInv'
  BY <1>0, <1>3 DEF NSInv, WorkInv, RequestInv
<1>5. TargetInv' /\ ReplyInv' /\ RoutedInv'
  BY <1>0, <1>3 DEF NSInv, WorkInv, TargetInv, ReplyInv, RoutedInv, SlotUsed
<1>6. ViewInv'
  BY <1>0 DEF NSInv, WorkInv, ViewInv, CopiedServers, Copied
<1>7. RoomInv'
  <2>1. \A k : Unused(k)' = Unused(k)
    BY <1>0 DEF Unused
  <2>2. \A a : SlotUsed(a)' = SlotUsed(a)
    BY DEF SlotUsed
  <2> QED BY <1>0, <2>1, <2>2 DEF NSInv, RoomInv
<1>8. AnswerInv'
  BY <1>0 DEF NSInv, AnswerInv
<1>9. AckInv' /\ CreateAckedLocatable'
  BY <1>0, <1>3 DEF NSInv, AckInv, CreateAckedLocatable, HasEntry
<1>10. StoredInv'
  BY <1>0, <1>3 DEF NSInv, StoredInv, Linking, StoredEntries
<1> QED BY <1>1, <1>2, <1>4, <1>5, <1>6, <1>7, <1>8, <1>9, <1>10 DEF NSInv, WorkInv

\* Every step of every thread keeps the invariant.
LEMMA NSInvStep == NSInv /\ [NSNext]_vars => NSInv'
<1>1. ASSUME NSInv, NSNext PROVE NSInv'
  <2>0. /\ NSTypeOK /\ PcTyped /\ DirInv /\ WorkInv /\ RoutedInv /\ RoomInv /\ AnswerInv
        /\ AckInv /\ CreateAckedLocatable /\ StoredInv /\ RequestInv
    BY <1>1 DEF NSInv, WorkInv
  <2>1. NSTypeOK' /\ PcTyped'
    BY <1>1, <2>0, NSTypeStep
  <2>2. DirInv' /\ WorkInv' /\ RoomInv'
    BY <1>1, <2>0, DirStep, WorkStep, RoomStep
  <2>3. RoutedInv' /\ AnswerInv'
    BY <1>1, <2>0, RoutedStep, AnswerStep
  <2>4. AckInv' /\ CreateAckedLocatable' /\ StoredInv'
    BY <1>1, <2>0, AckStep, LocatableStep, StoredStep
  <2> QED BY <2>1, <2>2, <2>3, <2>4 DEF NSInv
<1> QED BY <1>1, NSInvStutter

\* The inductive invariant holds in every state of the naming server at work.
THEOREM NSInvCorrect == NSSpec => []NSInv
<1>1. NSInit => NSInv
  BY NSInvInit
<1> QED BY <1>1, NSInvStep, PTL DEF NSSpec

\* NSTypeOK, for every number of clients, commands, servers, slots and faults:
\* in particular no CREATE, however the threads that add to a listing overlap,
\* makes numPaths exceed MAX_PATHS while there is room for a path per command.
THEOREM NSTypeCorrect == NSSpec => []NSTypeOK
<1>1. NSInv => NSTypeOK
  BY DEF NSInv
<1> QED BY <1>1, NSInvCorrect, PTL

\* OneAnswerPerRequest: of the handler and the three threads of a CREATE at most
\* one answers, and replies never get ahead of commands.
THEOREM AnswersCorrect == NSSpec => []OneAnswerPerRequest
<1>1. NSInv => OneAnswerPerRequest
  <2> SUFFICES ASSUME NSInv, NEW c \in Clients
               PROVE  /\ answers[c] <= Len(requests[c])
                      /\ clientPc[c] # "waiting" => answers[c] = Len(requests[c])
    BY DEF OneAnswerPerRequest
  <2>1. /\ answers[c] \in Nat /\ Len(requests[c]) \in Nat
        /\ clientPc[c] = "waiting" => answers[c] + 1 = Len(requests[c])
        /\ clientPc[c] # "waiting" => answers[c] = Len(requests[c])
    BY DEF NSInv, NSTypeOK, AnswerInv
  <2> QED BY <2>1
<1> QED BY <1>1, NSInvCorrect, PTL

\* CreateAckedLocatable: while additions to the table do not overlap, a path a
\* client was told of is found at the server that made it.
THEOREM LocatableCorrect == NSSpec => []CreateAckedLocatable
<1>1. NSInv => CreateAckedLocatable
  BY DEF NSInv
<1> QED BY <1>1, NSInvCorrect, PTL

\* EntriesWereStored: without faults the table names for a path only servers
\* that reported or stored it, also where unlocked additions overlap.
THEOREM EntriesCorrect == NSSpec => []EntriesWereStored
<1>1. NSInv => EntriesWereStored
  BY DEF NSInv, StoredInv, Among, StoredEntries, EntriesWereStored
<1> QED BY <1>1, NSInvCorrect, PTL

\* ReplicasApart: the three threads of a CREATE never share a server, because a
\* server has one slot and each thread read its own.
THEOREM ReplicasCorrect == NSSpec => []ReplicasApart
<1>1. NSInv => ReplicasApart
  <2> SUFFICES ASSUME NSInv, NEW c \in Clients, NEW n \in 1 .. MaxRequests,
                      NEW k \in Replicas, NEW m \in Replicas, k # m,
                      target[<<c, n, k>>] # NULL,
                      target[<<c, n, k>>] = target[<<c, n, m>>]
               PROVE  FALSE
    BY DEF ReplicasApart
  <2> DEFINE i == <<c, n, k>>
             j == <<c, n, m>>
  <2>1. i \in Jobs /\ j \in Jobs /\ i[3] = k /\ j[3] = m
    BY DEF Jobs
  <2>2. /\ k \in Slots /\ storageServers[k].server = target[i]
        /\ m \in Slots /\ storageServers[m].server = target[j]
    BY <2>1 DEF NSInv, WorkInv, TargetInv
  <2>3. /\ slotOf[storageServers[k].server] = k
        /\ slotOf[storageServers[m].server] = m
    BY <2>2 DEF NSInv, DirInv, SlotInv, OwnerInv
  <2> QED BY <2>2, <2>3
<1> QED BY <1>1, NSInvCorrect, PTL

\* What registration promises of slots and table holds while clients are served:
\* handlers and jobs write to both without any lock.
THEOREM DirectoryCorrect ==
    NSSpec => [](SlotsHandedOutOnce /\ IndexedServersHaveSlots /\ AckedServersAreIndexed)
<1>1. NSInv => SlotsHandedOutOnce /\ IndexedServersHaveSlots /\ AckedServersAreIndexed
  BY SlotsSound, IndexSound, AckSound DEF NSInv
<1> QED BY <1>1, NSInvCorrect, PTL

\* DirectoryOnlyGrows with handlers and jobs at work: no CREATE, DELETE or
\* refresh takes a slot or, without overlapping additions, an entry away.
THEOREM GrowsServing == NSSpec => DirectoryOnlyGrows
<1>1. NSInv /\ [NSNext]_vars => [Grows]_dirVars
  <2>1. ASSUME NSInv, NSNext PROVE Grows
    <3>1. NSTypeOK /\ PcTyped /\ DirInv /\ WorkInv /\ RoomInv
      BY <2>1 DEF NSInv
    <3> QED BY <2>1, <3>1, DirStep
  <2>2. UNCHANGED vars => UNCHANGED dirVars
    BY DEF vars
  <2> QED BY <2>1, <2>2
<1> QED BY <1>1, NSInvCorrect, PTL DEF NSSpec, DirectoryOnlyGrows, Grows

============================================================================
