--------------------------- MODULE ServiceProofs ---------------------------
(***************************************************************************)
(* Proofs that the naming server at work is the catalogue its clients see: *)
(* every reply is justified by what the table and the storage servers hold *)
(* when it is sent, and every file with data can be found.                 *)
(*                                                                         *)
(* The handler, or the detached thread, that sends a reply looked at the   *)
(* table some steps earlier.  The invariant says what has become of what   *)
(* it saw: a path that was made is still stored, and as long as additions  *)
(* to the table do not overlap, a path that was found is still there.      *)
(***************************************************************************)
EXTENDS NamingServerProofs

\* A creation that was reported to the agent is stored on its server.
MadeInv ==
    \A a \in Agents : Creating(a) /\ reply[a] = "4" => <<PathOf(a), target[a]>> \in stored

\* The path a DELETE has found is in the table until the server has answered.
FoundInv ==
    ~raced => \A c \in Clients :
        pc[c] = "found" \/ (pc[c] = "asked" /\ OpOf(c) = "DELETE") =>
            HasEntry(PathOf(c), target[c])

\* The path a client was routed for is in the table while the client is away.
RouteInv ==
    ~raced => \A c \in Clients : clientPc[c] \in {"routed", "connected"} =>
        HasEntry(requests[c][Len(requests[c])].path, routed[c])

\* A file with data is in the table, or will be when its server's registration
\* comes to it.
DataInv ==
    ~raced => \A s \in Servers, p \in Paths : disk[s][p] = "data" =>
        \/ HasEntry(p, s)
        \/ regPc[s] # "acked" /\ \E k \in 1 .. Len(MountPaths[s]) : MountPaths[s][k] = p

ServiceInv == NSInv /\ MadeInv /\ FoundInv /\ RouteInv /\ DataInv

----------------------------------------------------------------------------
(* What was seen stays true until it is used *)

\* While additions do not overlap the table keeps its entries.
LEMMA EntriesStay ==
    ASSUME NSInv, NSNext, ~raced', NEW p \in Paths, NEW s \in Servers, HasEntry(p, s)
    PROVE  /\ ~raced
           /\ \E i \in 1 .. Len(chains'[Bucket[p]]) :
                  chains'[Bucket[p]][i] = [path |-> p, server |-> s]
<1>1. NSTypeOK /\ PcTyped /\ DirInv /\ WorkInv /\ RoomInv
  BY DEF NSInv
<1>2. Grows /\ (raced => raced')
  BY <1>1, DirStep
<1>3. HasEntry(p, s) => HasEntry(p, s)'
  BY <1>2 DEF Grows
<1> QED BY <1>2, <1>3 DEF HasEntry

\* MadeInv is inductive: only SSCreate answers "4", and it stores the path.
LEMMA MadeStep ==
    ASSUME NSInv, MadeInv, NSNext
    PROVE  MadeInv'
<1>0. /\ NSTypeOK /\ PcTyped /\ DirInv /\ WorkInv /\ RoutedInv /\ RequestInv
      /\ DOMAIN reply = Agents /\ DOMAIN pc = Agents
  BY DEF NSInv, WorkInv, NSTypeOK, PcTyped
<1> SUFFICES ASSUME NEW a \in Agents, Creating(a)', reply'[a] = "4"
             PROVE  <<PathOf(a)', target'[a]>> \in stored'
  BY DEF MadeInv
<1>1. pc'[a] \in {"asked", "recording", "linking", "linked"} /\ OpOf(a)' = "CREATE"
  BY DEF Creating
<1>2. CASE pc[a] \in {"asked", "recording", "linking", "linked"}
  <2>1. PathOf(a)' = PathOf(a) /\ OpOf(a) = "CREATE" /\ target'[a] = target[a]
    BY <1>0, <1>1, <1>2, CreationKept
  <2>2. CASE SSCreate(a)
    BY <2>1, <2>2 DEF SSCreate
  <2>3. CASE reply[a] = "4"
    <3>1. <<PathOf(a), target[a]>> \in stored
      BY <1>2, <2>1, <2>3 DEF MadeInv, Creating
    <3>2. stored \subseteq stored'
      BY <1>0, StoreTyped
    <3> QED BY <2>1, <3>1, <3>2
  <2> QED BY <1>0, <2>2, <2>3, ReplyFour
<1>3. CASE pc[a] \notin {"asked", "recording", "linking", "linked"}
  <2>1. pc'[a] # pc[a]
    BY <1>1, <1>3
  <2>2. /\ pc'[a] = "recording" => RecordPath(a)
        /\ pc'[a] = "linking" => CountPath(a)
        /\ pc'[a] = "linked" => LinkPath(a) \/ RecordNothing(a)
        /\ pc'[a] = "asked" => CreateAlone(a) \/ DeleteConnect(a) \/ JobConnect(a)
    BY <1>0, <2>1, Entering
  <2>3. pc'[a] = "asked"
    BY <1>1, <1>3, <2>2 DEF RecordPath, CountPath, LinkPath, RecordNothing
  <2>4. reply'[a] = "pending"
    BY <1>0, <2>1, <2>2, <2>3 DEF CreateAlone, DeleteConnect, JobConnect, Connect, Goto
  <2> QED BY <2>4
<1> QED BY <1>2, <1>3

\* FoundInv is inductive: between the lookup and the reply the handler keeps path
\* and server, and the table its entry.
LEMMA FoundStep ==
    ASSUME NSInv, FoundInv, NSNext
    PROVE  FoundInv'
<1>0. /\ NSTypeOK /\ PcTyped /\ DirInv /\ WorkInv /\ RequestInv /\ TargetInv
      /\ DOMAIN pc = Agents /\ Clients \subseteq Agents /\ NULL \notin Servers
      /\ target \in [Agents -> Servers \cup {NULL}]
      /\ \A c \in Clients : c \notin Jobs
  BY AgentsAssumption, NamesAssumption DEF NSInv, WorkInv, NSTypeOK, PcTyped, Agents
<1> SUFFICES ASSUME ~raced', NEW c \in Clients,
                    pc'[c] = "found" \/ (pc'[c] = "asked" /\ OpOf(c)' = "DELETE")
             PROVE  HasEntry(PathOf(c), target[c])'
  BY DEF FoundInv
<1> DEFINE p == PathOf(c)
           s == target[c]
           Kept == /\ HasEntry(p, s) /\ PathOf(c)' = p /\ target'[c] = s
                   /\ p \in Paths /\ s \in Servers
<1>1. ASSUME Kept PROVE HasEntry(PathOf(c), target[c])'
  <2>1. \E i \in 1 .. Len(chains'[Bucket[p]]) :
            chains'[Bucket[p]][i] = [path |-> p, server |-> s]
    BY <1>1, EntriesStay
  <2> QED BY <1>1, <2>1 DEF HasEntry
<1>2. CASE DeleteFound(c)
  <2>1. PICK u \in Servers : Finds(Current(c).path, u) /\ target' = [target EXCEPT ![c] = u]
    BY <1>2 DEF DeleteFound
  <2>2. UNCHANGED <<chains, requests, received>> /\ PathOf(c) = Current(c).path
    BY <1>2 DEF DeleteFound, dirVars, tableVars, clientVars, PathOf
  <2>3. target'[c] = u
    BY <1>0, <2>1
  <2>4. PathOf(c)' = PathOf(c)
    BY <2>2 DEF PathOf, Current
  <2>5. HasEntry(p, u)
    BY <2>1, <2>2 DEF Finds, HasEntry
  <2> QED BY <2>2, <2>3, <2>4, <2>5 DEF HasEntry
<1>3. ASSUME pc[c] \in {"found", "asked"}, OpOf(c) = "DELETE" PROVE Kept
  <2>1. Busy(c)
    BY <1>3 DEF Busy
  <2>2. PathOf(c)' = p /\ p \in Paths
    BY <1>0, <2>1, WorkKept, WorkTyped
  <2>3. s \in Servers
    BY <1>0, <1>3 DEF TargetInv
  <2>4. target'[c] = s
    <3>1. ~CreateMissing(c) /\ ~DeleteFound(c)
      BY <1>3 DEF CreateMissing, DeleteFound
    <3> QED BY <1>0, <3>1, TargetKept
  <2>5. ~raced
    <3>1. RoomInv
      BY DEF NSInv
    <3> QED BY <1>0, <3>1, DirStep
  <2>6. HasEntry(p, s)
    BY <1>3, <2>5 DEF FoundInv
  <2> QED BY <2>2, <2>3, <2>4, <2>6
<1>4. CASE pc'[c] = pc[c]
  <2>1. Busy(c)
    BY <1>4 DEF Busy
  <2>2. OpOf(c)' = OpOf(c)
    BY <1>0, <2>1, WorkKept
  <2>3. OpOf(c) = "DELETE"
    BY <1>0, <1>4, <2>2 DEF RequestInv, OpOf
  <2> QED BY <1>1, <1>3, <1>4, <2>3
<1>5. CASE pc'[c] # pc[c]
  <2>1. CASE pc'[c] = "found"
    BY <1>0, <1>2, <1>5, <2>1, Entering
  <2>2. CASE pc'[c] = "asked" /\ OpOf(c)' = "DELETE"
    <3>1. CreateAlone(c) \/ DeleteConnect(c)
      BY <1>0, <1>5, <2>2, Entering
    <3>2. pc[c] \in {"notfound", "found"}
      BY <3>1 DEF CreateAlone, DeleteConnect
    <3>3. Busy(c)
      BY <3>2 DEF Busy
    <3>4. OpOf(c) = "DELETE"
      BY <1>0, <2>2, <3>3, WorkKept
    <3>5. pc[c] = "found"
      BY <1>0, <3>2, <3>4 DEF RequestInv, OpOf
    <3> QED BY <1>1, <1>3, <3>4, <3>5
  <2> QED BY <2>1, <2>2
<1> QED BY <1>4, <1>5

\* RouteInv is inductive: the client is told a server under which the table has
\* the path, and sends no other command before it is back.
LEMMA RouteStep ==
    ASSUME NSInv, RouteInv, NSNext
    PROVE  RouteInv'
<1>0. /\ NSTypeOK /\ PcTyped /\ DirInv /\ WorkInv /\ RequestInv /\ RoutedInv /\ AnswerInv
      /\ RoomInv
      /\ clientPc \in [Clients -> {"ready", "waiting", "routed", "connected", "exited"}]
      /\ routed \in [Clients -> Servers \cup {NULL}] /\ NULL \notin Servers
      /\ requests \in [Clients -> Seq(Commands)]
  BY NamesAssumption DEF NSInv, WorkInv, NSTypeOK
<1> DEFINE Away == {"routed", "connected"}
<1> SUFFICES ASSUME ~raced', NEW c \in Clients, clientPc'[c] \in Away
             PROVE  HasEntry(requests[c][Len(requests[c])].path, routed[c])'
  BY DEF RouteInv
<1> DEFINE Stays == clientPc[c] \in Away /\ routed'[c] = routed[c]
<1>1. ASSUME NEW d \in Clients, Answer(d, "ready"), UNCHANGED routed PROVE Stays
  BY <1>1, <1>0, AnswerTyped
<1>2. ASSUME NEW d \in Clients, Lookup(d) PROVE Stays \/ Lookup(c)
  <2>1. CASE d = c
    BY <1>2, <2>1
  <2>2. CASE d # c
    <3>1. Answer(d, "ready") \/ Answer(d, "routed")
      BY <1>2 DEF Lookup
    <3>2. clientPc'[c] = clientPc[c]
      BY <1>0, <2>2, <3>1, AnswerTyped
    <3>3. routed'[c] = routed[c]
      BY <1>0, <1>2, <2>2 DEF Lookup
    <3> QED BY <3>2, <3>3
  <2> QED BY <2>1, <2>2
<1>3. ASSUME NEW d \in Clients,
             ListAll(d) \/ CreateReply(d) \/ DeleteMissing(d) \/ DeleteReply(d)
      PROVE  Stays
  <2>1. /\ Answer(d, "ready") \/ UNCHANGED <<clientPc, answers>>
        /\ UNCHANGED routed
    BY <1>3 DEF ListAll, CreateReply, DeleteMissing, DeleteReply
  <2> QED BY <1>1, <2>1
<1>4. ASSUME NEW j \in Jobs, JobReply(j) PROVE Stays
  <2>1. /\ Answer(j[1], "ready") \/ UNCHANGED <<clientPc, answers>>
        /\ UNCHANGED routed
    BY <1>4 DEF JobReply
  <2> QED BY <1>1, <2>1, JobParts
<1>5. ASSUME NEW d \in Clients, ClientConnect(d) \/ ClientServed(d) PROVE Stays
  BY <1>0, <1>5 DEF ClientConnect, ClientServed
<1>6. ASSUME NEW d \in Clients, NEW cmd \in Commands, ClientSend(d, cmd) PROVE Stays
  BY <1>0, <1>6 DEF ClientSend
<1>7. ASSUME NEW s \in Servers, SSCrash(s) PROVE Stays
  BY <1>0, <1>7 DEF SSCrash
<1>8. Stays \/ Lookup(c)
  <2>1. UNCHANGED <<clientPc, answers, routed>> => Stays
    OBVIOUS
  <2> HIDE DEF Stays
  <2> QED BY <2>1, <1>2, <1>3, <1>4, <1>5, <1>6, <1>7, ClientCases
<1> DEFINE p == requests[c][Len(requests[c])].path
<1>9. requests'[c] = requests[c]
  <2>1. ASSUME NEW d \in Clients, NEW cmd \in Commands, ClientSend(d, cmd)
        PROVE  requests'[c] = requests[c]
    BY <1>0, <2>1 DEF ClientSend
  <2> QED BY <1>0, <2>1, RequestsGrow
<1>10. CASE Stays
  <2>1. routed[c] \in Servers /\ Len(requests[c]) >= 1
    BY <1>0, <1>10 DEF RoutedInv
  <2>2. p \in Paths
    BY <1>0, <2>1, CommandsAssumption
  <2>3. HasEntry(p, routed[c])
    <3>1. ~raced
      BY <1>0, DirStep
    <3> QED BY <1>10, <3>1 DEF RouteInv
  <2> DEFINE s == routed[c]
  <2>4. \E i \in 1 .. Len(chains'[Bucket[p]]) :
            chains'[Bucket[p]][i] = [path |-> p, server |-> s]
    BY <2>1, <2>2, <2>3, EntriesStay
  <2> QED BY <1>9, <1>10, <2>4 DEF HasEntry
<1>11. CASE Lookup(c) /\ ~Stays
  <2>1. received[c] = Len(requests[c])
    BY <1>0, <1>11 DEF Lookup, AnswerInv, Owing
  <2>2. ~Answer(c, "ready")
    <3>1. clientPc[c] = "waiting"
      BY <1>0, <1>11 DEF Lookup, AnswerInv, Owing
    <3> QED BY <1>0, <3>1, AnswerTyped
  <2>3. PICK s \in Servers : /\ Finds(Current(c).path, s)
                             /\ routed' = [routed EXCEPT ![c] = s]
    BY <1>11, <2>2 DEF Lookup
  <2>4. routed'[c] = s /\ chains' = chains
    BY <1>0, <1>11, <2>3 DEF Lookup, dirVars, tableVars
  <2>5. HasEntry(p, s)
    BY <2>1, <2>3 DEF Finds, HasEntry, Current
  <2> QED BY <1>9, <2>4, <2>5 DEF HasEntry
<1> QED BY <1>8, <1>10, <1>11

\* Data comes to a disk only by a WRITE of a client that was sent there.
LEMMA DataWritten ==
    ASSUME NSInv, NSNext, NEW s \in Servers, NEW p \in Paths,
           disk'[s][p] = "data", disk[s][p] # "data"
    PROVE  \E c \in Clients : /\ clientPc[c] = "connected" /\ routed[c] = s
                              /\ requests[c][Len(requests[c])].path = p
                              /\ UNCHANGED dirVars
<1>0. /\ NSTypeOK /\ PcTyped /\ DirInv /\ WorkInv /\ RoutedInv
      /\ disk \in [Servers -> [Paths -> {"absent", "dir", "empty", "data"}]]
  BY DEF NSInv, NSTypeOK
<1>1. ASSUME NEW a \in Agents, SSCreate(a) \/ SSDelete(a) \/ SSCreateFails(a) PROVE FALSE
  <2>1. target[a] \in Servers /\ PathOf(a) \in Paths
    <3>1. reply[a] = "pending"
      BY <1>1 DEF SSCreate, SSDelete, SSCreateFails, Asked
    <3> QED BY <1>0, <3>1, AskedServer
  <2>2. CASE SSCreate(a)
    BY <1>0, <2>1, <2>2 DEF SSCreate, WithAncestors
  <2>3. CASE SSDelete(a)
    BY <1>0, <2>1, <2>3 DEF SSDelete
  <2>4. CASE SSCreateFails(a)
    BY <1>0, <2>1, <2>4 DEF SSCreateFails, WithAncestors
  <2> QED BY <1>1, <2>2, <2>3, <2>4
<1>2. ASSUME NEW c \in Clients, ClientServed(c)
      PROVE  /\ clientPc[c] = "connected" /\ routed[c] = s
             /\ requests[c][Len(requests[c])].path = p
             /\ UNCHANGED dirVars
  <2>1. clientPc[c] = "connected" /\ UNCHANGED dirVars
    BY <1>2 DEF ClientServed
  <2>2. requests[c][Len(requests[c])].path \in Paths /\ routed[c] \in Servers
    BY <1>0, <2>1, ServedCommand
  <2>3. \/ disk' = disk
        \/ disk' = [disk EXCEPT ![routed[c]][requests[c][Len(requests[c])].path] = "data"]
    BY <1>2 DEF ClientServed
  <2> QED BY <1>0, <2>1, <2>2, <2>3
<1>3. ASSUME NEW u \in Servers, SSListen(u) \/ SSCrash(u) PROVE FALSE
  BY <1>3 DEF SSListen, SSCrash
<1>4. ~UNCHANGED storeVars
  BY DEF storeVars
<1> QED BY <1>1, <1>2, <1>3, <1>4, StoreCases

\* DataInv is inductive.
LEMMA DataStep ==
    ASSUME NSInv, NSInv', RouteInv, DataInv, NSNext
    PROVE  DataInv'
<1>0. /\ NSTypeOK /\ PcTyped /\ DirInv /\ WorkInv /\ RoomInv /\ RoutedInv
      /\ DirInv' /\ regPc \in [Servers -> RegStates]
  BY DEF NSInv, NSTypeOK, DirTypeOK
<1> SUFFICES ASSUME ~raced', NEW s \in Servers, NEW p \in Paths, disk'[s][p] = "data"
             PROVE  \/ HasEntry(p, s)'
                    \/ /\ regPc'[s] # "acked"
                       /\ \E k \in 1 .. Len(MountPaths[s]) : MountPaths[s][k] = p
  BY DEF DataInv
<1>1. ~raced
  BY <1>0, DirStep
<1>2. ASSUME HasEntry(p, s) PROVE HasEntry(p, s)'
  BY <1>2, EntriesStay DEF HasEntry
<1>3. CASE disk[s][p] = "data"
  <2>1. CASE HasEntry(p, s)
    BY <1>2, <2>1
  <2>2. CASE \E k \in 1 .. Len(MountPaths[s]) : MountPaths[s][k] = p
    <3>1. regPc'[s] = "acked" => HasEntry(p, s)'
      <4>1. IndexInv'
        BY <1>0 DEF DirInv
      <4>2. PICK k \in 1 .. Len(MountPaths[s]) : MountPaths[s][k] = p
        BY <2>2
      <4>3. regPc'[s] = "acked" => HasEntry(MountPaths[s][k], s)'
        BY <4>1 DEF IndexInv, Copied
      <4> QED BY <4>2, <4>3 DEF HasEntry
    <3> QED BY <2>2, <3>1
  <2> QED BY <1>1, <1>3, <2>1, <2>2 DEF DataInv
<1>4. CASE disk[s][p] # "data"
  <2>1. PICK c \in Clients : /\ clientPc[c] = "connected" /\ routed[c] = s
                             /\ requests[c][Len(requests[c])].path = p
    BY <1>4, DataWritten
  <2>2. HasEntry(p, s)
    BY <1>1, <2>1 DEF RouteInv
  <2> QED BY <1>2, <2>2
<1> QED BY <1>3, <1>4

----------------------------------------------------------------------------
(* The invariant *)

\* At the start nothing is under way, and data is what was reported.
LEMMA ServiceInit ==
    ASSUME NSInit
    PROVE  ServiceInv
<1>1. NSInv
  BY NSInvInit
<1>2. /\ \A a \in Agents : pc[a] \in {"idle", "unborn"}
      /\ \A c \in Clients : clientPc[c] = "ready" /\ c \in Agents
      /\ \A s \in Servers, p \in Paths : disk[s][p] = "data" =>
             \E k \in 1 .. Len(MountPaths[s]) : MountPaths[s][k] = p
  BY DEF NSInit, Agents
<1>3. MadeInv /\ FoundInv /\ RouteInv
  BY <1>2 DEF MadeInv, FoundInv, RouteInv, Creating
<1>4. DataInv
  <2>1. AckedServersAreIndexed
    BY <1>1, AckSound DEF NSInv
  <2>2. SUFFICES ASSUME ~raced, NEW s \in Servers, NEW p \in Paths, disk[s][p] = "data",
                        regPc[s] = "acked"
                 PROVE  HasEntry(p, s)
    BY <1>2 DEF DataInv
  <2>3. PICK k \in 1 .. Len(MountPaths[s]) : MountPaths[s][k] = p
    BY <1>2, <2>2
  <2> QED BY <2>1, <2>2, <2>3 DEF AckedServersAreIndexed
<1> QED BY <1>1, <1>3, <1>4 DEF ServiceInv

\* Every step keeps it.
LEMMA ServiceStep == ServiceInv /\ [NSNext]_vars => ServiceInv'
<1>1. ASSUME ServiceInv, NSNext PROVE ServiceInv'
  <2>0. NSInv /\ MadeInv /\ FoundInv /\ RouteInv /\ DataInv
    BY <1>1 DEF ServiceInv
  <2>1. NSInv'
    BY <1>1, <2>0, NSInvStep
  <2> QED BY <1>1, <2>0, <2>1, MadeStep, FoundStep, RouteStep, DataStep DEF ServiceInv
<1>2. ASSUME ServiceInv, UNCHANGED vars PROVE ServiceInv'
  <2>1. NSInv'
    BY <1>2, NSInvStep DEF ServiceInv
  <2>2. /\ UNCHANGED <<clientPc, requests, routed, received, pc, target, reply, disk, stored,
                       regPc, chains, raced>>
    BY <1>2 DEF vars, nsVars, clientVars, agentVars, storeVars, dirVars, tableVars
  <2>3. \A a : PathOf(a)' = PathOf(a) /\ OpOf(a)' = OpOf(a)
    BY <2>2 DEF PathOf, OpOf, Current
  <2>4. MadeInv'
    BY <1>2, <2>2, <2>3 DEF ServiceInv, MadeInv, Creating
  <2>5. FoundInv' /\ RouteInv' /\ DataInv'
    BY <1>2, <2>2, <2>3 DEF ServiceInv, FoundInv, RouteInv, DataInv, HasEntry
  <2> QED BY <2>1, <2>4, <2>5 DEF ServiceInv
<1> QED BY <1>1, <1>2

\* What the invariant says of data: a registered server's files with data are in
\* the table.
THEOREM DataCorrect == NSSpec => []DataIsIndexed
<1>1. ServiceInv => DataIsIndexed
  BY DEF ServiceInv, DataInv, DataIsIndexed
<1>2. NSInit => ServiceInv
  BY ServiceInit
<1> QED BY <1>1, <1>2, ServiceStep, PTL DEF NSSpec

----------------------------------------------------------------------------
(* The naming server implements Catalogue *)

\* What a reader of Catalogue sees.
seenVars == <<requests, answers, routed, acked, chains, stored, raced, faults>>

\* The steps that show.
LEMMA VisibleCases ==
    ASSUME NSNext
    PROVE  \/ UNCHANGED seenVars
           \/ \E c \in Clients, cmd \in Commands : ClientSend(c, cmd)
           \/ \E c \in Clients : \/ Lookup(c) \/ ListAll(c) \/ CreateReply(c)
                                 \/ DeleteMissing(c) \/ DeleteReply(c) \/ ClientServed(c)
           \/ \E j \in Jobs : JobReply(j)
           \/ \E a \in Agents : LinkPath(a) \/ SSCreate(a) \/ SSCreateFails(a)
           \/ \E s \in Servers : SSCrash(s) \/ (RegAddLink(s) /\ UNCHANGED nsVars)
<1> USE DEF seenVars, clientVars, agentVars, storeVars, nsVars, dirVars, arrayVars, tableVars
<1>1. ASSUME NEW c \in Clients, Handler(c)
      PROVE  \/ UNCHANGED seenVars
             \/ Lookup(c) \/ ListAll(c) \/ CreateReply(c) \/ DeleteMissing(c) \/ DeleteReply(c)
  <2>1. Receive(c) \/ CreateExists(c) \/ CreateMissing(c) \/ CreateSpread(c)
            => UNCHANGED seenVars
    BY DEF Receive, CreateExists, CreateMissing, CreateSpread
  <2>2. CreateAlone(c) \/ RecordNothing(c) \/ DeleteFound(c) \/ DeleteConnect(c)
            => UNCHANGED seenVars
    BY DEF CreateAlone, RecordNothing, DeleteFound, DeleteConnect
  <2>3. RefreshCount(c) \/ RefreshFill(c) \/ RefreshAbort(c) => UNCHANGED seenVars
    BY DEF RefreshCount, RefreshFill, RefreshAbort
  <2> QED BY <1>1, <2>1, <2>2, <2>3 DEF Handler
<1>2. ASSUME NEW j \in Jobs, Job(j) PROVE UNCHANGED seenVars \/ JobReply(j)
  BY <1>2 DEF Job, JobConnect
<1>3. ASSUME NEW a \in Agents, IndexPath(a) \/ Serve(a) \/ SSCreateFails(a)
      PROVE  UNCHANGED seenVars \/ LinkPath(a) \/ SSCreate(a) \/ SSCreateFails(a)
  BY <1>3 DEF IndexPath, RecordPath, CountPath, HashAddBegin, Serve, SSDelete
<1>4. ASSUME NEW s \in Servers, SSListen(s) PROVE UNCHANGED seenVars
  BY <1>4 DEF SSListen
<1>5. ASSUME NEW s \in Servers, Registration(s)
      PROVE  UNCHANGED seenVars \/ (RegAddLink(s) /\ UNCHANGED nsVars)
  BY <1>5 DEF Registration, Register, RegThread, RegRecv, RegLock, RegCheck, RegRefuse,
              RegCount, RegCopy, RegAddBegin, HashAddBegin, RegAck
<1>6. ASSUME NEW c \in Clients, ClientProgram(c)
      PROVE  UNCHANGED seenVars \/ ClientServed(c)
  BY <1>6 DEF ClientProgram, ClientConnect
<1> HIDE DEF seenVars
<1> QED BY <1>1, <1>2, <1>3, <1>4, <1>5, <1>6 DEF NSNext

\* The entries of the table are what HasEntry says of the buckets.
LEMMA EntriesFound ==
    ASSUME chains \in [Buckets -> Seq(Entry)]
    PROVE  TableEntries = {ps \in Paths \X Servers : HasEntry(ps[1], ps[2])}
<1>1. chains \in [Buckets -> Seq(Entry)] /\ \A p \in Paths : Bucket[p] \in Buckets
  BY NamesAssumption
<1>2. ASSUME NEW b \in Buckets, NEW i \in 1 .. Len(chains[b]), Bucket[chains[b][i].path] = b
      PROVE  /\ <<chains[b][i].path, chains[b][i].server>> \in Paths \X Servers
             /\ HasEntry(chains[b][i].path, chains[b][i].server)
  <2>1. chains[b][i] \in Entry
    BY <1>1
  <2> QED BY <1>2, <2>1 DEF Entry, HasEntry
<1>3. ASSUME NEW p \in Paths, NEW s \in Servers, HasEntry(p, s)
      PROVE  <<p, s>> \in TableEntries
  <2>1. PICK i \in 1 .. Len(chains[Bucket[p]]) :
            chains[Bucket[p]][i] = [path |-> p, server |-> s]
    BY <1>3 DEF HasEntry
  <2> QED BY <1>1, <2>1 DEF TableEntries
<1>4. ASSUME NEW ps \in TableEntries
      PROVE  ps \in Paths \X Servers /\ HasEntry(ps[1], ps[2])
  <2>1. PICK b \in Buckets : \E i \in 1 .. Len(chains[b]) :
            Bucket[chains[b][i].path] = b /\ ps = <<chains[b][i].path, chains[b][i].server>>
    BY DEF TableEntries
  <2> QED BY <1>2, <2>1
<1> QED BY <1>3, <1>4

\* The same of the table after a step.
LEMMA EntriesFoundNext ==
    ASSUME chains' \in [Buckets -> Seq(Entry)]
    PROVE  TableEntries' = {ps \in Paths \X Servers : HasEntry(ps[1], ps[2])'}
<1>1. chains' \in [Buckets -> Seq(Entry)] /\ \A p \in Paths : Bucket[p] \in Buckets
  BY NamesAssumption
<1>2. ASSUME NEW b \in Buckets, NEW i \in 1 .. Len(chains'[b]), NEW p, NEW s,
             chains'[b][i].path = p, chains'[b][i].server = s, Bucket[p] = b
      PROVE  p \in Paths /\ s \in Servers /\ HasEntry(p, s)'
  <2>1. chains'[b][i] \in Entry
    BY <1>1
  <2>2. p \in Paths /\ s \in Servers /\ chains'[b][i] = [path |-> p, server |-> s]
    BY <1>2, <2>1 DEF Entry
  <2> QED BY <1>2, <2>2 DEF HasEntry
<1>3. ASSUME NEW p \in Paths, NEW s \in Servers, HasEntry(p, s)'
      PROVE  <<p, s>> \in TableEntries'
  <2>1. PICK i \in 1 .. Len(chains'[Bucket[p]]) :
            chains'[Bucket[p]][i] = [path |-> p, server |-> s]
    BY <1>3 DEF HasEntry
  <2> QED BY <1>1, <2>1 DEF TableEntries
<1>4. ASSUME NEW ps \in TableEntries'
      PROVE  ps \in Paths \X Servers /\ HasEntry(ps[1], ps[2])'
  <2>1. PICK b \in Buckets : \E i \in 1 .. Len(chains'[b]) :
            Bucket[chains'[b][i].path] = b /\ ps = <<chains'[b][i].path, chains'[b][i].server>>
    BY DEF TableEntries
  <2>2. PICK p, s : ps = <<p, s>> /\ p \in Paths /\ s \in Servers /\ HasEntry(p, s)'
    BY <1>2, <2>1
  <2> QED BY <2>2 DEF HasEntry
<1> QED BY <1>3, <1>4

\* An addition that saw the table as it is when it links adds its entry and no
\* other, in whichever of its forms.
LEMMA LinkAdds ==
    ASSUME DirTypeOK, EmptyInv, NEW t \in Threads, NEW p \in Paths, NEW s \in Servers,
           hashView[t] \in TableView, HashAddLink(t, p, s), ~raced'
    PROVE  TableEntries' = TableEntries \cup {<<p, s>>}
<1> DEFINE e == [path |-> p, server |-> s]
           seen == hashView[t]
           K(b) == {f \in Entry : Has(chains[b], f)} \cup (IF b = Bucket[p] THEN {e} ELSE {})
<1>0. /\ seen = TableAt(p) /\ e \in Entry /\ Bucket[p] \in Buckets
      /\ chains \in [Buckets -> Seq(Entry)] /\ serversByPath \in Nat
  BY NamesAssumption DEF HashAddLink, Entry, DirTypeOK
<1>1. /\ seen.tbl = serversByPath /\ seen.chain = chains[Bucket[p]]
      /\ \A b \in Buckets : chains[b] \in Seq(Entry)
  BY <1>0 DEF TableAt
<1>2. \A b \in Buckets : Among(chains[b], K(b))
  BY <1>1 DEF Among, Has
<1>3. ASSUME NEW b \in Buckets PROVE /\ Linked(seen, p, s)[b] \in Seq(Entry)
                                     /\ Among(Linked(seen, p, s)[b], K(b))
  <2>1. CASE b = Bucket[p]
    <3>1. Linked(seen, p, s)[b] = <<e>> \o chains[b]
      BY <1>0, <1>1, <2>1 DEF Linked
    <3>2. e \in K(b)
      BY <2>1
    <3>3. <<e>> \o chains[b] \in Seq(Entry)
      BY <1>0, <1>1, ChainTypes
    <3> HIDE DEF K
    <3>4. Among(<<e>> \o chains[b], K(b))
      BY <1>0, <1>1, <1>2, <3>2, ChainAmong
    <3> QED BY <3>1, <3>3, <3>4
  <2>2. CASE b # Bucket[p]
    <3>1. Linked(seen, p, s)[b] = chains[b]
      BY <1>0, <2>2 DEF Linked
    <3> HIDE DEF K
    <3> QED BY <1>1, <1>2, <3>1
  <2> QED BY <2>1, <2>2
<1>4. ASSUME NEW b \in Buckets PROVE Among(chains'[b], K(b))
  <2>1. CASE LinkInNewTable(seen, p, s)
    <3>1. chains'[b] = IF b = Bucket[p] THEN <<e>> ELSE <<>>
      BY <2>1 DEF LinkInNewTable
    <3> QED BY <3>1 DEF Among
  <2>2. CASE LinkInBucket(seen, p, s)
    BY <1>3, <2>2 DEF LinkInBucket
  <2>3. CASE LinkAndExpand(seen, p, s)
    <3>1. chains'[b] = Reverse(Linked(seen, p, s)[b])
      BY <2>3 DEF LinkAndExpand
    <3> HIDE DEF K
    <3>2. Among(Reverse(Linked(seen, p, s)[b]), K(b))
      BY <1>0, <1>3, ChainAmong
    <3> QED BY <3>1, <3>2
  <2>4. CASE LinkInOldTable(seen)
    BY <1>1, <2>4 DEF LinkInOldTable
  <2> QED BY <2>1, <2>2, <2>3, <2>4 DEF HashAddLink
<1>5. ASSUME NEW q \in Paths, NEW u \in Servers, HasEntry(q, u)'
      PROVE  HasEntry(q, u) \/ <<q, u>> = <<p, s>>
  <2>1. Bucket[q] \in Buckets
    BY NamesAssumption
  <2>2. [path |-> q, server |-> u] \in K(Bucket[q])
    BY <1>4, <1>5, <2>1 DEF HasEntry, Among
  <2> QED BY <2>2 DEF Has, HasEntry
<1>6. /\ HasEntry(p, s)'
      /\ \A q \in Paths, u \in Servers : HasEntry(q, u) => HasEntry(q, u)'
  BY HashAddLinkKeeps
<1>7. chains' \in [Buckets -> Seq(Entry)]
  BY HashAddLinkType
<1> QED BY <1>0, <1>5, <1>6, <1>7, EntriesFound, EntriesFoundNext

\* A second half of HASH_ADD_STR is an entry that was stored, unless faults have
\* happened, or it loosens the catalogue.
LEMMA LinkIsSeen ==
    ASSUME NSInv, NSInv', NEW t \in Threads, NEW p \in Paths, NEW s \in Servers,
           hashView[t] \in TableView, HashAddLink(t, p, s),
           UNCHANGED <<requests, answers, routed, acked, stored, faults>>
    PROVE  [Service!Loosen \/ Service!Enter]_(Service!catVars)
<1>0. /\ DirTypeOK /\ EmptyInv /\ raced \in BOOLEAN /\ raced' \in BOOLEAN
      /\ faults \in 0 .. MaxFaults /\ MaxFaults \in Nat
  BY AgentsAssumption DEF NSInv, DirInv, TypeInv, NSTypeOK, DirTypeOK
<1>1. faults < MaxFaults \/ TableEntries' \subseteq stored
  <2> SUFFICES ASSUME faults = MaxFaults PROVE TableEntries' \subseteq stored
    BY <1>0
  <2>1. \A b \in Buckets : Among(chains'[b], StoredEntries')
    BY DEF NSInv, StoredInv
  <2> SUFFICES ASSUME NEW q \in Paths, NEW u \in Servers, HasEntry(q, u)'
               PROVE  <<q, u>> \in stored
    BY EntriesFoundNext DEF NSInv, NSTypeOK, DirTypeOK
  <2>2. Bucket[q] \in Buckets
    BY NamesAssumption
  <2>3. [path |-> q, server |-> u] \in StoredEntries'
    BY <2>1, <2>2 DEF HasEntry, Among
  <2> QED BY <2>3 DEF StoredEntries
<1>2. CASE raced'
  <2>1. Service!Loosen
    BY <1>0, <1>1, <1>2 DEF Service!Loosen
  <2> QED BY <2>1
<1>3. CASE ~raced'
  <2>1. TableEntries' = TableEntries \cup {<<p, s>>} /\ ~raced
    BY <1>0, <1>3, LinkAdds, HashAddLinkKeeps
  <2>2. CASE <<p, s>> \in TableEntries
    BY <1>0, <1>3, <2>1, <2>2 DEF Service!catVars
  <2>3. CASE <<p, s>> \notin TableEntries
    <3>1. Service!Enter
      BY <1>0, <1>1, <1>3, <2>1, <2>3 DEF Service!Enter
    <3> QED BY <3>1
  <2> QED BY <2>2, <2>3
<1> QED BY <1>0, <1>2, <1>3

\* A reply to a client that waits is one answer to its last command.
LEMMA ReplyIsSeen ==
    ASSUME NSInv, NEW c \in Clients, NEW next \in {"ready", "routed"}, Answer(c, next),
           clientPc[c] = "waiting", UNCHANGED <<chains, raced, stored, faults>>
    PROVE  Service!Answer(c)
<1>1. answers[c] + 1 = Len(requests[c])
  BY DEF NSInv, AnswerInv
<1>2. answers' = [answers EXCEPT ![c] = @ + 1] /\ UNCHANGED requests
  BY DEF Answer
<1>3. TableEntries' = TableEntries
  BY DEF TableEntries, HasEntry
<1> QED BY <1>1, <1>2, <1>3 DEF Service!Answer

\* The command a handler owes an answer to is the client's last.
LEMMA OwedCommand ==
    ASSUME NSInv, NEW c \in Clients, pc[c] \in Owing
    PROVE  /\ clientPc[c] = "waiting" /\ Service!Last(c) = Current(c)
           /\ Current(c).path \in Paths
<1>1. clientPc[c] = "waiting" /\ received[c] = Len(requests[c])
  BY DEF NSInv, AnswerInv
<1>2. c \in Agents /\ Busy(c)
  BY DEF Agents, Busy, Owing
<1>3. PathOf(c) \in Paths
  BY <1>2, WorkTyped DEF NSInv, WorkInv
<1> QED BY <1>1, <1>3 DEF Service!Last, Current, PathOf

\* A path that HASH_FIND_STR does not find is not in the catalogue.
LEMMA NothingKnown ==
    ASSUME DirTypeOK, NEW p, FindsNothing(p)
    PROVE  ~Service!Known(p)
<1> SUFFICES ASSUME NEW s \in Servers, <<p, s>> \in TableEntries PROVE FALSE
  BY DEF Service!Known
<1>1. HasEntry(p, s)
  BY EntriesFound DEF DirTypeOK
<1>2. PICK i \in 1 .. Len(chains[Bucket[p]]) :
          chains[Bucket[p]][i] = [path |-> p, server |-> s]
  BY <1>1 DEF HasEntry
<1> QED BY <1>2 DEF FindsNothing

\* READ, WRITE and GETSIZE are answered from the table as it is at that moment.
LEMMA LookupIsSeen ==
    ASSUME NSInv, NEW c \in Clients, Lookup(c)
    PROVE  Service!Reply(c)
<1>0. /\ pc[c] = "dispatch" /\ Current(c).op \in {"READ", "WRITE", "GETSIZE"}
      /\ UNCHANGED <<chains, raced, stored, faults, acked>> /\ DirTypeOK
  BY DEF Lookup, storeVars, dirVars, tableVars, NSInv, NSTypeOK
<1>1. /\ clientPc[c] = "waiting" /\ Service!Last(c) = Current(c) /\ Current(c).path \in Paths
  BY <1>0, OwedCommand DEF Owing
<1>2. ASSUME NEW s \in Servers, Finds(Current(c).path, s),
             routed' = [routed EXCEPT ![c] = s], Answer(c, "routed")
      PROVE  Service!Reply(c)
  <2>1. Service!Answer(c)
    BY <1>0, <1>1, <1>2, ReplyIsSeen
  <2>2. <<Current(c).path, s>> \in TableEntries
    BY <1>0, <1>1, <1>2, EntriesFound DEF Finds, HasEntry, DirTypeOK
  <2> QED BY <1>0, <1>1, <1>2, <2>1, <2>2 DEF Service!Reply, Service!Route
<1>3. ASSUME FindsNothing(Current(c).path), Answer(c, "ready"), UNCHANGED routed
      PROVE  Service!Reply(c)
  <2>1. Service!Answer(c)
    BY <1>0, <1>1, <1>3, ReplyIsSeen
  <2>2. ~Service!Known(Current(c).path)
    BY <1>0, <1>3, NothingKnown
  <2> QED BY <1>0, <1>1, <1>3, <2>1, <2>2 DEF Service!Reply, Service!Miss
<1> QED BY <1>2, <1>3 DEF Lookup

\* LISTALL is answered by its handler.
LEMMA ListIsSeen ==
    ASSUME NSInv, NEW c \in Clients, ListAll(c)
    PROVE  Service!Reply(c)
<1>0. /\ pc[c] = "dispatch" /\ Current(c).op = "LISTALL" /\ Answer(c, "ready")
      /\ UNCHANGED <<chains, raced, stored, faults, acked, routed>>
  BY DEF ListAll, storeVars, dirVars, tableVars
<1>1. clientPc[c] = "waiting" /\ Service!Last(c) = Current(c)
  BY <1>0, OwedCommand DEF Owing
<1>2. Service!Answer(c)
  BY <1>0, <1>1, ReplyIsSeen
<1> QED BY <1>0, <1>1, <1>2 DEF Service!Reply, Service!List

\* DELETE is answered with a miss from the table as it is, or with what a server
\* said that the table still has under the path.
LEMMA DeleteIsSeen ==
    ASSUME ServiceInv, NEW c \in Clients, DeleteMissing(c) \/ DeleteReply(c)
    PROVE  [Service!Reply(c)]_(Service!catVars)
<1>0. /\ pc[c] \in Owing /\ Current(c).op = "DELETE" /\ NSInv
      /\ UNCHANGED <<chains, raced, stored, faults, acked, routed>>
      /\ raced \in BOOLEAN
  BY DEF DeleteMissing, DeleteReply, storeVars, dirVars, tableVars, Owing, OpOf, ServiceInv,
         NSInv, NSTypeOK, DirTypeOK
<1>1. clientPc[c] = "waiting" /\ Service!Last(c) = Current(c) /\ Current(c).path \in Paths
  BY <1>0, OwedCommand
<1>2. CASE DeleteMissing(c)
  <2>1. Service!Answer(c)
    BY <1>0, <1>1, <1>2, ReplyIsSeen DEF DeleteMissing
  <2>2. ~Service!Known(Current(c).path)
    BY <1>0, <1>2, NothingKnown DEF DeleteMissing, NSInv, NSTypeOK
  <2>3. Service!Reply(c)
    BY <1>0, <1>1, <2>1, <2>2 DEF Service!Reply, Service!Miss
  <2> QED BY <2>3
<1>3. CASE DeleteReply(c) /\ Answer(c, "ready")
  <2>1. Service!Answer(c)
    BY <1>0, <1>1, <1>3, ReplyIsSeen
  <2>2. raced \/ Service!Known(Current(c).path)
    <3>1. ~raced => HasEntry(PathOf(c), target[c])
      BY <1>3 DEF DeleteReply, ServiceInv, FoundInv
    <3>2. PathOf(c) = Current(c).path /\ target[c] \in Servers
      <4>1. c \in Agents /\ pc[c] = "asked"
        BY <1>3 DEF DeleteReply, Agents
      <4> QED BY <1>0, <4>1 DEF NSInv, NSTypeOK, WorkInv, TargetInv, PathOf
    <3>3. ~raced => <<Current(c).path, target[c]>> \in TableEntries
      BY <1>0, <1>1, <3>1, <3>2, EntriesFound DEF NSInv, NSTypeOK, DirTypeOK
    <3> QED BY <1>0, <3>2, <3>3 DEF Service!Known
  <2>3. Service!Reply(c)
    BY <1>0, <1>1, <2>1, <2>2 DEF Service!Reply, Service!Relay
  <2> QED BY <2>3
<1>4. CASE DeleteReply(c) /\ ~Answer(c, "ready")
  <2>1. UNCHANGED <<requests, answers>>
    BY <1>4 DEF DeleteReply
  <2>2. TableEntries' = TableEntries
    BY <1>0 DEF TableEntries, HasEntry
  <2> QED BY <1>0, <2>1, <2>2 DEF Service!catVars
<1> QED BY <1>2, <1>3, <1>4

\* A creation is confirmed when the path is stored and catalogued, and its failure
\* is reported only after a fault: by the handler or by the original's thread.
LEMMA CreationIsSeen ==
    ASSUME ServiceInv, NEW a \in Agents, NEW c \in Clients, pc[a] = "linked",
           clientPc[c] = "waiting", Answer(c, "ready"),
           Acknowledge(a, PathOf(a)) \/ UNCHANGED acked,
           Service!Last(c).op = "CREATE", Service!Last(c).path = PathOf(a),
           UNCHANGED <<chains, raced, stored, faults, routed>>
    PROVE  Service!Reply(c)
<1>0. /\ NSInv /\ NSTypeOK /\ DirInv /\ WorkInv /\ RequestInv /\ raced \in BOOLEAN
      /\ faults \in 0 .. MaxFaults /\ MaxFaults \in Nat
  BY AgentsAssumption DEF ServiceInv, NSInv, WorkInv, NSTypeOK, DirTypeOK
<1>1. Service!Answer(c)
  BY <1>0, ReplyIsSeen
<1>2. Creating(a) /\ PathOf(a) \in Paths /\ target[a] \in Servers
  BY <1>0, IndexingCreates, LinkedTyped
<1>3. CASE reply[a] = "4"
  <2>1. acked' \in {acked, acked \cup {<<PathOf(a), target[a]>>}}
    BY <1>3 DEF Acknowledge
  <2>2. <<PathOf(a), target[a]>> \in stored
    BY <1>2, <1>3 DEF ServiceInv, MadeInv
  <2>3. raced \/ <<PathOf(a), target[a]>> \in TableEntries
    <3>1. ~raced => HasEntry(PathOf(a), target[a])
      BY <1>0, <1>2, <1>3 DEF NSInv, AckInv
    <3> QED BY <1>0, <1>2, <3>1, EntriesFound DEF NSTypeOK, DirTypeOK
  <2>4. Service!Confirm(c, target[a])
    BY <1>0, <2>1, <2>2, <2>3 DEF Service!Confirm
  <2> QED BY <1>1, <1>2, <2>4 DEF Service!Reply
<1>4. CASE reply[a] # "4"
  <2>1. UNCHANGED acked
    BY <1>4 DEF Acknowledge
  <2>2. reply[a] # "pending"
    BY <1>0 DEF WorkInv, ReplyInv
  <2>3. faults < MaxFaults
    <3>1. faults # MaxFaults
      BY <1>0, <1>2, <1>4, <2>2 DEF NSInv, StoredInv
    <3> QED BY <1>0, <3>1
  <2>4. Service!Fail(c)
    BY <2>1, <2>3 DEF Service!Fail
  <2> QED BY <1>1, <2>4 DEF Service!Reply
<1> QED BY <1>3, <1>4

\* So the reply of a handler is such an answer, or none.
LEMMA HandlerReplies ==
    ASSUME ServiceInv, NEW c \in Clients, CreateReply(c)
    PROVE  [Service!Reply(c)]_(Service!catVars)
<1>0. /\ pc[c] = "linked" /\ NSInv /\ c \in Agents
      /\ UNCHANGED <<chains, raced, stored, faults, routed>>
  BY DEF CreateReply, storeVars, dirVars, tableVars, ServiceInv, Agents
<1>1. CASE Answer(c, "ready") /\ (Acknowledge(c, PathOf(c)) \/ UNCHANGED acked)
  <2>1. clientPc[c] = "waiting" /\ Service!Last(c) = Current(c)
    BY <1>0, OwedCommand DEF Owing
  <2>2. Current(c).op = "CREATE" /\ Current(c).path = PathOf(c)
    BY <1>0 DEF NSInv, WorkInv, RequestInv, PathOf
  <2> QED BY <1>0, <1>1, <2>1, <2>2, CreationIsSeen
<1>2. CASE UNCHANGED <<clientPc, requests, answers, acked>>
  <2>1. TableEntries' = TableEntries
    BY <1>0 DEF TableEntries, HasEntry
  <2> QED BY <1>0, <1>2, <2>1 DEF Service!catVars
<1> QED BY <1>1, <1>2 DEF CreateReply

\* And so is that of a detached thread.
LEMMA JobReplies ==
    ASSUME ServiceInv, NEW j \in Jobs, JobReply(j)
    PROVE  [Service!Reply(j[1])]_(Service!catVars)
<1>0. /\ pc[j] = "linked" /\ NSInv /\ j \in Agents /\ j \notin Clients /\ j[1] \in Clients
      /\ UNCHANGED <<chains, raced, stored, faults, routed>>
  BY JobParts DEF JobReply, storeVars, dirVars, tableVars, ServiceInv
<1>1. CASE j[3] = 0 /\ Answer(j[1], "ready") /\ Acknowledge(j, PathOf(j))
  <2>1. clientPc[j[1]] = "waiting" /\ j[2] = Len(requests[j[1]])
    BY <1>0, <1>1 DEF NSInv, AnswerInv, Live
  <2>2. requests[j[1]][j[2]].op = "CREATE"
    BY <1>0 DEF NSInv, WorkInv, RequestInv, Busy
  <2>3. /\ Service!Last(j[1]).op = "CREATE" /\ Service!Last(j[1]).path = PathOf(j)
    BY <1>0, <1>1, <2>1, <2>2 DEF Service!Last, PathOf
  <2> QED BY <1>0, <1>1, <2>1, <2>3, CreationIsSeen
<1>2. CASE UNCHANGED <<clientPc, requests, answers, acked>>
  <2>1. TableEntries' = TableEntries
    BY <1>0 DEF TableEntries, HasEntry
  <2> QED BY <1>0, <1>2, <2>1 DEF Service!catVars
<1> QED BY <1>1, <1>2 DEF JobReply

\* A server stores a path only because a client's CREATE or WRITE names it, or a
\* CREATE whose backup it is.
LEMMA StoreIsSeen ==
    ASSUME NSInv, NEW p, NEW s, Service!Wanted(p), stored' = stored \cup {<<p, s>>},
           UNCHANGED <<requests, answers, routed, acked, chains, raced, faults>>
    PROVE  [Service!Store]_(Service!catVars)
<1>1. TableEntries' = TableEntries
  BY DEF TableEntries, HasEntry
<1>2. CASE <<p, s>> \in stored
  BY <1>1, <1>2 DEF Service!catVars
<1>3. CASE <<p, s>> \notin stored
  <2>1. Service!Store
    BY <1>1, <1>3 DEF Service!Store
  <2> QED BY <2>1
<1> QED BY <1>2, <1>3

\* An agent creates what a command of its client names, or its backup.
LEMMA CreationWanted ==
    ASSUME NSInv, NEW a \in Agents, Creating(a)
    PROVE  Service!Wanted(PathOf(a))
<1>0. /\ RequestInv /\ requests \in [Clients -> Seq(Commands)]
      /\ received \in [Clients -> 0 .. MaxRequests] /\ MaxRequests \in Nat
  BY AgentsAssumption DEF NSInv, WorkInv, NSTypeOK
<1>1. CASE a \in Clients
  <2>1. received[a] \in 1 .. Len(requests[a])
    <3>1. Busy(a)
      BY <1>1 DEF Creating, Busy
    <3>2. received[a] >= 1 /\ received[a] <= Len(requests[a]) /\ received[a] \in Nat
      BY <1>0, <1>1, <3>1 DEF RequestInv
    <3> QED BY <1>0, <1>1, <3>2
  <2>2. requests[a][received[a]].op = "CREATE" /\ PathOf(a) = requests[a][received[a]].path
    BY <1>1 DEF Creating, OpOf, PathOf, Current
  <2> QED BY <1>1, <2>1, <2>2 DEF Service!Wanted
<1>2. CASE a \in Jobs
  <2>1. a \notin Clients /\ a[1] \in Clients /\ a[2] \in 1 .. MaxRequests /\ a[3] \in Replicas
    BY <1>2, JobParts
  <2>2. Busy(a)
    BY <2>1 DEF Creating, Busy
  <2>3. a[2] \in 1 .. Len(requests[a[1]]) /\ requests[a[1]][a[2]].op = "CREATE"
    BY <1>0, <1>2, <2>1, <2>2 DEF RequestInv
  <2>4. \/ PathOf(a) = requests[a[1]][a[2]].path
        \/ \E k \in {1, 2} : PathOf(a) = Backup[k][requests[a[1]][a[2]].path]
    BY <2>1 DEF PathOf, Replicas
  <2> QED BY <2>1, <2>3, <2>4 DEF Service!Wanted
<1> QED BY <1>1, <1>2 DEF Agents

\* Every step of every thread is one of the catalogue's, or invisible.
LEMMA CatalogueStep ==
    ASSUME ServiceInv, NSInv', NSNext
    PROVE  [Service!Next]_(Service!catVars)
<1>0. /\ NSInv /\ NSTypeOK /\ PcTyped /\ DirInv /\ WorkInv /\ RoutedInv /\ RequestInv
      /\ Agents \subseteq Threads /\ Servers \subseteq Threads
      /\ requests \in [Clients -> Seq(Commands)]
      /\ faults \in 0 .. MaxFaults /\ MaxFaults \in Nat
  BY AgentsAssumption, NamesAssumption DEF ServiceInv, NSInv, WorkInv, NSTypeOK
<1> DEFINE Goal == [Service!Next]_(Service!catVars)
<1>1. CASE UNCHANGED seenVars
  <2>1. TableEntries' = TableEntries
    BY <1>1 DEF seenVars, TableEntries, HasEntry
  <2> QED BY <1>1, <2>1 DEF seenVars, Service!catVars
<1>2. ASSUME NEW c \in Clients, NEW cmd \in Commands, ClientSend(c, cmd) PROVE Goal
  <2>1. answers[c] = Len(requests[c])
    BY <1>0, <1>2 DEF ClientSend, NSInv, AnswerInv
  <2>2. /\ requests' = [requests EXCEPT ![c] = Append(@, cmd)]
        /\ UNCHANGED <<answers, routed, acked, chains, stored, raced, faults>>
    BY <1>2 DEF ClientSend, storeVars, dirVars, tableVars
  <2>3. TableEntries' = TableEntries
    BY <2>2 DEF TableEntries, HasEntry
  <2>4. Service!Ask(c, cmd)
    BY <2>1, <2>2, <2>3 DEF Service!Ask
  <2> QED BY <2>4 DEF Service!Next
<1>3. ASSUME NEW c \in Clients, Lookup(c) \/ ListAll(c) PROVE Goal
  BY <1>0, <1>3, LookupIsSeen, ListIsSeen DEF Service!Next
<1>4. ASSUME NEW c \in Clients, DeleteMissing(c) \/ DeleteReply(c) PROVE Goal
  BY <1>4, DeleteIsSeen DEF Service!Next
<1>5. ASSUME NEW c \in Clients, CreateReply(c) PROVE Goal
  BY <1>5, HandlerReplies DEF Service!Next
<1>6. ASSUME NEW j \in Jobs, JobReply(j) PROVE Goal
  BY <1>6, JobReplies, JobParts DEF Service!Next
<1>7. ASSUME NEW c \in Clients, ClientServed(c) PROVE Goal
  <2> DEFINE cmd == requests[c][Len(requests[c])]
  <2>1. /\ clientPc[c] = "connected"
        /\ UNCHANGED <<requests, answers, routed, acked, chains, raced, faults>>
        /\ stored' = stored \/ (cmd.op = "WRITE" /\ stored' = stored \cup {<<cmd.path, routed[c]>>})
    BY <1>7 DEF ClientServed, dirVars, tableVars
  <2>2. CASE stored' = stored
    BY <1>1, <2>1, <2>2 DEF seenVars
  <2>3. CASE cmd.op = "WRITE" /\ stored' = stored \cup {<<cmd.path, routed[c]>>}
    <3>1. Len(requests[c]) \in 1 .. Len(requests[c])
      BY <1>0, <2>1 DEF RoutedInv
    <3>2. Service!Wanted(cmd.path)
      BY <2>3, <3>1 DEF Service!Wanted
    <3> QED BY <1>0, <2>1, <2>3, <3>2, StoreIsSeen DEF Service!Next
  <2> QED BY <2>1, <2>2, <2>3
<1>8. ASSUME NEW a \in Agents, SSCreate(a) PROVE Goal
  <2>1. /\ reply[a] = "pending" /\ OpOf(a) = "CREATE"
        /\ stored' = stored \cup {<<PathOf(a), target[a]>>}
        /\ UNCHANGED <<requests, answers, routed, acked, chains, raced, faults>>
    BY <1>8 DEF SSCreate, Asked, clientVars, dirVars, tableVars
  <2>2. Creating(a)
    BY <1>0, <2>1, AskedServer
  <2> QED BY <1>0, <2>1, <2>2, CreationWanted, StoreIsSeen DEF Service!Next
<1>9. ASSUME NEW a \in Agents, LinkPath(a) PROVE Goal
  <2>1. /\ pc[a] = "linking" /\ HashAddLink(a, PathOf(a), target[a])
        /\ UNCHANGED <<requests, answers, routed, acked, stored, faults>>
    BY <1>9 DEF LinkPath, clientVars, storeVars
  <2>2. Creating(a) /\ Busy(a)
    BY <1>0, <2>1, IndexingCreates
  <2>3. PathOf(a) \in Paths /\ target[a] \in Servers /\ hashView[a] \in TableView
    BY <1>0, <2>1, <2>2, CreatingSlot, WorkTyped DEF WorkInv, ViewInv
  <2> QED BY <1>0, <2>1, <2>3, LinkIsSeen DEF Service!Next
<1>10. ASSUME NEW s \in Servers, RegAddLink(s), UNCHANGED nsVars PROVE Goal
  <2> DEFINE p == MountPaths[s][nextPath[s] + 1]
  <2>1. /\ regPc[s] = "linking" /\ HashAddLink(s, p, s)
        /\ UNCHANGED <<requests, answers, routed, acked, stored, faults>>
    BY <1>10 DEF RegAddLink, nsVars, clientVars, storeVars
  <2>2. /\ nextPath[s] < Len(MountPaths[s]) /\ hashView[s] \in TableView /\ nextPath[s] \in Nat
    BY <1>0, <2>1 DEF DirInv, TypeInv, LinkingInv, DirTypeOK
  <2>3. p \in Paths
    BY <2>2, MountAssumption
  <2> QED BY <1>0, <2>1, <2>2, <2>3, LinkIsSeen DEF Service!Next
<1>11. ASSUME \/ \E a \in Agents : SSCreateFails(a)
              \/ \E s \in Servers : SSCrash(s)
       PROVE  Goal
  <2>1. /\ faults' = faults - 1 /\ faults > 0
        /\ UNCHANGED <<requests, answers, routed, acked, chains, stored, raced>>
    BY <1>11 DEF SSCreateFails, SSCrash, clientVars, dirVars, tableVars
  <2>2. TableEntries' = TableEntries /\ faults' < MaxFaults
    BY <1>0, <2>1 DEF TableEntries, HasEntry
  <2>3. Service!Fault
    BY <2>1, <2>2 DEF Service!Fault
  <2> QED BY <2>3 DEF Service!Next
<1> HIDE DEF Goal
<1>12. UNCHANGED seenVars => Goal
  BY <1>1 DEF Goal
<1>13. Goal
  BY <1>2, <1>3, <1>4, <1>5, <1>6, <1>7, <1>8, <1>9, <1>10, <1>11, <1>12, VisibleCases
<1> QED BY <1>13 DEF Goal

\* ImplementsCatalogue, for every number of clients, commands, servers, slots and
\* faults: the threads of the naming server, its unlocked table and the storage
\* servers behave as one catalogue whose every answer is justified when given.
THEOREM CatalogueImplemented == NSSpec => ImplementsCatalogue
<1>1. NSInit => Service!Init
  <2> SUFFICES ASSUME NSInit PROVE Service!Init
    OBVIOUS
  <2>1. /\ requests = [c \in Clients |-> <<>>] /\ answers = [c \in Clients |-> 0]
        /\ routed = [c \in Clients |-> NULL] /\ acked = {}
        /\ raced = FALSE /\ faults = MaxFaults /\ MaxFaults \in Nat
    BY AgentsAssumption DEF NSInit, DirInit
  <2>2. TableEntries \subseteq stored
    <3>1. \A b \in Buckets : Among(chains[b], StoredEntries)
      BY <2>1, NSInvInit DEF NSInv, StoredInv
    <3> SUFFICES ASSUME NEW q \in Paths, NEW u \in Servers, HasEntry(q, u)
                 PROVE  <<q, u>> \in stored
      BY NSInvInit, EntriesFound DEF NSInv, NSTypeOK, DirTypeOK
    <3>2. Bucket[q] \in Buckets
      BY NamesAssumption
    <3>3. [path |-> q, server |-> u] \in StoredEntries
      BY <3>1, <3>2 DEF HasEntry, Among
    <3> QED BY <3>3 DEF StoredEntries
  <2> QED BY <2>1, <2>2 DEF Service!Init
<1>2. NSInit => ServiceInv
  BY ServiceInit
<1>3. ServiceInv /\ ServiceInv' /\ [NSNext]_vars => [Service!Next]_(Service!catVars)
  <2>1. ASSUME ServiceInv, ServiceInv', NSNext PROVE [Service!Next]_(Service!catVars)
    <3>1. NSInv'
      BY <2>1 DEF ServiceInv
    <3> QED BY <2>1, <3>1, CatalogueStep
  <2>2. ASSUME UNCHANGED vars PROVE UNCHANGED Service!catVars
    <3>1. UNCHANGED <<requests, answers, routed, acked, chains, stored, raced, faults>>
      BY <2>2 DEF vars, nsVars, clientVars, storeVars, dirVars, tableVars
    <3>2. TableEntries' = TableEntries
      BY <3>1 DEF TableEntries, HasEntry
    <3> QED BY <3>1, <3>2 DEF Service!catVars
  <2> QED BY <2>1, <2>2
<1> QED BY <1>1, <1>2, <1>3, ServiceStep, PTL
    DEF NSSpec, ImplementsCatalogue, Service!Spec

\* No thread but a registration thread admits, moves or refuses a server.
LEMMA SlotsFree ==
    ASSUME NSInv, NSNext
    PROVE  \/ \E s \in Servers : Registration(s)
           \/ /\ UNCHANGED <<regPc, storageServerCount>>
              /\ \A i \in Slots : storageServers'[i].server = storageServers[i].server
<1>0. storageServers \in [Slots -> SlotRecord]
  BY DEF NSInv, NSTypeOK, DirTypeOK
<1> DEFINE Goal == /\ UNCHANGED <<regPc, storageServerCount>>
                   /\ \A i \in Slots : storageServers'[i].server = storageServers[i].server
<1>1. ASSUME UNCHANGED dirVars PROVE Goal
  BY <1>1 DEF dirVars, arrayVars
<1>2. ASSUME NEW c \in Clients, RefreshCount(c) \/ RefreshFill(c) PROVE Goal
  <2>1. /\ UNCHANGED <<regPc, storageServerCount>>
        /\ \/ UNCHANGED storageServers
           \/ \E i, n : storageServers' = [storageServers EXCEPT ![i].numPaths = n]
           \/ \E i, l : storageServers' = [storageServers EXCEPT ![i].accessiblePaths = l]
    BY <1>2 DEF RefreshCount, RefreshFill
  <2> QED BY <1>0, <2>1 DEF SlotRecord
<1>3. ASSUME NEW a \in Agents, RecordPath(a) \/ CountPath(a) PROVE Goal
  BY <1>0, <1>3 DEF RecordPath, CountPath, SlotRecord
<1>4. ASSUME NEW a \in Agents, LinkPath(a) PROVE Goal
  BY <1>4 DEF LinkPath, arrayVars
<1> HIDE DEF Goal
<1>5. Goal \/ \E s \in Servers : Registration(s)
  BY <1>1, <1>2, <1>3, <1>4, DirCases
<1> QED BY <1>5 DEF Goal

\* ImplementsRoster with clients being served: handlers, jobs and storage servers
\* write to the array without its mutex, and the roster does not notice.
THEOREM RosterServing == NSSpec => ImplementsRoster
<1>1. NSInit => Abstract!Init
  BY RosterInit DEF NSInit
<1>2. NSInv /\ [NSNext]_vars
          => [Abstract!Next]_<<RosterOf, {s \in Servers : regPc[s] = "refused"}>>
  <2> DEFINE Goal == [Abstract!Next]_<<RosterOf, {s \in Servers : regPc[s] = "refused"}>>
  <2>1. ASSUME NSInv, NSNext PROVE Goal
    <3>0. NSTypeOK /\ PcTyped /\ DirInv /\ WorkInv /\ RoomInv
      BY <2>1 DEF NSInv
    <3>1. ASSUME NEW s \in Servers, Registration(s) PROVE Goal
      BY <3>0, <3>1, RosterStep DEF Registration, DirNext
    <3>2. ASSUME UNCHANGED <<regPc, storageServerCount>>,
                 \A i \in Slots : storageServers'[i].server = storageServers[i].server
          PROVE  Goal
      BY <3>0, <3>2, RosterTyped DEF RosterOf, RosterLength
    <3> QED BY <2>1, <3>1, <3>2, SlotsFree
  <2>2. ASSUME UNCHANGED vars PROVE Goal
    BY <2>2, RosterKept DEF vars, dirVars, arrayVars, RefusedServers
  <2> QED BY <2>1, <2>2
<1> QED BY <1>1, <1>2, NSInvCorrect, PTL DEF NSSpec, ImplementsRoster, Abstract!Spec

============================================================================
