------------------------------ MODULE Session ------------------------------
(***************************************************************************)
(* The connections between client programs and the naming server: the      *)
(* accept loop, one handler thread per connection, the asynchronous        *)
(* threads that answer a CREATE over the handler's descriptor, and the     *)
(* client's wait for an acknowledgement and then for a reply.              *)
(*                                                                         *)
(* TCP delivers bytes, not messages: one recv takes any non-empty part of  *)
(* what has arrived.  Commands, acknowledgements and replies carry no      *)
(* terminator, so what one recv takes is one message to the code.          *)
(*                                                                         *)
(* A command is <<c, n>>, the n-th of client c.  Its kind says who answers *)
(* it: "lookup" the handler at once (READ, WRITE, GETSIZE, LISTALL, and    *)
(* COPY of an unknown path), "delete" the handler after a storage server   *)
(* did, followed by a refresh, "create" an asynchronous thread, "known"    *)
(* nobody (a CREATE whose path is in the table).  What a reply says, and   *)
(* the client's own conversation with a storage server, are in             *)
(* NamingServer.                                                           *)
(***************************************************************************)
EXTENDS Naturals, Sequences, FiniteSets, FiniteSetsExt

CONSTANTS
    Clients,        \* client programs
    Kinds,          \* the kinds of commands users type
    MaxCommands,    \* bound: commands typed, at all clients together
    MaxDepartures,  \* bound: clients that end
    MaxFds,         \* descriptors the naming server may have open
    Copies,         \* the asynchronous threads of a CREATE; 0 is the original's
    NOBODY,         \* a descriptor that is not open
    SERVER          \* a descriptor of a connection to a storage server

Commands == Clients \X (1 .. MaxCommands)
Jobs == Commands \X Copies
Fds == 1 .. MaxFds

ASSUME SessionAssumption ==
    /\ Kinds \subseteq {"lookup", "delete", "create", "known"}
    /\ MaxCommands \in Nat
    /\ MaxDepartures \in Nat
    /\ MaxFds \in Nat
    /\ Copies \subseteq 0 .. 2 /\ 0 \in Copies
    /\ {NOBODY, SERVER} \cap Clients = {}
    /\ NOBODY # SERVER

Messages == [what : {"ACK", "reply"}, of : Commands]

VARIABLES
    clientPc,   \* off, prompt, ack (in waitforAck), reply (in the second recv), gone
    typed,      \* the kinds of the commands each client has sent
    late,       \* more than TIMEOUT seconds have passed since the last command
    up,         \* numbers of the commands on their way to the handler
    down,       \* messages on their way to the client
    line,       \* what the naming server's side knows of the client's end
    backlog,    \* connections not accepted yet
    fdOf,       \* the descriptor a connection was accepted with, 0 before
    files,      \* the naming server's descriptor table
    handlerPc,  \* where each handler is
    handling,   \* the command a handler works on
    jobPc,      \* where each asynchronous thread is
    alive,      \* the naming server runs
    told,       \* history: the messages each command's second recv took
    slipped,    \* history: clients whose messages have come apart
    starved     \* history: clients for whose command no descriptor was left

clientVars == <<clientPc, typed, late, told>>
wireVars == <<up, down, line, alive>>
fdVars == <<backlog, fdOf, files>>
threadVars == <<handlerPc, handling, jobPc>>
historyVars == <<slipped, starved>>
vars == <<clientVars, wireVars, fdVars, threadVars, historyVars>>

Last(c) == Len(typed[c])
Departed == {c \in Clients : clientPc[c] = "gone"}

\* The parts of a stream that one recv may take.
Taken(stream) == {SubSeq(stream, 1, k) : k \in 1 .. Len(stream)}
Rest(stream, taken) == SubSeq(stream, Len(taken) + 1, Len(stream))

Slip(c) == slipped' = slipped \cup {c} /\ UNCHANGED starved
Starve(c) == starved' = starved \cup {c} /\ UNCHANGED slipped

----------------------------------------------------------------------------
(* The client program *)

\* socket and connect: the connection waits in the listener's queue.
ClientStart(c) ==
    /\ clientPc[c] = "off"
    /\ alive
    /\ clientPc' = [clientPc EXCEPT ![c] = "prompt"]
    /\ backlog' = Append(backlog, c)
    /\ UNCHANGED <<typed, late, told, wireVars, fdOf, files, threadVars, historyVars>>

\* A command is read from the user and sent; the clock starts.
ClientSend(c, kind) ==
    /\ clientPc[c] = "prompt"
    /\ alive
    /\ Last(c) < MaxCommands /\ MapThenSumSet(Last, Clients) < MaxCommands
    /\ typed' = [typed EXCEPT ![c] = Append(@, kind)]
    /\ up' = [up EXCEPT ![c] = Append(@, Last(c) + 1)]
    /\ late' = [late EXCEPT ![c] = FALSE]
    /\ clientPc' = [clientPc EXCEPT ![c] = "ack"]
    /\ UNCHANGED <<told, down, line, alive, fdVars, threadVars, historyVars>>

TimePasses(c) ==
    /\ clientPc[c] = "ack"
    /\ ~late[c]
    /\ late' = [late EXCEPT ![c] = TRUE]
    /\ UNCHANGED <<clientPc, typed, told, wireVars, fdVars, threadVars, historyVars>>

\* waitforAck: whatever one recv takes is the acknowledgement.  If it is late
\* the command is given up, though its reply is still to come.
waitforAck(c) ==
    /\ clientPc[c] = "ack"
    /\ \E taken \in Taken(down[c]) :
           /\ down' = [down EXCEPT ![c] = Rest(@, taken)]
           /\ IF Len(taken) > 1 \/ late[c] THEN Slip(c) ELSE UNCHANGED historyVars
    /\ clientPc' = [clientPc EXCEPT ![c] = IF late[c] THEN "prompt" ELSE "reply"]
    /\ UNCHANGED <<typed, late, told, up, line, alive, fdVars, threadVars>>

\* The second recv: whatever it takes is the reply.
ClientReply(c) ==
    /\ clientPc[c] = "reply"
    /\ \E taken \in Taken(down[c]) :
           /\ down' = [down EXCEPT ![c] = Rest(@, taken)]
           /\ told' = [told EXCEPT ![c][Last(c)] = taken]
    /\ clientPc' = [clientPc EXCEPT ![c] = "prompt"]
    /\ UNCHANGED <<typed, late, up, line, alive, fdVars, threadVars, historyVars>>

\* The naming server has died: both recvs return 0, after which waitforAck
\* returns whatever its register holds.
ClientEndOfStream(c) ==
    /\ ~alive
    /\ down[c] = <<>>
    /\ \/ /\ clientPc[c] = "ack"
          /\ \E next \in {"prompt", "reply"} : clientPc' = [clientPc EXCEPT ![c] = next]
       \/ /\ clientPc[c] = "reply"
          /\ clientPc' = [clientPc EXCEPT ![c] = "prompt"]
    /\ Slip(c)
    /\ UNCHANGED <<typed, late, told, wireVars, fdVars, threadVars>>

\* The client ends: stopped by its user, by exit(1) when a storage server
\* refuses it, or by a reply that is no address.  Unread bytes make its kernel
\* reset the connection; bytes that arrive after the end do the same.
ClientDepart(c) ==
    /\ clientPc[c] \in {"prompt", "ack", "reply"}
    /\ Cardinality(Departed) < MaxDepartures
    /\ clientPc' = [clientPc EXCEPT ![c] = "gone"]
    /\ \E state \in (IF down[c] = <<>> THEN {"closed"} ELSE {"broken", "reset"}) :
           line' = [line EXCEPT ![c] = state]
    /\ down' = [down EXCEPT ![c] = <<>>]
    /\ UNCHANGED <<typed, late, told, up, alive, fdVars, threadVars, historyVars>>

----------------------------------------------------------------------------
(* Descriptors, and send on a connection *)

Free == {fd \in Fds : files[fd] = NOBODY}

\* The lowest free number is used, and for connections to storage servers it is
\* not given back: neither CREATE nor DELETE closes its socket.
OpenFd(owner) == files' = [files EXCEPT ![Min(Free)] = owner]

\* send accepts the bytes; to a client that has ended they bring a reset sooner
\* or later.
SendOk(c, message) ==
    \/ /\ line[c] = "open"
       /\ down' = [down EXCEPT ![c] = Append(@, message)]
       /\ UNCHANGED <<up, line, alive>>
    \/ /\ line[c] = "closed"
       /\ \E state \in {"closed", "reset"} : line' = [line EXCEPT ![c] = state]
       /\ UNCHANGED <<up, down, alive>>

\* The first send after a reset of an open connection returns an error.
SendFails(c) ==
    /\ line[c] = "broken"
    /\ line' = [line EXCEPT ![c] = "reset"]
    /\ UNCHANGED <<up, down, alive>>

\* Any other send after a reset raises SIGPIPE, which nothing handles.
SendKills(c) ==
    /\ line[c] = "reset"
    /\ alive' = FALSE
    /\ UNCHANGED <<up, down, line>>

----------------------------------------------------------------------------
(* handleClientRequest and handleClientInput *)

\* Mutant: the result of accept is not checked.
AcceptUnchecked ==
    /\ alive
    /\ backlog # <<>>
    /\ IF Free # {} THEN OpenFd(Head(backlog)) ELSE UNCHANGED files
    /\ fdOf' = [fdOf EXCEPT ![Head(backlog)] = IF Free # {} THEN Min(Free) ELSE 0 - 1]
    /\ backlog' = Tail(backlog)
    /\ handlerPc' = [handlerPc EXCEPT ![Head(backlog)] = "recv"]
    /\ UNCHANGED <<clientVars, wireVars, handling, jobPc, historyVars>>

\* accept fails and is repeated while there is no free descriptor.
Accept ==
    /\ alive
    /\ backlog # <<>>
    /\ Free # {}
    /\ OpenFd(Head(backlog))
    /\ fdOf' = [fdOf EXCEPT ![Head(backlog)] = Min(Free)]
    /\ backlog' = Tail(backlog)
    /\ handlerPc' = [handlerPc EXCEPT ![Head(backlog)] = "recv"]
    /\ UNCHANGED <<clientVars, wireVars, handling, jobPc, historyVars>>

Goto(c, label) == handlerPc' = [handlerPc EXCEPT ![c] = label]

\* Several commands in one recv are taken for one: the first one's, about a path
\* that ends in the next command's text and that no server has.
KindTaken(c, taken) ==
    LET kind == typed[c][taken[1]] IN
    IF Len(taken) = 1 THEN kind
    ELSE CASE kind = "known" -> "create"
           [] kind = "delete" -> "lookup"
           [] OTHER -> kind

HandlerRecv(c) ==
    /\ alive
    /\ handlerPc[c] = "recv"
    /\ \E taken \in Taken(up[c]) :
           /\ up' = [up EXCEPT ![c] = Rest(@, taken)]
           /\ handling' = [handling EXCEPT ![c] =
                              [number |-> taken[1], kind |-> KindTaken(c, taken)]]
           /\ IF Len(taken) > 1 THEN Slip(c) ELSE UNCHANGED historyVars
    /\ Goto(c, "received")
    /\ UNCHANGED <<clientVars, down, line, alive, fdVars, jobPc>>

\* recv returns 0 or an error: close(sock), and the thread ends.
HandlerClose(c) ==
    /\ alive
    /\ handlerPc[c] = "recv"
    /\ up[c] = <<>>
    /\ line[c] # "open"
    /\ files' = [files EXCEPT ![fdOf[c]] = NOBODY]
    /\ Goto(c, "ended")
    /\ UNCHANGED <<clientVars, wireVars, backlog, fdOf, handling, jobPc, historyVars>>

Command(c) == <<c, handling[c].number>>

\* What a handler does after a send; when it fails the thread ends without
\* closing the descriptor.
HandlerSend(c, what, next) ==
    /\ \/ SendOk(c, [what |-> what, of |-> Command(c)]) /\ Goto(c, next)
       \/ SendFails(c) /\ Goto(c, "ended")
       \/ SendKills(c) /\ UNCHANGED handlerPc
    /\ UNCHANGED <<clientVars, fdVars, handling, jobPc, historyVars>>

HandlerAck(c) ==
    /\ alive
    /\ handlerPc[c] = "received"
    /\ HandlerSend(c, "ACK", "dispatch")

\* Mutant: a path that is not found is not answered.
HandlerLookupSilent(c) ==
    /\ alive
    /\ handlerPc[c] = "dispatch"
    /\ handling[c].kind = "lookup"
    /\ Goto(c, "recv")
    /\ UNCHANGED <<clientVars, wireVars, fdVars, handling, jobPc, historyVars>>

HandlerLookup(c) ==
    /\ alive
    /\ handlerPc[c] = "dispatch"
    /\ handling[c].kind = "lookup"
    /\ HandlerSend(c, "reply", "recv")

\* "File Already Exists" is logged, nothing is sent.
HandlerKnown(c) ==
    /\ alive
    /\ handlerPc[c] = "dispatch"
    /\ handling[c].kind = "known"
    /\ Goto(c, "recv")
    /\ UNCHANGED <<clientVars, wireVars, fdVars, handling, jobPc, historyVars>>

\* DELETE: a socket to the storage server.  Without one connect fails, and the
\* thread ends.
HandlerDelete(c) ==
    /\ alive
    /\ handlerPc[c] = "dispatch"
    /\ handling[c].kind = "delete"
    /\ IF Free # {} THEN OpenFd(SERVER) /\ Goto(c, "asked") /\ UNCHANGED historyVars
                    ELSE Goto(c, "ended") /\ Starve(c) /\ UNCHANGED files
    /\ UNCHANGED <<clientVars, wireVars, backlog, fdOf, handling, jobPc>>

HandlerRelay(c) ==
    /\ alive
    /\ handlerPc[c] = "asked"
    /\ HandlerSend(c, "reply", "refresh")

\* update_list_of_accessiblepaths has a socket of its own, which it closes unless
\* it returns early.
HandlerRefresh(c) ==
    /\ alive
    /\ handlerPc[c] = "refresh"
    /\ \/ Free # {} /\ OpenFd(SERVER)
       \/ UNCHANGED files
    /\ Goto(c, "recv")
    /\ UNCHANGED <<clientVars, wireVars, backlog, fdOf, handling, jobPc, historyVars>>

\* CREATE: the asynchronous threads get the number of the client's descriptor,
\* and the handler goes on to the next command.
HandlerCreate(c) ==
    /\ alive
    /\ handlerPc[c] = "dispatch"
    /\ handling[c].kind = "create"
    /\ jobPc' = [j \in Jobs |-> IF j[1] = Command(c) THEN "started" ELSE jobPc[j]]
    /\ Goto(c, "recv")
    /\ UNCHANGED <<clientVars, wireVars, fdVars, handling, historyVars>>

----------------------------------------------------------------------------
(* send_request_async *)

JobGoto(j, label) == jobPc' = [jobPc EXCEPT ![j] = label]

\* Mutant: is_original is not looked at.
JobAskAll(j) ==
    /\ alive
    /\ jobPc[j] = "started"
    /\ IF Free # {}
       THEN OpenFd(SERVER) /\ JobGoto(j, "asked") /\ UNCHANGED historyVars
       ELSE JobGoto(j, "ended") /\ Starve(j[1][1]) /\ UNCHANGED files
    /\ UNCHANGED <<clientVars, wireVars, backlog, fdOf, handlerPc, handling>>

\* The connection to the storage server, whose reply is relayed for the original
\* only.
JobAsk(j) ==
    /\ alive
    /\ jobPc[j] = "started"
    /\ IF Free # {}
       THEN /\ OpenFd(SERVER)
            /\ JobGoto(j, IF j[2] = 0 THEN "asked" ELSE "ended")
            /\ UNCHANGED historyVars
       ELSE JobGoto(j, "ended") /\ Starve(j[1][1]) /\ UNCHANGED files
    /\ UNCHANGED <<clientVars, wireVars, backlog, fdOf, handlerPc, handling>>

\* Mutant: the thread closes the client's descriptor after its reply.
JobReplyCloses(j) ==
    LET owner == files[fdOf[j[1][1]]] IN
    /\ alive
    /\ jobPc[j] = "asked"
    /\ owner \in Clients
    /\ SendOk(owner, [what |-> "reply", of |-> j[1]])
    /\ files' = [files EXCEPT ![fdOf[j[1][1]]] = NOBODY]
    /\ JobGoto(j, "ended")
    /\ UNCHANGED <<clientVars, backlog, fdOf, handlerPc, handling, historyVars>>

\* Mutant: the thread is given the accept loop's variable, which holds the
\* descriptor of the latest client.
JobReplyLatest(j) ==
    LET owner == files[Max({fdOf[c] : c \in Clients})] IN
    /\ alive
    /\ jobPc[j] = "asked"
    /\ owner \in Clients
    /\ SendOk(owner, [what |-> "reply", of |-> j[1]])
    /\ JobGoto(j, "ended")
    /\ UNCHANGED <<clientVars, fdVars, handlerPc, handling, historyVars>>

\* The reply goes to whatever the descriptor number stands for by now.
JobReply(j) ==
    LET owner == files[fdOf[j[1][1]]]
        message == [what |-> "reply", of |-> j[1]]
    IN
    /\ alive
    /\ jobPc[j] = "asked"
    /\ \/ /\ owner \in Clients
          /\ \/ /\ SendOk(owner, message)
                /\ IF owner # j[1][1] THEN Slip(owner) ELSE UNCHANGED historyVars
             \/ (SendFails(owner) \/ SendKills(owner)) /\ UNCHANGED historyVars
       \/ /\ owner \notin Clients
          /\ UNCHANGED <<wireVars, historyVars>>
    /\ JobGoto(j, "ended")
    /\ UNCHANGED <<clientVars, fdVars, handlerPc, handling>>

----------------------------------------------------------------------------
Init ==
    /\ clientPc = [c \in Clients |-> "off"]
    /\ typed = [c \in Clients |-> <<>>]
    /\ late = [c \in Clients |-> FALSE]
    /\ up = [c \in Clients |-> <<>>]
    /\ down = [c \in Clients |-> <<>>]
    /\ line = [c \in Clients |-> "open"]
    /\ backlog = <<>>
    /\ fdOf = [c \in Clients |-> 0]
    /\ files = [fd \in Fds |-> NOBODY]
    /\ handlerPc = [c \in Clients |-> "none"]
    /\ handling = [c \in Clients |-> [number |-> 0, kind |-> "none"]]
    /\ jobPc = [j \in Jobs |-> "none"]
    /\ alive = TRUE
    /\ told = [c \in Clients |-> [n \in 1 .. MaxCommands |-> <<>>]]
    /\ slipped = {}
    /\ starved = {}

Handler(c) ==
    \/ HandlerRecv(c)
    \/ HandlerClose(c)
    \/ HandlerAck(c)
    \/ HandlerLookup(c)
    \/ HandlerKnown(c)
    \/ HandlerDelete(c)
    \/ HandlerRelay(c)
    \/ HandlerRefresh(c)
    \/ HandlerCreate(c)

Job(j) == JobAsk(j) \/ JobReply(j)

Reading(c) == waitforAck(c) \/ ClientReply(c) \/ ClientEndOfStream(c)

Next ==
    \/ \E c \in Clients : \/ ClientStart(c)
                          \/ \E kind \in Kinds : ClientSend(c, kind)
                          \/ TimePasses(c)
                          \/ Reading(c)
                          \/ ClientDepart(c)
                          \/ Handler(c)
    \/ Accept
    \/ \E j \in Jobs : Job(j)

Spec == Init /\ [][Next]_vars

\* The naming server's threads run, and a client whose recv can return goes on.
\* Users type, wait and leave as they like.
FairSpec ==
    /\ Spec
    /\ WF_vars(Accept)
    /\ \A c \in Clients : WF_vars(Handler(c)) /\ WF_vars(Reading(c))
    /\ \A j \in Jobs : WF_vars(Job(j))

----------------------------------------------------------------------------
(* Properties *)

HandlerStates == {"none", "recv", "received", "dispatch", "asked", "refresh", "ended"}
Serving == HandlerStates \ {"none", "ended"}

\* Type invariant of the sessions.
TypeOK ==
    /\ clientPc \in [Clients -> {"off", "prompt", "ack", "reply", "gone"}]
    /\ typed \in [Clients -> Seq(Kinds)]
    /\ \A c \in Clients : Last(c) <= MaxCommands
    /\ late \in [Clients -> BOOLEAN]
    /\ up \in [Clients -> Seq(1 .. MaxCommands)]
    /\ down \in [Clients -> Seq(Messages)]
    /\ line \in [Clients -> {"open", "closed", "broken", "reset"}]
    /\ backlog \in Seq(Clients)
    /\ fdOf \in [Clients -> Fds \cup {0}]
    /\ files \in [Fds -> Clients \cup {NOBODY, SERVER}]
    /\ handlerPc \in [Clients -> HandlerStates]
    /\ jobPc \in [Jobs -> {"none", "started", "asked", "ended"}]
    /\ alive \in BOOLEAN
    /\ told \in [Clients -> [1 .. MaxCommands -> Seq(Messages)]]
    /\ slipped \subseteq Clients
    /\ starved \subseteq Clients

OwnReply(c, n) == <<[what |-> "reply", of |-> <<c, n>>]>>

\* A client back at its prompt has read, for every command it sent, the reply to
\* that command, and nothing is left in its stream: as long as no acknowledgement
\* was late, no recv on either side took two messages for one, and no stranger's
\* reply came in over a reused descriptor.  The reply may come from a handler or
\* from a thread of a CREATE that the handler no longer waits for.
AnswersMatchCommands ==
    \A c \in Clients : c \notin slipped =>
        /\ \A n \in 1 .. MaxCommands : told[c][n] \in {<<>>, OwnReply(c, n)}
        /\ clientPc[c] = "prompt" =>
              down[c] = <<>> /\ \A n \in 1 .. Last(c) : told[c][n] = OwnReply(c, n)

\* A thread that serves a client owns its descriptor: the number is never handed
\* out to another connection before the handler itself has closed it, although
\* asynchronous threads hold the number too.
HandlersKeepTheirDescriptors ==
    \A c \in Clients : handlerPc[c] \in Serving => files[fdOf[c]] = c

\* Who gets an answer that is not his own gets the reply to a CREATE of a client
\* that has left, whose descriptor number he was given.
StraysComeFromTheDeparted ==
    \A c \in Clients :
        \A i \in 1 .. Len(down[c]) :
            LET d == down[c][i].of[1] IN
            d # c => /\ d \in Departed
                     /\ fdOf[c] = fdOf[d]
                     /\ down[c][i].what = "reply"

\* The naming server goes on whatever its clients do.
NamingServerStays == alive

\* A command other than a CREATE of a known path is finished: the client returns
\* to its prompt, unless messages have come apart, the naming server has run out
\* of descriptors, or it was killed by a client's departure.
CommandsFinish ==
    \A c \in Clients :
        (clientPc[c] \in {"ack", "reply"} /\ typed[c][Last(c)] # "known")
            ~> \/ clientPc[c] \in {"prompt", "gone"}
               \/ c \in slipped
               \/ c \in starved
               \/ Free = {}
               \/ ~alive /\ Departed # {}

============================================================================
