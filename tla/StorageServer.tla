--------------------------- MODULE StorageServer ---------------------------
(***************************************************************************)
(* One storage server and one file of it.  Requests arrive at the client   *)
(* port (READ, WRITE, GETSIZE) and at the naming server port: CREATE and   *)
(* DELETE of the file, DELETEDIR for a DELETE of a directory above it, and *)
(* OTHER for GETPATHS and requests about other paths.  Each port has a     *)
(* listener thread that accepts a connection, reads the request and starts *)
(* a detached thread for it; nothing orders or locks those threads.        *)
(*                                                                         *)
(* A request ends without a terminator.  The client port's listener clears *)
(* the buffer it reads into; the naming server port's listener does not,   *)
(* and malloc may hand it the buffer of an earlier request, whose tail     *)
(* then lengthens the path of a shorter one into another path.             *)
(*                                                                         *)
(* The file is modelled below stdio: the name refers to an inode, fopen    *)
(* with mode "w" empties the inode or makes one in the file's directory,   *)
(* the bytes of fwrite stay in the stream's buffer (a request is shorter   *)
(* than it) until fclose writes them at offset 0, and remove drops the     *)
(* name while open streams keep the inode.  A call may also fail on its    *)
(* own account (no descriptor left, a full disk, an I/O error).            *)
(***************************************************************************)
EXTENDS Naturals, Sequences, FiniteSets

CONSTANTS
    Requests,   \* the requests of the instance, one connection and thread each
    Op,         \* what each request is sent to ask for
    Payload,    \* the bytes a WRITE carries
    Size,       \* the length of each request's text
    FirstBytes, \* the file's contents at the start
    MaxCallers, \* bound: how many of the requests are made in one behaviour
    MaxFaults,  \* bound: how many system calls fail on their own account
    NONE,       \* no connection being read
    FAILED      \* the answer that says that a request could not be served

ClientOps == {"READ", "WRITE", "GETSIZE"}
NamingOps == {"CREATE", "DELETE", "DELETEDIR", "OTHER"}
Mutators == {t \in Requests : Op[t] = "WRITE" \/ Op[t] \in NamingOps}
Observers == {t \in Requests : Op[t] \in {"READ", "GETSIZE"}}
Writers == {t \in Requests : Op[t] = "WRITE"}

ASSUME RequestsAssumption ==
    /\ IsFiniteSet(Requests)
    /\ Op \in [Requests -> ClientOps \cup NamingOps]
    /\ Size \in [Requests -> Nat \ {0}]
    /\ \A t \in Writers : Payload[t] \in Seq({Payload[t][i] : i \in DOMAIN Payload[t]})
    /\ MaxCallers \in Nat
    /\ MaxFaults \in Nat
    /\ NONE \notin Requests

Ports == {"client", "naming"}
PortOf(t) == IF Op[t] \in NamingOps THEN "naming" ELSE "client"
Inodes == 1 .. 1 + Cardinality(Requests)

VARIABLES
    conn,       \* the caller's side of each connection
    backlog,    \* connections a port's listener has not accepted, oldest first
    listener,   \* the connection a listener reads a request from, or NONE
    leftover,   \* how far the naming listener's buffer holds earlier bytes
    asks,       \* what each request asks for as its thread reads it
    pc,         \* where the thread of each request is
    handle,     \* the inode behind a thread's stream
    dir,        \* whether the file's directory exists
    name,       \* the inode the path refers to, 0 for none
    contents,   \* the bytes of each inode
    made,       \* how many inodes have been used
    result,     \* what a READ or GETSIZE answered; an answer that says it failed
    answered,   \* the requests that were answered
    faults,     \* how many calls have failed on their own account
    faulted,    \* history: READs that could not read, WRITEs not all of whose bytes
                \* reached the disk, on such an account
    disturbed,  \* history: mutators another mutator overlapped or followed
    sentAfter   \* history: the requests whose thread had ended when a request was sent

portVars == <<conn, backlog, listener, leftover, asks>>
fileVars == <<dir, name, contents, made>>
faultVars == <<faults, faulted>>
historyVars == <<disturbed, sentAfter>>
vars == <<portVars, fileVars, faultVars, historyVars, pc, handle, result, answered>>

----------------------------------------------------------------------------
(* The callers: connect, then send *)

CallerConnects(t) ==
    /\ conn[t] = "none"
    /\ Cardinality({u \in Requests : conn[u] # "none"}) < MaxCallers
    /\ conn' = [conn EXCEPT ![t] = "connected"]
    /\ backlog' = [backlog EXCEPT ![PortOf(t)] = Append(@, t)]
    /\ UNCHANGED <<listener, leftover, asks, fileVars, faultVars, historyVars, pc, handle,
                   result, answered>>

CallerSends(t) ==
    /\ conn[t] = "connected"
    /\ conn' = [conn EXCEPT ![t] = "sent"]
    /\ sentAfter' = [sentAfter EXCEPT ![t] = {w \in Requests : pc[w] = "done"}]
    /\ UNCHANGED <<backlog, listener, leftover, asks, fileVars, faultVars, disturbed, pc,
                   handle, result, answered>>

----------------------------------------------------------------------------
(* handleClientConnections and handleNamingServerConnections *)

\* The buffers that executeNMRequest has freed.
Freed == {u \in Requests : PortOf(u) = "naming" /\ pc[u] = "done"}

\* accept, and the allocation of the request's buffer.
Accept(port) ==
    /\ listener[port] = NONE
    /\ backlog[port] # <<>>
    /\ listener' = [listener EXCEPT ![port] = Head(backlog[port])]
    /\ backlog' = [backlog EXCEPT ![port] = Tail(@)]
    /\ IF port = "naming"
       THEN leftover' \in {0} \cup {Size[u] : u \in Freed}
       ELSE UNCHANGED leftover
    /\ UNCHANGED <<conn, asks, fileVars, faultVars, historyVars, pc, handle, result, answered>>

\* What a request with the tail of an earlier one behind it asks for: the path
\* of the file becomes another path, a directory above the file may become the
\* file or a directory nearer to it, and so may a path that lacks only an end.
TailAdded(op) ==
    CASE op \in {"CREATE", "DELETE"} -> {"OTHER"}
      [] op = "DELETEDIR" -> {"OTHER", "DELETE", "DELETEDIR"}
      [] op = "OTHER" -> NamingOps

\* The listener itself blocks in read until the request is there, then starts
\* the thread.
ReadRequest(port) ==
    LET t == listener[port] IN
    /\ t # NONE
    /\ conn[t] = "sent"
    /\ IF port = "naming" /\ Size[t] < leftover
       THEN \E op \in TailAdded(Op[t]) : asks' = [asks EXCEPT ![t] = op]
       ELSE UNCHANGED asks
    /\ pc' = [pc EXCEPT ![t] = "running"]
    /\ listener' = [listener EXCEPT ![port] = NONE]
    /\ UNCHANGED <<conn, backlog, leftover, fileVars, faultVars, historyVars, handle, result,
                   answered>>

----------------------------------------------------------------------------
(* The threads *)

\* The thread of a request of this kind is at the label.
At(t, op, label) == asks[t] = op /\ pc[t] = label

Goto(t, label) == pc' = [pc EXCEPT ![t] = label]
Reply(t) == answered' = answered \cup {t}
SayFailed(t) == result' = [result EXCEPT ![t] = <<FAILED>>]
Refused(t) == result[t] = <<FAILED>>

\* A call fails on its own account.
Fault == faults < MaxFaults /\ faults' = faults + 1
\* ... and the request cannot read, or not all of its bytes reach the disk.
FaultIn(t) == Fault /\ faulted' = faulted \cup {t}

\* History: t opens or removes the file.  Mutators that have touched it before
\* are disturbed, and so is t while a WRITE has bytes to flush.
Disturb(t) ==
    disturbed' = {w \in Mutators :
                     \/ w \in disturbed
                     \/ w # t /\ pc[w] \in {"opened", "flushing", "done"}
                     \/ w = t /\ \E u \in Writers \ {t} : pc[u] \in {"opened", "flushing"}}

\* Mutant: the file is opened without being emptied.
OpenForWritingKeeps(t) ==
    LET i == IF name = 0 THEN made + 1 ELSE name IN
    /\ dir
    /\ name' = i
    /\ made' = IF name = 0 THEN made + 1 ELSE made
    /\ handle' = [handle EXCEPT ![t] = i]
    /\ Disturb(t)
    /\ UNCHANGED <<dir, contents>>

\* fopen with mode "w" succeeds.
OpenForWriting(t) ==
    LET i == IF name = 0 THEN made + 1 ELSE name IN
    /\ dir
    /\ name' = i
    /\ made' = IF name = 0 THEN made + 1 ELSE made
    /\ contents' = [contents EXCEPT ![i] = <<>>]
    /\ handle' = [handle EXCEPT ![t] = i]
    /\ Disturb(t)
    /\ UNCHANGED dir

\* fopen with mode "w" returns NULL: the directory is gone, or on its own account.
OpenFails ==
    /\ \/ ~dir /\ UNCHANGED faults
       \/ Fault
    /\ UNCHANGED <<faulted, fileVars, handle>>

\* The bytes of a file after writing some at its start.
Overlay(bytes, old) == bytes \o SubSeq(old, Len(bytes) + 1, Len(old))

WriteOpen(t) ==
    /\ At(t, "WRITE", "running")
    /\ OpenForWriting(t)
    /\ Goto(t, "opened")
    /\ UNCHANGED <<portVars, faultVars, sentAfter, result, answered>>

\* "Error opening file for writing".
WriteOpenFails(t) ==
    /\ At(t, "WRITE", "running")
    /\ OpenFails
    /\ SayFailed(t)
    /\ Reply(t)
    /\ Goto(t, "done")
    /\ UNCHANGED <<portVars, historyVars>>

\* fwrite fills the buffer, "Written n bytes" is sent.
WriteReply(t) ==
    /\ At(t, "WRITE", "opened")
    /\ Reply(t)
    /\ Goto(t, "flushing")
    /\ UNCHANGED <<portVars, fileVars, faultVars, historyVars, handle, result>>

\* ferror: "Write error" is sent.
WriteReplyError(t) ==
    /\ At(t, "WRITE", "opened")
    /\ FaultIn(t)
    /\ SayFailed(t)
    /\ Reply(t)
    /\ Goto(t, "flushing")
    /\ UNCHANGED <<portVars, fileVars, historyVars, handle>>

\* Mutant: the stream is not closed.
WriteCloseForgotten(t) ==
    /\ At(t, "WRITE", "flushing")
    /\ Goto(t, "done")
    /\ UNCHANGED <<portVars, fileVars, faultVars, historyVars, handle, result, answered>>

\* fclose writes the buffer out.
WriteClose(t) ==
    /\ At(t, "WRITE", "flushing")
    /\ contents' = [contents EXCEPT ![handle[t]] = Overlay(Payload[t], @)]
    /\ Goto(t, "done")
    /\ UNCHANGED <<portVars, dir, name, made, faultVars, historyVars, handle, result, answered>>

\* fclose cannot write all of it, or fwrite had not buffered all of it; the
\* result of fclose is not looked at and the answer is out.
WriteCloseShort(t) ==
    /\ At(t, "WRITE", "flushing")
    /\ \/ FaultIn(t)
       \/ Refused(t) /\ UNCHANGED faultVars
    /\ \E n \in 1 .. Len(Payload[t]) :
           contents' = [contents EXCEPT ![handle[t]] = Overlay(SubSeq(Payload[t], 1, n - 1), @)]
    /\ Goto(t, "done")
    /\ UNCHANGED <<portVars, dir, name, made, historyVars, handle, result, answered>>

\* Mutant: the result of fopen is not checked.
ReadOpenUnchecked(t) ==
    /\ At(t, "READ", "running")
    /\ handle' = [handle EXCEPT ![t] = name]
    /\ Goto(t, "opened")
    /\ UNCHANGED <<portVars, fileVars, faultVars, historyVars, result, answered>>

ReadOpen(t) ==
    /\ At(t, "READ", "running")
    /\ name # 0
    /\ handle' = [handle EXCEPT ![t] = name]
    /\ Goto(t, "opened")
    /\ UNCHANGED <<portVars, fileVars, faultVars, historyVars, result, answered>>

\* "Failed to open file", or "Read error" after fread.
ReadFails(t) ==
    /\ \/ At(t, "READ", "running") /\ name = 0 /\ UNCHANGED faultVars
       \/ asks[t] = "READ" /\ pc[t] \in {"running", "opened"} /\ FaultIn(t)
    /\ SayFailed(t)
    /\ Reply(t)
    /\ Goto(t, "done")
    /\ UNCHANGED <<portVars, fileVars, historyVars, handle>>

\* Mutant: the buffer still has the bytes of an earlier READ, and all of it is sent.
ReadFileUncleared(t) ==
    /\ At(t, "READ", "opened")
    /\ result' = [result EXCEPT ![t] = Overlay(contents[handle[t]], FirstBytes)]
    /\ Reply(t)
    /\ Goto(t, "done")
    /\ UNCHANGED <<portVars, fileVars, faultVars, historyVars, handle>>

\* fread of the whole file, the answer, fclose.
ReadFile(t) ==
    /\ At(t, "READ", "opened")
    /\ result' = [result EXCEPT ![t] = contents[handle[t]]]
    /\ Reply(t)
    /\ Goto(t, "done")
    /\ UNCHANGED <<portVars, fileVars, faultVars, historyVars, handle>>

GetSize(t) ==
    /\ At(t, "GETSIZE", "running")
    /\ result' = [result EXCEPT ![t] = IF name = 0 THEN <<FAILED>>
                                                   ELSE <<Len(contents[name])>>]
    /\ Reply(t)
    /\ Goto(t, "done")
    /\ UNCHANGED <<portVars, fileVars, faultVars, historyVars, handle>>

\* CREATE makes the directories on the way; mkdir_p fails when one of them goes
\* away under it.  What it returned is overwritten by what fopen does.
CreateMkdir(t) ==
    /\ At(t, "CREATE", "running")
    /\ dir' \in {dir, TRUE}
    /\ Goto(t, "making")
    /\ UNCHANGED <<portVars, name, contents, made, faultVars, historyVars, handle, result,
                   answered>>

\* CREATE opens with mode "w" and closes: "4".
CreateOpen(t) ==
    /\ At(t, "CREATE", "making")
    /\ OpenForWriting(t)
    /\ Goto(t, "opened")
    /\ UNCHANGED <<portVars, faultVars, sentAfter, result, answered>>

\* Mutant: the answer is not overwritten by the failure.
CreateOpenFailsUnsaid(t) ==
    /\ At(t, "CREATE", "making")
    /\ OpenFails
    /\ Goto(t, "opened")
    /\ UNCHANGED <<portVars, historyVars, result, answered>>

\* CREATE could not open: "3".
CreateOpenFails(t) ==
    /\ At(t, "CREATE", "making")
    /\ OpenFails
    /\ SayFailed(t)
    /\ Goto(t, "opened")
    /\ UNCHANGED <<portVars, historyVars, answered>>

\* The name goes, if it is there.
RemoveName(t) ==
    /\ name # 0
    /\ name' = 0
    /\ Disturb(t)
    /\ UNCHANGED <<dir, contents, made>>

\* DELETE removes the file's name; remove fails when there is none.
DeleteRemove(t) ==
    /\ At(t, "DELETE", "running")
    /\ RemoveName(t) \/ (name = 0 /\ UNCHANGED <<fileVars, disturbed>>)
    /\ Goto(t, "opened")
    /\ UNCHANGED <<portVars, faultVars, sentAfter, handle, result, answered>>

\* deleteDirectory: opendir, which may fail, and the entries it then finds.
DirOpen(t) ==
    /\ At(t, "DELETEDIR", "running")
    /\ \/ /\ Goto(t, IF ~dir THEN "opened" ELSE IF name # 0 THEN "listed" ELSE "scanning")
          /\ UNCHANGED faults
       \/ Goto(t, "opened") /\ Fault
    /\ UNCHANGED <<portVars, fileVars, faulted, historyVars, handle, result, answered>>

\* readdir comes upon a file that was made behind opendir's back.
DirFound(t) ==
    /\ At(t, "DELETEDIR", "scanning")
    /\ name # 0
    /\ Goto(t, "listed")
    /\ UNCHANGED <<portVars, fileVars, faultVars, historyVars, handle, result, answered>>

\* unlink of the file it has found.
DirUnlink(t) ==
    /\ At(t, "DELETEDIR", "listed")
    /\ RemoveName(t)
    /\ Goto(t, "scanning")
    /\ UNCHANGED <<portVars, faultVars, sentAfter, handle, result, answered>>

\* unlink finds that another request has removed the entry, the file or one
\* beside it, and deleteDirectory gives up.
DirStops(t) ==
    /\ \/ At(t, "DELETEDIR", "listed") /\ name = 0
       \/ /\ asks[t] = "DELETEDIR" /\ pc[t] \in {"listed", "scanning"}
          /\ \E u \in Requests \ {t} : pc[u] # "none" /\ asks[u] \in {"OTHER", "DELETEDIR"}
    /\ Goto(t, "opened")
    /\ UNCHANGED <<portVars, fileVars, faultVars, historyVars, handle, result, answered>>

\* rmdir, which fails while the directory has entries: the file, or one that
\* another request has made beside it.
DirRemove(t) ==
    /\ At(t, "DELETEDIR", "scanning")
    /\ \/ dir' = (dir /\ name # 0)
       \/ UNCHANGED dir /\ \E u \in Requests : pc[u] # "none" /\ asks[u] = "OTHER"
    /\ Goto(t, "opened")
    /\ UNCHANGED <<portVars, name, contents, made, faultVars, historyVars, handle, result,
                   answered>>

\* A request about another path; a CREATE beside the file makes its directory.
ElsewhereRun(t) ==
    /\ At(t, "OTHER", "running")
    /\ dir' \in {dir, TRUE}
    /\ Goto(t, "opened")
    /\ UNCHANGED <<portVars, name, contents, made, faultVars, historyVars, handle, result,
                   answered>>

\* Mutant: only CREATE is answered.
NamingReplyCreate(t) ==
    /\ Op[t] = "CREATE"
    /\ pc[t] = "opened"
    /\ Reply(t)
    /\ Goto(t, "done")
    /\ UNCHANGED <<portVars, fileVars, faultVars, historyVars, handle, result>>

NamingReply(t) ==
    /\ Op[t] \in NamingOps
    /\ pc[t] = "opened"
    /\ Reply(t)
    /\ Goto(t, "done")
    /\ UNCHANGED <<portVars, fileVars, faultVars, historyVars, handle, result>>

----------------------------------------------------------------------------
Init ==
    /\ conn = [t \in Requests |-> "none"]
    /\ backlog = [port \in Ports |-> <<>>]
    /\ listener = [port \in Ports |-> NONE]
    /\ leftover = 0
    /\ asks = Op
    /\ pc = [t \in Requests |-> "none"]
    /\ handle = [t \in Requests |-> 0]
    /\ dir = TRUE
    /\ name = 1
    /\ contents = [i \in Inodes |-> IF i = 1 THEN FirstBytes ELSE <<>>]
    /\ made = 1
    /\ result = [t \in Requests |-> <<>>]
    /\ answered = {}
    /\ faults = 0
    /\ faulted = {}
    /\ disturbed = {}
    /\ sentAfter = [t \in Requests |-> {}]

Listener(port) == Accept(port) \/ ReadRequest(port)

WriteThread(t) ==
    \/ WriteOpen(t)
    \/ WriteOpenFails(t)
    \/ WriteReply(t)
    \/ WriteReplyError(t)
    \/ WriteClose(t)
    \/ WriteCloseShort(t)

ReadThread(t) ==
    \/ ReadOpen(t)
    \/ ReadFails(t)
    \/ ReadFile(t)
    \/ GetSize(t)

CreateThread(t) ==
    \/ CreateMkdir(t)
    \/ CreateOpen(t)
    \/ CreateOpenFails(t)

DeleteThread(t) ==
    \/ DeleteRemove(t)
    \/ DirOpen(t)
    \/ DirFound(t)
    \/ DirUnlink(t)
    \/ DirStops(t)
    \/ DirRemove(t)

Thread(t) ==
    \/ WriteThread(t)
    \/ ReadThread(t)
    \/ CreateThread(t)
    \/ DeleteThread(t)
    \/ ElsewhereRun(t)
    \/ NamingReply(t)

Next ==
    \/ \E t \in Requests : CallerConnects(t) \/ CallerSends(t) \/ Thread(t)
    \/ \E port \in Ports : Listener(port)

Spec == Init /\ [][Next]_vars

\* The server's threads run, and a caller that has connected sends, as the client
\* program and the naming server do in their next statement.
Fairness ==
    /\ \A port \in Ports : WF_vars(Listener(port))
    /\ \A t \in Requests : WF_vars(Thread(t)) /\ WF_vars(CallerSends(t))

FairSpec == Spec /\ Fairness

----------------------------------------------------------------------------
(* Properties *)

Labels == {"none", "running", "making", "listed", "scanning", "opened", "flushing", "done"}

\* Type invariant of the storage server: among the rest, a thread that reads or
\* writes a stream has one (fopen did not fail), and a file has a directory.
TypeOK ==
    /\ conn \in [Requests -> {"none", "connected", "sent"}]
    /\ backlog \in [Ports -> Seq(Requests)]
    /\ listener \in [Ports -> Requests \cup {NONE}]
    /\ leftover \in Nat
    /\ asks \in [Requests -> ClientOps \cup NamingOps]
    /\ pc \in [Requests -> Labels]
    /\ handle \in [Requests -> Inodes \cup {0}]
    /\ \A t \in Requests :
           asks[t] \in {"READ", "WRITE"} /\ pc[t] \in {"opened", "flushing"} => handle[t] # 0
    /\ dir \in BOOLEAN
    /\ name \in Inodes \cup {0}
    /\ name # 0 => dir
    /\ made \in Inodes
    /\ answered \subseteq Requests
    /\ faults \in 0 .. MaxFaults
    /\ faulted \subseteq Requests
    /\ disturbed \subseteq Mutators

\* What a request would observe if the file held exactly the given bytes.
Observation(t, bytes) == IF Op[t] = "READ" THEN bytes ELSE <<Len(bytes)>>

\* A WRITE decides the file unless it was told of an error, its last bytes did
\* not reach the disk, or another mutator overlapped or followed it: the name
\* exists and holds the written bytes, nothing of what was there before, whatever
\* reads, earlier writes and deletions of the directory were under way.
UndisturbedWriteSurvives ==
    \A w \in Writers : pc[w] = "done" /\ ~Refused(w) /\ w \notin disturbed \cup faulted =>
        name # 0 /\ contents[name] = Payload[w]

\* A CREATE answered with success, with no other mutator overlapping or following
\* it, leaves an empty file, unless a longer request to the naming port had ended:
\* then the path may have been lengthened by that request's tail.
AnsweredCreateStands ==
    \A t \in answered \ disturbed : Op[t] = "CREATE" /\ ~Refused(t) =>
        \/ name # 0 /\ contents[name] = <<>>
        \/ \E u \in Freed : Size[u] > Size[t]

\* A READ or GETSIZE sent after a WRITE's thread has ended observes that WRITE,
\* if no other mutator came in between and neither met an error.
EndedWritesAreSeen ==
    \A r \in Observers : \A w \in Writers :
        (/\ r \in answered /\ w \in sentAfter[r]
         /\ w \notin disturbed /\ ~Refused(w)
         /\ {r, w} \cap faulted = {}) => result[r] = Observation(r, Payload[w])

\* When no thread is inside the file, it holds what one request left there, never
\* a mixture of two WRITEs.
OneWriterAtATime ==
    (name # 0 /\ \A t \in Mutators : pc[t] \in {"none", "done"}) =>
        contents[name] \in {FirstBytes, <<>>} \cup {Payload[w] : w \in Writers}

\* Every request that was sent is answered: a request stays sent and an answer
\* stays given, so in the end no request is sent and unanswered.
RequestsAreServed ==
    <>[](\A t \in Requests : conn[t] = "sent" => t \in answered)

============================================================================
