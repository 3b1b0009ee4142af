---------------------------- MODULE CopyTransfer ----------------------------
(***************************************************************************)
(* COPY of a file between two storage servers.  The naming server's handler *)
(* asks the source server for an archive of the file, relays the bytes to   *)
(* the destination server and answers the client; the destination unpacks   *)
(* the archive when the relay has closed its connection.                    *)
(*                                                                          *)
(* The archive of a file at the source has one name, whoever asks for it    *)
(* (target.zip beside the target), and so has the temporary archive of a    *)
(* destination directory (directory1.zip beside the directory): copies      *)
(* that overlap meet there.  A file's archive is the sequence of its        *)
(* chunks; a connection is the number of chunks that have passed through    *)
(* it, and has room for a few: whoever sends into a full one waits.  The    *)
(* module ends with the naming server: nothing happens once it is gone.     *)
(***************************************************************************)
EXTENDS Naturals, Sequences, FiniteSets

CONSTANTS
    Copies,      \* the handler threads that serve a COPY
    Jobs,        \* what they may be asked: records [source, target] of paths
    Servers,
    Location,    \* Location[x]: the server the index gives for the path x
    Indexed,     \* the paths the index holds
    Base,        \* Base[p]: the last component of the source path p
    Listed,      \* the new paths the destinations' listings have at first
    Length,      \* Length[p]: the chunks of p's archive
    Room,        \* the chunks a connection holds; the relay's own buffer counts
                 \* to the connection it reads from
    Descriptors, \* the descriptors of the naming server that sessions and
                 \* listeners leave free
    MaxFaults,   \* bound on crashes, failed opens and writes, vanished files,
                 \* leaked descriptors and departed clients
    NONE

Sources == {j.source : j \in Jobs}
Targets == {j.target : j \in Jobs}
Bases == {Base[p] : p \in Sources}

\* The names of temporary archives: the directory's own, and the one that
\* archive bytes read together with the directory's name make of it.
TempNames == Targets \X {"proper", "garbled"}

Archive(p) == [i \in 1 .. Length[p] |-> <<p, i>>]

ASSUME CopyAssumption ==
    /\ Location \in [Sources \cup Targets -> Servers]
    /\ Length \in [Sources -> Nat \ {0}]
    /\ Indexed \subseteq Sources \cup Targets /\ Listed \subseteq Targets \X Bases
    /\ IsFiniteSet(Copies)
    /\ Room \in Nat \ {0} /\ Descriptors \in Nat /\ MaxFaults \in Nat
    /\ NONE \notin Copies \cup {"8", "2", "5", "11"}
    /\ Sources \cap {"absent", "old", "damaged"} = {}

VARIABLES
    job,       \* job[c]: what c was asked; it never changes
    nm,        \* the naming server: "up", "exited" or "killed"
    pc,        \* pc[c]: where the handler of c is
    answer,    \* answer[c]: the code sent to the client
    sockets,   \* the sockets COPY has open: <<c, "source">> and <<c, "dest">>
    status,    \* status[s]: "fresh", "down" or "restarted"
    live,      \* the paths whose index entry has the ports of a running server
    stale,     \* stale[c]: the paths of c that were looked up with dead ports
    listed,    \* the new paths the destinations' listings have
    files,     \* the source files that exist
    archives,  \* the source files whose archive exists beside them
    sender,    \* sender[c]: the source server's thread for c
    sent,      \* sent[c]: chunks it has sent
    put,       \* put[c]: chunks the handler has relayed
    receiver,  \* receiver[c]: the destination server's thread for c
    took,      \* took[c]: chunks it has read
    temp,      \* temp[n]: the file of the temporary name n, called after its creator
    name,      \* name[c]: the temporary name c's receiver works with
    fd,        \* fd[c]: the file it has open
    pos,       \* pos[c]: chunks it has written
    data,      \* data[c]: the contents of the file c created
    target,    \* target[d][b]: the file b in d: "absent", "old", "damaged", or the
               \* source path it is an intact copy of
    mixed,     \* the copies whose temporary name met another copy's use of it
    short,     \* the copies whose receiver could not write all it had read
    leaked,    \* the descriptors other commands never gave back
    departed,  \* the copies whose client has gone
    faults

copyVars == <<job, nm, pc, answer, sockets, status, live, stale, listed, files, archives, sender,
              sent, put, receiver, took, temp, name, fd, pos, data, target, mixed, short, leaked,
              departed, faults>>
handlerVars == <<nm, pc, answer, sockets>>
serverVars == <<status, live, stale, listed>>
senderVars == <<files, archives, sender, sent>>
receiverVars == <<receiver, took, temp, name, fd, pos, data, target, mixed, short>>
faultVars == <<leaked, departed, faults>>

Source(c) == job[c].source
Target(c) == job[c].target
Home(c) == Location[Source(c)]
Host(c) == Location[Target(c)]

\* The directory and the file's name in it: newpath.
NewPath(c) == <<Target(c), Base[Source(c)]>>

Init ==
    /\ job \in [Copies -> Jobs]
    /\ nm = "up"
    /\ pc = [c \in Copies |-> "idle"]
    /\ answer = [c \in Copies |-> NONE]
    /\ sockets = {}
    /\ status = [s \in Servers |-> "fresh"]
    /\ live = Indexed
    /\ stale = [c \in Copies |-> {}]
    /\ listed = Listed
    /\ files = Sources \cap Indexed
    /\ archives = {}
    /\ sender = [c \in Copies |-> "none"]
    /\ sent = [c \in Copies |-> 0]
    /\ put = [c \in Copies |-> 0]
    /\ receiver = [c \in Copies |-> "none"]
    /\ took = [c \in Copies |-> 0]
    /\ temp = [n \in TempNames |-> NONE]
    /\ name = [c \in Copies |-> <<Target(c), "proper">>]
    /\ fd = [c \in Copies |-> NONE]
    /\ pos = [c \in Copies |-> 0]
    /\ data = [c \in Copies |-> << >>]
    /\ target = [d \in Targets |-> [b \in Bases |->
                    IF <<d, b>> \in Listed THEN "old" ELSE "absent"]]
    /\ mixed = {} /\ short = {}
    /\ leaked = 0 /\ departed = {}
    /\ faults = 0

Up(s) == status[s] # "down"

Goto(c, l) == pc' = [pc EXCEPT ![c] = l]
SenderAt(c, l) == sender' = [sender EXCEPT ![c] = l]
ReceiverAt(c, l) == receiver' = [receiver EXCEPT ![c] = l]

Fault == faults < MaxFaults /\ faults' = faults + 1

---------------------------------------------------------------------------
(* The naming server's handler.                                            *)

Refusal(c) ==
    IF Source(c) \notin Indexed THEN "8"
    ELSE IF Target(c) \notin Indexed THEN "2"
    ELSE IF NewPath(c) \in listed THEN "5"
    ELSE NONE

\* send() to a peer that has gone: the bytes are lost, or the naming server,
\* which handles no SIGPIPE, is killed.
LostOrKilled == nm' \in {"up", "killed"}

Reply(c, code) ==
    /\ answer' = [answer EXCEPT ![c] = code]
    /\ IF c \in departed THEN LostOrKilled ELSE UNCHANGED nm

\* One of the three checks fails: its code is the answer.
CopyRefuse(c) ==
    /\ pc[c] = "idle" /\ Refusal(c) # NONE
    /\ Reply(c, Refusal(c))
    /\ Goto(c, "done")
    /\ UNCHANGED <<sockets, serverVars, senderVars, put, receiverVars, faultVars>>

CopyStart(c) ==
    /\ pc[c] = "idle" /\ Refusal(c) = NONE
    /\ stale' = [stale EXCEPT ![c] = {Source(c), Target(c)} \ live]
    /\ Goto(c, "connect1")
    /\ UNCHANGED <<nm, answer, sockets, status, live, listed, senderVars, put, receiverVars,
                   faultVars>>

\* socket() finds a free descriptor.
SocketFree == leaked + Cardinality(sockets) < Descriptors

\* No descriptor or a refused connection ends the whole naming server:
\* exit(EXIT_FAILURE).
ConnectFails(c) ==
    /\ \/ pc[c] = "connect1" /\ (~SocketFree \/ Source(c) \in stale[c])
       \/ pc[c] = "connect2" /\ (~SocketFree \/ Target(c) \in stale[c])
    /\ nm' = "exited"
    /\ UNCHANGED <<pc, answer, sockets, serverVars, senderVars, put, receiverVars, faultVars>>

ConnectSource(c) ==
    /\ pc[c] = "connect1" /\ SocketFree /\ Source(c) \notin stale[c]
    /\ sockets' = sockets \cup {<<c, "source">>}
    /\ SenderAt(c, "connected")
    /\ Goto(c, "connect2")
    /\ UNCHANGED <<nm, answer, serverVars, files, archives, sent, put, receiverVars, faultVars>>

ConnectDest(c) ==
    /\ pc[c] = "connect2" /\ SocketFree /\ Target(c) \notin stale[c]
    /\ sockets' = sockets \cup {<<c, "dest">>}
    /\ ReceiverAt(c, "connected")
    /\ Goto(c, "ask1")
    /\ UNCHANGED <<nm, answer, serverVars, senderVars, put, took, temp, name, fd, pos, data,
                   target, mixed, short, faultVars>>

AskSource(c) ==
    /\ pc[c] = "ask1"
    /\ IF sender[c] = "gone" THEN LostOrKilled /\ UNCHANGED sender
       ELSE SenderAt(c, "asked") /\ UNCHANGED nm
    /\ Goto(c, "ask2")
    /\ UNCHANGED <<answer, sockets, serverVars, files, archives, sent, put, receiverVars,
                   faultVars>>

AskDest(c) ==
    /\ pc[c] = "ask2"
    /\ IF receiver[c] = "gone" THEN LostOrKilled /\ UNCHANGED receiver
       ELSE ReceiverAt(c, "asked") /\ UNCHANGED nm
    /\ Goto(c, "relay")
    /\ UNCHANGED <<answer, sockets, serverVars, senderVars, put, took, temp, name, fd, pos, data,
                   target, mixed, short, faultVars>>

\* Mutant: the bytes are sent on before they have been received.
RelayChunkAhead(c) ==
    /\ pc[c] = "relay" /\ put[c] <= sent[c]
    /\ receiver[c] = "gone" \/ put[c] - took[c] < Room
    /\ put' = [put EXCEPT ![c] = @ + 1]
    /\ IF receiver[c] = "gone" THEN LostOrKilled ELSE UNCHANGED nm
    /\ UNCHANGED <<pc, answer, sockets, serverVars, senderVars, receiverVars, faultVars>>

\* Some bytes of the archive are received and sent on; the send waits while the
\* connection is full.
RelayChunk(c) ==
    /\ pc[c] = "relay" /\ put[c] < sent[c]
    /\ receiver[c] = "gone" \/ put[c] - took[c] < Room
    /\ put' = [put EXCEPT ![c] = @ + 1]
    /\ IF receiver[c] = "gone" THEN LostOrKilled ELSE UNCHANGED nm
    /\ UNCHANGED <<pc, answer, sockets, serverVars, senderVars, receiverVars, faultVars>>

\* Mutant: the relay ends with the source's thread, not with its bytes.
SourceEndedEarly(c) == sender[c] \in {"sent", "failed", "unread", "gone"}

SourceEnded(c) ==
    \/ sender[c] \in {"sent", "failed", "unread"} /\ put[c] = sent[c]
    \/ sender[c] = "gone"

\* The send of what was read returns an error: the connection was reset.
SendFails(c) == receiver[c] = "gone" /\ put[c] < sent[c]

\* End of file or an error of either connection ends the relay: the answer is
\* 11 in any case, and both connections are closed.
RelayEnd(c) ==
    /\ pc[c] = "relay" /\ (SourceEnded(c) \/ SendFails(c))
    /\ Reply(c, "11")
    /\ sockets' = sockets \ {<<c, "source">>, <<c, "dest">>}
    /\ Goto(c, "done")
    /\ UNCHANGED <<serverVars, senderVars, put, receiverVars, faultVars>>

---------------------------------------------------------------------------
(* The source server: executeSSRequest.                                    *)

\* Mutant: a failed zip returns without closing the connection.
SenderZipKeepsOpen(c) ==
    /\ sender[c] = "asked"
    /\ IF Source(c) \in files
       THEN archives' = archives \cup {Source(c)} /\ SenderAt(c, "zipped")
       ELSE SenderAt(c, "connected") /\ UNCHANGED archives
    /\ UNCHANGED <<handlerVars, serverVars, files, sent, put, receiverVars, faultVars>>

\* zip writes the archive under its one name; it fails when the file is gone,
\* and the connection is closed.
SenderZip(c) ==
    /\ sender[c] = "asked"
    /\ IF Source(c) \in files
       THEN archives' = archives \cup {Source(c)} /\ SenderAt(c, "zipped")
       ELSE SenderAt(c, "failed") /\ UNCHANGED archives
    /\ UNCHANGED <<handlerVars, serverVars, files, sent, put, receiverVars, faultVars>>

\* Another copy's rm may have removed the archive since.
SenderOpen(c) ==
    /\ sender[c] = "zipped"
    /\ SenderAt(c, IF Source(c) \in archives THEN "sending" ELSE "failed")
    /\ UNCHANGED <<handlerVars, serverVars, files, archives, sent, put, receiverVars, faultVars>>

\* fopen fails on its own account (no descriptor left): the connection is closed,
\* and nobody removes the archive.
SenderOpenFails(c) ==
    /\ sender[c] = "zipped" /\ Fault
    /\ SenderAt(c, "unread")
    /\ UNCHANGED <<handlerVars, serverVars, files, archives, sent, put, receiverVars, leaked,
                   departed>>

\* The next bytes of the archive are sent; the send waits while the connection
\* is full.
SenderSend(c) ==
    /\ sender[c] = "sending" /\ sent[c] < Length[Source(c)]
    /\ pc[c] = "done" \/ sent[c] - put[c] < Room
    /\ sent' = [sent EXCEPT ![c] = @ + 1]
    /\ UNCHANGED <<handlerVars, serverVars, files, archives, sender, put, receiverVars, faultVars>>

\* The relay has broken off and closed its end: the send returns an error.
SenderCut(c) ==
    /\ sender[c] = "sending" /\ sent[c] < Length[Source(c)] /\ pc[c] = "done"
    /\ SenderAt(c, "cut")
    /\ UNCHANGED <<handlerVars, serverVars, files, archives, sent, put, receiverVars, faultVars>>

\* rm of the archive, and the connection is closed whether or not rm succeeds.
SenderRemove(c) ==
    /\ \/ sender[c] = "sending" /\ sent[c] = Length[Source(c)] /\ SenderAt(c, "sent")
       \/ sender[c] = "cut" /\ SenderAt(c, "failed")
    /\ archives' = archives \ {Source(c)}
    /\ UNCHANGED <<handlerVars, serverVars, files, sent, put, receiverVars, faultVars>>

---------------------------------------------------------------------------
(* The destination server: its listener and executeSSRequestRecv.          *)

\* The listener takes what one recv delivers for the directory's name, which
\* may be the name with the first k chunks of the archive behind it.
ReceiverRecv(c) ==
    /\ receiver[c] = "asked"
    /\ \E k \in 0 .. put[c] :
          /\ took' = [took EXCEPT ![c] = k]
          /\ name' = [name EXCEPT ![c][2] = IF k = 0 THEN "proper" ELSE "garbled"]
    /\ ReceiverAt(c, "named")
    /\ UNCHANGED <<handlerVars, serverVars, senderVars, put, temp, fd, pos, data, target,
                   mixed, short, faultVars>>

\* The receivers at work between the open of a temporary name and its removal.
UsersOf(n) == {d \in Copies : name[d] = n /\ receiver[d] \in {"open", "received", "unpacked"}}

\* open(O_WRONLY | O_CREAT): a file that is already there is opened as it is,
\* not truncated, and written from its beginning.
ReceiverOpen(c) ==
    LET n == name[c] IN
    /\ receiver[c] = "named"
    /\ temp' = [temp EXCEPT ![n] = IF @ = NONE THEN c ELSE @]
    /\ fd' = [fd EXCEPT ![c] = temp'[n]]
    /\ mixed' = IF temp[n] = NONE /\ UsersOf(n) = {} THEN mixed
                ELSE mixed \cup UsersOf(n) \cup {c}
    /\ ReceiverAt(c, "open")
    /\ UNCHANGED <<handlerVars, serverVars, senderVars, put, took, name, pos, data, target,
                   short, faultVars>>

\* Mutant: a failed open closes the connection the naming server writes to.
ReceiverOpenFailsCloses(c) ==
    /\ receiver[c] = "named" /\ Fault
    /\ ReceiverAt(c, "gone")
    /\ UNCHANGED <<handlerVars, serverVars, senderVars, put, took, temp, name, fd, pos, data,
                   target, mixed, short, leaked, departed>>

\* The thread returns and leaves its connection open: nobody reads it any more.
ReceiverOpenFails(c) ==
    /\ receiver[c] = "named" /\ Fault
    /\ ReceiverAt(c, "deaf")
    /\ UNCHANGED <<handlerVars, serverVars, senderVars, put, took, temp, name, fd, pos, data,
                   target, mixed, short, leaked, departed>>

\* Mutant: every write starts at the beginning of the file.
WriteAtStart(d, i, x) == IF d = << >> THEN <<x>> ELSE [d EXCEPT ![1] = x]

\* d with x written at offset i, 0 being its beginning.
WriteAt(d, i, x) ==
    [j \in 1 .. (IF i < Len(d) THEN Len(d) ELSE i + 1) |-> IF j = i + 1 THEN x ELSE d[j]]

\* The chunks read into the listener's buffer with the name are never written.
ReceiverWrite(c) ==
    /\ receiver[c] = "open" /\ took[c] < put[c]
    /\ data' = [data EXCEPT ![fd[c]] = WriteAt(@, pos[c], <<Source(c), took[c] + 1>>)]
    /\ pos' = [pos EXCEPT ![c] = @ + 1]
    /\ took' = [took EXCEPT ![c] = @ + 1]
    /\ UNCHANGED <<handlerVars, serverVars, senderVars, put, receiver, temp, name, fd, target,
                   mixed, short, faultVars>>

\* write() takes a part of what was read, or nothing (a full disk): the loop is
\* left, and nobody reads the connection any more.
ReceiverShort(c) ==
    /\ receiver[c] = "open" /\ took[c] < put[c] /\ Fault
    /\ \/ UNCHANGED data
       \/ data' = [data EXCEPT ![fd[c]] = WriteAt(@, pos[c], <<Source(c), 0>>)]
    /\ took' = [took EXCEPT ![c] = @ + 1]
    /\ short' = short \cup {c}
    /\ ReceiverAt(c, "received")
    /\ UNCHANGED <<handlerVars, serverVars, senderVars, put, temp, name, fd, pos, target, mixed,
                   leaked, departed>>

\* The handler has closed its end and everything has been read.
ReceiverEnd(c) ==
    /\ receiver[c] = "open" /\ pc[c] = "done" /\ took[c] = put[c]
    /\ ReceiverAt(c, "received")
    /\ UNCHANGED <<handlerVars, serverVars, senderVars, put, took, temp, name, fd, pos, data,
                   target, mixed, short, faultVars>>

\* Whose chunks the file of the temporary name n holds.
Parts(n) == IF temp[n] = NONE THEN {} ELSE {p \in Sources :
               \E i \in DOMAIN data[temp[n]] : data[temp[n]][i][1] = p}

\* The last chunk of an archive is its central directory: unzip extracts
\* nothing from a file that does not end with one.
Readable(n) ==
    /\ temp[n] # NONE /\ data[temp[n]] # << >>
    /\ LET x == data[temp[n]][Len(data[temp[n]])] IN x[2] = Length[x[1]]

\* unzip of whatever bears the temporary name: an archive gives its file, under
\* the last component of its path; a mixture of two nothing or damaged files;
\* anything else nothing.  An entry that exists is kept or replaced (the
\* question goes to the server's terminal).
ReceiverUnzip(c) ==
    LET n == name[c]
        d == Target(c)
        Extract(B, x) == target' = [target EXCEPT ![d] =
                             [b \in Bases |-> IF b \in B THEN x ELSE @[b]]]
    IN
    /\ receiver[c] = "received"
    /\ \/ /\ n[2] = "proper" /\ Readable(n)
          /\ \/ \E p \in Sources : data[temp[n]] = Archive(p) /\ Extract({Base[p]}, p)
             \/ /\ \A p \in Sources : data[temp[n]] # Archive(p)
                /\ \E S \in SUBSET Parts(n) : Extract({Base[p] : p \in S}, "damaged")
       \/ /\ \/ n[2] = "garbled"
             \/ ~Readable(n)
             \/ \E p \in Parts(n) : target[d][Base[p]] # "absent"
          /\ UNCHANGED target
    /\ ReceiverAt(c, "unpacked")
    /\ UNCHANGED <<handlerVars, serverVars, senderVars, put, took, temp, name, fd, pos, data,
                   mixed, short, faultVars>>

\* Mutant: rm runs only when unzip succeeded ("unzip && rm").
ReceiverRemoveAnd(c) ==
    /\ receiver[c] = "unpacked"
    /\ temp' = IF Readable(name[c]) THEN [temp EXCEPT ![name[c]] = NONE] ELSE temp
    /\ ReceiverAt(c, "done")
    /\ UNCHANGED <<handlerVars, serverVars, senderVars, put, took, name, fd, pos, data, target,
                   mixed, short, faultVars>>

\* rm of whatever bears the temporary name.
ReceiverRemove(c) ==
    /\ receiver[c] = "unpacked"
    /\ temp' = [temp EXCEPT ![name[c]] = NONE]
    /\ ReceiverAt(c, "done")
    /\ UNCHANGED <<handlerVars, serverVars, senderVars, put, took, name, fd, pos, data, target,
                   mixed, short, faultVars>>

---------------------------------------------------------------------------
(* Faults.                                                                 *)

\* The index entries of s, and what has been looked up there, become useless.
LosePorts(s) ==
    /\ live' = {x \in live : Location[x] # s}
    /\ stale' = [c \in Copies |-> IF pc[c] \in {"connect1", "connect2"}
                     THEN stale[c] \cup {x \in {Source(c), Target(c)} : Location[x] = s}
                     ELSE stale[c]]

\* The threads of s end with it, and so do its connections that are still open;
\* its files, half-written ones too, stay.
Die(s) ==
    /\ status' = [status EXCEPT ![s] = "down"]
    /\ LosePorts(s)
    /\ sender' = [c \in Copies |->
                     IF Home(c) = s /\ sender[c] \notin {"none", "sent", "failed", "unread"}
                     THEN "gone" ELSE sender[c]]
    /\ receiver' = [c \in Copies |->
                       IF /\ Host(c) = s /\ receiver[c] # "none"
                          /\ receiver[c] = "done" => pc[c] = "relay"
                       THEN "gone" ELSE receiver[c]]
    /\ UNCHANGED <<handlerVars, listed, files, archives, sent, put, took, temp, name, fd, pos,
                   data, target, mixed, short, leaked, departed>>

Crash(s) == Up(s) /\ Fault /\ Die(s)

\* A send to the relay that has closed its end raises SIGPIPE, which storage
\* servers do not handle either.
SenderKilled(c) ==
    /\ sender[c] = "sending" /\ sent[c] < Length[Source(c)] /\ pc[c] = "done"
    /\ Die(Home(c))
    /\ UNCHANGED faults

\* Started again, s registers what it has under new ports.
Restart(s) ==
    /\ ~Up(s)
    /\ status' = [status EXCEPT ![s] = "restarted"]
    /\ live' = live \cup {x \in Indexed : Location[x] = s /\ (x \in Sources => x \in files)}
    /\ listed' = {x \in listed : Location[x[1]] # s} \cup
                  {x \in Targets \X Bases : Location[x[1]] = s /\ target[x[1]][x[2]] # "absent"}
    /\ UNCHANGED <<handlerVars, stale, senderVars, put, receiverVars, faultVars>>

\* A client's DELETE reaches the source file; the index still has its path.
FileVanishes(p) ==
    /\ p \in files /\ Fault
    /\ files' = files \ {p}
    /\ UNCHANGED <<handlerVars, serverVars, archives, sender, sent, put, receiverVars, leaked,
                   departed>>

\* A CREATE or a DELETE opens a socket to a storage server and never closes it.
Leak ==
    /\ SocketFree /\ Fault
    /\ leaked' = leaked + 1
    /\ UNCHANGED <<handlerVars, serverVars, senderVars, put, receiverVars, departed>>

\* The client of c ends before it has its answer.
ClientLeaves(c) ==
    /\ pc[c] # "done" /\ c \notin departed /\ Fault
    /\ departed' = departed \cup {c}
    /\ UNCHANGED <<handlerVars, serverVars, senderVars, put, receiverVars, leaked>>

---------------------------------------------------------------------------
Handler(c) ==
    \/ ConnectFails(c) \/ ConnectSource(c) \/ ConnectDest(c)
    \/ AskSource(c) \/ AskDest(c) \/ RelayChunk(c) \/ RelayEnd(c)
Sender(c) ==
    \/ SenderZip(c) \/ SenderOpen(c) \/ SenderSend(c) \/ SenderCut(c) \/ SenderKilled(c)
    \/ SenderRemove(c)
Receiver(c) ==
    \/ ReceiverRecv(c) \/ ReceiverOpen(c) \/ ReceiverWrite(c) \/ ReceiverEnd(c)
    \/ ReceiverUnzip(c) \/ ReceiverRemove(c)

Next ==
    /\ nm = "up"
    /\ UNCHANGED job
    /\ \/ \E c \in Copies : \/ CopyRefuse(c) \/ CopyStart(c) \/ Handler(c)
                            \/ Sender(c) \/ Receiver(c)
                            \/ SenderOpenFails(c) \/ ReceiverOpenFails(c) \/ ReceiverShort(c)
                            \/ ClientLeaves(c)
       \/ \E s \in Servers : Crash(s) \/ Restart(s)
       \/ \E p \in Sources : FileVanishes(p)
       \/ Leak

Spec == Init /\ [][Next]_copyVars

\* The scheduler runs every thread; neither copies nor faults need happen.
Fairness == \A c \in Copies :
    WF_copyVars(nm = "up" /\ UNCHANGED job /\ (Handler(c) \/ Sender(c) \/ Receiver(c)))

FairSpec == Spec /\ Fairness

---------------------------------------------------------------------------
(* Properties.                                                             *)

\* Type invariant of the copies: among the rest, no thread is ahead of the one
\* before it in the chain from the source's archive to the temporary file.
TypeOK ==
    /\ job \in [Copies -> Jobs]
    /\ nm \in {"up", "exited", "killed"}
    /\ pc \in [Copies -> {"idle", "connect1", "connect2", "ask1", "ask2", "relay", "done"}]
    /\ answer \in [Copies -> {"8", "2", "5", "11", NONE}]
    /\ sockets \subseteq Copies \X {"source", "dest"}
    /\ status \in [Servers -> {"fresh", "down", "restarted"}]
    /\ live \subseteq Indexed /\ listed \subseteq Targets \X Bases
    /\ stale \in [Copies -> SUBSET (Sources \cup Targets)]
    /\ files \subseteq Sources /\ archives \subseteq Sources
    /\ sender \in [Copies -> {"none", "connected", "asked", "zipped", "sending", "cut", "sent",
                              "failed", "unread", "gone"}]
    /\ receiver \in [Copies -> {"none", "connected", "asked", "named", "open", "received",
                                "unpacked", "done", "deaf", "gone"}]
    /\ \A c \in Copies : /\ pos[c] <= took[c] /\ took[c] <= put[c]
                         /\ put[c] <= sent[c] /\ sent[c] <= Length[Source(c)]
                         /\ data[c] \in Seq(Sources \X Nat)
    /\ temp \in [TempNames -> Copies \cup {NONE}] /\ name \in [Copies -> TempNames]
    /\ fd \in [Copies -> Copies \cup {NONE}]
    /\ target \in [Targets -> [Bases -> Sources \cup {"absent", "old", "damaged"}]]
    /\ mixed \subseteq Copies /\ short \subseteq Copies /\ departed \subseteq Copies
    /\ leaked \in Nat /\ faults \in 0 .. MaxFaults

\* What a copy that reached its end delivers: when the source server sent the
\* whole archive, its first bytes did not arrive with the directory's name, all
\* of them could be written, and no copy into that directory found the
\* temporary archive in use or left over, the new path holds the intact file
\* of this copy, or of another one that was let through to the same new path;
\* never a file that was there before (executeSSRequest, the relay,
\* executeSSRequestRecv, and the check of newpath).
UndisturbedCopyArrives ==
    \A c \in Copies :
        (/\ receiver[c] = "done" /\ sender[c] = "sent"
         /\ name[c][2] = "proper" /\ c \notin short
         /\ \A e \in mixed : Target(e) # Target(c))
        => \E e \in Copies : /\ NewPath(e) = NewPath(c) /\ receiver[e] # "none"
                             /\ target[Target(c)][Base[Source(c)]] = Source(e)

\* Truncated transfers (a crash of the source, a vanished file, a failed open,
\* a short write) leave no damaged file behind: damage takes two copies that
\* met in one temporary archive, or one that found the remains of another.
DamageNeedsSharing ==
    \A d \in Targets, b \in Bases :
        target[d][b] = "damaged" => \E e \in mixed : Target(e) = d

Crashed == \E s \in Servers : status[s] # "fresh"
Busy == {c \in Copies : pc[c] \notin {"idle", "done"}}

\* What a COPY can end the naming server by, and nothing else: exit() when a
\* storage server has crashed, or when the descriptors other commands leaked
\* leave too few for two sockets of every copy under way; SIGPIPE when a
\* storage server has crashed or a client has gone.  Ended copies hold no
\* descriptor, and a failed zip, a failed open or write at either end and
\* another copy's interference leave the naming server running.
WhatEndsTheNamingServer ==
    /\ nm = "exited" => Crashed \/ leaked + 2 * Cardinality(Busy) > Descriptors
    /\ nm = "killed" => Crashed \/ departed # {}

\* Once every copy has run to its end, and no thread died with its server, no
\* temporary archive is left, and no archive but that of a copy which could not
\* open it, however the copies overlapped.
CopiesCleanUp ==
    (/\ \A c \in Copies : /\ pc[c] \in {"idle", "done"}
                          /\ sender[c] \in {"none", "sent", "failed", "unread"}
                          /\ receiver[c] \in {"none", "done", "deaf"})
    => /\ \A p \in archives : \E c \in Copies : Source(c) = p /\ sender[c] = "unread"
       /\ \A n \in TempNames : temp[n] = NONE

\* The relay waits in a send that nobody will make room for: the receiver's
\* thread has returned, or left its loop, without closing the connection.
Stuck(c) ==
    /\ pc[c] = "relay" /\ put[c] < sent[c] /\ put[c] - took[c] = Room
    /\ receiver[c] = "deaf" \/ c \in short

\* A copy that was begun is answered, or the naming server has ended, or the
\* relay is stuck on a receiver that gave up.
CopyIsAnswered ==
    \A c \in Copies : (pc[c] = "connect1") ~> (answer[c] # NONE \/ nm # "up" \/ Stuck(c))
============================================================================
