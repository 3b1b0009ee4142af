------------------------ MODULE StorageServerProofs ------------------------
(***************************************************************************)
(* Proofs about one storage server's file, for every set of requests and   *)
(* every interleaving of their threads.                                    *)
(*                                                                         *)
(* Nothing locks the file, so the argument is about mutators that were not *)
(* disturbed: from its fopen on, an undisturbed WRITE or CREATE knows the  *)
(* inode the name refers to and the bytes in it, because whoever else      *)
(* opens or removes the file disturbs it, and a WRITE that still had bytes *)
(* to flush would have disturbed it at its fopen.  A READ sent after such  *)
(* a WRITE has ended therefore opens that inode.  Opens and writes that    *)
(* fail, directories that are removed and requests that are lengthened by  *)
(* old bytes are among the steps.  Underneath lies that every request gets *)
(* one thread: it is in one place of one listener's queue, and leaves it   *)
(* once.                                                                   *)
(***************************************************************************)
EXTENDS StorageServer, FiniteSetTheorems, SequenceTheorems, TLAPS

Touched == {"opened", "flushing", "done"}

\* What TypeOK leaves open: the shape of the inodes and of the histories, and
\* the states that only some requests have.
ShapeInv ==
    /\ DOMAIN contents = Inodes
    /\ DOMAIN result = Requests
    /\ sentAfter \in [Requests -> SUBSET Requests]
    /\ \A t \in Requests : IF Op[t] \in NamingOps THEN asks[t] \in NamingOps
                                                ELSE asks[t] = Op[t]
    /\ \A t \in Requests :
           /\ pc[t] = "flushing" => asks[t] = "WRITE"
           /\ pc[t] = "making" => asks[t] = "CREATE"
           /\ pc[t] \in {"listed", "scanning"} => asks[t] = "DELETEDIR"
           /\ pc[t] = "opened" => asks[t] # "GETSIZE"
    /\ \A t \in answered : pc[t] = "done" \/ asks[t] = "WRITE"
    /\ \A t \in faulted : asks[t] \in {"READ", "WRITE"}

TypeInv == TypeOK /\ ShapeInv

\* A connection that waits is in one place: one listener's queue or its hand.
QueueInv ==
    /\ \A port \in Ports : \A i \in 1 .. Len(backlog[port]) :
           LET t == backlog[port][i] IN
           /\ PortOf(t) = port /\ conn[t] # "none" /\ pc[t] = "none"
           /\ listener[port] # t
           /\ \A j \in 1 .. Len(backlog[port]) : backlog[port][j] = t => j = i
    /\ \A port \in Ports : listener[port] # NONE =>
           /\ PortOf(listener[port]) = port
           /\ conn[listener[port]] # "none"
           /\ pc[listener[port]] = "none"
    /\ \A t \in Requests : pc[t] # "none" => conn[t] = "sent"

\* No more inodes are made than threads have opened files.
Begun == {t \in Requests : pc[t] \in Touched}
RoomInv == made <= 1 + Cardinality(Begun)

\* A path is lengthened only by the tail of a longer request that has ended.
TailInv ==
    /\ leftover = 0 \/ \E u \in Freed : Size[u] = leftover
    /\ \A t \in Requests : asks[t] # Op[t] => \E u \in Freed : Size[u] > Size[t]

\* The requests that decide the file as long as nobody disturbs them and no error
\* keeps their bytes from it.
Deciders == {w \in Requests : asks[w] \in {"WRITE", "CREATE"} /\ pc[w] \in Touched /\ ~Refused(w)}
                \ (faulted \cup disturbed)

\* What the file holds once w has got as far as it has.
Leaves(w) == IF Op[w] = "WRITE" /\ pc[w] = "done" THEN Payload[w] ELSE <<>>

\* An undisturbed decider's inode bears the name and holds its bytes, and no
\* other WRITE has bytes to flush.
DeciderInv ==
    \A w \in Deciders :
        /\ name # 0 /\ contents[name] = Leaves(w)
        /\ pc[w] # "done" => handle[w] = name
        /\ \A u \in Writers \ {w} : pc[u] \notin {"opened", "flushing"}

\* A request sent after an undisturbed WRITE ended sees that WRITE's inode.
SeenInv ==
    /\ \A r \in Requests : conn[r] # "sent" => sentAfter[r] = {}
    /\ \A r \in Requests : \A w \in sentAfter[r] : pc[w] = "done"
    /\ \A r \in Observers : \A w \in (Writers \cap sentAfter[r]) \ disturbed :
           pc[r] = "opened" => handle[r] = name

FileInv ==
    TypeInv /\ QueueInv /\ RoomInv /\ TailInv /\ DeciderInv /\ SeenInv /\ EndedWritesAreSeen

----------------------------------------------------------------------------
(* Operators *)

\* Writing a whole payload at the start of an emptied file leaves exactly the
\* payload: what fclose does to the inode that fopen with mode "w" emptied.
LEMMA OverlayEmpty ==
    ASSUME NEW w \in Writers
    PROVE  Overlay(Payload[w], <<>>) = Payload[w]
<1> DEFINE S == {Payload[w][i] : i \in DOMAIN Payload[w]}
<1>1. Payload[w] \in Seq(S)
  BY RequestsAssumption
<1> HIDE DEF S
<1>2. Len(Payload[w]) \in Nat /\ Len(<<>>) = 0
  BY <1>1
<1>3. SubSeq(<<>>, Len(Payload[w]) + 1, 0) = <<>>
  BY <1>2
<1> QED BY <1>1, <1>2, <1>3, ConcatEmptySeq DEF Overlay

\* The threads that have touched the file are finitely many, and as long as one
\* has not there is an inode left for it.
LEMMA BegunBound ==
    /\ IsFiniteSet(Begun) /\ Cardinality(Begun) \in Nat
    /\ Cardinality(Requests) \in Nat
    /\ \A t \in Requests \ Begun : Cardinality(Begun) < Cardinality(Requests)
<1>1. Begun \in SUBSET Requests
  BY DEF Begun
<1>2. IsFiniteSet(Requests)
  BY RequestsAssumption
<1>3. /\ IsFiniteSet(Begun)
      /\ Cardinality(Begun) <= Cardinality(Requests)
      /\ Cardinality(Requests) = Cardinality(Begun) => Requests = Begun
  BY <1>1, <1>2, FS_Subset
<1>4. Cardinality(Begun) \in Nat /\ Cardinality(Requests) \in Nat
  BY <1>2, <1>3, FS_CardinalityType
<1> QED BY <1>1, <1>3, <1>4

\* fopen with mode "w" has an inode to make, whichever threads came before.
LEMMA RoomToOpen ==
    ASSUME TypeInv, RoomInv, NEW t \in Requests, pc[t] \in {"running", "making"}
    PROVE  /\ made \in Nat /\ Inodes = 1 .. 1 + Cardinality(Requests)
           /\ Cardinality(Requests) \in Nat
           /\ made + 1 \in Inodes /\ 0 \notin Inodes
<1>1. t \in Requests \ Begun
  BY DEF Begun, Touched
<1>2. made \in Inodes
  BY DEF TypeInv, TypeOK
<1> QED BY <1>1, <1>2, BegunBound DEF RoomInv, Inodes

----------------------------------------------------------------------------
(* The initial state *)

\* Before the first request the only file is the one the server started with.
LEMMA FileInvInit ==
    ASSUME Init
    PROVE  FileInv
<1>1. 1 \in Inodes /\ 0 \notin Inodes
  BY BegunBound DEF Inodes
<1>2. TypeOK
  BY <1>1, RequestsAssumption DEF Init, TypeOK, Mutators, Ports, Labels
<1>3. ShapeInv
  BY <1>1 DEF Init, ShapeInv
<1>4. QueueInv
  BY DEF Init, QueueInv, Ports
<1>5. RoomInv
  BY BegunBound DEF Init, RoomInv
<1>6. DeciderInv /\ SeenInv /\ EndedWritesAreSeen
  BY DEF Init, DeciderInv, Deciders, Touched, SeenInv, EndedWritesAreSeen, Observers
<1>7. TailInv
  BY DEF Init, TailInv
<1> QED BY <1>2, <1>3, <1>4, <1>5, <1>6, <1>7 DEF FileInv, TypeInv

----------------------------------------------------------------------------
(* What a thread's step does *)

\* The five ways a thread's step treats the file: it leaves name and bytes alone,
\* opens the file for writing, closes it, or removes its name.
Quiet == UNCHANGED <<name, contents, made, disturbed>>
Opens(t) ==
    /\ asks[t] \in {"WRITE", "CREATE"}
    /\ pc[t] \in {"running", "making"}
    /\ OpenForWriting(t)
    /\ Goto(t, "opened")
Closes(t) == WriteClose(t) \/ WriteCloseShort(t)
Removes(t) ==
    /\ asks[t] \in {"DELETE", "DELETEDIR"}
    /\ RemoveName(t)
    /\ UNCHANGED handle

LEMMA FileCases ==
    ASSUME NEW t \in Requests, Thread(t)
    PROVE  Quiet \/ Opens(t) \/ Closes(t) \/ Removes(t)
<1>1. CASE WriteThread(t)
  BY <1>1 DEF WriteThread, WriteOpen, WriteOpenFails, WriteReply, WriteReplyError, At, OpenFails,
              Quiet, Opens, Closes, fileVars, historyVars
<1>2. CASE ReadThread(t)
  BY <1>2 DEF ReadThread, ReadOpen, ReadFails, ReadFile, GetSize, Quiet, fileVars, historyVars
<1>3. CASE CreateThread(t)
  BY <1>3 DEF CreateThread, CreateMkdir, CreateOpen, CreateOpenFails, At, OpenFails, Quiet, Opens,
              fileVars, historyVars
<1>4. CASE DeleteThread(t)
  BY <1>4 DEF DeleteThread, DeleteRemove, DirOpen, DirFound, DirUnlink, DirStops, DirRemove, At,
              Quiet, Removes, fileVars, historyVars
<1>5. CASE ElsewhereRun(t) \/ NamingReply(t)
  BY <1>5 DEF ElsewhereRun, NamingReply, Quiet, fileVars, historyVars
<1> QED BY <1>1, <1>2, <1>3, <1>4, <1>5 DEF Thread

\* Where a thread may go from its place.
NextLabels(t, l) ==
    /\ l \in Labels \ {"none", "running"}
    /\ l = "making" => asks[t] = "CREATE"
    /\ l \in {"listed", "scanning"} => asks[t] = "DELETEDIR"
    /\ l = "flushing" => asks[t] = "WRITE" /\ pc[t] = "opened"
    /\ l = "opened" => asks[t] # "GETSIZE" /\ pc[t] \notin Touched
    /\ pc[t] \in Touched => l \in Touched
    /\ pc[t] = "flushing" => l = "done"

\* A thread moves itself alone, and leaves the ports, the connections and the
\* histories of other requests as they are.
LEMMA ThreadMoves ==
    ASSUME TypeInv, NEW t \in Requests, Thread(t)
    PROVE  /\ UNCHANGED <<portVars, sentAfter>>
           /\ pc[t] \notin {"none", "done"}
           /\ \E l : NextLabels(t, l) /\ pc' = [pc EXCEPT ![t] = l]
<1> USE DEF TypeInv, TypeOK, ShapeInv, At, Goto, NextLabels, Labels, Touched
<1>1. CASE WriteThread(t)
  BY <1>1 DEF WriteThread, WriteOpen, WriteOpenFails, WriteReply, WriteReplyError, WriteClose,
              WriteCloseShort, historyVars
<1>2. CASE ReadThread(t)
  BY <1>2 DEF ReadThread, ReadOpen, ReadFails, ReadFile, GetSize, historyVars
<1>3. CASE CreateThread(t)
  BY <1>3 DEF CreateThread, CreateMkdir, CreateOpen, CreateOpenFails, historyVars
<1>4. CASE DeleteThread(t)
  <2>1. CASE DirOpen(t)
    <3> DEFINE m == IF ~dir THEN "opened" ELSE IF name # 0 THEN "listed" ELSE "scanning"
    <3>1. m \in {"opened", "listed", "scanning"}
      OBVIOUS
    <3>2. (pc' = [pc EXCEPT ![t] = m] \/ pc' = [pc EXCEPT ![t] = "opened"])
          /\ asks[t] = "DELETEDIR" /\ pc[t] = "running"
      BY <2>1 DEF DirOpen
    <3> HIDE DEF m
    <3>3. PICK l \in {"opened", "listed", "scanning"} : pc' = [pc EXCEPT ![t] = l]
      BY <3>1, <3>2
    <3>4. NextLabels(t, l)
      BY <3>2, <3>3
    <3> QED BY <2>1, <3>2, <3>3, <3>4 DEF DirOpen, historyVars
  <2> QED BY <1>4, <2>1 DEF DeleteThread, DeleteRemove, DirFound, DirUnlink, DirStops, DirRemove,
                            historyVars
<1>5. CASE ElsewhereRun(t) \/ NamingReply(t)
  BY <1>5 DEF ElsewhereRun, NamingReply, historyVars, NamingOps
<1> QED BY <1>1, <1>2, <1>3, <1>4, <1>5 DEF Thread

\* A thread changes its own stream and its own result at most.
LEMMA ThreadOwns ==
    ASSUME TypeInv, NEW t \in Requests, Thread(t)
    PROVE  /\ \A u \in Requests \ {t} : handle'[u] = handle[u] /\ result'[u] = result[u]
           /\ DOMAIN result' = Requests
<1>0. handle \in [Requests -> Inodes \cup {0}] /\ DOMAIN result = Requests
  BY DEF TypeInv, TypeOK, ShapeInv
<1>1. CASE WriteThread(t)
  BY <1>0, <1>1 DEF WriteThread, WriteOpen, WriteOpenFails, WriteReply, WriteReplyError, WriteClose,
                    WriteCloseShort, OpenForWriting, OpenFails, SayFailed
<1>2. CASE ReadThread(t)
  BY <1>0, <1>2 DEF ReadThread, ReadOpen, ReadFails, ReadFile, GetSize, SayFailed
<1>3. CASE CreateThread(t)
  BY <1>0, <1>3 DEF CreateThread, CreateMkdir, CreateOpen, CreateOpenFails, OpenForWriting, OpenFails,
                    SayFailed
<1>4. CASE DeleteThread(t)
  BY <1>0, <1>4 DEF DeleteThread, DeleteRemove, DirOpen, DirFound, DirUnlink, DirStops, DirRemove
<1>5. CASE ElsewhereRun(t) \/ NamingReply(t)
  BY <1>0, <1>5 DEF ElsewhereRun, NamingReply
<1> QED BY <1>1, <1>2, <1>3, <1>4, <1>5 DEF Thread

\* A thread answers its own request, when it is done or before a WRITE's flush.
LEMMA ThreadAnswers ==
    ASSUME TypeInv, NEW t \in Requests, Thread(t)
    PROVE  \/ answered' = answered
           \/ answered' = answered \cup {t} /\ (pc'[t] = "done" \/ asks[t] = "WRITE")
<1>0. pc \in [Requests -> Labels]
  BY DEF TypeInv, TypeOK
<1>1. CASE WriteThread(t)
  BY <1>1 DEF WriteThread, WriteOpen, WriteOpenFails, WriteReply, WriteReplyError, WriteClose,
              WriteCloseShort, At, Reply
<1>2. CASE ReadThread(t)
  BY <1>0, <1>2 DEF ReadThread, ReadOpen, ReadFails, ReadFile, GetSize, Goto, Reply
<1>3. CASE CreateThread(t)
  BY <1>3 DEF CreateThread, CreateMkdir, CreateOpen, CreateOpenFails
<1>4. CASE DeleteThread(t)
  BY <1>4 DEF DeleteThread, DeleteRemove, DirOpen, DirFound, DirUnlink, DirStops, DirRemove
<1>5. CASE ElsewhereRun(t) \/ NamingReply(t)
  BY <1>0, <1>5 DEF ElsewhereRun, NamingReply, Goto, Reply
<1> QED BY <1>1, <1>2, <1>3, <1>4, <1>5 DEF Thread

\* A fault is counted, and those it is held against read or write.
LEMMA ThreadFaults ==
    ASSUME TypeInv, NEW t \in Requests, Thread(t)
    PROVE  /\ faults' \in 0 .. MaxFaults
           /\ \/ faulted' = faulted
              \/ faulted' = faulted \cup {t} /\ asks[t] \in {"READ", "WRITE"}
<1>0. faults \in 0 .. MaxFaults /\ MaxFaults \in Nat
  BY RequestsAssumption DEF TypeInv, TypeOK
<1>1. Fault => faults' \in 0 .. MaxFaults
  BY <1>0 DEF Fault
<1>2. CASE WriteThread(t)
  BY <1>0, <1>1, <1>2 DEF WriteThread, WriteOpen, WriteOpenFails, WriteReply, WriteReplyError,
                          WriteClose, WriteCloseShort, At, OpenFails, FaultIn, faultVars
<1>3. CASE ReadThread(t)
  BY <1>0, <1>1, <1>3 DEF ReadThread, ReadOpen, ReadFails, ReadFile, GetSize, FaultIn, faultVars
<1>4. CASE CreateThread(t)
  BY <1>0, <1>1, <1>4 DEF CreateThread, CreateMkdir, CreateOpen, CreateOpenFails, OpenFails, faultVars
<1>5. CASE DeleteThread(t)
  BY <1>0, <1>1, <1>5 DEF DeleteThread, DeleteRemove, DirOpen, DirFound, DirUnlink, DirStops, DirRemove,
                    faultVars
<1>6. CASE ElsewhereRun(t) \/ NamingReply(t)
  BY <1>0, <1>6 DEF ElsewhereRun, NamingReply, faultVars
<1> QED BY <1>2, <1>3, <1>4, <1>5, <1>6 DEF Thread

----------------------------------------------------------------------------
(* Types *)

\* A file keeps its directory: rmdir fails while the name is there, and fopen
\* makes a name only where there is a directory.
LEMMA DirStep ==
    ASSUME TypeOK, NEW t \in Requests, Thread(t)
    PROVE  dir' \in BOOLEAN /\ (name' # 0 => dir')
<1> USE DEF TypeOK, fileVars
<1>1. CASE WriteThread(t)
  BY <1>1 DEF WriteThread, WriteOpen, WriteOpenFails, WriteReply, WriteReplyError, WriteClose,
              WriteCloseShort, OpenForWriting, OpenFails
<1>2. CASE ReadThread(t)
  BY <1>2 DEF ReadThread, ReadOpen, ReadFails, ReadFile, GetSize
<1>3. CASE CreateThread(t)
  BY <1>3 DEF CreateThread, CreateMkdir, CreateOpen, CreateOpenFails, OpenForWriting, OpenFails
<1>4. CASE DeleteThread(t)
  BY <1>4 DEF DeleteThread, DeleteRemove, DirOpen, DirFound, DirUnlink, DirStops, DirRemove,
              RemoveName
<1>5. CASE ElsewhereRun(t) \/ NamingReply(t)
  BY <1>5 DEF ElsewhereRun, NamingReply
<1> QED BY <1>1, <1>2, <1>3, <1>4, <1>5 DEF Thread

\* fopen gives a READ or WRITE its stream before it reads or flushes.
LEMMA StreamStep ==
    ASSUME TypeInv, RoomInv, NEW t \in Requests, Thread(t),
           asks[t] \in {"READ", "WRITE"}, pc'[t] \in {"opened", "flushing"}
    PROVE  handle'[t] # 0
<1>0. /\ pc \in [Requests -> Labels] /\ handle \in [Requests -> Inodes \cup {0}]
      /\ \A u \in Requests : asks[u] \in {"READ", "WRITE"} /\ pc[u] \in {"opened", "flushing"}
                              => handle[u] # 0
  BY DEF TypeInv, TypeOK
<1>1. CASE WriteOpen(t)
  BY <1>0, <1>1, RoomToOpen DEF WriteOpen, OpenForWriting, At
<1>2. CASE WriteReply(t) \/ WriteReplyError(t)
  BY <1>0, <1>2 DEF WriteReply, WriteReplyError, At
<1>3. CASE ReadOpen(t)
  BY <1>0, <1>3 DEF ReadOpen
<1>4. ~(WriteOpenFails(t) \/ Closes(t) \/ ReadFails(t) \/ ReadFile(t) \/ GetSize(t))
  BY <1>0 DEF WriteOpenFails, Closes, WriteClose, WriteCloseShort, ReadFails, ReadFile, GetSize, Goto
<1>5. ~(CreateThread(t) \/ DeleteThread(t) \/ ElsewhereRun(t) \/ NamingReply(t))
  BY <1>0 DEF CreateThread, CreateMkdir, CreateOpen, CreateOpenFails, DeleteThread, DeleteRemove,
              DirOpen, DirFound, DirUnlink, DirStops, DirRemove, ElsewhereRun, NamingReply, At,
              Goto
<1> QED BY <1>1, <1>2, <1>3, <1>4, <1>5 DEF Thread, WriteThread, ReadThread, Closes

\* A stream is the file's inode, or one made for it.
LEMMA HandleCases ==
    ASSUME NEW t \in Requests, Thread(t)
    PROVE  handle' = handle \/ handle' = [handle EXCEPT ![t] = name] \/ Opens(t)
<1>1. CASE WriteThread(t)
  BY <1>1 DEF WriteThread, WriteOpen, WriteOpenFails, WriteReply, WriteReplyError,
              WriteClose, WriteCloseShort, OpenFails, At, Opens
<1>2. CASE ReadThread(t)
  BY <1>2 DEF ReadThread, ReadOpen, ReadFails, ReadFile, GetSize
<1>3. CASE CreateThread(t)
  BY <1>3 DEF CreateThread, CreateMkdir, CreateOpen, CreateOpenFails, OpenFails, At, Opens
<1>4. CASE DeleteThread(t)
  BY <1>4 DEF DeleteThread, DeleteRemove, DirOpen, DirFound, DirUnlink, DirStops, DirRemove
<1>5. CASE ElsewhereRun(t) \/ NamingReply(t)
  BY <1>5 DEF ElsewhereRun, NamingReply
<1> QED BY <1>1, <1>2, <1>3, <1>4, <1>5 DEF Thread

\* A thread's step keeps the types.
LEMMA ThreadTypes ==
    ASSUME TypeInv, RoomInv, NEW t \in Requests, Thread(t)
    PROVE  TypeInv'
<1> USE DEF TypeInv, TypeOK, ShapeInv
<1>1. PICK l : NextLabels(t, l) /\ pc' = [pc EXCEPT ![t] = l]
  BY ThreadMoves
<1>2. UNCHANGED <<portVars, sentAfter>>
  BY ThreadMoves
<1>3. /\ pc' \in [Requests -> Labels]
      /\ pc'[t] = l /\ \A u \in Requests \ {t} : pc'[u] = pc[u]
  BY <1>1 DEF NextLabels
<1>4. /\ name' \in Inodes \cup {0} /\ made' \in Inodes
      /\ handle' \in [Requests -> Inodes \cup {0}]
      /\ DOMAIN contents' = Inodes
      /\ disturbed' \subseteq Mutators
  <2>1. CASE Opens(t)
    BY <2>1, RoomToOpen DEF Opens, OpenForWriting, Disturb
  <2>2. CASE Closes(t)
    BY <2>2 DEF Closes, WriteClose, WriteCloseShort, historyVars
  <2>3. CASE Removes(t)
    BY <2>3 DEF Removes, RemoveName, Disturb
  <2>4. CASE Quiet
    <3>1. handle' = handle \/ handle' = [handle EXCEPT ![t] = name] \/ Opens(t)
      BY HandleCases
    <3>2. CASE handle' = handle \/ handle' = [handle EXCEPT ![t] = name]
      BY <2>4, <3>2 DEF Quiet
    <3> QED BY <2>1, <3>1, <3>2
  <2> QED BY <2>1, <2>2, <2>3, <2>4, FileCases
<1>5. \A u \in Requests : asks[u] \in {"READ", "WRITE"} /\ pc'[u] \in {"opened", "flushing"}
                          => handle'[u] # 0
  BY <1>3, StreamStep, ThreadOwns
<1>6. dir' \in BOOLEAN /\ (name' # 0 => dir')
  BY DirStep
<1>7. /\ answered' \subseteq Requests /\ faults' \in 0 .. MaxFaults /\ faulted' \subseteq Requests
      /\ DOMAIN result' = Requests
      /\ \A u \in faulted' : asks[u] \in {"READ", "WRITE"}
      /\ \A u \in answered' : pc'[u] = "done" \/ asks[u] = "WRITE"
  <2>1. answered' \subseteq Requests /\ faults' \in 0 .. MaxFaults /\ faulted' \subseteq Requests
    BY ThreadAnswers, ThreadFaults
  <2>2. DOMAIN result' = Requests
    BY ThreadOwns
  <2>3. pc[t] # "done"
    BY ThreadMoves
  <2>4. ASSUME NEW u \in answered' PROVE pc'[u] = "done" \/ asks[u] = "WRITE"
    <3>1. CASE u \in answered
      BY <1>3, <2>1, <2>3, <3>1
    <3>2. CASE u \notin answered
      BY <2>4, <3>2, ThreadAnswers
    <3> QED BY <3>1, <3>2
  <2>5. \A u \in faulted' : asks[u] \in {"READ", "WRITE"}
    BY ThreadFaults
  <2> QED BY <2>1, <2>2, <2>4, <2>5
<1>8. \A u \in Requests :
          /\ pc'[u] = "flushing" => asks[u] = "WRITE"
          /\ pc'[u] = "making" => asks[u] = "CREATE"
          /\ pc'[u] \in {"listed", "scanning"} => asks[u] = "DELETEDIR"
          /\ pc'[u] = "opened" => asks[u] # "GETSIZE"
  BY <1>1, <1>3 DEF NextLabels
<1>9. TypeOK'
  BY <1>2, <1>3, <1>4, <1>5, <1>6, <1>7 DEF portVars
<1>10. ShapeInv'
  BY <1>2, <1>4, <1>7, <1>8 DEF portVars
<1> QED BY <1>9, <1>10

\* Every step keeps the types and the shapes of the request queues.
LEMMA TypeStep ==
    ASSUME FileInv, Next
    PROVE  TypeInv'
<1> USE DEF TypeInv, TypeOK, ShapeInv
<1> SUFFICES ASSUME TypeOK, ShapeInv, QueueInv, RoomInv PROVE TypeInv'
  BY DEF FileInv
<1>1. ASSUME NEW t \in Requests, CallerConnects(t) PROVE TypeInv'
  <2>1. backlog' \in [Ports -> Seq(Requests)]
    BY <1>1 DEF CallerConnects, PortOf, Ports
  <2> QED BY <1>1, <2>1 DEF CallerConnects, fileVars, faultVars, historyVars
<1>2. ASSUME NEW t \in Requests, CallerSends(t) PROVE TypeInv'
  BY <1>2 DEF CallerSends, fileVars, faultVars
<1>3. ASSUME NEW port \in Ports, Accept(port) PROVE TypeInv'
  <2>1. /\ backlog' \in [Ports -> Seq(Requests)]
        /\ listener' \in [Ports -> Requests \cup {NONE}]
    BY <1>3 DEF Accept
  <2>2. leftover' \in Nat
    BY <1>3, RequestsAssumption DEF Accept, Freed
  <2> QED BY <1>3, <2>1, <2>2 DEF Accept, fileVars, faultVars, historyVars
<1>4. ASSUME NEW port \in Ports, ReadRequest(port) PROVE TypeInv'
  <2> DEFINE t == listener[port]
  <2>1. t \in Requests /\ pc[t] = "none"
    BY <1>4 DEF ReadRequest, QueueInv
  <2>2. port = "naming" => Op[t] \in NamingOps
    BY <1>4 DEF ReadRequest, QueueInv, PortOf
  <2>3. asks' = asks \/ (Op[t] \in NamingOps /\ \E op \in NamingOps : asks' = [asks EXCEPT ![t] = op])
    BY <1>4, <2>2 DEF ReadRequest, TailAdded, NamingOps
  <2>4. /\ asks' \in [Requests -> ClientOps \cup NamingOps]
        /\ \A u \in Requests \ {t} : asks'[u] = asks[u]
        /\ \A u \in Requests : IF Op[u] \in NamingOps THEN asks'[u] \in NamingOps
                                                     ELSE asks'[u] = Op[u]
    BY <2>1, <2>3
  <2>5. /\ pc' = [pc EXCEPT ![t] = "running"] /\ pc'[t] = "running"
        /\ \A u \in Requests \ {t} : pc'[u] = pc[u]
        /\ pc' \in [Requests -> Labels]
    BY <1>4, <2>1 DEF ReadRequest, Labels
  <2>6. listener' \in [Ports -> Requests \cup {NONE}]
    BY <1>4 DEF ReadRequest
  <2>7. asks'[t] # asks[t] => asks[t] \in NamingOps
    BY <2>1, <2>3
  <2>8. \A u \in answered : pc'[u] = "done" \/ asks'[u] = "WRITE"
    <3> TAKE u \in answered
    <3>1. CASE u = t
      BY <2>1, <2>7, <3>1 DEF NamingOps
    <3>2. CASE u # t
      BY <2>4, <2>5, <3>2
    <3> QED BY <3>1, <3>2
  <2>9. \A u \in faulted : asks'[u] \in {"READ", "WRITE"}
    BY <2>4, <2>7 DEF NamingOps
  <2>10. /\ UNCHANGED <<conn, backlog, leftover, fileVars, faultVars, historyVars, handle, result,
                       answered>>
    BY <1>4 DEF ReadRequest
  <2> HIDE DEF t
  <2>11. TypeOK'
    BY <2>4, <2>5, <2>6, <2>10 DEF fileVars, faultVars, historyVars
  <2>12. \A u \in Requests :
             /\ pc'[u] = "flushing" => asks'[u] = "WRITE"
             /\ pc'[u] = "making" => asks'[u] = "CREATE"
             /\ pc'[u] \in {"listed", "scanning"} => asks'[u] = "DELETEDIR"
             /\ pc'[u] = "opened" => asks'[u] # "GETSIZE"
    BY <2>4, <2>5
  <2>13. ShapeInv'
    BY <2>4, <2>8, <2>9, <2>10, <2>12 DEF fileVars, faultVars, historyVars
  <2> QED BY <2>11, <2>13
<1>5. ASSUME NEW t \in Requests, Thread(t) PROVE TypeInv'
  BY <1>5, ThreadTypes
<1> QED BY <1>1, <1>2, <1>3, <1>4, <1>5 DEF Next, Listener

----------------------------------------------------------------------------
(* The listeners *)

\* Each request's thread is started once: connect puts it into one queue, accept
\* moves it to the listener's hand, and the listener lets go of it.
LEMMA QueueStep ==
    ASSUME FileInv, Next
    PROVE  QueueInv'
<1> USE DEF QueueInv
<1> SUFFICES ASSUME TypeInv, QueueInv PROVE QueueInv'
  BY DEF FileInv
<1>0. \A port \in Ports : backlog[port] \in Seq(Requests)
  BY DEF TypeInv, TypeOK
<1>1. ASSUME NEW t \in Requests, CallerConnects(t) PROVE QueueInv'
  <2>1. /\ conn[t] = "none" /\ pc' = pc /\ listener' = listener
        /\ conn' = [conn EXCEPT ![t] = "connected"]
        /\ conn \in [Requests -> {"none", "connected", "sent"}]
        /\ listener \in [Ports -> Requests \cup {NONE}]
        /\ PortOf(t) \in Ports
        /\ pc[t] = "none"
    BY <1>1 DEF CallerConnects, TypeInv, TypeOK, PortOf, Ports
  <2>2. /\ Len(backlog'[PortOf(t)]) = Len(backlog[PortOf(t)]) + 1
        /\ backlog'[PortOf(t)][Len(backlog[PortOf(t)]) + 1] = t
        /\ \A i \in 1 .. Len(backlog[PortOf(t)]) :
               backlog'[PortOf(t)][i] = backlog[PortOf(t)][i]
        /\ \A port \in Ports \ {PortOf(t)} : backlog'[port] = backlog[port]
        /\ Len(backlog[PortOf(t)]) \in Nat
    BY <1>0, <1>1, <2>1 DEF CallerConnects, TypeInv, TypeOK
  <2>3. \A port \in Ports : \A i \in 1 .. Len(backlog[port]) :
            backlog[port][i] \in Requests /\ backlog[port][i] # t
    BY <1>0, <2>1
  <2>4. \A port \in Ports : listener[port] # t
    BY <2>1, RequestsAssumption
  <2>5. ASSUME NEW port \in Ports, NEW i \in 1 .. Len(backlog'[port])
        PROVE  LET u == backlog'[port][i] IN
               /\ PortOf(u) = port /\ conn'[u] # "none" /\ pc'[u] = "none"
               /\ listener'[port] # u
               /\ \A j \in 1 .. Len(backlog'[port]) : backlog'[port][j] = u => j = i
    <3>1. CASE port # PortOf(t)
      BY <2>1, <2>2, <2>3, <3>1
    <3>2. CASE port = PortOf(t) /\ i = Len(backlog[port]) + 1
      BY <2>1, <2>2, <2>3, <2>4, <3>2
    <3>3. CASE port = PortOf(t) /\ i # Len(backlog[port]) + 1
      <4>1. i \in 1 .. Len(backlog[port])
        BY <2>2, <3>3
      <4> DEFINE u == backlog[port][i]
      <4>2. backlog'[port][i] = u /\ u \in Requests /\ u # t
        BY <2>2, <2>3, <3>3, <4>1
      <4>3. PortOf(u) = port /\ conn'[u] # "none" /\ pc'[u] = "none" /\ listener'[port] # u
        BY <2>1, <2>2, <4>1, <4>2
      <4>4. \A j \in 1 .. Len(backlog'[port]) : backlog'[port][j] = u => j = i
        <5>1. \A j \in 1 .. Len(backlog[port]) : backlog[port][j] = u => j = i
          BY <4>1
        <5>2. \A j \in 1 .. Len(backlog'[port]) :
                  j \in 1 .. Len(backlog[port]) \/ j = Len(backlog[port]) + 1
          BY <2>2, <3>3
        <5> QED BY <2>2, <3>3, <4>2, <5>1, <5>2
      <4> QED BY <4>2, <4>3, <4>4
    <3> QED BY <3>1, <3>2, <3>3
  <2>6. \A u \in Requests : pc[u] # "none" => u # t
    BY <2>1
  <2> QED BY <2>1, <2>4, <2>5, <2>6 DEF PortOf
<1>2. ASSUME NEW t \in Requests, CallerSends(t) PROVE QueueInv'
  BY <1>0, <1>2 DEF CallerSends, TypeInv, TypeOK, PortOf
<1>3. ASSUME NEW port \in Ports, Accept(port) PROVE QueueInv'
  <2>1. /\ backlog[port] \in Seq(Requests) /\ backlog[port] # <<>>
        /\ pc' = pc /\ conn' = conn
        /\ backlog' = [backlog EXCEPT ![port] = Tail(@)]
        /\ listener' = [listener EXCEPT ![port] = backlog[port][1]]
        /\ backlog \in [Ports -> Seq(Requests)]
        /\ listener \in [Ports -> Requests \cup {NONE}]
    BY <1>3 DEF Accept, TypeInv, TypeOK
  <2>2. /\ Len(backlog'[port]) = Len(backlog[port]) - 1
        /\ Len(backlog[port]) \in Nat \ {0}
        /\ \A i \in 1 .. Len(backlog[port]) - 1 : backlog'[port][i] = backlog[port][i + 1]
    BY <2>1
  <2>3. ASSUME NEW i \in 1 .. Len(backlog'[port])
        PROVE  LET u == backlog'[port][i] IN
               /\ PortOf(u) = port /\ conn'[u] # "none" /\ pc'[u] = "none"
               /\ listener'[port] # u
               /\ \A j \in 1 .. Len(backlog'[port]) : backlog'[port][j] = u => j = i
    <3>1. /\ i + 1 \in 1 .. Len(backlog[port]) /\ 1 \in 1 .. Len(backlog[port])
          /\ i + 1 # 1
      BY <2>2
    <3>3. backlog'[port][i] = backlog[port][i + 1]
      BY <2>2
    <3>4. /\ PortOf(backlog[port][i + 1]) = port
          /\ conn[backlog[port][i + 1]] # "none" /\ pc[backlog[port][i + 1]] = "none"
          /\ \A j \in 1 .. Len(backlog[port]) : backlog[port][j] = backlog[port][i + 1] => j = i + 1
      BY <3>1
    <3>5. listener'[port] # backlog'[port][i]
      BY <2>1, <3>1, <3>3, <3>4
    <3>6. ASSUME NEW j \in 1 .. Len(backlog'[port]), backlog'[port][j] = backlog'[port][i]
          PROVE  j = i
      <4>1. backlog'[port][j] = backlog[port][j + 1] /\ j + 1 \in 1 .. Len(backlog[port])
        BY <2>2
      <4>2. j + 1 = i + 1
        BY <3>3, <3>4, <3>6, <4>1
      <4> QED BY <2>2, <4>2
    <3> QED BY <2>1, <3>3, <3>4, <3>5, <3>6
  <2>4. \A other \in Ports \ {port} :
            backlog'[other] = backlog[other] /\ listener'[other] = listener[other]
    BY <2>1
  <2>5. /\ PortOf(listener'[port]) = port
        /\ conn'[listener'[port]] # "none" /\ pc'[listener'[port]] = "none"
    BY <2>1, <2>2
  <2> QED BY <2>1, <2>3, <2>4, <2>5 DEF PortOf
<1>4. ASSUME NEW port \in Ports, ReadRequest(port) PROVE QueueInv'
  <2>1. /\ listener[port] \in Requests /\ conn[listener[port]] = "sent"
        /\ PortOf(listener[port]) = port
        /\ pc' = [pc EXCEPT ![listener[port]] = "running"]
        /\ listener' = [listener EXCEPT ![port] = NONE]
        /\ conn' = conn /\ backlog' = backlog
        /\ listener \in [Ports -> Requests \cup {NONE}]
        /\ pc \in [Requests -> Labels]
    BY <1>4 DEF ReadRequest, TypeInv, TypeOK
  <2>2. \A other \in Ports : \A i \in 1 .. Len(backlog[other]) :
            /\ backlog[other][i] \in Requests
            /\ backlog[other][i] # listener[port]
    BY <1>0, <2>1
  <2>3. \A other \in Ports \ {port} : listener[other] # listener[port]
    BY <2>1, RequestsAssumption
  <2> QED BY <2>1, <2>2, <2>3, RequestsAssumption DEF PortOf
<1>5. ASSUME NEW t \in Requests, Thread(t) PROVE QueueInv'
  <2>1. PICK l : NextLabels(t, l) /\ pc' = [pc EXCEPT ![t] = l]
    BY <1>5, ThreadMoves
  <2>2. UNCHANGED portVars /\ pc[t] # "none"
    BY <1>5, ThreadMoves
  <2>3. pc \in [Requests -> Labels]
    BY DEF TypeInv, TypeOK
  <2>4. \A u : pc[u] = "none" => u # t
    BY <2>2
  <2>5. /\ \A port \in Ports : \A i \in 1 .. Len(backlog[port]) :
               backlog[port][i] \in Requests /\ pc'[backlog[port][i]] = "none"
        /\ \A port \in Ports : listener[port] # NONE => pc'[listener[port]] = "none"
    BY <1>0, <2>1, <2>3, <2>4 DEF TypeInv, TypeOK
  <2> QED BY <2>1, <2>2, <2>3, <2>5 DEF portVars, PortOf
<1> QED BY <1>1, <1>2, <1>3, <1>4, <1>5 DEF Next, Listener

----------------------------------------------------------------------------
(* Inodes *)

\* A mutator's fopen may make an inode, and counts itself; no thread leaves the
\* number of those that have touched the file smaller.
LEMMA RoomStep ==
    ASSUME FileInv, Next
    PROVE  RoomInv'
<1> SUFFICES ASSUME TypeInv, QueueInv, RoomInv PROVE RoomInv'
  BY DEF FileInv
<1>0. made \in Nat /\ pc \in [Requests -> Labels]
  BY DEF TypeInv, TypeOK, Inodes
<1>1. ASSUME made' = made, Begun' = Begun PROVE RoomInv'
  BY <1>1 DEF RoomInv
<1>2. ASSUME NEW t \in Requests, CallerConnects(t) \/ CallerSends(t) PROVE RoomInv'
  BY <1>1, <1>2 DEF CallerConnects, CallerSends, fileVars, Begun
<1>3. ASSUME NEW port \in Ports, Listener(port) PROVE RoomInv'
  <2>1. CASE Accept(port)
    BY <1>1, <2>1 DEF Accept, fileVars, Begun
  <2>2. CASE ReadRequest(port)
    <3>1. pc[listener[port]] = "none" /\ pc' = [pc EXCEPT ![listener[port]] = "running"]
      BY <2>2 DEF ReadRequest, QueueInv
    <3>2. Begun' = Begun
      BY <1>0, <3>1 DEF Begun, Touched
    <3> QED BY <1>1, <2>2, <3>2 DEF ReadRequest, fileVars
  <2> QED BY <1>3, <2>1, <2>2 DEF Listener
<1>4. ASSUME NEW t \in Requests, Thread(t) PROVE RoomInv'
  <2>1. PICK l : NextLabels(t, l) /\ pc' = [pc EXCEPT ![t] = l]
    BY <1>4, ThreadMoves
  <2>2. /\ Begun' = IF l \in Touched THEN Begun \cup {t} ELSE Begun
        /\ t \in Begun => l \in Touched
    BY <1>0, <2>1 DEF Begun, NextLabels
  <2>3. /\ Cardinality(Begun \cup {t}) = IF t \in Begun THEN Cardinality(Begun)
                                                    ELSE Cardinality(Begun) + 1
        /\ Cardinality(Begun) \in Nat
    BY BegunBound, FS_AddElement
  <2>4. made' = made \/ (made' = made + 1 /\ t \notin Begun /\ l \in Touched)
    <3>1. CASE Opens(t)
      <4>1. pc'[t] = "opened" /\ t \notin Begun
        BY <1>0, <3>1 DEF Opens, Goto, Begun, Touched
      <4> QED BY <1>0, <2>1, <3>1, <4>1 DEF Opens, OpenForWriting, Touched
    <3>2. CASE Closes(t) \/ Removes(t) \/ Quiet
      BY <3>2 DEF Closes, WriteClose, WriteCloseShort, Removes, RemoveName, Quiet
    <3> QED BY <1>4, <3>1, <3>2, FileCases
  <2> QED BY <1>0, <2>2, <2>3, <2>4 DEF RoomInv
<1> QED BY <1>2, <1>3, <1>4 DEF Next

----------------------------------------------------------------------------
(* Lengthened paths *)

\* The bytes behind a request are the tail of one that has ended and was longer.
LEMMA TailStep ==
    ASSUME FileInv, Next
    PROVE  TailInv'
<1> SUFFICES ASSUME TypeInv, QueueInv, TailInv PROVE TailInv'
  BY DEF FileInv
<1>0. pc \in [Requests -> Labels] /\ listener \in [Ports -> Requests \cup {NONE}]
  BY DEF TypeInv, TypeOK
<1>1. ASSUME UNCHANGED <<leftover, asks>>, Freed \subseteq Freed' PROVE TailInv'
  BY <1>1 DEF TailInv
<1>2. ASSUME NEW t \in Requests, CallerConnects(t) \/ CallerSends(t) PROVE TailInv'
  BY <1>1, <1>2 DEF CallerConnects, CallerSends, Freed
<1>3. ASSUME NEW port \in Ports, Accept(port) PROVE TailInv'
  <2>1. /\ leftover' = leftover \/ leftover' \in {0} \cup {Size[u] : u \in Freed}
        /\ UNCHANGED <<asks, pc>>
    BY <1>3 DEF Accept
  <2>2. Freed' = Freed
    BY <2>1 DEF Freed
  <2> QED BY <2>1, <2>2 DEF TailInv
<1>4. ASSUME NEW port \in Ports, ReadRequest(port) PROVE TailInv'
  <2> DEFINE t == listener[port]
  <2>1. /\ t \in Requests /\ pc[t] = "none" /\ pc' = [pc EXCEPT ![t] = "running"]
        /\ UNCHANGED leftover
        /\ \/ asks' = asks
           \/ Size[t] < leftover /\ \E op : asks' = [asks EXCEPT ![t] = op]
    BY <1>0, <1>4 DEF ReadRequest, QueueInv
  <2> HIDE DEF t
  <2>2. Freed \subseteq Freed'
    BY <1>0, <2>1 DEF Freed
  <2>3. CASE asks' = asks
    BY <1>1, <2>1, <2>2, <2>3
  <2>4. CASE Size[t] < leftover /\ \E op : asks' = [asks EXCEPT ![t] = op]
    <3>1. asks \in [Requests -> ClientOps \cup NamingOps]
      BY DEF TypeInv, TypeOK
    <3>2. \A u \in Requests : u # t => asks'[u] = asks[u]
      BY <2>4, <3>1
    <3>3. \E u \in Freed : Size[u] > Size[t]
      <4>1. Size[t] \in Nat /\ leftover \in Nat
        BY <2>1, RequestsAssumption DEF TypeInv, TypeOK
      <4> QED BY <2>4, <4>1 DEF TailInv
    <3> QED BY <2>1, <2>2, <3>2, <3>3 DEF TailInv
  <2> QED BY <2>1, <2>3, <2>4
<1>5. ASSUME NEW t \in Requests, Thread(t) PROVE TailInv'
  <2>1. /\ UNCHANGED <<leftover, asks>> /\ pc[t] # "done"
        /\ \E l : pc' = [pc EXCEPT ![t] = l]
    BY <1>5, ThreadMoves DEF portVars
  <2>2. Freed \subseteq Freed'
    BY <1>0, <2>1 DEF Freed
  <2> QED BY <1>1, <2>1, <2>2
<1> QED BY <1>2, <1>3, <1>4, <1>5 DEF Next, Listener

----------------------------------------------------------------------------
(* Who decides the file *)

\* Opening or removing the file disturbs every other mutator that has touched it.
LEMMA DisturbOthers ==
    ASSUME TypeInv, NEW t \in Requests, Disturb(t)
    PROVE  /\ disturbed \subseteq disturbed'
           /\ \A w \in Mutators \ {t} : pc[w] \in Touched => w \in disturbed'
           /\ t \in Mutators \ disturbed' =>
                  \A u \in Writers \ {t} : pc[u] \notin {"opened", "flushing"}
BY DEF Disturb, TypeInv, TypeOK, Touched, Mutators, Writers

\* What a thread finds in its request is what its port serves.
LEMMA Asking ==
    ASSUME TypeInv, NEW w \in Requests
    PROVE  /\ asks[w] = "WRITE" <=> w \in Writers
           /\ asks[w] \in {"WRITE"} \cup NamingOps <=> w \in Mutators
           /\ asks[w] \in {"READ", "GETSIZE"} <=> w \in Observers
           /\ w \in Writers \cup Observers => asks[w] = Op[w]
BY RequestsAssumption DEF TypeInv, ShapeInv, Writers, Mutators, Observers, NamingOps, ClientOps

\* The ways a decider goes on without touching the file: WRITE's answer, and that
\* of CREATE.
LEMMA QuietDecider ==
    ASSUME TypeInv, NEW t \in Requests, Thread(t), ~Opens(t), ~Closes(t), t \in Deciders'
    PROVE  WriteReply(t) \/ NamingReply(t)
<1>0. DOMAIN result = Requests /\ pc \in [Requests -> Labels] /\ asks' = asks
  BY ThreadMoves DEF TypeInv, TypeOK, ShapeInv, portVars
<1>1. asks[t] \in {"WRITE", "CREATE"} /\ pc'[t] \in Touched /\ result'[t] # <<FAILED>>
  BY <1>0 DEF Deciders, Refused
<1>2. ~SayFailed(t)
  BY <1>0, <1>1 DEF SayFailed
<1>3. ~(WriteOpenFails(t) \/ WriteReplyError(t) \/ CreateOpenFails(t))
  BY <1>2 DEF WriteOpenFails, WriteReplyError, CreateOpenFails
<1>4. ~(WriteOpen(t) \/ CreateOpen(t) \/ WriteClose(t) \/ WriteCloseShort(t))
  BY DEF WriteOpen, CreateOpen, At, Opens, Closes
<1>5. ~(CreateMkdir(t) \/ ReadThread(t) \/ DeleteThread(t) \/ ElsewhereRun(t))
  <2>1. ~CreateMkdir(t)
    BY <1>0, <1>1 DEF CreateMkdir, Goto, Touched
  <2>2. ~(ReadThread(t) \/ DeleteThread(t) \/ ElsewhereRun(t))
    BY <1>1 DEF ReadThread, ReadOpen, ReadFails, ReadFile, GetSize, DeleteThread, DeleteRemove,
                DirOpen, DirFound, DirUnlink, DirStops, DirRemove, ElsewhereRun, At
  <2> QED BY <2>1, <2>2
<1> QED BY <1>3, <1>4, <1>5 DEF Thread, WriteThread, CreateThread

\* The steps of a WRITE.
LEMMA WriterSteps ==
    ASSUME TypeInv, NEW t \in Writers, Thread(t)
    PROVE  WriteThread(t)
<1>0. t \in Requests /\ asks[t] = "WRITE" /\ Op[t] = "WRITE"
  BY Asking DEF Writers
<1>1. ~(ReadThread(t) \/ CreateThread(t))
  BY <1>0 DEF ReadThread, ReadOpen, ReadFails, ReadFile, GetSize, CreateThread, CreateMkdir,
              CreateOpen, CreateOpenFails, At
<1>2. ~(DeleteThread(t) \/ ElsewhereRun(t) \/ NamingReply(t))
  BY <1>0 DEF DeleteThread, DeleteRemove, DirOpen, DirFound, DirUnlink, DirStops, DirRemove,
              ElsewhereRun, NamingReply, At, NamingOps
<1> QED BY <1>1, <1>2 DEF Thread

\* A WRITE opens a stream only by OpenForWriting.
LEMMA WriterOpens ==
    ASSUME TypeInv, NEW t \in Writers, Thread(t), ~Opens(t), pc'[t] \in {"opened", "flushing"}
    PROVE  pc[t] \in {"opened", "flushing"}
<1>0. t \in Requests /\ asks[t] = "WRITE" /\ pc \in [Requests -> Labels]
  BY Asking DEF TypeInv, TypeOK, Writers
<1> QED BY <1>0, WriterSteps DEF WriteThread, WriteOpen, WriteOpenFails, WriteReply,
           WriteReplyError, WriteClose, WriteCloseShort, At, Goto, Opens

\* A step that leaves the file alone leaves it to those who decided it.
LEMMA QuietStep ==
    ASSUME TypeInv, DeciderInv, NEW t \in Requests, Thread(t), Quiet, ~Opens(t), ~Closes(t)
    PROVE  DeciderInv'
<1>0. /\ pc \in [Requests -> Labels] /\ handle \in [Requests -> Inodes \cup {0}]
      /\ DOMAIN result = Requests
  BY DEF TypeInv, TypeOK, ShapeInv
<1>1. PICK l : NextLabels(t, l) /\ pc' = [pc EXCEPT ![t] = l]
  BY ThreadMoves
<1>2. UNCHANGED <<asks, name, contents, disturbed>> /\ faulted \subseteq faulted'
  BY ThreadMoves, ThreadFaults DEF portVars, Quiet
<1>3. \A u \in Requests \ {t} :
          pc'[u] = pc[u] /\ handle'[u] = handle[u] /\ result'[u] = result[u]
  BY <1>0, <1>1, ThreadOwns
<1>4. \A u \in Writers : pc'[u] \in {"opened", "flushing"} => pc[u] \in {"opened", "flushing"}
  BY <1>3, WriterOpens DEF Writers
<1>5. ASSUME NEW w \in Deciders', w # t
      PROVE  w \in Deciders /\ Leaves(w)' = Leaves(w) /\ pc'[w] = pc[w] /\ handle'[w] = handle[w]
  BY <1>2, <1>3, <1>5 DEF Deciders, Refused, Leaves
<1>6. ASSUME t \in Deciders'
      PROVE  /\ t \in Deciders /\ Leaves(t)' = Leaves(t) /\ handle'[t] = handle[t]
             /\ pc'[t] # "done" => pc[t] # "done"
  <2>1. WriteReply(t) \/ NamingReply(t)
    BY <1>6, QuietDecider
  <2>2. pc[t] = "opened" /\ UNCHANGED <<handle, result, faulted>>
    BY <2>1 DEF WriteReply, NamingReply, At, faultVars
  <2>3. t \in Deciders
    BY <1>2, <1>6, <2>2 DEF Deciders, Refused, Touched
  <2>4. Op[t] = "WRITE" => pc'[t] = "flushing"
    BY <1>0, <2>1 DEF WriteReply, NamingReply, Goto, NamingOps
  <2> QED BY <2>2, <2>3, <2>4 DEF Leaves
<1> QED BY <1>2, <1>4, <1>5, <1>6 DEF DeciderInv

\* Who opens the file for writing is the only one who decides it from then on.
LEMMA OpensStep ==
    ASSUME TypeInv, RoomInv, NEW t \in Requests, Thread(t), Opens(t)
    PROVE  DeciderInv'
<1>0. /\ pc \in [Requests -> Labels] /\ handle \in [Requests -> Inodes \cup {0}]
      /\ DOMAIN contents = Inodes /\ name \in Inodes \cup {0} /\ asks' = asks
      /\ Disturb(t) /\ pc' = [pc EXCEPT ![t] = "opened"]
  BY ThreadMoves DEF TypeInv, TypeOK, ShapeInv, portVars, Opens, OpenForWriting, Goto
<1>1. ASSUME NEW w \in Deciders', w # t PROVE FALSE
  <2>1. w \in Requests /\ asks[w] \in {"WRITE", "CREATE"} /\ w \notin disturbed' /\ pc[w] \in Touched
    BY <1>0, <1>1 DEF Deciders
  <2>2. w \in Mutators
    BY <2>1, Asking DEF NamingOps
  <2> QED BY <1>0, <1>1, <2>1, <2>2, DisturbOthers
<1>2. ASSUME t \in Deciders'
      PROVE  \A u \in Writers \ {t} : pc'[u] \notin {"opened", "flushing"}
  <2>1. t \in Mutators \ disturbed'
    BY <1>2, Asking DEF Opens, NamingOps, Deciders
  <2> QED BY <1>0, <2>1, DisturbOthers DEF Writers
<1>3. name' \in Inodes /\ name' # 0 /\ contents'[name'] = <<>> /\ handle'[t] = name'
  BY <1>0, RoomToOpen DEF Opens, OpenForWriting
<1>4. pc'[t] = "opened"
  BY <1>0
<1> QED BY <1>1, <1>2, <1>3, <1>4 DEF DeciderInv, Leaves

\* fclose of a WRITE puts its bytes there if it decides the file, and can disturb
\* no other decider.
LEMMA ClosesStep ==
    ASSUME TypeInv, DeciderInv, NEW t \in Requests, Thread(t), Closes(t)
    PROVE  DeciderInv'
<1>0. /\ pc \in [Requests -> Labels] /\ handle \in [Requests -> Inodes \cup {0}]
      /\ DOMAIN contents = Inodes /\ name \in Inodes \cup {0} /\ asks' = asks
  BY ThreadMoves DEF TypeInv, TypeOK, ShapeInv, portVars
<1>1. /\ pc[t] = "flushing" /\ t \in Writers /\ asks[t] = "WRITE" /\ Op[t] = "WRITE"
      /\ pc' = [pc EXCEPT ![t] = "done"]
      /\ UNCHANGED <<name, disturbed, handle, result>> /\ faulted \subseteq faulted'
  BY Asking DEF Closes, WriteClose, WriteCloseShort, At, Goto, Writers, historyVars, faultVars,
                FaultIn
<1>2. Deciders' \subseteq Deciders
  BY <1>0, <1>1 DEF Deciders, Touched, Refused
<1>3. Deciders' \subseteq {t}
  BY <1>1, <1>2 DEF DeciderInv
<1>4. pc'[t] = "done" /\ \A u \in Requests \ {t} : pc'[u] = pc[u]
  BY <1>0, <1>1
<1>5. ASSUME t \in Deciders' PROVE name' # 0 /\ contents'[name'] = Payload[t]
  <2>1. WriteClose(t)
    <3>1. t \notin faulted' /\ ~Refused(t)
      BY <1>1, <1>5 DEF Deciders, Refused
    <3>2. ~WriteCloseShort(t)
      BY <3>1 DEF WriteCloseShort, FaultIn
    <3> QED BY <3>2 DEF Closes
  <2>2. name # 0 /\ contents[name] = <<>> /\ handle[t] = name
    BY <1>1, <1>2, <1>5 DEF DeciderInv, Leaves
  <2>3. contents'[name] = Overlay(Payload[t], <<>>)
    BY <1>0, <2>1, <2>2 DEF WriteClose
  <2> QED BY <1>1, <2>2, <2>3, OverlayEmpty
<1>6. \A u \in Writers \ {t} : t \in Deciders' => pc'[u] \notin {"opened", "flushing"}
  BY <1>2, <1>4 DEF DeciderInv, Writers
<1> QED BY <1>1, <1>3, <1>4, <1>5, <1>6 DEF DeciderInv, Leaves

\* remove and unlink of the file leave it to nobody.
LEMMA RemovesStep ==
    ASSUME TypeInv, NEW t \in Requests, Thread(t), Removes(t)
    PROVE  DeciderInv'
<1>0. pc \in [Requests -> Labels]
  BY DEF TypeInv, TypeOK
<1>1. Disturb(t) /\ asks' = asks /\ asks[t] \notin {"WRITE", "CREATE"}
  BY ThreadMoves DEF Removes, RemoveName, portVars
<1>2. ASSUME NEW w \in Deciders' PROVE FALSE
  <2>1. w \in Requests /\ asks[w] \in {"WRITE", "CREATE"} /\ w \notin disturbed' /\ w # t
    BY <1>1 DEF Deciders
  <2>2. w \in Mutators
    BY <2>1, Asking DEF NamingOps
  <2>3. pc[w] \in Touched
    <3>1. \E l : pc' = [pc EXCEPT ![t] = l]
      BY ThreadMoves
    <3>2. pc'[w] = pc[w]
      BY <1>0, <2>1, <3>1
    <3> QED BY <3>2 DEF Deciders
  <2> QED BY <1>1, <2>1, <2>2, <2>3, DisturbOthers
<1> QED BY <1>2 DEF DeciderInv

\* An undisturbed WRITE or CREATE keeps its inode and its bytes, whatever other
\* threads do.
LEMMA DeciderStep ==
    ASSUME FileInv, Next
    PROVE  DeciderInv'
<1> SUFFICES ASSUME TypeInv, QueueInv, RoomInv, DeciderInv PROVE DeciderInv'
  BY DEF FileInv
<1>0. pc \in [Requests -> Labels] /\ asks \in [Requests -> ClientOps \cup NamingOps]
  BY DEF TypeInv, TypeOK
<1>1. ASSUME UNCHANGED <<pc, asks, faulted, disturbed, result, fileVars, handle>> PROVE DeciderInv'
  BY <1>1 DEF DeciderInv, Deciders, Refused, Leaves, fileVars
<1>2. ASSUME NEW t \in Requests, CallerConnects(t) \/ CallerSends(t) PROVE DeciderInv'
  BY <1>1, <1>2 DEF CallerConnects, CallerSends, historyVars, faultVars
<1>3. ASSUME NEW port \in Ports, Accept(port) PROVE DeciderInv'
  BY <1>1, <1>3 DEF Accept, historyVars, faultVars
<1>4. ASSUME NEW port \in Ports, ReadRequest(port) PROVE DeciderInv'
  <2> DEFINE t == listener[port]
  <2>1. /\ pc[t] = "none" /\ pc' = [pc EXCEPT ![t] = "running"]
        /\ asks' = asks \/ \E op : asks' = [asks EXCEPT ![t] = op]
        /\ UNCHANGED <<faulted, disturbed, result, name, contents, handle>>
    BY <1>4 DEF ReadRequest, QueueInv, historyVars, faultVars, fileVars
  <2> HIDE DEF t
  <2>2. \A u \in Requests : pc'[u] \in Touched => pc'[u] = pc[u] /\ asks'[u] = asks[u]
    BY <1>0, <2>1 DEF Touched
  <2>3. Deciders' \subseteq Deciders /\ \A w \in Deciders' : pc'[w] = pc[w]
    BY <2>1, <2>2 DEF Deciders, Refused
  <2>4. \A u \in Writers : pc'[u] \in {"opened", "flushing"} => pc[u] \in {"opened", "flushing"}
    BY <2>2 DEF Touched, Writers
  <2> QED BY <2>1, <2>3, <2>4 DEF DeciderInv, Leaves
<1>5. ASSUME NEW t \in Requests, Thread(t) PROVE DeciderInv'
  BY <1>5, OpensStep, ClosesStep, RemovesStep, QuietStep, FileCases
<1> QED BY <1>2, <1>3, <1>4, <1>5 DEF Next, Listener

----------------------------------------------------------------------------
(* What readers see *)

\* A WRITE that ended before a request was sent, undisturbed since, decides the
\* file when that request is served.
LEMMA EndedDecides ==
    ASSUME FileInv, NEW r \in Requests, NEW w \in Writers \cap sentAfter[r],
           w \notin disturbed \cup faulted, ~Refused(w)
    PROVE  name # 0 /\ contents[name] = Payload[w]
<1>1. w \in Requests /\ pc[w] = "done" /\ asks[w] = "WRITE" /\ Op[w] = "WRITE"
  BY Asking DEF FileInv, SeenInv, Writers
<1>2. w \in Deciders
  BY <1>1 DEF Deciders, Touched
<1> QED BY <1>1, <1>2 DEF FileInv, DeciderInv, Leaves

\* Only a mutator's fopen or remove changes the name, and it disturbs every WRITE
\* that has ended.
LEMMA NameStays ==
    ASSUME TypeInv, NEW t \in Requests, Thread(t),
           NEW w \in Writers, pc[w] = "done", w \notin disturbed'
    PROVE  name' = name /\ w \notin disturbed
<1>1. w # t
  BY ThreadMoves
<1>2. ~Disturb(t)
  BY <1>1, DisturbOthers DEF Writers, Mutators, Touched
<1>3. ~Opens(t) /\ ~Removes(t)
  BY <1>2 DEF Opens, OpenForWriting, Removes, RemoveName
<1> QED BY <1>3, FileCases DEF Quiet, Closes, WriteClose, WriteCloseShort, historyVars

\* The steps of a READ or GETSIZE: fopen takes the file's inode, and the answer
\* is what is read, or says that it failed.
LEMMA ObserverSteps ==
    ASSUME TypeInv, NEW r \in Observers, Thread(r)
    PROVE  ReadThread(r) /\ r \in Requests /\ Op[r] = asks[r] /\ asks[r] \in {"READ", "GETSIZE"}
<1>1. r \in Requests /\ asks[r] \in {"READ", "GETSIZE"} /\ Op[r] = asks[r]
  BY Asking DEF Observers
<1>2. ~(WriteThread(r) \/ CreateThread(r))
  BY <1>1 DEF WriteThread, WriteOpen, WriteOpenFails, WriteReply, WriteReplyError, WriteClose,
              WriteCloseShort, CreateThread, CreateMkdir, CreateOpen, CreateOpenFails, At
<1>3. ~(DeleteThread(r) \/ ElsewhereRun(r) \/ NamingReply(r))
  BY <1>1 DEF DeleteThread, DeleteRemove, DirOpen, DirFound, DirUnlink, DirStops, DirRemove,
              ElsewhereRun, NamingReply, At, NamingOps
<1> QED BY <1>1, <1>2, <1>3 DEF Thread

LEMMA ObserverOpens ==
    ASSUME TypeInv, NEW r \in Observers, Thread(r), pc'[r] = "opened"
    PROVE  handle'[r] = name
<1>0. pc \in [Requests -> Labels] /\ handle \in [Requests -> Inodes \cup {0}] /\ r \in Requests
  BY DEF TypeInv, TypeOK, Observers
<1>1. ReadOpen(r)
  BY <1>0, ObserverSteps DEF ReadThread, ReadFails, ReadFile, GetSize, Goto
<1> QED BY <1>0, <1>1 DEF ReadOpen

\* An observer sent after an undisturbed WRITE ended keeps that WRITE's inode open.
LEMMA SeenStep ==
    ASSUME FileInv, Next
    PROVE  SeenInv'
<1> SUFFICES ASSUME TypeInv, QueueInv, SeenInv PROVE SeenInv'
  BY DEF FileInv
<1>0. /\ pc \in [Requests -> Labels]
      /\ conn \in [Requests -> {"none", "connected", "sent"}]
      /\ handle \in [Requests -> Inodes \cup {0}]
      /\ sentAfter \in [Requests -> SUBSET Requests]
  BY DEF TypeInv, TypeOK, ShapeInv
<1>1. ASSUME NEW t \in Requests, CallerConnects(t) PROVE SeenInv'
  BY <1>0, <1>1 DEF CallerConnects, SeenInv, fileVars, historyVars
<1>2. ASSUME NEW t \in Requests, CallerSends(t) PROVE SeenInv'
  <2>1. pc[t] # "opened"
    BY <1>2 DEF CallerSends, QueueInv
  <2> QED BY <1>0, <1>2, <2>1 DEF CallerSends, SeenInv, fileVars
<1>3. ASSUME NEW port \in Ports, Accept(port) PROVE SeenInv'
  BY <1>3 DEF Accept, SeenInv, fileVars, historyVars
<1>4. ASSUME NEW port \in Ports, ReadRequest(port) PROVE SeenInv'
  <2>1. /\ pc[listener[port]] = "none" /\ pc' = [pc EXCEPT ![listener[port]] = "running"]
        /\ UNCHANGED <<conn, handle, fileVars, historyVars>>
    BY <1>4 DEF ReadRequest, QueueInv
  <2>2. \A u \in Requests : /\ pc[u] = "done" => pc'[u] = "done"
                            /\ pc'[u] = "opened" => pc[u] = "opened"
    BY <1>0, <2>1
  <2> QED BY <1>0, <2>1, <2>2 DEF SeenInv, fileVars, historyVars, Observers
<1>5. ASSUME NEW t \in Requests, Thread(t) PROVE SeenInv'
  <2>1. conn' = conn /\ sentAfter' = sentAfter /\ pc[t] # "done"
    BY <1>5, ThreadMoves DEF portVars
  <2>2. \A u \in Requests \ {t} : pc'[u] = pc[u]
    BY <1>0, <1>5, ThreadMoves
  <2>3. \A r \in Requests : \A w \in sentAfter[r] : pc[w] = "done" /\ pc'[w] = "done"
    BY <1>0, <2>1, <2>2 DEF SeenInv
  <2>4. ASSUME NEW r \in Observers, NEW w \in (Writers \cap sentAfter[r]) \ disturbed',
               pc'[r] = "opened"
        PROVE  handle'[r] = name'
    <3>1. name' = name /\ w \notin disturbed
      BY <1>5, <2>3, NameStays DEF Observers
    <3>2. CASE r = t
      BY <1>5, <2>4, <3>1, <3>2, ObserverOpens
    <3>3. CASE r # t
      <4>1. handle'[r] = handle[r]
        BY <1>0, <1>5, <3>3, ThreadOwns DEF Observers
      <4> QED BY <2>2, <2>4, <3>1, <3>3, <4>1 DEF SeenInv, Observers
    <3> QED BY <3>2, <3>3
  <2> QED BY <2>1, <2>3, <2>4 DEF SeenInv
<1> QED BY <1>1, <1>2, <1>3, <1>4, <1>5 DEF Next, Listener

\* What an answered READ or GETSIZE saw stays what it should have seen, and the
\* next one sees it too.
LEMMA AnswersStep ==
    ASSUME FileInv, Next
    PROVE  EndedWritesAreSeen'
<1> SUFFICES ASSUME NEW r \in Observers, NEW w \in Writers,
                    (/\ r \in answered /\ w \in sentAfter[r]
                     /\ w \notin disturbed /\ ~Refused(w)
                     /\ {r, w} \cap faulted = {})'
             PROVE  result'[r] = Observation(r, Payload[w])
  BY DEF EndedWritesAreSeen, Observation
<1>0. /\ TypeInv /\ QueueInv /\ SeenInv
      /\ DOMAIN result = Requests
      /\ sentAfter \in [Requests -> SUBSET Requests]
      /\ r \in Requests /\ Op[r] \in {"READ", "GETSIZE"} /\ w \in Requests
  BY DEF FileInv, TypeInv, ShapeInv, Observers, Writers
<1>1. ASSUME UNCHANGED <<answered, disturbed, sentAfter, faulted, result>>
      PROVE  result'[r] = Observation(r, Payload[w])
  BY <1>1 DEF FileInv, EndedWritesAreSeen, Refused
<1>2. ASSUME NEW t \in Requests, CallerConnects(t) PROVE result'[r] = Observation(r, Payload[w])
  BY <1>1, <1>2 DEF CallerConnects, historyVars, faultVars
<1>3. ASSUME NEW t \in Requests, CallerSends(t) PROVE result'[r] = Observation(r, Payload[w])
  <2>1. t # r
    <3>1. r \in answered
      BY <1>3 DEF CallerSends
    <3>2. pc[r] # "none"
      BY <1>0, <3>1, Asking DEF TypeInv, ShapeInv
    <3> QED BY <1>0, <1>3, <3>2 DEF CallerSends, QueueInv
  <2>2. sentAfter'[r] = sentAfter[r]
    BY <1>0, <1>3, <2>1 DEF CallerSends
  <2> QED BY <1>3, <2>2 DEF CallerSends, faultVars, FileInv, EndedWritesAreSeen, Refused
<1>4. ASSUME NEW port \in Ports, Listener(port) PROVE result'[r] = Observation(r, Payload[w])
  BY <1>1, <1>4 DEF Listener, Accept, ReadRequest, historyVars, faultVars
<1>5. ASSUME NEW t \in Requests, Thread(t) PROVE result'[r] = Observation(r, Payload[w])
  <2>1. w \in sentAfter[r] /\ pc[w] = "done" /\ w \notin disturbed /\ w # t
    <3>1. w \in sentAfter[r]
      BY <1>0, <1>5, ThreadMoves
    <3>2. pc[w] = "done"
      BY <1>0, <3>1 DEF SeenInv
    <3>3. w # t
      BY <1>0, <1>5, <3>2, ThreadMoves
    <3> QED BY <1>0, <1>5, <3>1, <3>2, <3>3, NameStays
  <2>2. ~Refused(w) /\ {r, w} \cap faulted = {}
    BY <1>0, <1>5, <2>1, ThreadOwns, ThreadFaults DEF Refused
  <2>3. name # 0 /\ contents[name] = Payload[w]
    BY <1>0, <2>1, <2>2, EndedDecides
  <2>4. CASE t # r
    <3>1. result'[r] = result[r] /\ r \in answered
      BY <1>0, <1>5, <2>4, ThreadOwns, ThreadAnswers
    <3> QED BY <2>1, <2>2, <3>1 DEF FileInv, EndedWritesAreSeen
  <2>5. CASE t = r
    <3>0. ReadThread(r) /\ asks[r] = Op[r]
      BY <1>0, <1>5, <2>5, ObserverSteps
    <3>1. CASE ReadOpen(r)
      <4>1. answered' = answered /\ result' = result
        BY <3>1 DEF ReadOpen
      <4> QED BY <2>1, <2>2, <4>1 DEF FileInv, EndedWritesAreSeen
    <3>2. CASE ReadFile(r)
      <4>1. handle[r] = name
        BY <1>0, <2>1, <3>2 DEF ReadFile, SeenInv, At
      <4> QED BY <1>0, <2>3, <3>0, <3>2, <4>1 DEF ReadFile, At, Observation
    <3>3. CASE GetSize(r)
      BY <1>0, <2>3, <3>0, <3>3 DEF GetSize, At, Observation
    <3>4. ~ReadFails(r)
      BY <2>3 DEF ReadFails, FaultIn
    <3> QED BY <3>0, <3>1, <3>2, <3>3, <3>4 DEF ReadThread
  <2> QED BY <2>4, <2>5
<1> QED BY <1>2, <1>3, <1>4, <1>5 DEF Next

----------------------------------------------------------------------------
(* The theorems *)

\* FileInv is inductive.
LEMMA FileInvStep ==
    ASSUME FileInv, [Next]_vars
    PROVE  FileInv'
<1>1. CASE Next
  BY <1>1, TypeStep, QueueStep, RoomStep, TailStep, DeciderStep, SeenStep, AnswersStep DEF FileInv
<1>2. CASE UNCHANGED vars
  <2>1. TypeInv' /\ QueueInv'
    BY <1>2 DEF vars, portVars, fileVars, faultVars, historyVars, FileInv, TypeInv, TypeOK, ShapeInv,
                QueueInv
  <2>2. RoomInv' /\ TailInv'
    BY <1>2 DEF vars, portVars, fileVars, FileInv, RoomInv, Begun, TailInv, Freed
  <2>3. DeciderInv' /\ SeenInv' /\ EndedWritesAreSeen'
    BY <1>2 DEF vars, portVars, fileVars, faultVars, historyVars, FileInv, DeciderInv, Deciders,
                Refused, Leaves, SeenInv, EndedWritesAreSeen, Observation
  <2> QED BY <2>1, <2>2, <2>3 DEF FileInv
<1> QED BY <1>1, <1>2

\* Every behaviour of the storage server keeps the inductive invariant.
THEOREM FileInvCorrect == Spec => []FileInv
BY FileInvInit, FileInvStep, PTL DEF Spec

\* The server's state is well-formed; among the rest a thread that reads or
\* writes a stream has one, and every fopen with mode "w" finds an inode.
THEOREM TypeCorrect == Spec => []TypeOK
<1>1. FileInv => TypeOK
  BY DEF FileInv, TypeInv
<1> QED BY <1>1, FileInvCorrect, PTL

\* A WRITE that no other mutator overlapped or followed and that met no error
\* decides the file (executeClientRequest: fopen "w", fwrite, fclose, without any
\* lock, against DELETEs of the file and of the directories above it).
THEOREM WritesSurvive == Spec => []UndisturbedWriteSurvives
<1>1. FileInv => UndisturbedWriteSurvives
  <2> SUFFICES ASSUME FileInv, NEW w \in Writers, pc[w] = "done", ~Refused(w),
                      w \notin disturbed \cup faulted
               PROVE  name # 0 /\ contents[name] = Payload[w]
    BY DEF UndisturbedWriteSurvives
  <2>1. w \in Requests /\ asks[w] = "WRITE" /\ Op[w] = "WRITE"
    BY Asking DEF FileInv, Writers
  <2>2. w \in Deciders /\ Leaves(w) = Payload[w]
    BY <2>1 DEF Deciders, Touched, Leaves
  <2> QED BY <2>2 DEF FileInv, DeciderInv
<1> QED BY <1>1, FileInvCorrect, PTL

\* A CREATE answered with success that nobody overlapped or followed leaves an
\* empty file, unless a longer request's tail may have changed its path
\* (executeNMRequest: mkdir_p, fopen "w", fclose).
THEOREM CreatesStand == Spec => []AnsweredCreateStands
<1>1. FileInv => AnsweredCreateStands
  <2> SUFFICES ASSUME FileInv, NEW t \in answered \ disturbed, Op[t] = "CREATE", ~Refused(t),
                      ~\E u \in Freed : Size[u] > Size[t]
               PROVE  name # 0 /\ contents[name] = <<>>
    BY DEF AnsweredCreateStands
  <2>1. t \in Requests /\ asks[t] = "CREATE"
    BY DEF FileInv, TypeInv, TypeOK, TailInv
  <2>2. pc[t] = "done" /\ t \notin faulted
    BY <2>1 DEF FileInv, TypeInv, ShapeInv
  <2>3. t \in Deciders /\ Leaves(t) = <<>>
    BY <2>1, <2>2 DEF Deciders, Touched, Leaves
  <2> QED BY <2>3 DEF FileInv, DeciderInv
<1> QED BY <1>1, FileInvCorrect, PTL

\* A READ or GETSIZE sent after a WRITE's thread has ended observes that WRITE,
\* unless another mutator came in between or one of the two met an error.
THEOREM EndedWritesSeen == Spec => []EndedWritesAreSeen
<1>1. FileInv => EndedWritesAreSeen
  BY DEF FileInv
<1> QED BY <1>1, FileInvCorrect, PTL

============================================================================
