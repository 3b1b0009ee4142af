------------------------- MODULE ReadHistoryProofs -------------------------
(***************************************************************************)
(* Proof that READs are regular, for every set of requests and every       *)
(* interleaving of their threads.                                          *)
(*                                                                         *)
(* The inode a READ has open changes only by an fopen of the file, which   *)
(* happens under its name, or by a flush.  The inode a WRITE will flush    *)
(* into bears the name or was removed under the WRITE, so a flush happens  *)
(* under the name as well, or into an orphan.                              *)
(***************************************************************************)
EXTENDS ReadHistory, StorageServerProofs

\* A WRITE with bytes to flush has the named inode open, or an orphan.
OrphanInv ==
    \A w \in Writers : pc[w] \in {"opened", "flushing"} =>
        handle[w] = name \/ handle[w] \in orphans

\* What a READ has open holds what the file has held since, or is an orphan.
HeldInv ==
    \A r \in Readers : pc[r] = "opened" =>
        contents[handle[r]] \in held[r] \/ handle[r] \in orphans

RegularInv == FileInv /\ OrphanInv /\ HeldInv

\* The steps that change what the file holds: fopen with mode "w", fclose, and
\* remove or unlink.
LEMMA FileSteps ==
    ASSUME Next
    PROVE  \/ UNCHANGED <<name, contents>>
           \/ \E t \in Requests : Opens(t) \/ Closes(t) \/ Removes(t)
<1>1. ASSUME NEW t \in Requests, CallerConnects(t) \/ CallerSends(t)
      PROVE  UNCHANGED <<name, contents>>
  BY <1>1 DEF CallerConnects, CallerSends, fileVars
<1>2. ASSUME NEW port \in Ports, Listener(port) PROVE UNCHANGED <<name, contents>>
  BY <1>2 DEF Listener, Accept, ReadRequest, fileVars
<1> QED BY <1>1, <1>2, FileCases DEF Next, Quiet

\* A READ or WRITE keeps the stream it has, and has none before its fopen.
LEMMA StreamKept ==
    ASSUME FileInv, Next, NEW u \in Readers \cup Writers, pc'[u] \in {"opened", "flushing"}
    PROVE  \/ pc[u] \in {"opened", "flushing"} /\ handle'[u] = handle[u]
           \/ u \in Writers /\ WriteOpen(u)
           \/ u \in Readers /\ ReadOpen(u) /\ pc'[u] = "opened"
<1>0. /\ u \in Requests /\ TypeInv
      /\ pc \in [Requests -> Labels] /\ handle \in [Requests -> Inodes \cup {0}]
  BY DEF Readers, Writers, FileInv, TypeInv, TypeOK
<1> DEFINE Goal == \/ pc[u] \in {"opened", "flushing"} /\ handle'[u] = handle[u]
                   \/ u \in Writers /\ WriteOpen(u)
                   \/ u \in Readers /\ ReadOpen(u) /\ pc'[u] = "opened"
<1>1. ASSUME NEW t \in Requests, CallerConnects(t) \/ CallerSends(t) PROVE Goal
  BY <1>1 DEF CallerConnects, CallerSends
<1>2. ASSUME NEW port \in Ports, Listener(port) PROVE Goal
  <2>1. UNCHANGED handle /\ (pc'[u] = pc[u] \/ pc'[u] = "running")
    BY <1>0, <1>2 DEF Listener, Accept, ReadRequest
  <2> QED BY <2>1
<1>3. ASSUME NEW t \in Requests, Thread(t), t # u PROVE Goal
  <2>1. \E l : pc' = [pc EXCEPT ![t] = l]
    BY <1>0, <1>3, ThreadMoves
  <2>2. pc'[u] = pc[u] /\ handle'[u] = handle[u]
    BY <1>0, <1>3, <2>1, ThreadOwns
  <2> QED BY <2>2
<1>4. ASSUME Thread(u), u \in Readers PROVE Goal
  <2>1. ReadThread(u) /\ u \notin Writers /\ Op[u] = "READ" /\ asks[u] = "READ"
    BY <1>0, <1>4, ObserverSteps DEF Readers, Observers, Writers
  <2>2. ReadOpen(u)
    BY <1>0, <2>1 DEF ReadThread, ReadFails, ReadFile, GetSize, Goto
  <2>3. pc'[u] = "opened"
    BY <1>0, <2>2 DEF ReadOpen, Goto
  <2> QED BY <1>4, <2>2, <2>3
<1>5. ASSUME Thread(u), u \in Writers PROVE Goal
  <2>1. WriteThread(u)
    BY <1>0, <1>5, WriterSteps
  <2>2. WriteOpen(u) \/ WriteReply(u) \/ WriteReplyError(u)
    BY <1>0, <2>1 DEF WriteThread, WriteOpenFails, WriteClose, WriteCloseShort, Goto
  <2> QED BY <1>5, <2>2 DEF WriteReply, WriteReplyError, At
<1> QED BY <1>1, <1>2, <1>3, <1>4, <1>5 DEF Next

\* OrphanInv is inductive: remove orphans the inodes of the WRITEs under way, and
\* fopen gives a WRITE the named inode.
LEMMA OrphanStep ==
    ASSUME FileInv, OrphanInv, ReadNext
    PROVE  OrphanInv'
<1>0. /\ Next /\ Watch
      /\ handle \in [Requests -> Inodes \cup {0}] /\ Writers \subseteq Requests
  BY DEF ReadNext, FileInv, TypeInv, TypeOK, Writers
<1> SUFFICES ASSUME NEW w \in Writers, pc'[w] \in {"opened", "flushing"}
             PROVE  handle'[w] = name' \/ handle'[w] \in orphans'
  BY DEF OrphanInv
<1>1. CASE WriteOpen(w)
  BY <1>0, <1>1 DEF WriteOpen, OpenForWriting
<1>2. CASE pc[w] \in {"opened", "flushing"} /\ handle'[w] = handle[w]
  <2>1. handle[w] # 0
    <3>1. w \in Requests /\ asks[w] = "WRITE"
      BY Asking DEF Writers, FileInv
    <3> QED BY <1>2, <3>1 DEF FileInv, TypeInv, TypeOK
  <2>2. orphans \subseteq orphans'
    BY <1>0 DEF Watch
  <2>3. CASE handle[w] \in orphans
    BY <1>2, <2>2, <2>3
  <2>4. CASE handle[w] = name /\ name' = name
    BY <1>2, <2>4
  <2>5. CASE handle[w] = name /\ name' # name
    <3>1. name' = 0
      <4>1. name # 0
        BY <2>1, <2>5
      <4>2. ASSUME NEW t \in Requests, Opens(t) PROVE FALSE
        BY <2>5, <4>1, <4>2 DEF Opens, OpenForWriting
      <4>3. ASSUME NEW t \in Requests, Closes(t) PROVE FALSE
        BY <2>5, <4>3 DEF Closes, WriteClose, WriteCloseShort
      <4>4. ASSUME NEW t \in Requests, Removes(t) PROVE name' = 0
        BY <4>4 DEF Removes, RemoveName
      <4> QED BY <1>0, <2>5, <4>2, <4>3, <4>4, FileSteps
    <3>2. Pending(name)
      BY <1>2, <2>5 DEF Pending
    <3> QED BY <1>0, <1>2, <2>5, <3>1, <3>2 DEF Watch
  <2> QED BY <1>2, <2>3, <2>4, <2>5 DEF OrphanInv
<1>3. ~ReadOpen(w)
  <2>1. asks[w] = "WRITE"
    BY <1>0, Asking DEF FileInv
  <2> QED BY <2>1 DEF ReadOpen, At
<1> QED BY <1>0, <1>1, <1>2, <1>3, StreamKept

\* HeldInv is inductive.
LEMMA HeldStep ==
    ASSUME FileInv, OrphanInv, HeldInv, ReadNext
    PROVE  HeldInv'
<1>0. /\ Next /\ Watch /\ Readers \subseteq Requests /\ Writers \subseteq Requests
      /\ handle \in [Requests -> Inodes \cup {0}]
      /\ DOMAIN contents = Inodes /\ 0 \notin Inodes
      /\ orphans \subseteq orphans'
  BY BegunBound
  DEF ReadNext, Watch, FileInv, TypeInv, TypeOK, ShapeInv, Readers, Writers, Inodes
<1> SUFFICES ASSUME NEW r \in Readers, pc'[r] = "opened"
             PROVE  contents'[handle'[r]] \in held'[r] \/ handle'[r] \in orphans'
  BY DEF HeldInv
<1>1. held'[r] = held[r] \cup Shown'
  BY <1>0 DEF Watch
<1>2. Shown' = IF name' = 0 THEN {} ELSE {contents'[name']}
  BY DEF Shown
<1>3. CASE ReadOpen(r)
  <2>1. name # 0 /\ handle'[r] = name /\ UNCHANGED <<name, contents>>
    BY <1>0, <1>3 DEF ReadOpen, Goto, fileVars, FileInv, TypeInv, TypeOK
  <2> QED BY <1>1, <1>2, <2>1
<1>4. CASE pc[r] \in {"opened", "flushing"} /\ handle'[r] = handle[r]
  <2> DEFINE i == handle[r]
  <2>0. /\ pc[r] = "opened" /\ r \in Requests /\ asks[r] = "READ"
    BY <1>0, <1>4, Asking DEF Readers, Observers, FileInv, TypeInv, ShapeInv
  <2>1. i \in Inodes
    BY <1>0, <2>0 DEF FileInv, TypeInv, TypeOK
  <2>2. contents[i] \in held[r] \/ i \in orphans
    BY <2>0 DEF HeldInv
  <2>3. \/ contents'[i] = contents[i]
        \/ i = name'
        \/ i \in orphans
    <3>1. CASE UNCHANGED <<name, contents>>
      BY <3>1
    <3>2. ASSUME NEW t \in Requests, Opens(t)
          PROVE  contents'[i] = contents[i] \/ i = name'
      BY <1>0, <2>1, <3>2 DEF Opens, OpenForWriting
    <3>3. ASSUME NEW t \in Requests, Closes(t)
          PROVE  contents'[i] = contents[i] \/ i = name' \/ i \in orphans
      <4>1. t \in Writers /\ pc[t] = "flushing" /\ name' = name
        BY <3>3, Asking DEF Closes, WriteClose, WriteCloseShort, At, FileInv
      <4>2. handle[t] = name \/ handle[t] \in orphans
        BY <4>1 DEF OrphanInv
      <4>3. i # handle[t] => contents'[i] = contents[i]
        BY <1>0, <2>1, <3>3 DEF Closes, WriteClose, WriteCloseShort
      <4> QED BY <4>1, <4>2, <4>3
    <3>4. ASSUME NEW t \in Requests, Removes(t) PROVE contents'[i] = contents[i]
      BY <3>4 DEF Removes, RemoveName
    <3> QED BY <1>0, <3>1, <3>2, <3>3, <3>4, FileSteps
  <2> QED BY <1>0, <1>1, <1>2, <1>4, <2>1, <2>2, <2>3
<1>5. ~WriteOpen(r)
  <2>1. asks[r] = "READ"
    BY <1>0, Asking DEF Readers, Observers, FileInv, TypeInv, ShapeInv
  <2> QED BY <2>1 DEF WriteOpen, At
<1> QED BY <1>0, <1>3, <1>4, <1>5, StreamKept

\* The invariant holds in every state.
LEMMA RegularInvariant == ReadSpec => []RegularInv
<1>1. ReadInit => RegularInv
  BY FileInvInit DEF ReadInit, Init, RegularInv, OrphanInv, HeldInv, Readers, Writers
<1>2. RegularInv /\ [ReadNext]_readVars => RegularInv'
  <2>1. ASSUME RegularInv, ReadNext PROVE RegularInv'
    <3>1. FileInv'
      BY <2>1, FileInvStep DEF RegularInv, ReadNext
    <3> QED BY <2>1, <3>1, OrphanStep, HeldStep DEF RegularInv
  <2>2. ASSUME RegularInv, UNCHANGED readVars PROVE RegularInv'
    <3>1. FileInv'
      BY <2>2, FileInvStep DEF RegularInv, readVars
    <3>2. UNCHANGED <<pc, handle, name, contents, held, orphans>>
      BY <2>2 DEF readVars, vars, fileVars
    <3> QED BY <2>2, <3>1, <3>2 DEF RegularInv, OrphanInv, HeldInv
  <2> QED BY <2>1, <2>2
<1> QED BY <1>1, <1>2, PTL DEF ReadSpec

\* ReadsAreRegular, for every number of READs, WRITEs, CREATEs and DELETEs of the
\* file and its directory under way at once, and whichever of their calls fail.
THEOREM RegularReads == ReadSpec => ReadsAreRegular
<1> DEFINE Regular == \A r \in Readers : pc[r] = "opened" /\ pc'[r] = "done" =>
                          result'[r] \in held[r] \/ handle[r] \in orphans \/ r \in faulted'
<1>1. RegularInv /\ [ReadNext]_readVars => [Regular]_readVars
  <2> SUFFICES ASSUME RegularInv, Next, NEW r \in Readers, pc[r] = "opened", pc'[r] = "done"
               PROVE  result'[r] \in held[r] \/ handle[r] \in orphans \/ r \in faulted'
    BY DEF ReadNext
  <2>0. /\ r \in Requests /\ r \in Observers /\ Op[r] = "READ" /\ TypeInv
        /\ DOMAIN result = Requests /\ pc \in [Requests -> Labels]
    BY DEF Readers, Observers, RegularInv, FileInv, TypeInv, TypeOK, ShapeInv
  <2>1. Thread(r)
    <3>1. ASSUME NEW t \in Requests, CallerConnects(t) \/ CallerSends(t) PROVE FALSE
      BY <3>1 DEF CallerConnects, CallerSends
    <3>2. ASSUME NEW port \in Ports, Listener(port) PROVE FALSE
      BY <2>0, <3>2 DEF Listener, Accept, ReadRequest
    <3>3. ASSUME NEW t \in Requests, Thread(t), t # r PROVE FALSE
      <4>1. \E l : pc' = [pc EXCEPT ![t] = l]
        BY <2>0, <3>3, ThreadMoves
      <4> QED BY <2>0, <3>3, <4>1
    <3> QED BY <3>1, <3>2, <3>3 DEF Next
  <2>2. ReadFile(r) \/ ReadFails(r)
    BY <2>0, <2>1, ObserverSteps DEF ReadThread, ReadOpen, GetSize, At
  <2>3. CASE ReadFile(r)
    <3>1. result'[r] = contents[handle[r]]
      BY <2>0, <2>3 DEF ReadFile
    <3> QED BY <3>1 DEF RegularInv, HeldInv
  <2>4. CASE ReadFails(r)
    BY <2>4 DEF ReadFails, At, FaultIn
  <2> QED BY <2>2, <2>3, <2>4
<1> QED BY <1>1, RegularInvariant, PTL DEF ReadSpec, ReadsAreRegular

============================================================================
