-------------------------- MODULE DirectoryProofs --------------------------
(***************************************************************************)
(* Proofs that registration keeps the directory sound, for every number of *)
(* servers, slots, paths and buckets and every table the naming server may *)
(* start with.                                                             *)
(*                                                                         *)
(* The slots are sound because the mutex serialises the check of the       *)
(* counter, its increment and the copy; DirInv says where a thread inside  *)
(* the critical section is relative to the counter.  The table is sound    *)
(* because a thread adds entries only after its record is in the array;    *)
(* the entries a thread has read and will link its own in front of count   *)
(* as part of the table.                                                   *)
(***************************************************************************)
EXTENDS Directory, SequenceTheorems, TLAPS

\* Only the thread that holds the mutex is between lock and unlock.
MutexInv ==
    \A s \in Servers :
        regPc[s] \in {"locked", "admitted", "counted"} <=> storageServerMutex = s

\* Inside the critical section the slot follows the counter, and is empty.
CounterInv ==
    \A s \in Servers :
        /\ regPc[s] = "admitted" =>
               slotOf[s] = storageServerCount /\ storageServerCount < MAX_STORAGE_SERVERS
        /\ regPc[s] = "counted" =>
               storageServerCount = slotOf[s] + 1 /\ storageServers[slotOf[s]].server = NULL

\* A copied record is in its server's slot, below the counter.
CopiedInv ==
    \A s \in Servers : Copied(s) =>
        slotOf[s] < storageServerCount /\ storageServers[slotOf[s]].server = s

\* A slot that holds a server is that server's slot.
OwnerInv ==
    \A i \in Slots : storageServers[i].server # NULL =>
        Copied(storageServers[i].server) /\ slotOf[storageServers[i].server] = i

\* A slot below the counter holds a server or is about to.
FilledInv ==
    \A i \in Slots : i < storageServerCount =>
        \/ storageServers[i].server # NULL
        \/ \E s \in Servers : regPc[s] = "counted" /\ slotOf[s] = i

\* A thread inside HASH_ADD_STR has a path to add and has read the table.
LinkingInv ==
    \A s \in Servers : regPc[s] = "linking" =>
        nextPath[s] < Len(MountPaths[s]) /\ hashView[s] \in TableView

SlotInv == MutexInv /\ CounterInv /\ CopiedInv /\ OwnerInv /\ FilledInv
TypeInv == DirTypeOK /\ LinkingInv

\* Every entry of the chain belongs to a server in K.
Within(chain, K) == \A i \in 1 .. Len(chain) : chain[i].server \in K

\* Every entry of the chain is in K.
Among(chain, K) == \A i \in 1 .. Len(chain) : chain[i] \in K

CopiedServers == {s \in Servers : Copied(s)}

\* The entries of the table, and of what threads have read of it, belong to
\* servers whose record is in the array.
ChainInv ==
    /\ \A b \in Buckets : Within(chains[b], CopiedServers)
    /\ \A s \in Servers : regPc[s] = "linking" => Within(hashView[s].chain, CopiedServers)

\* Without a table there is no entry.
EmptyInv == serversByPath = 0 => \A b \in Buckets : chains[b] = <<>>

\* The loop over a server's paths has left an entry for each path it has passed,
\* unless additions overlapped.
IndexInv ==
    \A s \in Servers :
        /\ nextPath[s] <= Len(MountPaths[s])
        /\ regPc[s] = "acked" => nextPath[s] = Len(MountPaths[s])
        /\ ~raced /\ Copied(s) =>
               \A k \in 1 .. nextPath[s] : HasEntry(MountPaths[s][k], s)

DirInv == TypeInv /\ SlotInv /\ ChainInv /\ EmptyInv /\ IndexInv

----------------------------------------------------------------------------
(* Operators *)

\* An entry in front of a chain is a chain, and so is a reversed chain: what
\* ADD_TO_BKT and the bucket expansion of uthash make of well-formed buckets.
LEMMA ChainTypes ==
    ASSUME NEW e \in Entry, NEW chain \in Seq(Entry)
    PROVE  /\ <<e>> \o chain \in Seq(Entry)
           /\ Reverse(chain) \in Seq(Entry)
<1>1. <<e>> \o chain \in Seq(Entry)
  OBVIOUS
<1>2. Reverse(chain) \in Seq(Entry)
  <2>1. \A i \in 1 .. Len(chain) : chain[(Len(chain) - i) + 1] \in Entry
    OBVIOUS
  <2>2. Len(chain) \in Nat
    OBVIOUS
  <2> QED BY <2>1, <2>2 DEF Reverse
<1> QED BY <1>1, <1>2

\* Linking an entry into its bucket keeps the table well-formed.
LEMMA LinkedType ==
    ASSUME chains \in [Buckets -> Seq(Entry)],
           NEW seen \in TableView, NEW p \in Paths, NEW s \in Servers
    PROVE  Linked(seen, p, s) \in [Buckets -> Seq(Entry)]
<1>1. [path |-> p, server |-> s] \in Entry
  BY DEF Entry
<1>2. seen.chain \in Seq(Entry)
  BY DEF TableView
<1>3. <<[path |-> p, server |-> s]>> \o seen.chain \in Seq(Entry)
  BY <1>1, <1>2, ChainTypes
<1> QED BY <1>3 DEF Linked

\* Neither half of HASH_ADD_STR spoils the table, however stale what the
\* thread has read.
LEMMA HashAddBeginType ==
    ASSUME DirTypeOK, NEW t \in Threads, NEW p \in Paths, HashAddBegin(t, p)
    PROVE  /\ serversByPath' \in Nat
           /\ chains' \in [Buckets -> Seq(Entry)]
           /\ hashView' \in [Threads -> TableView \cup {NULL}]
           /\ hashView'[t] \in TableView
           /\ raced' \in BOOLEAN
<1>1. TableAt(p) \in TableView
  <2>1. chains[Bucket[p]] \in Seq(Entry)
    BY NamesAssumption DEF DirTypeOK
  <2>2. serversByPath \in Nat
    BY DEF DirTypeOK
  <2> QED BY <2>1, <2>2 DEF TableAt, TableView
<1>2. hashView \in [Threads -> TableView \cup {NULL}]
  BY DEF DirTypeOK
<1>3. hashView' = [hashView EXCEPT ![t] = TableAt(p)]
  BY DEF HashAddBegin
<1>4. /\ hashView' \in [Threads -> TableView \cup {NULL}]
      /\ hashView'[t] \in TableView
  BY <1>1, <1>2, <1>3
<1>5. /\ serversByPath' \in Nat
      /\ chains' \in [Buckets -> Seq(Entry)]
      /\ raced' \in BOOLEAN
  BY DEF HashAddBegin, DirTypeOK
<1> QED BY <1>4, <1>5

\* The second half of HASH_ADD_STR, in each of its four forms, keeps the table
\* well-formed.
LEMMA HashAddLinkType ==
    ASSUME DirTypeOK, NEW t \in Threads, NEW p \in Paths, NEW s \in Servers,
           hashView[t] \in TableView, HashAddLink(t, p, s)
    PROVE  /\ serversByPath' \in Nat
           /\ chains' \in [Buckets -> Seq(Entry)]
           /\ hashView' \in [Threads -> TableView \cup {NULL}]
           /\ raced' \in BOOLEAN
<1>1. /\ serversByPath \in Nat
      /\ chains \in [Buckets -> Seq(Entry)]
      /\ hashView \in [Threads -> TableView \cup {NULL}]
      /\ raced \in BOOLEAN
  BY DEF DirTypeOK
<1>2. Linked(hashView[t], p, s) \in [Buckets -> Seq(Entry)]
  BY <1>1, LinkedType
<1>3. <<[path |-> p, server |-> s]>> \in Seq(Entry)
  BY DEF Entry
<1>4. serversByPath' \in Nat /\ chains' \in [Buckets -> Seq(Entry)]
  <2>1. CASE LinkInNewTable(hashView[t], p, s)
    BY <2>1, <1>1, <1>3 DEF LinkInNewTable
  <2>2. CASE LinkInBucket(hashView[t], p, s)
    BY <2>2, <1>1, <1>2 DEF LinkInBucket
  <2>3. CASE LinkAndExpand(hashView[t], p, s)
    <3>1. \A b \in Buckets : Reverse(Linked(hashView[t], p, s)[b]) \in Seq(Entry)
      <4> TAKE b \in Buckets
      <4>1. Linked(hashView[t], p, s)[b] \in Seq(Entry)
        BY <1>2
      <4>2. [path |-> p, server |-> s] \in Entry
        BY DEF Entry
      <4> QED BY <4>1, <4>2, ChainTypes
    <3> QED BY <2>3, <3>1, <1>1 DEF LinkAndExpand
  <2>4. CASE LinkInOldTable(hashView[t])
    BY <2>4, <1>1 DEF LinkInOldTable
  <2> QED BY <2>1, <2>2, <2>3, <2>4 DEF HashAddLink
<1>5. hashView' \in [Threads -> TableView \cup {NULL}]
  BY <1>1 DEF HashAddLink
<1>6. raced' \in BOOLEAN
  BY DEF HashAddLink
<1> QED BY <1>4, <1>5, <1>6

----------------------------------------------------------------------------
(* Type correctness *)

\* The record a server reports fits the array, as does an empty slot.
LEMMA RecordTypes ==
    /\ EmptySlot \in SlotRecord
    /\ \A s \in Servers : ReportOf(s) \in SlotRecord
<1>1. EmptySlot \in SlotRecord
  BY SizesAssumption DEF EmptySlot, SlotRecord, Listing
<1>2. ASSUME NEW s \in Servers
      PROVE  ReportOf(s) \in SlotRecord
  <2>1. MountPaths[s] \in Seq(Paths) /\ Len(MountPaths[s]) \in 0 .. MAX_PATHS
    BY MountAssumption, SizesAssumption
  <2>2. ListingOf(MountPaths[s]) \in Listing
    BY <2>1, SizesAssumption DEF ListingOf, Listing
  <2> QED BY <2>1, <2>2 DEF ReportOf, SlotRecord
<1> QED BY <1>1, <1>2

\* The slot of a server registered before the start: its place in Boot.
LEMMA BootPlace ==
    ASSUME NEW s \in BootServers
    PROVE  /\ s \in Servers
           /\ (CHOOSE i \in 1 .. Len(Boot) : Boot[i] = s) \in 1 .. Len(Boot)
           /\ Boot[CHOOSE i \in 1 .. Len(Boot) : Boot[i] = s] = s
<1>1. PICK i \in 1 .. Len(Boot) : Boot[i] = s
  BY DEF BootServers
<1>2. s \in Servers
  BY <1>1, BootAssumption
<1> QED BY <1>1, <1>2

\* The boot state, an array and a table left by earlier registrations, is typed.
LEMMA TypeInit ==
    DirInit => TypeInv
<1> SUFFICES ASSUME DirInit PROVE TypeInv
  OBVIOUS
<1> USE DEF DirInit
<1>1. regPc \in [Servers -> RegStates]
  BY DEF RegStates
<1>2. slotOf \in [Servers -> Slots]
  <2>1. ASSUME NEW s \in Servers PROVE slotOf[s] \in Slots
    <3>1. Len(Boot) \in Nat /\ Len(Boot) <= MAX_STORAGE_SERVERS
      BY BootAssumption
    <3>2. CASE s \in BootServers
      BY <3>1, <3>2, BootPlace, SizesAssumption DEF Slots
    <3>3. CASE s \notin BootServers
      BY <3>3, SizesAssumption DEF Slots
    <3> QED BY <3>2, <3>3
  <2> QED BY <2>1
<1>3. nextPath \in [Servers -> 0 .. MAX_PATHS]
  BY MountAssumption, SizesAssumption
<1>4. storageServerMutex \in Servers \cup {NULL}
  OBVIOUS
<1>5. storageServerCount \in 0 .. MAX_STORAGE_SERVERS
  BY BootAssumption, SizesAssumption
<1>6. storageServers \in [Slots -> SlotRecord]
  <2>1. ASSUME NEW i \in Slots, i < Len(Boot) PROVE Boot[i + 1] \in Servers
    BY <2>1, BootAssumption, SizesAssumption DEF Slots
  <2> QED BY <2>1, RecordTypes
<1>7. serversByPath \in Nat
  OBVIOUS
<1>8. chains \in [Buckets -> Seq(Entry)]
  BY BootAssumption
<1>9. hashView \in [Threads -> TableView \cup {NULL}]
  OBVIOUS
<1>10. raced \in BOOLEAN
  OBVIOUS
<1>11. LinkingInv
  BY DEF LinkingInv
<1> QED
  BY <1>1, <1>2, <1>3, <1>4, <1>5, <1>6, <1>7, <1>8, <1>9, <1>10, <1>11
  DEF TypeInv, DirTypeOK

\* No step of a registration thread leaves the types, and a thread begins an
\* addition only with a path left to add.
LEMMA TypeStep ==
    TypeInv /\ [DirNext]_dirVars => TypeInv'
<1> SUFFICES ASSUME TypeInv, [DirNext]_dirVars PROVE TypeInv'
  OBVIOUS
<1> USE DEF TypeInv
<1>1. ASSUME UNCHANGED dirVars PROVE TypeInv'
  BY <1>1 DEF DirTypeOK, LinkingInv, dirVars, arrayVars, tableVars
<1>2. ASSUME NEW s \in Servers, Register(s) PROVE TypeInv'
  <2> USE SizesAssumption, NamesAssumption
  <2>1. CASE RegRecv(s)
    BY <2>1 DEF RegRecv, DirTypeOK, LinkingInv, RegStates, arrayVars, tableVars
  <2>2. CASE RegLock(s)
    BY <2>2 DEF RegLock, DirTypeOK, LinkingInv, RegStates, tableVars
  <2>3. CASE RegCheck(s)
    BY <2>3 DEF RegCheck, DirTypeOK, LinkingInv, RegStates, Slots, arrayVars, tableVars
  <2>4. CASE RegRefuse(s)
    BY <2>4 DEF RegRefuse, DirTypeOK, LinkingInv, RegStates, tableVars
  <2>5. CASE RegCount(s)
    BY <2>5 DEF RegCount, DirTypeOK, LinkingInv, RegStates, Slots, tableVars
  <2>6. CASE RegCopy(s)
    BY <2>6, RecordTypes DEF RegCopy, DirTypeOK, LinkingInv, RegStates, tableVars
  <2>7. CASE RegAddBegin(s)
    <3>1. MountPaths[s][nextPath[s] + 1] \in Paths
      <4>1. nextPath[s] \in Nat /\ nextPath[s] < Len(MountPaths[s])
        BY <2>7 DEF RegAddBegin, DirTypeOK
      <4>2. MountPaths[s] \in Seq(Paths)
        BY MountAssumption
      <4> QED BY <4>1, <4>2
    <3>2. /\ serversByPath' \in Nat
          /\ chains' \in [Buckets -> Seq(Entry)]
          /\ hashView' \in [Threads -> TableView \cup {NULL}]
          /\ hashView'[s] \in TableView
          /\ raced' \in BOOLEAN
      BY <2>7, <3>1, HashAddBeginType DEF RegAddBegin
    <3>3. DirTypeOK'
      BY <2>7, <3>2 DEF RegAddBegin, DirTypeOK, RegStates, arrayVars
    <3>4. LinkingInv'
      BY <2>7, <3>2 DEF RegAddBegin, HashAddBegin, LinkingInv, DirTypeOK
    <3> QED BY <3>3, <3>4
  <2>8. CASE RegAddLink(s)
    <3>1. /\ nextPath[s] < Len(MountPaths[s])
          /\ hashView[s] \in TableView
      BY <2>8 DEF RegAddLink, LinkingInv
    <3>2. MountPaths[s][nextPath[s] + 1] \in Paths
      BY <3>1, MountAssumption DEF DirTypeOK
    <3>3. /\ serversByPath' \in Nat
          /\ chains' \in [Buckets -> Seq(Entry)]
          /\ hashView' \in [Threads -> TableView \cup {NULL}]
          /\ raced' \in BOOLEAN
      BY <2>8, <3>1, <3>2, HashAddLinkType DEF RegAddLink
    <3>4. nextPath' \in [Servers -> 0 .. MAX_PATHS]
      BY <2>8, <3>1, MountAssumption DEF RegAddLink, DirTypeOK
    <3>5. DirTypeOK'
      BY <2>8, <3>3, <3>4 DEF RegAddLink, DirTypeOK, RegStates, arrayVars
    <3>6. LinkingInv'
      BY <2>8 DEF RegAddLink, HashAddLink, LinkingInv, DirTypeOK
    <3> QED BY <3>5, <3>6
  <2>9. CASE RegAck(s)
    BY <2>9 DEF RegAck, DirTypeOK, LinkingInv, RegStates, arrayVars, tableVars
  <2> QED
    BY <1>2, <2>1, <2>2, <2>3, <2>4, <2>5, <2>6, <2>7, <2>8, <2>9 DEF Register, RegThread
<1> QED BY <1>1, <1>2 DEF DirNext

\* Type correctness of the directory for every instance: in particular no
\* registration counts or copies past the end of the array, and no entry or
\* chain that uthash would not recognise gets into the table.
THEOREM TypeCorrect == DirSpec => []DirTypeOK
<1>1. TypeInv => DirTypeOK
  BY DEF TypeInv
<1> QED BY <1>1, TypeInit, TypeStep, PTL DEF DirSpec

----------------------------------------------------------------------------
(* Slots *)

\* In the boot state each registered server owns the slot of its place in Boot.
LEMMA SlotInit ==
    DirInit => SlotInv
<1> SUFFICES ASSUME DirInit PROVE SlotInv
  OBVIOUS
<1> USE DEF DirInit
<1>0. Len(Boot) \in Nat /\ Len(Boot) <= MAX_STORAGE_SERVERS
  BY BootAssumption
<1>1. MutexInv
  BY NamesAssumption DEF MutexInv
<1>2. CounterInv
  BY DEF CounterInv
<1>3. \A s \in Servers : Copied(s) <=> s \in BootServers
  BY DEF Copied
<1>4. \A i \in Slots : i < Len(Boot) =>
          Boot[i + 1] \in BootServers /\ storageServers[i].server = Boot[i + 1]
  <2> TAKE i \in Slots
  <2> HAVE i < Len(Boot)
  <2>1. i + 1 \in 1 .. Len(Boot)
    BY <1>0, SizesAssumption DEF Slots
  <2>2. storageServers[i] = ReportOf(Boot[i + 1])
    OBVIOUS
  <2> QED BY <2>1, <2>2 DEF BootServers, ReportOf
<1>5. \A s \in BootServers : /\ s \in Servers
                             /\ slotOf[s] \in Slots
                             /\ slotOf[s] < Len(Boot)
                             /\ Boot[slotOf[s] + 1] = s
  <2> TAKE s \in BootServers
  <2> DEFINE k == CHOOSE i \in 1 .. Len(Boot) : Boot[i] = s
  <2>1. s \in Servers /\ k \in 1 .. Len(Boot) /\ Boot[k] = s
    BY BootPlace
  <2>2. slotOf[s] = k - 1
    BY <2>1
  <2> HIDE DEF k
  <2>3. k \in Nat /\ k >= 1 /\ k <= Len(Boot) /\ (k - 1) + 1 = k
    BY <2>1, <1>0
  <2>4. slotOf[s] \in Slots /\ slotOf[s] < Len(Boot)
    BY <2>2, <2>3, <1>0, SizesAssumption DEF Slots
  <2> QED BY <2>1, <2>2, <2>3, <2>4
<1>6. CopiedInv
  <2> SUFFICES ASSUME NEW s \in Servers, s \in BootServers
               PROVE  slotOf[s] < storageServerCount /\ storageServers[slotOf[s]].server = s
    BY <1>3 DEF CopiedInv
  <2>1. slotOf[s] \in Slots /\ slotOf[s] < Len(Boot) /\ Boot[slotOf[s] + 1] = s
    BY <1>5
  <2>2. storageServers[slotOf[s]].server = Boot[slotOf[s] + 1]
    BY <1>4, <2>1
  <2>3. storageServerCount = Len(Boot)
    OBVIOUS
  <2> QED BY <2>1, <2>2, <2>3
<1>7. OwnerInv
  <2> SUFFICES ASSUME NEW i \in Slots, storageServers[i].server # NULL
               PROVE  Copied(storageServers[i].server) /\ slotOf[storageServers[i].server] = i
    BY DEF OwnerInv
  <2>1. i < Len(Boot)
    BY DEF EmptySlot
  <2> DEFINE s == storageServers[i].server
  <2>2. s \in BootServers /\ Boot[i + 1] = s
    BY <1>4, <2>1
  <2>3. slotOf[s] \in Slots /\ slotOf[s] < Len(Boot) /\ Boot[slotOf[s] + 1] = s
    BY <1>5, <2>2
  <2>4. i + 1 \in 1 .. Len(Boot) /\ slotOf[s] + 1 \in 1 .. Len(Boot)
    BY <2>1, <2>3, <1>0, SizesAssumption DEF Slots
  <2>5. i + 1 = slotOf[s] + 1
    <3>1. \A m, n \in 1 .. Len(Boot) : Boot[m] = Boot[n] => m = n
      BY BootAssumption, Zenon
    <3> HIDE DEF s
    <3>2. Boot[i + 1] = Boot[slotOf[s] + 1]
      BY <2>2, <2>3
    <3> QED BY <2>4, <3>1, <3>2, Zenon
  <2>6. i = slotOf[s]
    BY <2>3, <2>5, SizesAssumption DEF Slots
  <2>7. Copied(s)
    BY <1>3, <1>5, <2>2
  <2> QED BY <2>6, <2>7
<1>8. FilledInv
  <2> SUFFICES ASSUME NEW i \in Slots, i < Len(Boot)
               PROVE  storageServers[i].server # NULL
    BY DEF FilledInv
  <2>1. Boot[i + 1] \in Servers /\ storageServers[i].server = Boot[i + 1]
    BY <1>4, <1>5
  <2>2. NULL \notin Servers
    BY NamesAssumption
  <2> QED BY <2>1, <2>2
<1> QED BY <1>1, <1>2, <1>6, <1>7, <1>8 DEF SlotInv

\* A thread outside the critical section changes nothing that SlotInv speaks of.
LEMMA SlotFrame ==
    ASSUME DirTypeOK, SlotInv, NEW s \in Servers, NEW label \in RegStates,
           regPc' = [regPc EXCEPT ![s] = label],
           UNCHANGED <<slotOf, arrayVars>>,
           regPc[s] \notin {"locked", "admitted", "counted"},
           label \notin {"locked", "admitted", "counted"},
           Copied(s) <=> label \in {"indexing", "linking", "acked"}
    PROVE  SlotInv'
<1> USE DEF DirTypeOK, SlotInv, arrayVars
<1>1. MutexInv'
  BY DEF MutexInv
<1>2. CounterInv'
  BY DEF CounterInv
<1>3. \A t \in Servers : Copied(t)' <=> Copied(t)
  BY DEF Copied
<1>4. CopiedInv'
  BY <1>3 DEF CopiedInv
<1>5. OwnerInv'
  <2>1. \A i \in Slots : storageServers[i].server \in Servers \cup {NULL}
    BY DEF SlotRecord
  <2> QED BY <1>3, <2>1 DEF OwnerInv
<1>6. FilledInv'
  BY DEF FilledInv
<1> QED BY <1>1, <1>2, <1>4, <1>5, <1>6

\* Locking, checking, counting and copying keep slots, counter and mutex in
\* step: the heart of the argument for the critical section.
LEMMA SlotStep ==
    TypeInv /\ SlotInv /\ [DirNext]_dirVars => SlotInv'
<1> SUFFICES ASSUME DirTypeOK, SlotInv, [DirNext]_dirVars PROVE SlotInv'
  BY DEF TypeInv
<1>1. ASSUME UNCHANGED dirVars PROVE SlotInv'
  BY <1>1 DEF SlotInv, MutexInv, CounterInv, CopiedInv, OwnerInv, FilledInv, Copied,
              dirVars, arrayVars
<1>2. ASSUME NEW s \in Servers, Register(s) PROVE SlotInv'
  <2> USE SizesAssumption
  <2>0. /\ s # NULL
        /\ \A i \in Slots : storageServers[i].server \in Servers \cup {NULL}
    BY NamesAssumption DEF DirTypeOK, SlotRecord
  <2>1. CASE RegRecv(s)
    BY <2>1, SlotFrame DEF RegRecv, RegStates, Copied
  <2>2. CASE RegLock(s)
    <3> USE <2>2 DEF RegLock, DirTypeOK, SlotInv
    <3>1. MutexInv'
      <4> SUFFICES ASSUME NEW t \in Servers
                   PROVE  regPc'[t] \in {"locked", "admitted", "counted"} <=> s = t
        BY DEF MutexInv
      <4>1. CASE t = s
        BY <4>1
      <4>2. CASE t # s
        <5>1. t # NULL
          BY NamesAssumption
        <5>2. regPc[t] \notin {"locked", "admitted", "counted"}
          BY <5>1 DEF MutexInv
        <5> QED BY <4>2, <5>2
      <4> QED BY <4>1, <4>2
    <3>2. \A t \in Servers : Copied(t)' <=> Copied(t)
      BY DEF Copied
    <3>3. CounterInv' /\ CopiedInv' /\ FilledInv'
      BY <3>2 DEF CounterInv, CopiedInv, FilledInv
    <3>4. OwnerInv'
      BY <2>0, <3>2 DEF OwnerInv
    <3> QED BY <3>1, <3>3, <3>4
  <2>3. CASE RegCheck(s)
    <3> USE <2>3 DEF RegCheck, DirTypeOK, SlotInv, arrayVars
    <3>1. MutexInv'
      BY DEF MutexInv
    <3>2. CounterInv'
      BY DEF CounterInv
    <3>3. \A t \in Servers : (Copied(t)' <=> Copied(t)) /\ (Copied(t) => t # s)
      BY DEF Copied
    <3>4. CopiedInv'
      BY <3>3 DEF CopiedInv
    <3>5. OwnerInv'
      BY <2>0, <3>3 DEF OwnerInv
    <3>6. FilledInv'
      BY DEF FilledInv
    <3> QED BY <3>1, <3>2, <3>4, <3>5, <3>6
  <2>4. CASE RegRefuse(s)
    <3> USE <2>4 DEF RegRefuse, DirTypeOK, SlotInv
    <3>1. MutexInv'
      BY <2>0, NamesAssumption DEF MutexInv
    <3>2. \A t \in Servers : Copied(t)' <=> Copied(t)
      BY DEF Copied
    <3>3. CounterInv' /\ CopiedInv' /\ FilledInv'
      BY <3>2 DEF CounterInv, CopiedInv, FilledInv
    <3>4. OwnerInv'
      BY <2>0, <3>2 DEF OwnerInv
    <3> QED BY <3>1, <3>3, <3>4
  <2>5. CASE RegCount(s)
    <3> USE <2>5 DEF RegCount, DirTypeOK, SlotInv
    <3>1. MutexInv'
      BY DEF MutexInv
    <3>2. /\ slotOf[s] = storageServerCount
          /\ storageServerCount' = storageServerCount + 1
          /\ storageServerMutex = s
      BY DEF CounterInv, MutexInv
    <3>3. CounterInv'
      <4>1. storageServers[slotOf[s]].server = NULL
        <5> SUFFICES ASSUME storageServers[slotOf[s]].server # NULL PROVE FALSE
          OBVIOUS
        <5> DEFINE u == storageServers[slotOf[s]].server
        <5>1. u \in Servers /\ Copied(u) /\ slotOf[u] = slotOf[s]
          BY <2>0 DEF OwnerInv
        <5>2. slotOf[u] < storageServerCount
          BY <5>1 DEF CopiedInv
        <5> QED BY <5>1, <5>2, <3>2
      <4> QED BY <3>2, <4>1 DEF CounterInv, MutexInv
    <3>4. \A t \in Servers : Copied(t)' <=> Copied(t)
      BY DEF Copied
    <3>5. CopiedInv'
      BY <3>2, <3>4 DEF CopiedInv, Slots
    <3>6. OwnerInv'
      BY <2>0, <3>4 DEF OwnerInv
    <3>7. FilledInv'
      <4> SUFFICES ASSUME NEW i \in Slots, i < storageServerCount + 1,
                          storageServers[i].server = NULL
                   PROVE  \E t \in Servers : regPc'[t] = "counted" /\ slotOf[t] = i
        BY <3>2 DEF FilledInv
      <4>1. CASE i = storageServerCount
        BY <4>1, <3>2
      <4>2. CASE i < storageServerCount
        BY <4>2, <3>2 DEF FilledInv, MutexInv
      <4> QED BY <4>1, <4>2 DEF Slots
    <3> QED BY <3>1, <3>3, <3>5, <3>6, <3>7
  <2>6. CASE RegCopy(s)
    <3> USE <2>6 DEF RegCopy, DirTypeOK, SlotInv
    <3>1. MutexInv'
      BY <2>0, NamesAssumption DEF MutexInv
    <3>2. CounterInv'
      BY DEF CounterInv, MutexInv
    <3>3. /\ storageServerCount = slotOf[s] + 1
          /\ storageServerMutex = s
          /\ ~Copied(s)
      BY DEF CounterInv, MutexInv, Copied
    <3>4. \A t \in Servers : Copied(t)' <=> Copied(t) \/ t = s
      BY DEF Copied
    <3>5. /\ storageServers'[slotOf[s]].server = s
          /\ \A i \in Slots : i # slotOf[s] => storageServers'[i] = storageServers[i]
      BY DEF ReportOf
    <3>6. storageServers[slotOf[s]].server = NULL
      BY DEF CounterInv
    <3>7. CopiedInv'
      <4> SUFFICES ASSUME NEW t \in Servers, Copied(t) \/ t = s
                   PROVE  /\ slotOf[t] < storageServerCount
                          /\ storageServers'[slotOf[t]].server = t
        BY <3>4 DEF CopiedInv
      <4>1. CASE t = s
        BY <4>1, <3>3, <3>5 DEF Slots
      <4>2. CASE t # s
        <5>1. slotOf[t] < storageServerCount /\ storageServers[slotOf[t]].server = t
          BY <4>2 DEF CopiedInv
        <5>2. t # NULL /\ slotOf[t] \in Slots
          BY NamesAssumption
        <5>3. slotOf[t] # slotOf[s]
          BY <5>1, <5>2, <3>6
        <5> QED BY <5>1, <5>2, <5>3, <3>5
      <4> QED BY <4>1, <4>2
    <3>8. OwnerInv'
      BY <2>0, <3>4, <3>5 DEF OwnerInv
    <3>9. FilledInv'
      BY <2>0, <3>5 DEF FilledInv
    <3> QED BY <3>1, <3>2, <3>7, <3>8, <3>9
  <2>7. CASE RegAddBegin(s)
    BY <2>7, SlotFrame DEF RegAddBegin, RegStates, Copied
  <2>8. CASE RegAddLink(s)
    BY <2>8, SlotFrame DEF RegAddLink, RegStates, Copied
  <2>9. CASE RegAck(s)
    BY <2>9, SlotFrame DEF RegAck, RegStates, Copied
  <2> QED
    BY <1>2, <2>1, <2>2, <2>3, <2>4, <2>5, <2>6, <2>7, <2>8, <2>9 DEF Register, RegThread
<1> QED BY <1>1, <1>2 DEF DirNext

----------------------------------------------------------------------------
(* The table *)

\* Adding an entry in front and reversing keep a chain within a set of entries.
LEMMA ChainAmong ==
    ASSUME NEW K, NEW e \in Entry, NEW chain \in Seq(Entry), Among(chain, K)
    PROVE  /\ e \in K => Among(<<e>> \o chain, K)
           /\ Among(Reverse(chain), K)
<1>1. ASSUME e \in K PROVE Among(<<e>> \o chain, K)
  <2> SUFFICES ASSUME NEW i \in 1 .. Len(<<e>> \o chain)
               PROVE  (<<e>> \o chain)[i] \in K
    BY DEF Among
  <2>1. CASE i = 1
    <3>1. (<<e>> \o chain)[1] = e
      OBVIOUS
    <3> QED BY <2>1, <3>1, <1>1
  <2>2. CASE i # 1
    <3>1. i - 1 \in 1 .. Len(chain) /\ (<<e>> \o chain)[i] = chain[i - 1]
      BY <2>2
    <3> QED BY <3>1 DEF Among
  <2> QED BY <2>1, <2>2
<1>2. Among(Reverse(chain), K)
  <2>1. Len(chain) \in Nat
    OBVIOUS
  <2>2. Len(Reverse(chain)) = Len(chain)
    BY <2>1 DEF Reverse
  <2> SUFFICES ASSUME NEW i \in 1 .. Len(chain) PROVE Reverse(chain)[i] \in K
    BY <2>2 DEF Among
  <2>3. Reverse(chain)[i] = chain[(Len(chain) - i) + 1]
    BY DEF Reverse
  <2>4. (Len(chain) - i) + 1 \in 1 .. Len(chain)
    BY <2>1
  <2> QED BY <2>3, <2>4 DEF Among
<1> QED BY <1>1, <1>2

\* Whatever a thread has read and however often the table was replaced since,
\* the second half of HASH_ADD_STR puts no entry into the table but its own and
\* those that were there or had been read.
LEMMA HashAddLinkAmong ==
    ASSUME DirTypeOK, NEW K, NEW t \in Threads, NEW p \in Paths, NEW s \in Servers,
           [path |-> p, server |-> s] \in K,
           \A b \in Buckets : Among(chains[b], K),
           hashView[t] \in TableView, Among(hashView[t].chain, K),
           HashAddLink(t, p, s)
    PROVE  \A b \in Buckets : Among(chains'[b], K)
<1> DEFINE e == [path |-> p, server |-> s]
           link == Linked(hashView[t], p, s)
<1>1. e \in Entry /\ e \in K
  BY DEF Entry
<1>2. hashView[t].chain \in Seq(Entry)
  BY DEF TableView
<1>3. chains \in [Buckets -> Seq(Entry)] /\ Bucket[p] \in Buckets
  BY NamesAssumption DEF DirTypeOK
<1>4. link \in [Buckets -> Seq(Entry)]
  BY <1>3, LinkedType
<1>5. \A b \in Buckets : Among(link[b], K)
  <2> TAKE b \in Buckets
  <2>1. Among(<<e>> \o hashView[t].chain, K)
    BY <1>1, <1>2, ChainAmong
  <2>2. link[b] = IF b = Bucket[p] THEN <<e>> \o hashView[t].chain ELSE chains[b]
    BY <1>3 DEF Linked
  <2> QED BY <2>1, <2>2
<1> HIDE DEF e, link
<1>6. CASE LinkInNewTable(hashView[t], p, s)
  <2> TAKE b \in Buckets
  <2>1. chains'[b] = IF b = Bucket[p] THEN <<e>> ELSE <<>>
    BY <1>6 DEF LinkInNewTable, e
  <2>2. Among(<<e>>, K) /\ Among(<<>>, K)
    BY <1>1 DEF Among
  <2> QED BY <2>1, <2>2
<1>7. CASE LinkInBucket(hashView[t], p, s)
  BY <1>5, <1>7 DEF LinkInBucket, link
<1>8. CASE LinkAndExpand(hashView[t], p, s)
  <2> TAKE b \in Buckets
  <2>1. chains'[b] = Reverse(link[b])
    BY <1>8 DEF LinkAndExpand, link
  <2>2. link[b] \in Seq(Entry) /\ Among(link[b], K)
    BY <1>4, <1>5
  <2> QED BY <2>1, <2>2, <1>1, ChainAmong
<1>9. CASE LinkInOldTable(hashView[t])
  BY <1>9 DEF LinkInOldTable
<1> QED BY <1>6, <1>7, <1>8, <1>9 DEF HashAddLink

\* In particular no other server.
LEMMA HashAddLinkWithin ==
    ASSUME DirTypeOK, NEW K, NEW t \in Threads, NEW p \in Paths, NEW s \in Servers,
           s \in K,
           \A b \in Buckets : Within(chains[b], K),
           hashView[t] \in TableView, Within(hashView[t].chain, K),
           HashAddLink(t, p, s)
    PROVE  \A b \in Buckets : Within(chains'[b], K)
<1> DEFINE E == {e \in Entry : e.server \in K}
<1>1. [path |-> p, server |-> s] \in E
  BY DEF Entry
<1>2. \A chain \in Seq(Entry) : Within(chain, K) <=> Among(chain, E)
  BY DEF Within, Among
<1>3. hashView[t].chain \in Seq(Entry) /\ \A b \in Buckets : chains[b] \in Seq(Entry)
  BY DEF TableView, DirTypeOK
<1>4. \A b \in Buckets : chains'[b] \in Seq(Entry)
  BY HashAddLinkType
<1> HIDE DEF E
<1>5. \A b \in Buckets : Among(chains'[b], E)
  BY <1>1, <1>2, <1>3, HashAddLinkAmong
<1> QED BY <1>2, <1>4, <1>5

\* The table of the boot state names registered servers only.
LEMMA ChainInit ==
    DirInit => ChainInv
<1> SUFFICES ASSUME DirInit PROVE ChainInv
  OBVIOUS
<1>1. \A s \in BootServers : s \in CopiedServers
  BY BootPlace DEF DirInit, CopiedServers, Copied
<1>2. ASSUME NEW b \in Buckets PROVE Within(chains[b], CopiedServers)
  <2> SUFFICES ASSUME NEW i \in 1 .. Len(BootChains[b])
               PROVE  BootChains[b][i].server \in CopiedServers
    BY DEF Within, DirInit
  <2>1. PICK j \in 1 .. Len(Boot) : Boot[j] = BootChains[b][i].server
    BY BootAssumption
  <2> QED BY <2>1, <1>1 DEF BootServers
<1> QED BY <1>2 DEF ChainInv, DirInit

\* A thread adds entries only for its own server, whose record it has copied;
\* what it has read before belongs to such servers as well.
LEMMA ChainStep ==
    TypeInv /\ ChainInv /\ [DirNext]_dirVars => ChainInv'
<1> SUFFICES ASSUME DirTypeOK, LinkingInv, ChainInv, [DirNext]_dirVars PROVE ChainInv'
  BY DEF TypeInv
<1>1. ASSUME UNCHANGED dirVars PROVE ChainInv'
  BY <1>1 DEF ChainInv, CopiedServers, Copied, dirVars, tableVars
<1>2. ASSUME NEW s \in Servers, Register(s) PROVE ChainInv'
  <2>1. CopiedServers \subseteq CopiedServers'
    BY <1>2 DEF Register, RegThread, RegRecv, RegLock, RegCheck, RegRefuse, RegCount, RegCopy,
                RegAddBegin, RegAddLink, RegAck, CopiedServers, Copied, DirTypeOK
  <2>2. \A chain : Within(chain, CopiedServers) => Within(chain, CopiedServers')
    BY <2>1 DEF Within
  <2>3. s \in Threads
    BY NamesAssumption
  <2>4. ASSUME UNCHANGED tableVars, regPc'[s] # "linking",
               \A t \in Servers \ {s} : regPc'[t] = regPc[t]
        PROVE  ChainInv'
    BY <2>2, <2>4 DEF ChainInv, tableVars
  <2>5. CASE RegAddBegin(s)
    <3> DEFINE p == MountPaths[s][nextPath[s] + 1]
    <3>1. p \in Paths
      <4>1. nextPath[s] \in Nat /\ nextPath[s] < Len(MountPaths[s])
        BY <2>5 DEF RegAddBegin, DirTypeOK
      <4>2. MountPaths[s] \in Seq(Paths)
        BY MountAssumption
      <4> QED BY <4>1, <4>2
    <3> HIDE DEF p
    <3>2. /\ hashView' = [hashView EXCEPT ![s] = TableAt(p)]
          /\ chains' = chains
      BY <2>5 DEF RegAddBegin, HashAddBegin, p
    <3>3. Within(TableAt(p).chain, CopiedServers)
      BY <3>1, NamesAssumption DEF TableAt, ChainInv
    <3>4. \A b \in Buckets : Within(chains'[b], CopiedServers')
      BY <2>2, <3>2 DEF ChainInv
    <3>5. ASSUME NEW t \in Servers, regPc'[t] = "linking"
          PROVE  Within(hashView'[t].chain, CopiedServers')
      <4>1. CASE t = s
        BY <4>1, <2>2, <2>3, <3>2, <3>3 DEF DirTypeOK
      <4>2. CASE t # s
        <5>1. regPc[t] = "linking" /\ hashView'[t] = hashView[t]
          BY <4>2, <3>2, <3>5, <2>5 DEF RegAddBegin, DirTypeOK
        <5> QED BY <5>1, <2>2 DEF ChainInv
      <4> QED BY <4>1, <4>2
    <3> QED BY <3>4, <3>5 DEF ChainInv
  <2>6. CASE RegAddLink(s)
    <3> DEFINE p == MountPaths[s][nextPath[s] + 1]
    <3>1. hashView[s] \in TableView /\ nextPath[s] < Len(MountPaths[s])
      BY <2>6 DEF RegAddLink, LinkingInv
    <3>2. p \in Paths
      BY <3>1, MountAssumption DEF DirTypeOK
    <3>3. HashAddLink(s, p, s)
      BY <2>6 DEF RegAddLink
    <3> HIDE DEF p
    <3>4. s \in CopiedServers
      BY <2>6 DEF RegAddLink, CopiedServers, Copied
    <3>5. Within(hashView[s].chain, CopiedServers)
      BY <2>6 DEF RegAddLink, ChainInv
    <3>6. \A b \in Buckets : Within(chains'[b], CopiedServers)
      BY <2>3, <3>1, <3>2, <3>3, <3>4, <3>5, HashAddLinkWithin DEF ChainInv
    <3>7. ASSUME NEW t \in Servers, regPc'[t] = "linking"
          PROVE  Within(hashView'[t].chain, CopiedServers')
      <4>1. t # s /\ regPc[t] = "linking"
        BY <3>7, <2>6 DEF RegAddLink, DirTypeOK
      <4>2. hashView'[t] = hashView[t]
        BY <4>1, <3>3 DEF HashAddLink, DirTypeOK
      <4> QED BY <4>1, <4>2, <2>2 DEF ChainInv
    <3> QED BY <2>2, <3>6, <3>7 DEF ChainInv
  <2>7. CASE RegRecv(s) \/ RegLock(s) \/ RegCheck(s) \/ RegRefuse(s) \/ RegCount(s)
             \/ RegCopy(s) \/ RegAck(s)
    BY <2>4, <2>7 DEF RegRecv, RegLock, RegCheck, RegRefuse, RegCount, RegCopy, RegAck, DirTypeOK
  <2> QED
    BY <1>2, <2>5, <2>6, <2>7 DEF Register, RegThread
<1> QED BY <1>1, <1>2 DEF DirNext

----------------------------------------------------------------------------
(* Entries that stay *)

Has(chain, e) == \E i \in 1 .. Len(chain) : chain[i] = e

\* Adding an entry in front keeps a chain's entries, and so does reversing it.
LEMMA ChainHas ==
    ASSUME NEW e \in Entry, NEW f \in Entry, NEW chain \in Seq(Entry)
    PROVE  /\ Has(<<e>> \o chain, e)
           /\ Has(chain, f) => Has(<<e>> \o chain, f)
           /\ Has(chain, f) => Has(Reverse(chain), f)
<1>1. Has(<<e>> \o chain, e)
  <2>1. 1 \in 1 .. Len(<<e>> \o chain) /\ (<<e>> \o chain)[1] = e
    OBVIOUS
  <2> QED BY <2>1 DEF Has
<1>2. ASSUME Has(chain, f) PROVE Has(<<e>> \o chain, f)
  <2>1. PICK i \in 1 .. Len(chain) : chain[i] = f
    BY <1>2 DEF Has
  <2>2. i + 1 \in 1 .. Len(<<e>> \o chain) /\ (<<e>> \o chain)[i + 1] = f
    BY <2>1
  <2> QED BY <2>2 DEF Has
<1>3. ASSUME Has(chain, f) PROVE Has(Reverse(chain), f)
  <2>1. PICK i \in 1 .. Len(chain) : chain[i] = f
    BY <1>3 DEF Has
  <2>2. Len(chain) \in Nat /\ Len(Reverse(chain)) = Len(chain)
    BY DEF Reverse
  <2> DEFINE j == (Len(chain) - i) + 1
  <2>3. j \in 1 .. Len(chain) /\ (Len(chain) - j) + 1 = i
    BY <2>2
  <2>4. Reverse(chain)[j] = chain[(Len(chain) - j) + 1]
    BY <2>3 DEF Reverse
  <2>5. j \in 1 .. Len(Reverse(chain)) /\ Reverse(chain)[j] = f
    BY <2>1, <2>2, <2>3, <2>4
  <2> QED BY <2>5 DEF Has
<1> QED BY <1>1, <1>2, <1>3

\* An addition that saw the table as it is when it links loses no entry and adds
\* its own, whether it makes the table, links in place or expands.
LEMMA HashAddLinkKeeps ==
    ASSUME DirTypeOK, EmptyInv, NEW t \in Threads, NEW p \in Paths, NEW s \in Servers,
           hashView[t] \in TableView, HashAddLink(t, p, s), ~raced'
    PROVE  /\ ~raced
           /\ HasEntry(p, s)'
           /\ \A q \in Paths, u \in Servers : HasEntry(q, u) => HasEntry(q, u)'
<1> DEFINE e == [path |-> p, server |-> s]
           link == Linked(hashView[t], p, s)
<1>1. ~raced /\ hashView[t] = TableAt(p)
  BY DEF HashAddLink
<1>2. e \in Entry /\ Bucket[p] \in Buckets /\ chains \in [Buckets -> Seq(Entry)]
  BY NamesAssumption DEF Entry, DirTypeOK
<1>3. hashView[t].tbl = serversByPath /\ hashView[t].chain = chains[Bucket[p]]
  BY <1>1 DEF TableAt
<1>4. link = [chains EXCEPT ![Bucket[p]] = <<e>> \o chains[Bucket[p]]]
  BY <1>3 DEF Linked
<1>5. link \in [Buckets -> Seq(Entry)]
  BY <1>2, LinkedType
<1>6. Has(link[Bucket[p]], e)
  <2>1. Has(<<e>> \o chains[Bucket[p]], e)
    BY <1>2, ChainHas
  <2> QED BY <1>2, <1>4, <2>1
<1>7. \A b \in Buckets, f \in Entry : Has(chains[b], f) => Has(link[b], f)
  <2> TAKE b \in Buckets, f \in Entry
  <2>1. Has(chains[b], f) => Has(<<e>> \o chains[b], f)
    BY <1>2, ChainHas
  <2>2. link[b] = IF b = Bucket[p] THEN <<e>> \o chains[b] ELSE chains[b]
    BY <1>2, <1>4
  <2> QED BY <2>1, <2>2
<1> HIDE DEF link
<1>8. /\ Has(chains'[Bucket[p]], e)
      /\ \A b \in Buckets, f \in Entry : Has(chains[b], f) => Has(chains'[b], f)
  <2>1. CASE LinkInNewTable(hashView[t], p, s)
    <3>1. serversByPath = 0
      BY <2>1, <1>3 DEF LinkInNewTable
    <3>2. \A b \in Buckets : chains[b] = <<>>
      BY <3>1 DEF EmptyInv
    <3>3. \A b \in Buckets, f \in Entry : ~Has(chains[b], f)
      BY <3>2 DEF Has
    <3>4. chains'[Bucket[p]] = <<e>>
      BY <2>1, <1>2 DEF LinkInNewTable
    <3>5. Has(<<e>>, e)
      BY DEF Has
    <3> QED BY <3>3, <3>4, <3>5
  <2>2. CASE LinkInBucket(hashView[t], p, s)
    BY <2>2, <1>6, <1>7 DEF LinkInBucket, link
  <2>3. CASE LinkAndExpand(hashView[t], p, s)
    <3>1. \A b \in Buckets : chains'[b] = Reverse(link[b])
      BY <2>3 DEF LinkAndExpand, link
    <3>2. \A b \in Buckets, f \in Entry : Has(link[b], f) => Has(Reverse(link[b]), f)
      BY <1>2, <1>5, ChainHas
    <3> QED BY <3>1, <3>2, <1>2, <1>6, <1>7
  <2>4. CASE LinkInOldTable(hashView[t])
    BY <2>4, <1>3 DEF LinkInOldTable
  <2> QED BY <2>1, <2>2, <2>3, <2>4 DEF HashAddLink
<1>9. HasEntry(p, s)'
  BY <1>8 DEF HasEntry, Has
<1>10. ASSUME NEW q \in Paths, NEW u \in Servers, HasEntry(q, u)
       PROVE  HasEntry(q, u)'
  <2>1. [path |-> q, server |-> u] \in Entry /\ Bucket[q] \in Buckets
    BY NamesAssumption DEF Entry
  <2>2. Has(chains[Bucket[q]], [path |-> q, server |-> u])
    BY <1>10 DEF HasEntry, Has
  <2>3. Has(chains'[Bucket[q]], [path |-> q, server |-> u])
    BY <1>8, <2>1, <2>2
  <2> QED BY <2>3 DEF HasEntry, Has
<1> QED BY <1>1, <1>9, <1>10

\* A table pointer, once set, is never reset to NULL.
LEMMA EmptyStep ==
    TypeInv /\ EmptyInv /\ [DirNext]_dirVars => EmptyInv'
<1> SUFFICES ASSUME DirTypeOK, EmptyInv, [DirNext]_dirVars PROVE EmptyInv'
  BY DEF TypeInv
<1>1. CASE UNCHANGED <<serversByPath, chains>>
  BY <1>1 DEF EmptyInv
<1>2. ASSUME NEW s \in Servers, RegAddLink(s) PROVE EmptyInv'
  <2>1. serversByPath \in Nat
    BY DEF DirTypeOK
  <2>2. UNCHANGED <<serversByPath, chains>> \/ serversByPath' # 0
    BY <1>2, <2>1
    DEF RegAddLink, HashAddLink, LinkInNewTable, LinkInBucket, LinkAndExpand, LinkInOldTable
  <2> QED BY <1>1, <2>2 DEF EmptyInv
<1>3. ASSUME NEW s \in Servers, Register(s) PROVE EmptyInv'
  BY <1>1, <1>2, <1>3
  DEF Register, RegThread, RegRecv, RegLock, RegCheck, RegRefuse, RegCount, RegCopy,
      RegAddBegin, HashAddBegin, RegAck, tableVars
<1> QED BY <1>1, <1>3 DEF DirNext, dirVars, tableVars

\* In the boot state every registered server is indexed under its paths.
LEMMA IndexInit ==
    DirInit => EmptyInv /\ IndexInv
<1> SUFFICES ASSUME DirInit PROVE EmptyInv /\ IndexInv
  OBVIOUS
<1>1. EmptyInv
  <2> SUFFICES ASSUME Boot = <<>>, NEW b \in Buckets PROVE BootChains[b] = <<>>
    BY DEF EmptyInv, DirInit
  <2>1. BootChains[b] \in Seq(Entry)
    BY BootAssumption
  <2>2. ~(1 \in 1 .. Len(BootChains[b]))
    BY BootAssumption
  <2> QED BY <2>1, <2>2
<1>2. ASSUME NEW s \in Servers, s \in BootServers, NEW k \in 1 .. Len(MountPaths[s])
      PROVE  HasEntry(MountPaths[s][k], s)
  <2>1. PICK j \in 1 .. Len(Boot) : Boot[j] = s
    BY <1>2 DEF BootServers
  <2>2. \A n \in 1 .. Len(Boot) : \A m \in 1 .. Len(MountPaths[Boot[n]]) :
           \E i \in 1 .. Len(BootChains[Bucket[MountPaths[Boot[n]][m]]]) :
               BootChains[Bucket[MountPaths[Boot[n]][m]]][i]
                   = [path |-> MountPaths[Boot[n]][m], server |-> Boot[n]]
    BY BootAssumption, Zenon
  <2>3. chains = BootChains
    BY DEF DirInit
  <2>4. \E i \in 1 .. Len(BootChains[Bucket[MountPaths[s][k]]]) :
           BootChains[Bucket[MountPaths[s][k]]][i] = [path |-> MountPaths[s][k], server |-> s]
    BY <2>1, <2>2, Zenon
  <2> QED BY <2>3, <2>4, Zenon DEF HasEntry
<1>3. \A s \in Servers : Len(MountPaths[s]) \in Nat
  BY MountAssumption
<1>4. \A s \in Servers : Copied(s) <=> s \in BootServers
  BY DEF Copied, DirInit
<1>5. \A s \in Servers : nextPath[s] = IF s \in BootServers THEN Len(MountPaths[s]) ELSE 0
  BY DEF DirInit
<1>6. \A s \in Servers : regPc[s] = "acked" => s \in BootServers
  BY DEF DirInit
<1>7. IndexInv
  BY <1>2, <1>3, <1>4, <1>5, <1>6 DEF IndexInv
<1> QED BY <1>1, <1>7

\* Entries stay and only RegAddLink adds any, so what the loops have left is
\* still there.
LEMMA IndexFrame ==
    ASSUME DirTypeOK, IndexInv, NEW s \in Servers, NEW label,
           regPc' = [regPc EXCEPT ![s] = label],
           UNCHANGED <<chains, raced>>,
           \/ /\ UNCHANGED nextPath
              /\ label \in {"indexing", "linking", "acked"} => Copied(s)
              /\ label = "acked" => nextPath[s] = Len(MountPaths[s])
           \/ /\ nextPath' = [nextPath EXCEPT ![s] = 0]
              /\ label # "acked"
    PROVE  IndexInv'
<1> SUFFICES ASSUME NEW t \in Servers
             PROVE  /\ nextPath'[t] <= Len(MountPaths[t])
                    /\ regPc'[t] = "acked" => nextPath'[t] = Len(MountPaths[t])
                    /\ ~raced' /\ Copied(t)' =>
                           \A k \in 1 .. nextPath'[t] : HasEntry(MountPaths[t][k], t)'
  BY DEF IndexInv
<1>1. Len(MountPaths[t]) \in Nat
  BY MountAssumption
<1>2. \A p : HasEntry(p, t)' <=> HasEntry(p, t)
  BY DEF HasEntry
<1>3. CASE t # s
  BY <1>2, <1>3 DEF IndexInv, Copied, DirTypeOK
<1>4. CASE t = s /\ UNCHANGED nextPath
  BY <1>2, <1>4 DEF IndexInv, Copied, DirTypeOK
<1>5. CASE t = s /\ ~UNCHANGED nextPath
  BY <1>1, <1>5 DEF DirTypeOK
<1> QED BY <1>3, <1>4, <1>5

\* Each round of the loop leaves the entry it adds and, unless additions
\* overlap, those of the rounds before and of the other threads.
LEMMA IndexStep ==
    TypeInv /\ EmptyInv /\ IndexInv /\ [DirNext]_dirVars => IndexInv'
<1> SUFFICES ASSUME DirTypeOK, LinkingInv, EmptyInv, IndexInv, [DirNext]_dirVars PROVE IndexInv'
  BY DEF TypeInv
<1>1. ASSUME UNCHANGED dirVars PROVE IndexInv'
  BY <1>1 DEF IndexInv, HasEntry, Copied, dirVars, tableVars
<1>2. ASSUME NEW s \in Servers, Register(s) PROVE IndexInv'
  <2>1. CASE RegRecv(s) \/ RegLock(s) \/ RegCheck(s) \/ RegRefuse(s) \/ RegCount(s)
    BY <2>1, IndexFrame DEF RegRecv, RegLock, RegCheck, RegRefuse, RegCount, tableVars
  <2>2. CASE RegCopy(s)
    BY <2>2, IndexFrame DEF RegCopy, tableVars
  <2>3. CASE RegAddBegin(s)
    BY <2>3, IndexFrame DEF RegAddBegin, HashAddBegin, Copied
  <2>4. CASE RegAck(s)
    BY <2>4, IndexFrame DEF RegAck, Copied, tableVars
  <2>5. CASE RegAddLink(s)
    <3>1. hashView[s] \in TableView /\ nextPath[s] < Len(MountPaths[s])
      BY <2>5 DEF RegAddLink, LinkingInv
    <3>2. \A t \in Servers : MountPaths[t] \in Seq(Paths) /\ nextPath[t] \in Nat
      BY MountAssumption DEF DirTypeOK
    <3>3. PICK p \in Paths : p = MountPaths[s][nextPath[s] + 1]
      BY <3>1, <3>2
    <3>4. s \in Threads /\ HashAddLink(s, p, s)
      BY <2>5, <3>3, NamesAssumption DEF RegAddLink
    <3>5. /\ nextPath' = [nextPath EXCEPT ![s] = @ + 1]
          /\ regPc' = [regPc EXCEPT ![s] = "indexing"]
          /\ regPc[s] = "linking"
      BY <2>5 DEF RegAddLink
    <3> SUFFICES ASSUME NEW t \in Servers
                 PROVE  /\ nextPath'[t] <= Len(MountPaths[t])
                        /\ regPc'[t] = "acked" => nextPath'[t] = Len(MountPaths[t])
                        /\ ~raced' /\ Copied(t)' =>
                               \A k \in 1 .. nextPath'[t] : HasEntry(MountPaths[t][k], t)'
      BY DEF IndexInv
    <3>6. /\ nextPath'[t] <= Len(MountPaths[t])
          /\ regPc'[t] = "acked" => nextPath'[t] = Len(MountPaths[t])
      BY <3>1, <3>2, <3>5 DEF IndexInv, DirTypeOK
    <3>7. ASSUME ~raced', Copied(t)', NEW k \in 1 .. nextPath'[t]
          PROVE  HasEntry(MountPaths[t][k], t)'
      <4>1. /\ ~raced
            /\ HasEntry(p, s)'
            /\ \A q \in Paths, u \in Servers : HasEntry(q, u) => HasEntry(q, u)'
        BY <3>1, <3>3, <3>4, <3>7, HashAddLinkKeeps
      <4>2. Copied(t)
        BY <3>5, <3>7 DEF Copied, DirTypeOK
      <4>3. CASE k <= nextPath[t]
        <5>1. k \in 1 .. nextPath[t] /\ k \in 1 .. Len(MountPaths[t])
          BY <4>3, <3>2 DEF IndexInv
        <5>2. MountPaths[t][k] \in Paths /\ HasEntry(MountPaths[t][k], t)
          BY <5>1, <4>1, <4>2, <3>2 DEF IndexInv
        <5> QED BY <5>2, <4>1
      <4>4. CASE ~(k <= nextPath[t])
        <5>1. t = s /\ k = nextPath[s] + 1
          BY <4>4, <3>2, <3>5 DEF DirTypeOK
        <5> QED BY <5>1, <4>1, <3>3
      <4> QED BY <4>3, <4>4
    <3> QED BY <3>6, <3>7
  <2> QED BY <1>2, <2>1, <2>2, <2>3, <2>4, <2>5 DEF Register, RegThread
<1> QED BY <1>1, <1>2 DEF DirNext

----------------------------------------------------------------------------
(* Theorems *)

\* The boot state satisfies the inductive invariant.
LEMMA DirInvInit == DirInit => DirInv
BY TypeInit, SlotInit, ChainInit, IndexInit DEF DirInv

\* Every step of a registration thread preserves it.
LEMMA DirInvStep == DirInv /\ [DirNext]_dirVars => DirInv'
BY TypeStep, SlotStep, ChainStep, EmptyStep, IndexStep DEF DirInv

\* The inductive invariant holds in every state of registration.
LEMMA DirInvInvariant == DirSpec => []DirInv
BY DirInvInit, DirInvStep, PTL DEF DirSpec

\* What the invariant says of slots: each registered server has exactly its own.
LEMMA SlotsSound == DirInv => SlotsHandedOutOnce
<1> SUFFICES ASSUME DirInv PROVE SlotsHandedOutOnce
  OBVIOUS
<1> USE DEF DirInv, TypeInv, SlotInv
<1>1. ASSUME NEW s \in Servers, Copied(s)
      PROVE  {i \in Slots : storageServers[i].server = s} = {slotOf[s]}
  <2>1. s # NULL /\ slotOf[s] \in Slots
    BY NamesAssumption DEF DirTypeOK
  <2>2. storageServers[slotOf[s]].server = s
    BY <1>1 DEF CopiedInv
  <2>3. \A i \in Slots : storageServers[i].server = s => i = slotOf[s]
    BY <2>1 DEF OwnerInv
  <2> QED BY <2>1, <2>2, <2>3
<1>2. \A i \in Slots : i < storageServerCount =>
          \/ storageServers[i].server # NULL
          \/ \E s \in Servers : regPc[s] = "counted" /\ slotOf[s] = i
  BY DEF FilledInv
<1>3. ASSUME NEW s \in Servers, regPc[s] = "refused", NEW i \in Slots
      PROVE  storageServers[i].server # s
  <2>1. s # NULL /\ ~Copied(s)
    BY <1>3, NamesAssumption DEF Copied
  <2> QED BY <2>1 DEF OwnerInv
<1> QED BY <1>1, <1>2, <1>3 DEF SlotsHandedOutOnce

\* What it says of the table: every entry has a slot.
LEMMA IndexSound == DirInv => IndexedServersHaveSlots
<1> SUFFICES ASSUME DirInv, NEW b \in Buckets, NEW i \in 1 .. Len(chains[b])
             PROVE  \E k \in Slots : /\ k < storageServerCount
                                    /\ storageServers[k].server = chains[b][i].server
  BY DEF IndexedServersHaveSlots
<1> DEFINE s == chains[b][i].server
<1>1. s \in Servers /\ Copied(s)
  BY DEF DirInv, ChainInv, Within, CopiedServers
<1>2. /\ slotOf[s] \in Slots
      /\ slotOf[s] < storageServerCount
      /\ storageServers[slotOf[s]].server = s
  BY <1>1 DEF DirInv, TypeInv, DirTypeOK, SlotInv, CopiedInv
<1> QED BY <1>2

\* What it says of an acknowledged server: its paths are in the table.
LEMMA AckSound == DirInv => AckedServersAreIndexed
BY DEF DirInv, IndexInv, AckedServersAreIndexed, Copied

\* Each admitted server has exactly one slot, below the counter, no slot is
\* skipped or shared and a refused server has none, however many servers
\* register at once.  Rests on the mutex of handleStorageServer.
THEOREM SlotsCorrect == DirSpec => []SlotsHandedOutOnce
BY SlotsSound, DirInvInvariant, PTL

\* Every entry of serversByPath names a server the array holds below the
\* counter, also after unlocked additions have overlapped and lost entries:
\* the search for the slot in DELETE and COPY finds one.
THEOREM IndexedCorrect == DirSpec => []IndexedServersHaveSlots
BY IndexSound, DirInvInvariant, PTL

\* While additions do not overlap, "Registration Successful" means what it says:
\* every path the server reported is in the table under that server.
THEOREM AckedCorrect == DirSpec => []AckedServersAreIndexed
BY AckSound, DirInvInvariant, PTL

\* The counter never goes back, a server never leaves or changes its slot, and
\* without overlapping additions no entry leaves the table.
Grows ==
    /\ storageServerCount' >= storageServerCount
    /\ \A i \in Slots : storageServers[i].server # NULL =>
           storageServers'[i].server = storageServers[i].server
    /\ ~raced' => \A p \in Paths, s \in Servers : HasEntry(p, s) => HasEntry(p, s)'

\* Every step of a registration thread lets the directory grow.
LEMMA GrowsStep ==
    ASSUME DirInv, NEW s \in Servers, Register(s)
    PROVE  Grows
<1> USE DEF DirInv, TypeInv, Grows
<1>1. storageServerCount \in Nat
  BY DEF DirTypeOK
<1>2. \A p, u : UNCHANGED chains => (HasEntry(p, u)' <=> HasEntry(p, u))
  BY DEF HasEntry
<1>3. CASE UNCHANGED <<storageServerCount, storageServers, chains>>
  BY <1>1, <1>2, <1>3
<1>4. CASE RegCount(s)
  <2>1. storageServerCount' = storageServerCount + 1
    BY <1>4 DEF RegCount, SlotInv, CounterInv
  <2> QED BY <1>1, <1>2, <1>4, <2>1 DEF RegCount, tableVars
<1>5. CASE RegCopy(s)
  <2>1. storageServers[slotOf[s]].server = NULL
    BY <1>5 DEF RegCopy, SlotInv, CounterInv
  <2>2. \A i \in Slots : i # slotOf[s] => storageServers'[i] = storageServers[i]
    BY <1>5 DEF RegCopy, DirTypeOK
  <2> QED BY <1>1, <1>2, <1>5, <2>1, <2>2 DEF RegCopy, tableVars
<1>6. CASE RegAddLink(s)
  <2>1. hashView[s] \in TableView /\ nextPath[s] < Len(MountPaths[s])
    BY <1>6 DEF RegAddLink, LinkingInv
  <2>2. PICK p \in Paths : p = MountPaths[s][nextPath[s] + 1]
    BY <2>1, MountAssumption DEF DirTypeOK
  <2>3. s \in Threads /\ HashAddLink(s, p, s)
    BY <1>6, <2>2, NamesAssumption DEF RegAddLink
  <2>4. ~raced' => \A q \in Paths, u \in Servers : HasEntry(q, u) => HasEntry(q, u)'
    BY <2>1, <2>2, <2>3, HashAddLinkKeeps
  <2> QED BY <1>1, <1>6, <2>4 DEF RegAddLink, arrayVars
<1> QED
  BY <1>3, <1>4, <1>5, <1>6
  DEF Register, RegThread, RegRecv, RegLock, RegCheck, RegRefuse, RegAddBegin, HashAddBegin,
      RegAck, arrayVars, tableVars

\* DirectoryOnlyGrows, for every instance: it follows from the inductive
\* invariant, which says that the slot RegCopy writes is empty.
THEOREM GrowsCorrect == DirSpec => DirectoryOnlyGrows
<1>1. DirInv /\ [DirNext]_dirVars => [Grows]_dirVars
  BY GrowsStep DEF DirNext
<1> QED BY <1>1, DirInvInvariant, PTL DEF DirSpec, DirectoryOnlyGrows, Grows

----------------------------------------------------------------------------
(* Registration implements Roster *)

RefusedServers == {s \in Servers : regPc[s] = "refused"}

\* The roster is a sequence of the array's servers, no longer than the array.
LEMMA RosterTyped ==
    ASSUME DirInv
    PROVE  /\ RosterLength \in 0 .. MAX_STORAGE_SERVERS
           /\ RosterOf \in Seq(Servers \cup {NULL})
           /\ Len(RosterOf) = RosterLength
           /\ \A i \in 1 .. RosterLength : i - 1 \in Slots
           /\ \A i \in 1 .. RosterLength : RosterOf[i] = storageServers[i - 1].server
<1>1. DirTypeOK /\ CounterInv
  BY DEF DirInv, TypeInv, SlotInv
<1>2. RosterLength \in 0 .. MAX_STORAGE_SERVERS
  <2>1. CASE \E s \in Servers : regPc[s] = "counted"
    <3>1. PICK s \in Servers : regPc[s] = "counted"
      BY <2>1
    <3>2. storageServerCount = slotOf[s] + 1 /\ slotOf[s] \in Slots
      BY <3>1, <1>1 DEF CounterInv, DirTypeOK
    <3> QED BY <2>1, <3>2, SizesAssumption DEF RosterLength, Slots
  <2>2. CASE ~ \E s \in Servers : regPc[s] = "counted"
    BY <2>2, <1>1 DEF RosterLength, DirTypeOK
  <2> QED BY <2>1, <2>2
<1>3. ASSUME NEW i \in 1 .. RosterLength
      PROVE  i - 1 \in Slots /\ storageServers[i - 1].server \in Servers \cup {NULL}
  <2>1. i - 1 \in Slots
    BY <1>2, SizesAssumption DEF Slots
  <2>2. storageServers[i - 1] \in SlotRecord
    BY <2>1, <1>1 DEF DirTypeOK
  <2> QED BY <2>1, <2>2 DEF SlotRecord
<1>4. RosterOf \in [1 .. RosterLength -> Servers \cup {NULL}]
  BY <1>3 DEF RosterOf
<1>5. RosterLength \in Nat
  BY <1>2, SizesAssumption
<1>6. RosterOf \in Seq(Servers \cup {NULL})
  BY <1>4, <1>5
<1>7. Len(RosterOf) = RosterLength
  BY <1>4, <1>5, <1>6
<1> QED BY <1>2, <1>3, <1>6, <1>7 DEF RosterOf

\* While a thread is inside the critical section, no other thread has counted
\* its server: the mutex of handleStorageServer.
LEMMA CountedAlone ==
    ASSUME DirInv, NEW s \in Servers, regPc[s] \in {"locked", "admitted", "counted"},
           NEW t \in Servers, regPc[t] = "counted"
    PROVE  t = s
BY DEF DirInv, SlotInv, MutexInv

\* The boot state is a roster of the servers in Boot, and nobody was refused.
LEMMA RosterInit ==
    DirInit => Abstract!Init
<1> SUFFICES ASSUME DirInit PROVE Abstract!Init
  OBVIOUS
<1>1. \A s \in Servers : regPc[s] # "counted" /\ regPc[s] # "refused"
  BY DEF DirInit
<1>2. RosterLength = Len(Boot)
  BY <1>1 DEF RosterLength, DirInit
<1>3. Len(Boot) \in Nat /\ Len(Boot) <= MAX_STORAGE_SERVERS /\ Boot \in Seq(Servers)
  BY BootAssumption
<1>4. ASSUME NEW i \in 1 .. Len(Boot)
      PROVE  storageServers[i - 1].server = Boot[i]
  <2>1. i - 1 \in Slots /\ i - 1 < Len(Boot) /\ (i - 1) + 1 = i
    BY <1>3, SizesAssumption DEF Slots
  <2>2. storageServers[i - 1] = ReportOf(Boot[i])
    BY <2>1 DEF DirInit
  <2> QED BY <2>2 DEF ReportOf
<1>5. RosterOf = [i \in 1 .. Len(Boot) |-> Boot[i]]
  BY <1>2, <1>4 DEF RosterOf
<1>6. Boot = [i \in 1 .. Len(Boot) |-> Boot[i]]
  BY <1>3
<1>7. RosterOf = Boot
  BY <1>5, <1>6
<1>8. {s \in Servers : regPc[s] = "refused"} = {}
  BY <1>1
<1> QED BY <1>7, <1>8 DEF Abstract!Init

\* A step that leaves the array, its counter and the threads that have counted
\* or been refused alone leaves the roster alone.
LEMMA RosterKept ==
    ASSUME storageServers' = storageServers,
           storageServerCount' = storageServerCount,
           \A s \in Servers : regPc'[s] = "counted" <=> regPc[s] = "counted",
           \A s \in Servers : regPc'[s] = "refused" <=> regPc[s] = "refused"
    PROVE  RosterOf' = RosterOf /\ RefusedServers' = RefusedServers
<1>1. RosterLength' = RosterLength
  BY DEF RosterLength
<1> QED BY <1>1 DEF RosterOf, RefusedServers

\* The increment of the counter is invisible: the slot it announces is not part
\* of the roster until the record is copied.
LEMMA RosterCount ==
    ASSUME DirInv, NEW s \in Servers, RegCount(s)
    PROVE  RosterOf' = RosterOf /\ RefusedServers' = RefusedServers
<1>1. /\ regPc[s] = "admitted" /\ storageServerCount' = slotOf[s] + 1
      /\ regPc' = [regPc EXCEPT ![s] = "counted"] /\ storageServers' = storageServers
  BY DEF RegCount
<1>2. /\ slotOf[s] = storageServerCount /\ storageServerCount \in Nat
      /\ DOMAIN regPc = Servers
  BY <1>1, SizesAssumption DEF DirInv, TypeInv, DirTypeOK, SlotInv, CounterInv
<1>3. \A t \in Servers : regPc[t] # "counted"
  BY <1>1, CountedAlone
<1>4. regPc'[s] = "counted"
  BY <1>1, <1>2
<1>5. RosterLength = storageServerCount
  BY <1>3 DEF RosterLength
<1>6. RosterLength' = storageServerCount
  BY <1>1, <1>2, <1>4 DEF RosterLength
<1>7. RosterOf' = RosterOf
  BY <1>1, <1>5, <1>6 DEF RosterOf
<1>8. RefusedServers' = RefusedServers
  BY <1>1, <1>2 DEF RefusedServers
<1> QED BY <1>7, <1>8

\* Copying the record is the admission: the server comes last on the roster.
LEMMA RosterCopy ==
    ASSUME DirInv, NEW s \in Servers, RegCopy(s)
    PROVE  Abstract!Admit(s)
<1>1. /\ regPc[s] = "counted" /\ storageServerCount' = storageServerCount
      /\ storageServers' = [storageServers EXCEPT ![slotOf[s]] = ReportOf(s)]
      /\ regPc' = [regPc EXCEPT ![s] = "indexing"]
  BY DEF RegCopy
<1>2. /\ storageServerCount = slotOf[s] + 1 /\ slotOf[s] \in Slots
      /\ DOMAIN regPc = Servers /\ DOMAIN storageServers = Slots
  BY <1>1 DEF DirInv, TypeInv, DirTypeOK, SlotInv, CounterInv
<1>3. RosterLength = slotOf[s]
  BY <1>1, <1>2, SizesAssumption DEF RosterLength, Slots
<1>4. \A t \in Servers : regPc'[t] # "counted"
  BY <1>1, <1>2, CountedAlone
<1>5. RosterLength' = slotOf[s] + 1
  BY <1>1, <1>2, <1>4 DEF RosterLength
<1>6. s \notin {RosterOf[i] : i \in 1 .. Len(RosterOf)}
  <2> SUFFICES ASSUME NEW i \in 1 .. RosterLength, RosterOf[i] = s PROVE FALSE
    BY RosterTyped
  <2>1. i - 1 \in Slots /\ storageServers[i - 1].server = s
    BY RosterTyped
  <2>2. s # NULL
    BY NamesAssumption
  <2>3. Copied(s)
    BY <2>1, <2>2 DEF DirInv, SlotInv, OwnerInv
  <2> QED BY <1>1, <2>3 DEF Copied
<1>7. Len(RosterOf) < MAX_STORAGE_SERVERS
  BY <1>2, <1>3, RosterTyped, SizesAssumption DEF Slots
<1>8. RosterOf' = Append(RosterOf, s)
  <2>1. Append(RosterOf, s)
            = [i \in 1 .. Len(RosterOf) + 1 |->
                   IF i = Len(RosterOf) + 1 THEN s ELSE RosterOf[i]]
    <3> DEFINE R == RosterOf
    <3>1. R \in Seq(Servers \cup {NULL}) /\ s \in Servers \cup {NULL}
      BY RosterTyped
    <3> HIDE DEF R
    <3> DEFINE A == Append(R, s)
    <3>2. /\ A \in Seq(Servers \cup {NULL}) /\ Len(A) = Len(R) + 1
          /\ \A i \in 1 .. Len(R) : A[i] = R[i]
          /\ A[Len(R) + 1] = s
      BY <3>1, AppendProperties
    <3> HIDE DEF A
    <3>3. A = [i \in 1 .. Len(R) + 1 |-> A[i]]
      BY <3>2
    <3>4. \A i \in 1 .. Len(R) + 1 : A[i] = IF i = Len(R) + 1 THEN s ELSE R[i]
      BY <3>1, <3>2
    <3>5. A = [i \in 1 .. Len(R) + 1 |-> IF i = Len(R) + 1 THEN s ELSE R[i]]
      BY <3>3, <3>4
    <3> QED BY <3>5 DEF R, A
  <2>2. Len(RosterOf) = slotOf[s] /\ slotOf[s] \in Nat
    BY <1>2, <1>3, RosterTyped, SizesAssumption DEF Slots
  <2>3. RosterOf' = [i \in 1 .. slotOf[s] + 1 |-> storageServers'[i - 1].server]
    BY <1>5 DEF RosterOf
  <2>4. ASSUME NEW i \in 1 .. slotOf[s] + 1
        PROVE  storageServers'[i - 1].server
                   = IF i = slotOf[s] + 1 THEN s ELSE RosterOf[i]
    <3>1. CASE i = slotOf[s] + 1
      <4>1. i - 1 = slotOf[s]
        BY <3>1, <2>2
      <4>2. storageServers'[i - 1] = ReportOf(s)
        BY <4>1, <1>1, <1>2
      <4> QED BY <4>2, <3>1 DEF ReportOf
    <3>2. CASE i # slotOf[s] + 1
      <4>1. i \in 1 .. RosterLength /\ i - 1 # slotOf[s]
        BY <3>2, <2>2, <1>3
      <4>2. i - 1 \in Slots /\ RosterOf[i] = storageServers[i - 1].server
        BY <4>1, RosterTyped
      <4>3. storageServers'[i - 1] = storageServers[i - 1]
        BY <4>1, <4>2, <1>1, <1>2
      <4> QED BY <3>2, <4>2, <4>3
    <3> QED BY <3>1, <3>2
  <2> QED BY <2>1, <2>2, <2>3, <2>4
<1>9. s \notin RefusedServers /\ RefusedServers' = RefusedServers
  BY <1>1, <1>2 DEF RefusedServers
<1> QED BY <1>6, <1>7, <1>8, <1>9 DEF Abstract!Admit, Abstract!Members, RefusedServers

\* The refusal is one step, and only with every slot filled.
LEMMA RosterRefuse ==
    ASSUME DirInv, NEW s \in Servers, RegRefuse(s)
    PROVE  Abstract!Refuse(s)
<1>1. /\ regPc[s] = "locked" /\ ~(storageServerCount < MAX_STORAGE_SERVERS)
      /\ storageServerCount' = storageServerCount /\ storageServers' = storageServers
      /\ regPc' = [regPc EXCEPT ![s] = "refused"]
  BY DEF RegRefuse
<1>2. storageServerCount \in 0 .. MAX_STORAGE_SERVERS /\ DOMAIN regPc = Servers
  BY DEF DirInv, TypeInv, DirTypeOK
<1>3. \A t \in Servers : regPc[t] # "counted" /\ regPc'[t] # "counted"
  BY <1>1, <1>2, CountedAlone
<1>4. RosterLength = MAX_STORAGE_SERVERS /\ RosterLength' = RosterLength
  BY <1>1, <1>2, <1>3, SizesAssumption DEF RosterLength
<1>5. RosterOf' = RosterOf
  BY <1>1, <1>4 DEF RosterOf
<1>6. Len(RosterOf) = MAX_STORAGE_SERVERS
  BY <1>4, RosterTyped
<1>7. s \notin {RosterOf[i] : i \in 1 .. Len(RosterOf)}
  <2> SUFFICES ASSUME NEW i \in 1 .. RosterLength, RosterOf[i] = s PROVE FALSE
    BY RosterTyped
  <2>1. i - 1 \in Slots /\ storageServers[i - 1].server = s
    BY RosterTyped
  <2>2. s # NULL
    BY NamesAssumption
  <2>3. Copied(s)
    BY <2>1, <2>2 DEF DirInv, SlotInv, OwnerInv
  <2> QED BY <1>1, <2>3 DEF Copied
<1>8. s \notin RefusedServers /\ RefusedServers' = RefusedServers \cup {s}
  BY <1>1, <1>2 DEF RefusedServers
<1> QED BY <1>5, <1>6, <1>7, <1>8 DEF Abstract!Refuse, Abstract!Members, RefusedServers

\* Every step of a registration thread is an admission, a refusal or invisible.
LEMMA RosterStep ==
    DirInv /\ [DirNext]_dirVars
        => [Abstract!Next]_<<RosterOf, {s \in Servers : regPc[s] = "refused"}>>
<1> SUFFICES ASSUME DirInv, [DirNext]_dirVars
             PROVE  \/ Abstract!Next
                    \/ RosterOf' = RosterOf /\ RefusedServers' = RefusedServers
  BY DEF RefusedServers
<1>0. DOMAIN regPc = Servers
  BY DEF DirInv, TypeInv, DirTypeOK
<1>1. ASSUME UNCHANGED dirVars
      PROVE  RosterOf' = RosterOf /\ RefusedServers' = RefusedServers
  BY <1>1, RosterKept DEF dirVars, arrayVars
<1>2. ASSUME NEW s \in Servers, Register(s)
      PROVE  \/ Abstract!Admit(s) \/ Abstract!Refuse(s)
             \/ RosterOf' = RosterOf /\ RefusedServers' = RefusedServers
  <2>1. CASE RegRecv(s)
    BY <2>1, <1>0, RosterKept DEF RegRecv, arrayVars
  <2>2. CASE RegLock(s)
    BY <2>2, <1>0, RosterKept DEF RegLock
  <2>3. CASE RegCheck(s)
    BY <2>3, <1>0, RosterKept DEF RegCheck, arrayVars
  <2>4. CASE RegRefuse(s)
    BY <2>4, RosterRefuse
  <2>5. CASE RegCount(s)
    BY <2>5, RosterCount
  <2>6. CASE RegCopy(s)
    BY <2>6, RosterCopy
  <2>7. CASE RegAddBegin(s)
    BY <2>7, <1>0, RosterKept DEF RegAddBegin, arrayVars
  <2>8. CASE RegAddLink(s)
    BY <2>8, <1>0, RosterKept DEF RegAddLink, arrayVars
  <2>9. CASE RegAck(s)
    BY <2>9, <1>0, RosterKept DEF RegAck, arrayVars
  <2> QED
    BY <1>2, <2>1, <2>2, <2>3, <2>4, <2>5, <2>6, <2>7, <2>8, <2>9 DEF Register, RegThread
<1> QED BY <1>1, <1>2 DEF DirNext, Abstract!Next

\* The refinement, for every instance: the lock, the check, the increment and
\* the copy of racing registration threads amount to servers joining a roster
\* one at a time, in the order of their slots, with refusals only when it is full.
THEOREM RosterImplemented == DirSpec => ImplementsRoster
<1> QED
  BY RosterInit, RosterStep, DirInvInvariant, PTL
  DEF DirSpec, ImplementsRoster, Abstract!Spec

============================================================================
