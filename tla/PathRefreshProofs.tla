------------------------- MODULE PathRefreshProofs -------------------------
(***************************************************************************)
(* Proofs about the refresh of a listing, for every number of refreshes    *)
(* and paths, and whatever changes on the disk meanwhile.                  *)
(*                                                                         *)
(* The handshake leaves few combinations of handler, thread and streams    *)
(* (Wire); in them a walk is under way only while its handler waits for    *)
(* the count.  A refresh that ran alone therefore finds the shared record  *)
(* as its own walk has left it, sends all of it, and the handler copies    *)
(* entry by entry what the walk has met.                                   *)
(***************************************************************************)
EXTENDS PathRefresh, FiniteSetTheorems, SequenceTheorems, TLAPS

Walking == {"start", "walk", "copied"}
Over == {"echo", "sending", "sent", "returned", "done"}

\* What a walk can find, and a path on its way to the handler.
Entries == Paths \cup {Root}
PathWaits(r) == \E p \in Entries : toNM[r] = <<PathText(p)>>

----------------------------------------------------------------------------
(* The inductive invariant *)

\* What TypeOK leaves open: the streams are functions, the indices fit their counts, and
\* locals that are not in use have their first values.
ShapeInv ==
    /\ DOMAIN toNM = Refreshes /\ DOMAIN toSS = Refreshes
    /\ ss.numPaths >= 1
    /\ \A r \in Refreshes :
           /\ place[r] <= numPaths[r]
           /\ nmPc[r] # "paths" => place[r] = 0
           /\ ssPc[r] \in {"none", "start", "walk", "copied", "echo"} => next[r] = 0
           /\ ssPc[r] = "sent" => next[r] < MaxPaths
           /\ ssPc[r] \notin {"walk", "copied"} => seen[r] = {}

TypeInv == TypeOK /\ ShapeInv

\* The threads between strcpy and numPaths++, and the entries met by walks that
\* are under way or, as if they had met everything, over.
Copying == {r \in Refreshes : ssPc[r] = "copied"}
Met == {rp \in Refreshes \X Paths : rp[2] \in seen[rp[1]] \/ ssPc[rp[1]] \in Over}

\* Overlapping walks count no more entries than they have met.
CountInv ==
    /\ Cardinality(Copying) <= Cardinality(Met)
    /\ \/ /\ \A r \in Refreshes : ssPc[r] \in {"none", "start"}
          /\ ss.numPaths = 1 + Len(FirstPaths)
       \/ ss.numPaths + Cardinality(Copying) <= 1 + Cardinality(Met)

\* Where handler and thread are and what is on its way between them, for each
\* state of the handler.  After a crash only the handler goes on.
WireIdle(r) ==
    /\ nmPc[r] = "idle" => ssPc[r] = "none"
    /\ ssPc[r] = "none" =>
           nmPc[r] \in {"idle", "failed"} /\ toNM[r] = <<>> /\ toSS[r] = <<>>
    /\ r \in closed => nmPc[r] = "done" \/ (nmPc[r] = "paths" /\ ssPc[r] = "done")

WireCount(r) ==
    nmPc[r] = "count" =>
        /\ toSS[r] = <<>>
        /\ \/ ssPc[r] \in Walking /\ toNM[r] = <<>>
           \/ ssPc[r] = "echo" /\ toNM[r] = <<CountText(announced[r])>>

WireOk(r) ==
    nmPc[r] = "ok" =>
        \/ /\ ssPc[r] \in Walking /\ crashed
           /\ toNM[r] = <<>> /\ toSS[r] = <<Dirty>>
        \/ /\ ssPc[r] = "echo" /\ toNM[r] = <<>>
           /\ \/ toSS[r] = <<Dirty>>
              \/ toSS[r] = <<CountText(announced[r])>> /\ numPaths[r] = announced[r]
        \/ ssPc[r] = "returned" /\ toNM[r] = <<Refusal>> /\ toSS[r] = <<>>
        \/ /\ ssPc[r] \in {"sending", "sent"} /\ next[r] = 0
           /\ toSS[r] = <<>>
           /\ \/ toNM[r] = <<OK>>
              \/ ssPc[r] = "sent" /\ \E p \in Entries : toNM[r] = <<OK, PathText(p)>>

WirePaths(r) ==
    nmPc[r] = "paths" =>
        \/ /\ ssPc[r] \in {"sending", "sent"} /\ toNM[r] = <<>> /\ toSS[r] = <<>>
           /\ next[r] = place[r] \/ crashed
        \/ ssPc[r] = "sent" /\ PathWaits(r) /\ toSS[r] = <<>> /\ next[r] = place[r]
        \/ /\ ssPc[r] = "sent" /\ toNM[r] = <<>> /\ toSS[r] = <<OK>>
           /\ place[r] = next[r] + 1 \/ crashed
        \/ ssPc[r] = "done" /\ r \in closed /\ toNM[r] = <<>> /\ toSS[r] = <<>>

WireDone(r) ==
    nmPc[r] = "done" =>
        /\ ssPc[r] \in {"sending", "sent", "returned", "done"}
        /\ \/ toNM[r] = <<>> /\ toSS[r] = <<>>
           \/ toNM[r] = <<>> /\ toSS[r] = <<OK>> /\ ssPc[r] = "sent"
           \/ PathWaits(r) /\ toSS[r] = <<>> /\ ssPc[r] \in {"sent", "returned"}

WireFailed(r) ==
    nmPc[r] = "failed" /\ ssPc[r] # "none" =>
        /\ toNM[r] = <<>>
        /\ \/ ssPc[r] \in {"sent", "returned"} /\ toSS[r] = <<>>
           \/ crashed /\ toSS[r] \in {<<>>, <<Dirty>>, <<CountText(announced[r])>>}

Wire(r) ==
    WireIdle(r) /\ WireCount(r) /\ WireOk(r) /\ WirePaths(r) /\ WireDone(r) /\ WireFailed(r)
WireInv == \A r \in Refreshes : Wire(r)

\* The refresh that began last and ran without company so far.
Alone(r) == latest = r /\ r \notin overlapped /\ (Running(r) \/ nmPc[r] = "done")

AloneInv ==
    /\ latest = NOBODY => \A r \in Refreshes : nmPc[r] = "idle"
    /\ \A r \in Refreshes : Running(r) /\ r \notin overlapped => latest = r
    /\ \A r \in Refreshes : Alone(r) => \A q \in Refreshes \ {r} : ~Running(q)

\* What ss.numPaths is to a refresh that runs alone, from the end of its walk on.
Frozen(r) ==
    /\ ssPc[r] = "echo" => announced[r] = ss.numPaths
    /\ ssPc[r] \in {"sending", "sent", "done"} /\ Running(r) => numPaths[r] = ss.numPaths
    /\ ssPc[r] = "done" /\ Running(r) => place[r] = numPaths[r]
FrozenInv == ~crashed => \A r \in Refreshes : Alone(r) => Frozen(r)

\* The first n entries of a record.
First(record, n) == {record.accessiblePaths[k] : k \in 0 .. n - 1}

\* A record lists the mount point and S, each once.
Lists(record, n, S) == First(record, n) = {Root} \cup S /\ n = 1 + Cardinality(S)

\* The walk of a refresh that runs alone on a disk at rest.
WalkInv(r) ==
    /\ ssPc[r] = "walk" =>
           due[r] = disk /\ seen[r] \subseteq disk /\ Lists(ss, ss.numPaths, seen[r])
    /\ ssPc[r] = "copied" =>
           due[r] = disk /\ seen[r] \subseteq disk /\ Lists(ss, ss.numPaths + 1, seen[r])
    /\ ssPc[r] \in Over => Lists(ss, ss.numPaths, disk)

\* Its transfer.
TransferInv(r) ==
    /\ nmPc[r] \in {"ok", "paths"} => listing.numPaths = numPaths[r]
    /\ nmPc[r] = "paths" =>
           /\ \A k \in 0 .. place[r] - 1 : listing.accessiblePaths[k] = ss.accessiblePaths[k]
           /\ toNM[r] # <<>> => toNM[r] = <<PathText(ss.accessiblePaths[place[r]])>>
    /\ nmPc[r] = "ok" /\ ssPc[r] = "sent" =>
           toNM[r] \in {<<OK>>, <<OK, PathText(ss.accessiblePaths[0])>>}
    /\ nmPc[r] = "done" =>
           /\ listing.numPaths = ss.numPaths
           /\ \A k \in 0 .. listing.numPaths - 1 :
                  listing.accessiblePaths[k] = ss.accessiblePaths[k]

TruthInv ==
    ~crashed => \A r \in Refreshes : Alone(r) /\ beganAt[r] = changes =>
        WalkInv(r) /\ TransferInv(r)

\* When a refresh began is not in the future.
BeganInv == \A r \in Refreshes : beganAt[r] <= changes

RefreshInv ==
    /\ TypeInv /\ CountInv /\ WireInv
    /\ AloneInv /\ FrozenInv /\ TruthInv /\ BeganInv
    /\ LoneRefreshIsHarmless

----------------------------------------------------------------------------
(* Operators *)

\* The bound on what overlapping walks count is a number, and a listing has room
\* for what registration reported: every path at most once.
LEMMA Bounds ==
    /\ Cardinality(Refreshes) \in Nat /\ Cardinality(Paths) \in Nat
    /\ MaxPaths \in Nat /\ 1 <= MaxPaths
    /\ Len(FirstPaths) \in Nat /\ 1 + Len(FirstPaths) <= MaxPaths
<1>1. Cardinality(Refreshes) \in Nat /\ Cardinality(Paths) \in Nat
  BY RefreshAssumption, FS_CardinalityType
<1>2. Cardinality(Refreshes) # 0
  BY RefreshAssumption, FS_EmptySet
<1>3. \A m, n \in Nat : m # 0 => m * n \in Nat /\ n <= m * n
  OBVIOUS
<1>4. MaxPaths \in Nat /\ 1 + Cardinality(Paths) <= MaxPaths
  BY <1>1, <1>2, <1>3 DEF MaxPaths
<1>5. Len(FirstPaths) \in Nat /\ FirstPaths \in [1 .. Len(FirstPaths) -> Paths]
  BY RefreshAssumption
<1>6. Len(FirstPaths) <= Cardinality(Paths)
  <2>1. /\ IsFiniteSet(1 .. Len(FirstPaths))
        /\ Cardinality(1 .. Len(FirstPaths)) = Len(FirstPaths)
    BY <1>5, FS_Interval
  <2>2. SUFFICES ASSUME Cardinality(Paths) < Cardinality(1 .. Len(FirstPaths))
                 PROVE  FALSE
    BY <1>1, <1>5, <2>1
  <2>3. \E x, y \in 1 .. Len(FirstPaths) : x # y /\ FirstPaths[x] = FirstPaths[y]
    BY <1>5, <2>1, <2>2, RefreshAssumption, FS_PigeonHole
  <2> QED BY <2>3, <1>5, RefreshAssumption DEF IsInjective
<1> QED BY <1>1, <1>4, <1>5, <1>6

\* Streams of one or two messages.
LEMMA Short ==
    /\ \A m : /\ Append(<<>>, m) = <<m>> /\ Tail(<<m>>) = <<>> /\ Head(<<m>>) = m
              /\ Len(<<m>>) = 1 /\ <<m>>[1] = m /\ <<m>> # <<>>
    /\ \A m, n : /\ Append(<<m>>, n) = <<m, n>> /\ Len(<<m, n>>) = 2
                 /\ <<m, n>>[1] = m /\ <<m, n>>[2] = n /\ <<m, n>> # <<>>
    /\ Len(<<>>) = 0
<1>1. \A m : /\ Append(<<>>, m) = <<m>> /\ Tail(<<m>>) = <<>> /\ Head(<<m>>) = m
             /\ Len(<<m>>) = 1 /\ <<m>>[1] = m /\ <<m>> # <<>>
  OBVIOUS
<1>2. \A m, n : /\ Len(<<m, n>>) = 2
                /\ <<m, n>>[1] = m /\ <<m, n>>[2] = n /\ <<m, n>> # <<>>
  OBVIOUS
<1>3. ASSUME NEW m, NEW n PROVE Append(<<m>>, n) = <<m, n>>
  <2>1. <<m>> \in Seq({m, n}) /\ Len(<<m>>) = 1
    OBVIOUS
  <2>2. /\ Append(<<m>>, n) \in Seq({m, n}) /\ Len(Append(<<m>>, n)) = 2
        /\ Append(<<m>>, n)[1] = m /\ Append(<<m>>, n)[2] = n
    BY <2>1, AppendProperties
  <2>3. <<m, n>> \in Seq({m, n}) /\ Len(<<m, n>>) = 2
    OBVIOUS
  <2>4. <<m, n>>[1] = m /\ <<m, n>>[2] = n
    OBVIOUS
  <2> DEFINE s == Append(<<m>>, n)
             t == <<m, n>>
  <2> HIDE DEF s, t
  <2>5. \A i \in 1 .. Len(s) : s[i] = t[i]
    BY <2>2, <2>3, <2>4 DEF s, t
  <2>6. s = t
    BY <2>2, <2>3, <2>5, SeqEqual DEF s, t
  <2> QED BY <2>6 DEF s, t
<1>4. Len(<<>>) = 0
  OBVIOUS
<1> QED BY <1>1, <1>2, <1>3, <1>4

\* The messages are told apart by what the other side compares.
LEMMA TextsDiffer ==
    /\ OK # Refusal
    /\ \A n : Dirty # CountText(n)
    /\ \A n : CountText(n)[2] = n
    /\ \A p : PathText(p)[2] = p
    /\ \A p, q : PathText(p) = PathText(q) => p = q
<1>1. OK # Refusal
  BY DEF OK, Refusal
<1>2. \A n : Dirty # CountText(n)
  BY Short DEF Dirty, CountText
<1>3. \A n : CountText(n)[2] = n
  BY DEF CountText
<1>4. \A p : PathText(p)[2] = p
  BY DEF PathText
<1> QED BY <1>1, <1>2, <1>3, <1>4

\* One recv on a stream of one message takes it; on a stream of two it takes the
\* first, leaving the second, or both.
LEMMA TakenShort ==
    /\ Taken(<<>>) = {}
    /\ \A x : \A taken \in Taken(<<x>>) : taken = <<x>> /\ Rest(<<x>>, taken) = <<>>
    /\ \A x, y : \A taken \in Taken(<<x, y>>) :
           \/ taken = <<x>> /\ Rest(<<x, y>>, taken) = <<y>>
           \/ taken = <<x, y>> /\ Rest(<<x, y>>, taken) = <<>>
<1>0. ASSUME NEW S, NEW s \in Seq(S), NEW k \in 1 .. Len(s)
      PROVE  SubSeq(s, k, k) = <<s[k]>>
  <2>1. SubSeq(s, k, k) = <<s[k]>> \o SubSeq(s, k + 1, k)
    BY SubSeqRecursiveFirst
  <2>2. SubSeq(s, k + 1, k) = <<>>
    BY SubSeqEmpty
  <2>3. <<s[k]>> \in Seq(S)
    OBVIOUS
  <2> QED BY <2>1, <2>2, <2>3, ConcatEmptySeq
<1>1. Taken(<<>>) = {}
  BY DEF Taken
<1>2. ASSUME NEW x, NEW taken \in Taken(<<x>>)
      PROVE  taken = <<x>> /\ Rest(<<x>>, taken) = <<>>
  <2> DEFINE s == <<x>>
  <2>1. s \in Seq({x}) /\ Len(s) = 1 /\ s[1] = x
    OBVIOUS
  <2>2. PICK k \in 1 .. Len(s) : taken = SubSeq(s, 1, k)
    BY DEF Taken
  <2> HIDE DEF s
  <2>3. SubSeq(s, 1, 1) = <<s[1]>> /\ SubSeq(s, 2, 1) = <<>>
    BY <1>0, <2>1, SubSeqEmpty
  <2>4. taken = <<x>> /\ Rest(s, taken) = <<>>
    BY <2>1, <2>2, <2>3 DEF Rest
  <2> QED BY <2>4 DEF s
<1>3. ASSUME NEW x, NEW y, NEW taken \in Taken(<<x, y>>)
      PROVE  \/ taken = <<x>> /\ Rest(<<x, y>>, taken) = <<y>>
             \/ taken = <<x, y>> /\ Rest(<<x, y>>, taken) = <<>>
  <2> DEFINE s == <<x, y>>
  <2>1. s \in Seq({x, y}) /\ Len(s) = 2 /\ s[1] = x /\ s[2] = y
    OBVIOUS
  <2>2. PICK k \in 1 .. Len(s) : taken = SubSeq(s, 1, k)
    BY DEF Taken
  <2> HIDE DEF s
  <2>3. SubSeq(s, 1, 1) = <<x>> /\ SubSeq(s, 2, 2) = <<y>>
    BY <1>0, <2>1
  <2>4. SubSeq(s, 3, 2) = <<>> /\ SubSeq(s, 1, 2) = s
    BY <2>1, SubSeqEmpty, SubSeqFull
  <2>5. CASE k = 1
    BY <2>1, <2>2, <2>3, <2>5, Short DEF Rest, s
  <2>6. CASE k = 2
    BY <2>1, <2>2, <2>4, <2>6 DEF Rest, s
  <2> QED BY <2>1, <2>2, <2>5, <2>6
<1> QED BY <1>1, <1>2, <1>3

----------------------------------------------------------------------------
(* The steps *)

Step(r) == RefreshBegin(r) \/ Handler(r) \/ Thread(r)

\* What belongs to the refresh r alone stays as it is.
Same(r) ==
    /\ nmPc'[r] = nmPc[r] /\ numPaths'[r] = numPaths[r] /\ place'[r] = place[r]
    /\ ssPc'[r] = ssPc[r] /\ seen'[r] = seen[r] /\ due'[r] = due[r]
    /\ announced'[r] = announced[r] /\ next'[r] = next[r]
    /\ toNM'[r] = toNM[r] /\ toSS'[r] = toSS[r]
    /\ (r \in closed' <=> r \in closed)
    /\ beganAt'[r] = beganAt[r]

\* What each refresh has of its own is a function on the refreshes.
OnRefreshes ==
    /\ DOMAIN nmPc = Refreshes /\ DOMAIN numPaths = Refreshes /\ DOMAIN place = Refreshes
    /\ DOMAIN ssPc = Refreshes /\ DOMAIN seen = Refreshes /\ DOMAIN due = Refreshes
    /\ DOMAIN announced = Refreshes /\ DOMAIN next = Refreshes
    /\ DOMAIN toNM = Refreshes /\ DOMAIN toSS = Refreshes
    /\ DOMAIN beganAt = Refreshes

\* The type invariant says so.
LEMMA TypedOnRefreshes == TypeInv => OnRefreshes
  BY DEF TypeInv, TypeOK, ShapeInv, OnRefreshes

\* A step of one refresh leaves the others alone.
LEMMA OthersSame ==
    ASSUME OnRefreshes, NEW q \in Refreshes, Step(q), NEW r \in Refreshes \ {q}
    PROVE  Same(r) /\ UNCHANGED diskVars
<1> USE DEF Same, OnRefreshes, diskVars, nmVars, ssVars, wireVars, historyVars, NMGoto, SSGoto
<1>1. CASE RefreshBegin(q)
  BY <1>1 DEF RefreshBegin
<1>2. CASE RefreshCount(q) \/ RefreshCountDirty(q)
  BY <1>2 DEF RefreshCount, RefreshCountDirty, StoreCount
<1>3. CASE RefreshOk(q) \/ RefreshOkLost(q)
  BY <1>3 DEF RefreshOk, RefreshOkLost
<1>4. CASE RefreshPath(q)
  BY <1>4 DEF RefreshPath, PathArrives
<1>5. CASE RefreshPathLost(q) \/ RefreshEnd(q)
  BY <1>5 DEF RefreshPathLost, RefreshEnd, PathArrives
<1>6. CASE WalkStart(q) \/ WalkCount(q) \/ \E p \in Paths : WalkCopy(q, p)
  BY <1>6 DEF WalkStart, WalkCount, WalkCopy
<1>7. CASE SendCount(q) \/ RecvEcho(q)
  BY <1>7 DEF SendCount, RecvEcho
<1>8. CASE SendPath(q) \/ SendEnd(q)
  BY <1>8 DEF SendPath, SendEnd
<1>9. CASE RecvOk(q) \/ RecvOkLost(q)
  BY <1>9 DEF RecvOk, RecvOkLost
<1> QED BY <1>1, <1>2, <1>3, <1>4, <1>5, <1>6, <1>7, <1>8, <1>9 DEF Step, Handler, Thread

\* Where handler and thread are is the business of one refresh.
LEMMA SameWire ==
    ASSUME NEW r, Same(r), crashed => crashed', Wire(r)
    PROVE  Wire(r)'
<1>1. WireIdle(r)' /\ WireCount(r)' /\ WireOk(r)'
  BY DEF Same, Wire, WireIdle, WireCount, WireOk
<1>2. WirePaths(r)' /\ WireDone(r)' /\ WireFailed(r)'
  BY DEF Same, Wire, WirePaths, WireDone, WireFailed, PathWaits
<1> QED BY <1>1, <1>2 DEF Wire

----------------------------------------------------------------------------
(* The handshake *)

\* connect and "GETPATHS" begin the handshake with nothing on its way.
LEMMA BeginWire ==
    ASSUME TypeInv, WireInv, NEW r \in Refreshes, RefreshBegin(r)
    PROVE  Wire(r)'
<1>1. OnRefreshes /\ Wire(r)
  BY TypedOnRefreshes DEF WireInv
<1>2. nmPc[r] = "idle" /\ ssPc[r] = "none" /\ toNM[r] = <<>> /\ toSS[r] = <<>> /\ r \notin closed
  BY <1>1 DEF RefreshBegin, Wire, WireIdle
<1>3. /\ nmPc'[r] = IF crashed THEN "failed" ELSE "count"
      /\ ssPc'[r] = IF crashed THEN "none" ELSE "start"
      /\ toNM' = toNM /\ toSS' = toSS /\ closed' = closed
  BY <1>1, <1>2 DEF RefreshBegin, NMGoto, OnRefreshes, wireVars
<1> QED BY <1>2, <1>3
        DEF Wire, WireIdle, WireCount, WireOk, WirePaths, WireDone, WireFailed, Walking

\* The count goes back as it came, or with old bytes behind it.
LEMMA CountWire ==
    ASSUME TypeInv, WireInv, NEW r \in Refreshes, RefreshCount(r) \/ RefreshCountDirty(r)
    PROVE  Wire(r)'
<1>1. OnRefreshes /\ Wire(r)
  BY TypedOnRefreshes DEF WireInv
<1>2. nmPc[r] = "count" /\ toSS[r] = <<>> /\ r \notin closed
  BY <1>1 DEF RefreshCount, RefreshCountDirty, Wire, WireIdle, WireCount
<1>3. /\ nmPc'[r] = "ok" /\ ssPc' = ssPc /\ closed' = closed /\ crashed' = crashed
      /\ announced' = announced
  BY <1>1 DEF RefreshCount, RefreshCountDirty, StoreCount, NMGoto, OnRefreshes, diskVars, ssVars
<1>4. \/ ssPc[r] \in Walking /\ toNM[r] = <<>>
      \/ ssPc[r] = "echo" /\ toNM[r] = <<CountText(announced[r])>>
  BY <1>1, <1>2 DEF Wire, WireCount
<1>5. toNM'[r] = <<>> /\ ssPc[r] \in Walking \cup {"echo"} /\ (ssPc[r] \in Walking => crashed)
  <2>1. CASE RefreshCount(r)
    BY <1>1, <1>4, <2>1, Short DEF RefreshCount, OnRefreshes, Walking
  <2>2. CASE RefreshCountDirty(r)
    BY <1>1, <1>2, <1>4, <2>2 DEF RefreshCountDirty, OnRefreshes, EndOfStream, Walking
  <2> QED BY <2>1, <2>2
<1>6. \/ toSS'[r] = <<Dirty>>
      \/ /\ ssPc[r] = "echo" /\ toSS'[r] = <<CountText(announced[r])>>
         /\ numPaths'[r] = announced[r]
  <2>1. CASE RefreshCount(r)
    BY <1>1, <1>2, <1>4, <2>1, Short, TextsDiffer DEF RefreshCount, StoreCount, OnRefreshes
  <2>2. CASE RefreshCountDirty(r)
    BY <1>1, <1>2, <2>2, Short DEF RefreshCountDirty, StoreCount, OnRefreshes
  <2> QED BY <2>1, <2>2
<1> QED BY <1>2, <1>3, <1>5, <1>6
        DEF Wire, WireIdle, WireCount, WireOk, WirePaths, WireDone, WireFailed, Walking

\* "OK" alone leads on to the paths; with the first path behind it, it does not.
LEMMA OkWire ==
    ASSUME TypeInv, WireInv, NEW r \in Refreshes, RefreshOk(r) \/ RefreshOkLost(r)
    PROVE  Wire(r)'
<1>1. OnRefreshes /\ Wire(r) /\ place[r] = 0 /\ nmPc[r] = "ok"
  BY TypedOnRefreshes DEF WireInv, TypeInv, ShapeInv, RefreshOk, RefreshOkLost
<1>2. WireOk(r) /\ r \notin closed /\ ssPc[r] # "none"
  BY <1>1 DEF Wire, WireIdle
<1>3. /\ ssPc' = ssPc /\ closed' = closed /\ crashed' = crashed /\ toSS' = toSS
      /\ announced' = announced /\ place' = place /\ next' = next
  BY DEF RefreshOk, RefreshOkLost, diskVars, ssVars, wireVars
<1>4. CASE RefreshOk(r)
  <2>1. PICK taken \in Taken(toNM[r]) :
            /\ toNM' = [toNM EXCEPT ![r] = Rest(@, taken)]
            /\ NMGoto(r, IF taken = <<OK>> THEN "paths" ELSE "failed")
    BY <1>4 DEF RefreshOk
  <2>2. /\ nmPc'[r] = IF taken = <<OK>> THEN "paths" ELSE "failed"
        /\ toNM'[r] = Rest(toNM[r], taken)
    BY <1>1, <2>1 DEF NMGoto, OnRefreshes
  <2>3. CASE toNM[r] = <<Refusal>>
    <3>1. taken = <<Refusal>> /\ Rest(toNM[r], taken) = <<>>
      BY <2>1, <2>3, TakenShort
    <3>2. taken # <<OK>>
      BY <3>1, Short, TextsDiffer
    <3>3. ssPc[r] = "returned" /\ toSS[r] = <<>>
      BY <1>1, <1>2, <2>3, Short, TextsDiffer DEF WireOk
    <3> QED BY <1>2, <1>3, <2>2, <3>1, <3>2, <3>3
            DEF Wire, WireIdle, WireCount, WireOk, WirePaths, WireDone, WireFailed
  <2>4. CASE toNM[r] = <<OK>>
    <3>1. taken = <<OK>> /\ Rest(toNM[r], taken) = <<>>
      BY <2>1, <2>4, TakenShort
    <3>2. ssPc[r] \in {"sending", "sent"} /\ next[r] = 0 /\ toSS[r] = <<>>
      BY <1>1, <1>2, <2>4, Short, TextsDiffer DEF WireOk
    <3> QED BY <1>1, <1>2, <1>3, <2>2, <3>1, <3>2
            DEF Wire, WireIdle, WireCount, WireOk, WirePaths, WireDone, WireFailed
  <2>5. CASE \E p \in Entries : toNM[r] = <<OK, PathText(p)>>
    <3>1. PICK p \in Entries : toNM[r] = <<OK, PathText(p)>>
      BY <2>5
    <3>2. \/ taken = <<OK>> /\ Rest(toNM[r], taken) = <<PathText(p)>>
          \/ taken = <<OK, PathText(p)>> /\ Rest(toNM[r], taken) = <<>>
      BY <2>1, <3>1, TakenShort
    <3>3. <<OK, PathText(p)>> # <<OK>>
      BY Short
    <3>4. ssPc[r] = "sent" /\ next[r] = 0 /\ toSS[r] = <<>>
      <4>1. toNM[r] # <<>> /\ toNM[r] # <<Refusal>> /\ toNM[r] # <<OK>>
        BY <3>1, Short
      <4> QED BY <1>1, <1>2, <4>1 DEF WireOk
    <3> QED BY <1>1, <1>2, <1>3, <2>2, <3>2, <3>3, <3>4
            DEF Wire, WireIdle, WireCount, WireOk, WirePaths, WireDone, WireFailed, PathWaits
  <2>6. toNM[r] # <<>>
    BY <2>1, TakenShort
  <2> QED BY <1>1, <1>2, <2>3, <2>4, <2>5, <2>6 DEF WireOk
<1>5. CASE RefreshOkLost(r)
  <2>1. nmPc'[r] = "failed" /\ toNM' = toNM /\ toNM[r] = <<>> /\ crashed
    BY <1>1, <1>2, <1>5 DEF RefreshOkLost, NMGoto, OnRefreshes, EndOfStream, wireVars
  <2>2. /\ toNM[r] # <<Refusal>> /\ toNM[r] # <<OK>>
        /\ \A p \in Entries : toNM[r] # <<OK, PathText(p)>>
    BY <2>1, Short
  <2>3. toSS[r] = <<Dirty>> \/ toSS[r] = <<CountText(announced[r])>>
    BY <1>1, <1>2, <2>2 DEF WireOk
  <2> QED BY <1>2, <1>3, <2>1, <2>3
          DEF Wire, WireIdle, WireCount, WireOk, WirePaths, WireDone, WireFailed
<1> QED BY <1>4, <1>5

\* One path is taken and one "OK" sent for it; after the end of the stream the
\* handler goes on by itself.
LEMMA PathWire ==
    ASSUME TypeInv, WireInv, NEW r \in Refreshes, RefreshPath(r) \/ RefreshPathLost(r)
    PROVE  Wire(r)'
<1>1. OnRefreshes /\ Wire(r) /\ place[r] \in Nat /\ nmPc[r] = "paths" /\ ssPc[r] # "none"
  BY TypedOnRefreshes
     DEF WireInv, TypeInv, TypeOK, Places, RefreshPath, RefreshPathLost, Wire, WireIdle
<1>2. WirePaths(r) /\ (r \in closed => ssPc[r] = "done")
  BY <1>1 DEF Wire, WireIdle
<1>3. /\ nmPc' = nmPc /\ ssPc' = ssPc /\ closed' = closed /\ crashed' = crashed
      /\ next' = next /\ place'[r] = place[r] + 1
  BY <1>1 DEF RefreshPath, RefreshPathLost, PathArrives, OnRefreshes, diskVars, ssVars
<1>4. CASE RefreshPath(r)
  <2>1. toNM[r] # <<>>
    BY <1>4 DEF RefreshPath
  <2>2. ssPc[r] = "sent" /\ PathWaits(r) /\ toSS[r] = <<>> /\ next[r] = place[r]
    BY <1>1, <1>2, <2>1 DEF WirePaths
  <2>3. toNM'[r] = <<>> /\ toSS'[r] = <<OK>>
    BY <1>1, <1>4, <2>2, Short DEF RefreshPath, OnRefreshes, PathWaits
  <2> QED BY <1>1, <1>2, <1>3, <2>2, <2>3
          DEF Wire, WireIdle, WireCount, WireOk, WirePaths, WireDone, WireFailed
<1>5. CASE RefreshPathLost(r)
  <2>1. toNM' = toNM /\ toSS' = toSS /\ toNM[r] = <<>> /\ (r \in closed \/ crashed)
    BY <1>5 DEF RefreshPathLost, EndOfStream
  <2>2. ~PathWaits(r)
    BY <2>1, Short DEF PathWaits
  <2> QED BY <1>1, <1>2, <1>3, <2>1, <2>2
          DEF Wire, WireIdle, WireCount, WireOk, WirePaths, WireDone, WireFailed
<1> QED BY <1>4, <1>5

\* A handler that has its count closes; the thread may be anywhere in its loop.
LEMMA EndWire ==
    ASSUME TypeInv, WireInv, NEW r \in Refreshes, RefreshEnd(r)
    PROVE  Wire(r)'
<1>1. OnRefreshes /\ Wire(r) /\ nmPc[r] = "paths" /\ ssPc[r] # "none" /\ WirePaths(r)
  BY TypedOnRefreshes DEF WireInv, RefreshEnd, Wire, WireIdle
<1>2. /\ nmPc'[r] = "done" /\ ssPc' = ssPc /\ r \in closed'
      /\ toNM' = toNM /\ toSS' = toSS
  BY <1>1 DEF RefreshEnd, NMGoto, OnRefreshes, ssVars
<1>3. WireDone(r)'
  BY <1>1, <1>2 DEF WirePaths, WireDone, PathWaits
<1> QED BY <1>1, <1>2, <1>3 DEF Wire, WireIdle, WireCount, WireOk, WirePaths, WireFailed

\* Unless the storage server has crashed, a thread walks only while its handler
\* waits for the count.
LEMMA WalkersWait ==
    ASSUME TypeInv, WireInv, NEW r \in Refreshes, ~crashed, ssPc[r] \in Walking
    PROVE  nmPc[r] = "count" /\ toNM[r] = <<>> /\ toSS[r] = <<>> /\ r \notin closed
<1>1. Wire(r) /\ nmPc[r] \in {"idle", "count", "ok", "paths", "done", "failed"}
  BY DEF WireInv, TypeInv, TypeOK
<1>2. nmPc[r] = "count"
  BY <1>1 DEF Wire, WireIdle, WireOk, WirePaths, WireDone, WireFailed, Walking
<1> QED BY <1>1, <1>2 DEF Wire, WireIdle, WireCount, Walking

\* The walk and the count.
LEMMA WalkWire ==
    ASSUME TypeInv, WireInv, NEW r \in Refreshes,
           \/ WalkStart(r) \/ WalkCount(r) \/ SendCount(r)
           \/ \E p \in Paths : WalkCopy(r, p)
    PROVE  Wire(r)'
<1>1. OnRefreshes /\ ~crashed /\ ssPc[r] \in Walking
  BY TypedOnRefreshes DEF WalkStart, WalkCount, WalkCopy, SendCount, SSRuns, Walking
<1>2. nmPc[r] = "count" /\ toNM[r] = <<>> /\ toSS[r] = <<>> /\ r \notin closed
  BY <1>1, WalkersWait
<1>3. nmPc' = nmPc /\ toSS' = toSS /\ closed' = closed
  BY DEF WalkStart, WalkCount, WalkCopy, SendCount, nmVars, wireVars
<1>4. WireCount(r)' /\ ssPc'[r] \in Walking \cup {"echo"}
  <2>1. CASE SendCount(r)
    <3>1. ssPc'[r] = "echo" /\ toNM'[r] = <<CountText(announced'[r])>>
      BY <1>1, <1>2, <2>1, Short DEF SendCount, SSGoto, OnRefreshes
    <3> QED BY <1>2, <1>3, <3>1 DEF WireCount
  <2>2. CASE WalkStart(r) \/ WalkCount(r) \/ \E p \in Paths : WalkCopy(r, p)
    <3>1. ssPc'[r] \in Walking /\ toNM' = toNM
      BY <1>1, <2>2 DEF WalkStart, WalkCount, WalkCopy, SSGoto, OnRefreshes, Walking, wireVars
    <3> QED BY <1>2, <1>3, <3>1 DEF WireCount
  <2> QED BY <2>1, <2>2
<1> QED BY <1>2, <1>3, <1>4
        DEF Wire, WireIdle, WireOk, WirePaths, WireDone, WireFailed, Walking

\* The count that came back is compared with the one that was sent.
LEMMA EchoWire ==
    ASSUME TypeInv, WireInv, NEW r \in Refreshes, RecvEcho(r)
    PROVE  /\ Wire(r)'
           /\ nmPc[r] = "ok" /\ next[r] = 0
           /\ ssPc'[r] = "sending" => numPaths[r] = announced[r]
<1>1. OnRefreshes /\ Wire(r) /\ ~crashed /\ ssPc[r] = "echo" /\ toSS[r] # <<>> /\ next[r] = 0
  BY TypedOnRefreshes DEF WireInv, TypeInv, ShapeInv, RecvEcho, SSRuns
<1>2. nmPc[r] \in {"idle", "count", "ok", "paths", "done", "failed"}
  BY DEF TypeInv, TypeOK
<1>3. nmPc[r] = "ok" /\ r \notin closed
  BY <1>1, <1>2 DEF Wire, WireIdle, WireCount, WirePaths, WireDone, WireFailed
<1>4. /\ toNM[r] = <<>>
      /\ \/ toSS[r] = <<Dirty>>
         \/ toSS[r] = <<CountText(announced[r])>> /\ numPaths[r] = announced[r]
  BY <1>1, <1>3 DEF Wire, WireOk, Walking
<1>5. nmPc' = nmPc /\ closed' = closed /\ next' = next /\ toSS'[r] = <<>>
  BY <1>1, <1>4, Short DEF RecvEcho, OnRefreshes, nmVars
<1>6. CASE toSS[r] = <<Dirty>>
  <2>1. Head(toSS[r]) # CountText(announced[r])
    BY <1>6, Short, TextsDiffer
  <2>2. ssPc'[r] = "returned" /\ toNM'[r] = <<Refusal>>
    BY <1>1, <1>4, <2>1, Short DEF RecvEcho, SSGoto, OnRefreshes
  <2> QED BY <1>1, <1>3, <1>5, <2>2
          DEF Wire, WireIdle, WireCount, WireOk, WirePaths, WireDone, WireFailed
<1>7. CASE toSS[r] = <<CountText(announced[r])>> /\ numPaths[r] = announced[r]
  <2>1. Head(toSS[r]) = CountText(announced[r])
    BY <1>7, Short
  <2>2. ssPc'[r] = "sending" /\ toNM'[r] = <<OK>>
    BY <1>1, <1>4, <2>1, Short DEF RecvEcho, SSGoto, OnRefreshes
  <2> QED BY <1>1, <1>3, <1>5, <1>7, <2>2
          DEF Wire, WireIdle, WireCount, WireOk, WirePaths, WireDone, WireFailed
<1> QED BY <1>4, <1>6, <1>7

\* A thread in its loop over the paths: its handler waits for "OK" or for a path,
\* or has ended.
LEMMA SendersHandler ==
    ASSUME TypeInv, WireInv, NEW r \in Refreshes, ~crashed, ssPc[r] = "sending"
    PROVE  /\ toSS[r] = <<>>
           /\ \/ nmPc[r] = "ok" /\ next[r] = 0 /\ toNM[r] = <<OK>> /\ r \notin closed
              \/ nmPc[r] = "paths" /\ next[r] = place[r] /\ toNM[r] = <<>> /\ r \notin closed
              \/ nmPc[r] = "done" /\ toNM[r] = <<>>
<1>1. Wire(r) /\ nmPc[r] \in {"idle", "count", "ok", "paths", "done", "failed"}
  BY DEF WireInv, TypeInv, TypeOK
<1>2. nmPc[r] \in {"ok", "paths", "done"}
  BY <1>1 DEF Wire, WireIdle, WireCount, WireFailed, Walking
<1>3. CASE nmPc[r] = "ok"
  BY <1>1, <1>3 DEF Wire, WireIdle, WireOk, Walking
<1>4. CASE nmPc[r] = "paths"
  BY <1>1, <1>4 DEF Wire, WireIdle, WirePaths
<1>5. CASE nmPc[r] = "done"
  BY <1>1, <1>5 DEF Wire, WireDone
<1> QED BY <1>2, <1>3, <1>4, <1>5

\* A path goes out, unless it is empty.
LEMMA SendWire ==
    ASSUME TypeInv, WireInv, NEW r \in Refreshes, SendPath(r)
    PROVE  Wire(r)'
<1>1. OnRefreshes /\ ~crashed /\ ssPc[r] = "sending"
  BY TypedOnRefreshes DEF SendPath, SSRuns
<1>2. /\ toSS[r] = <<>>
      /\ \/ nmPc[r] = "ok" /\ next[r] = 0 /\ toNM[r] = <<OK>> /\ r \notin closed
         \/ nmPc[r] = "paths" /\ next[r] = place[r] /\ toNM[r] = <<>> /\ r \notin closed
         \/ nmPc[r] = "done" /\ toNM[r] = <<>>
  BY <1>1, SendersHandler
<1>3. /\ nmPc' = nmPc /\ toSS' = toSS /\ closed' = closed /\ next' = next /\ place' = place
      /\ ssPc'[r] = "sent"
  BY <1>1 DEF SendPath, SSGoto, OnRefreshes, nmVars
<1>4. \/ toNM'[r] = toNM[r]
      \/ \E p \in Entries : toNM'[r] = Append(toNM[r], PathText(p))
  <2> DEFINE p == ss.accessiblePaths[next[r]]
  <2>1. p \in Entries \cup {EMPTY}
    <3>1. ss.accessiblePaths \in [Places -> Paths \cup {Root, EMPTY}] /\ next[r] \in Places
      BY DEF TypeInv, TypeOK, Record
    <3> QED BY <3>1 DEF Entries
  <2>2. toNM'[r] = IF p = EMPTY THEN toNM[r] ELSE Append(toNM[r], PathText(p))
    BY <1>1 DEF SendPath, OnRefreshes
  <2> HIDE DEF p
  <2> QED BY <2>1, <2>2
<1>5. CASE nmPc[r] = "ok"
  <2>1. toNM'[r] = <<OK>> \/ \E p \in Entries : toNM'[r] = <<OK, PathText(p)>>
    BY <1>2, <1>4, <1>5, Short
  <2> QED BY <1>2, <1>3, <1>5, <2>1
          DEF Wire, WireIdle, WireCount, WireOk, WirePaths, WireDone, WireFailed
<1>6. CASE nmPc[r] \in {"paths", "done"}
  <2>1. toNM'[r] = <<>> \/ PathWaits(r)'
    BY <1>2, <1>4, <1>6, Short DEF PathWaits
  <2> QED BY <1>2, <1>3, <1>6, <2>1
          DEF Wire, WireIdle, WireCount, WireOk, WirePaths, WireDone, WireFailed
<1> QED BY <1>2, <1>5, <1>6

\* The thread closes; it cannot have sent nothing, as the mount point is counted.
LEMMA SendEndWire ==
    ASSUME TypeInv, WireInv, NEW r \in Refreshes, SendEnd(r)
    PROVE  Wire(r)'
<1>1. OnRefreshes /\ ~crashed /\ ssPc[r] = "sending"
  BY TypedOnRefreshes DEF SendEnd, SSRuns
<1>2. next[r] >= ss.numPaths /\ ss.numPaths >= 1 /\ ss.numPaths \in Nat
  BY DEF SendEnd, TypeInv, TypeOK, ShapeInv, Record, Places
<1>3. /\ toSS[r] = <<>> /\ toNM[r] = <<>>
      /\ nmPc[r] \in {"paths", "done"}
  BY <1>1, <1>2, SendersHandler
<1>4. /\ nmPc' = nmPc /\ toSS' = toSS /\ toNM' = toNM /\ r \in closed'
      /\ ssPc'[r] = "done"
  BY <1>1 DEF SendEnd, SSGoto, OnRefreshes, nmVars
<1> QED BY <1>3, <1>4
        DEF Wire, WireIdle, WireCount, WireOk, WirePaths, WireDone, WireFailed

\* The thread has its "OK" and goes on, or finds the connection closed.
LEMMA RecvOkWire ==
    ASSUME TypeInv, WireInv, NEW r \in Refreshes, RecvOk(r) \/ RecvOkLost(r)
    PROVE  Wire(r)'
<1>1. OnRefreshes /\ Wire(r) /\ ~crashed /\ ssPc[r] = "sent" /\ next[r] \in Nat /\ place[r] \in Nat
  <2>1. OnRefreshes
    BY TypedOnRefreshes
  <2>2. Wire(r)
    BY DEF WireInv
  <2>3. ~crashed /\ ssPc[r] = "sent"
    BY DEF RecvOk, RecvOkLost, SSRuns
  <2>4. next[r] \in Nat /\ place[r] \in Nat
    BY DEF TypeInv, TypeOK, Places
  <2> QED BY <2>1, <2>2, <2>3, <2>4
<1>2. nmPc[r] \in {"idle", "count", "ok", "paths", "done", "failed"}
  BY DEF TypeInv, TypeOK
<1>3. nmPc' = nmPc /\ closed' = closed /\ toNM' = toNM /\ place' = place
  BY DEF RecvOk, RecvOkLost, nmVars, wireVars
<1>4. CASE RecvOk(r)
  <2>1. toSS[r] # <<>>
    BY <1>4 DEF RecvOk
  <2>2. nmPc[r] \in {"paths", "done"} /\ toSS[r] = <<OK>> /\ toNM[r] = <<>>
    BY <1>1, <1>2, <2>1
       DEF Wire, WireIdle, WireCount, WireOk, WirePaths, WireDone, WireFailed, Walking
  <2>3. nmPc[r] = "paths" => place[r] = next[r] + 1 /\ r \notin closed
    BY <1>1, <2>2, Short DEF Wire, WireIdle, WirePaths
  <2>4. ssPc'[r] = "sending" /\ next'[r] = next[r] + 1 /\ toSS'[r] = <<>>
    BY <1>1, <1>4, <2>2, Short DEF RecvOk, SSGoto, OnRefreshes
  <2> QED BY <1>3, <2>2, <2>3, <2>4
          DEF Wire, WireIdle, WireCount, WireOk, WirePaths, WireDone, WireFailed
<1>5. CASE RecvOkLost(r)
  <2>1. r \in closed /\ toSS[r] = <<>>
    BY <1>1, <1>5 DEF RecvOkLost, EndOfStream
  <2>2. nmPc[r] = "done" /\ (toNM[r] = <<>> \/ PathWaits(r))
    BY <1>1, <2>1 DEF Wire, WireIdle, WireDone
  <2>3. ssPc'[r] = "returned" /\ toSS' = toSS
    BY <1>1, <1>5 DEF RecvOkLost, SSGoto, OnRefreshes, wireVars
  <2> QED BY <1>3, <2>1, <2>2, <2>3
          DEF Wire, WireIdle, WireCount, WireOk, WirePaths, WireDone, WireFailed, PathWaits
<1> QED BY <1>4, <1>5

\* Every step keeps handler, thread and streams in one of the combinations.
LEMMA WireStep ==
    ASSUME TypeInv, WireInv, [Next]_vars
    PROVE  WireInv'
<1> SUFFICES ASSUME NEW r \in Refreshes PROVE Wire(r)'
  BY DEF WireInv
<1>1. OnRefreshes /\ Wire(r)
  BY TypedOnRefreshes DEF WireInv
<1>2. CASE (\E p \in Volatile : Change(p)) \/ Crash \/ UNCHANGED vars
  <2>1. Same(r) /\ (crashed => crashed')
    BY <1>2 DEF Change, Crash, vars, nmVars, ssVars, wireVars, diskVars, historyVars, Same
  <2> QED BY <1>1, <2>1, SameWire
<1>3. CASE \E q \in Refreshes \ {r} : Step(q)
  <2>1. Same(r) /\ (crashed => crashed')
    BY <1>1, <1>3, OthersSame DEF diskVars
  <2> QED BY <1>1, <2>1, SameWire
<1>4. CASE Step(r)
  BY <1>4, BeginWire, CountWire, OkWire, PathWire, EndWire, WalkWire, EchoWire, SendWire,
     SendEndWire, RecvOkWire DEF Step, Handler, Thread
<1> QED BY <1>2, <1>3, <1>4 DEF Next, Step

----------------------------------------------------------------------------
(* The shared count *)

\* All walks together meet no more than each path once for each refresh.
LEMMA MetBound ==
    /\ IsFiniteSet(Met) /\ Cardinality(Met) \in Nat /\ 1 + Cardinality(Met) <= MaxPaths
    /\ IsFiniteSet(Copying) /\ Cardinality(Copying) \in Nat
<1>1. /\ IsFiniteSet(Refreshes \X Paths)
      /\ Cardinality(Refreshes \X Paths) = Cardinality(Refreshes) * Cardinality(Paths)
  BY RefreshAssumption, FS_Product
<1>2. Met \in SUBSET (Refreshes \X Paths) /\ Copying \in SUBSET Refreshes
  BY DEF Met, Copying
<1>3. /\ IsFiniteSet(Met) /\ Cardinality(Met) <= Cardinality(Refreshes \X Paths)
      /\ IsFiniteSet(Copying)
  BY <1>1, <1>2, RefreshAssumption, FS_Subset
<1>4. Cardinality(Met) \in Nat /\ Cardinality(Copying) \in Nat
  BY <1>3, FS_CardinalityType
<1> QED BY <1>1, <1>3, <1>4, Bounds DEF MaxPaths

\* The shared count is an index of the shared array.
LEMMA CountInRange ==
    ASSUME CountInv, ss.numPaths \in Nat
    PROVE  ss.numPaths \in Places
  BY MetBound, Bounds DEF CountInv, Places

\* A thread enters the walk with nothing met: the count is set back, for the
\* walks of others too.
LEMMA WalkStartCount ==
    ASSUME TypeInv, CountInv, NEW r \in Refreshes, WalkStart(r)
    PROVE  CountInv'
<1>1. OnRefreshes
  BY TypedOnRefreshes
<1>2. /\ ssPc[r] = "start" /\ ssPc' = [ssPc EXCEPT ![r] = "walk"] /\ seen' = seen
      /\ ss'.numPaths = 1
  BY DEF WalkStart, SSGoto
<1>3. Copying' = Copying /\ Met' = Met
  BY <1>1, <1>2 DEF Copying, Met, Over, OnRefreshes
<1> QED BY <1>2, <1>3, MetBound DEF CountInv

\* An entry is met and copied, not yet counted.
LEMMA WalkCopyCount ==
    ASSUME TypeInv, CountInv, NEW r \in Refreshes, NEW p \in Paths, WalkCopy(r, p)
    PROVE  CountInv'
<1>1. OnRefreshes
  BY TypedOnRefreshes
<1>2. /\ ssPc[r] = "walk" /\ ssPc' = [ssPc EXCEPT ![r] = "copied"]
      /\ seen' = [seen EXCEPT ![r] = @ \cup {p}] /\ p \notin seen[r]
      /\ ss'.numPaths = ss.numPaths
  BY DEF WalkCopy, SSGoto, TypeInv, TypeOK, Record
<1>3. Copying' = Copying \cup {r} /\ r \notin Copying
  BY <1>1, <1>2 DEF Copying, OnRefreshes
<1>4. Met' = Met \cup {<<r, p>>} /\ <<r, p>> \notin Met
  BY <1>1, <1>2 DEF Met, Over, OnRefreshes
<1>5. /\ Cardinality(Copying') = Cardinality(Copying) + 1
      /\ Cardinality(Met') = Cardinality(Met) + 1
  BY <1>3, <1>4, MetBound, FS_AddElement
<1>6. ss.numPaths + Cardinality(Copying) <= 1 + Cardinality(Met) /\ ss.numPaths \in Nat
  <2>1. ssPc[r] \notin {"none", "start"}
    BY <1>2
  <2> QED BY <2>1 DEF CountInv, TypeInv, TypeOK, Record, Places
<1> QED BY <1>2, <1>5, <1>6, MetBound DEF CountInv

\* numPaths++ counts the entry that was copied.
LEMMA WalkCountCount ==
    ASSUME TypeInv, CountInv, NEW r \in Refreshes, WalkCount(r)
    PROVE  CountInv'
<1>1. OnRefreshes
  BY TypedOnRefreshes
<1>2. /\ ssPc[r] = "copied" /\ ssPc' = [ssPc EXCEPT ![r] = "walk"] /\ seen' = seen
      /\ ss'.numPaths = ss.numPaths + 1
  BY DEF WalkCount, SSGoto, TypeInv, TypeOK, Record
<1>3. Copying' = Copying \ {r} /\ r \in Copying /\ Met' = Met
  BY <1>1, <1>2 DEF Copying, Met, Over, OnRefreshes
<1>4. Cardinality(Copying') = Cardinality(Copying) - 1
  BY <1>3, MetBound, FS_RemoveElement
<1>5. ss.numPaths + Cardinality(Copying) <= 1 + Cardinality(Met) /\ ss.numPaths \in Nat
  <2>1. ssPc[r] \notin {"none", "start"}
    BY <1>2
  <2> QED BY <2>1 DEF CountInv, TypeInv, TypeOK, Record, Places
<1> QED BY <1>2, <1>3, <1>4, <1>5, MetBound DEF CountInv

\* A walk that is over counts as having met everything.
LEMMA SendCountCount ==
    ASSUME TypeInv, CountInv, NEW r \in Refreshes, SendCount(r)
    PROVE  CountInv'
<1>1. OnRefreshes
  BY TypedOnRefreshes
<1>2. /\ ssPc[r] = "walk" /\ ssPc' = [ssPc EXCEPT ![r] = "echo"] /\ ss' = ss
      /\ seen' = [seen EXCEPT ![r] = {}]
  BY DEF SendCount, SSGoto
<1>3. Copying' = Copying /\ Met \subseteq Met'
  BY <1>1, <1>2 DEF Copying, Met, Over, OnRefreshes
<1>4. IsFiniteSet(Met') /\ Cardinality(Met') \in Nat
  <2>1. Met' \in SUBSET (Refreshes \X Paths)
    BY DEF Met
  <2> QED BY <2>1, RefreshAssumption, FS_Product, FS_Subset, FS_CardinalityType
<1>5. Cardinality(Met) <= Cardinality(Met')
  BY <1>3, <1>4, FS_Subset
<1>6. ss.numPaths + Cardinality(Copying) <= 1 + Cardinality(Met) /\ ss.numPaths \in Nat
  <2>1. ssPc[r] \notin {"none", "start"}
    BY <1>2
  <2> QED BY <2>1 DEF CountInv, TypeInv, TypeOK, Record, Places
<1> QED BY <1>2, <1>3, <1>4, <1>5, <1>6, MetBound DEF CountInv

\* No other step touches the shared count or what walks have met.
LEMMA CountStep ==
    ASSUME TypeInv, WireInv, CountInv, [Next]_vars
    PROVE  CountInv'
<1>1. OnRefreshes
  BY TypedOnRefreshes
<1>2. CASE UNCHANGED <<ss, seen, ssPc>>
  BY <1>2 DEF CountInv, Copying, Met
<1>3. ASSUME NEW r \in Refreshes, RefreshBegin(r) PROVE CountInv'
  <2>1. ss' = ss /\ seen' = seen /\ ssPc[r] = "none"
    BY <1>3 DEF RefreshBegin, WireInv, Wire, WireIdle
  <2>2. ssPc' = ssPc \/ ssPc' = [ssPc EXCEPT ![r] = "start"]
    BY <1>3 DEF RefreshBegin, TypeInv, TypeOK
  <2>3. Copying' = Copying /\ Met' = Met
    BY <1>1, <2>1, <2>2 DEF Copying, Met, Over, OnRefreshes
  <2>4. (\A q \in Refreshes : ssPc[q] \in {"none", "start"}) =>
            \A q \in Refreshes : ssPc'[q] \in {"none", "start"}
    BY <1>1, <2>2 DEF OnRefreshes
  <2> QED BY <2>1, <2>3, <2>4 DEF CountInv
<1>4. ASSUME NEW r \in Refreshes,
             RecvEcho(r) \/ SendPath(r) \/ SendEnd(r) \/ RecvOk(r) \/ RecvOkLost(r)
      PROVE  CountInv'
  <2>1. /\ ss' = ss /\ seen' = seen
        /\ ssPc[r] \in Over /\ \E label \in Over : ssPc' = [ssPc EXCEPT ![r] = label]
    BY <1>4 DEF RecvEcho, SendPath, SendEnd, RecvOk, RecvOkLost, SSGoto, Over
  <2>2. Copying' = Copying /\ Met' = Met
    BY <1>1, <2>1 DEF Copying, Met, Over, OnRefreshes
  <2>3. ssPc[r] \notin {"none", "start"}
    BY <2>1 DEF Over
  <2> QED BY <2>1, <2>2, <2>3 DEF CountInv
<1>5. ASSUME NEW r \in Refreshes, Handler(r) PROVE UNCHANGED <<ss, seen, ssPc>>
  BY <1>5 DEF Handler, RefreshCount, RefreshCountDirty, StoreCount, RefreshOk, RefreshOkLost,
     RefreshPath, RefreshPathLost, RefreshEnd, ssVars
<1>6. ASSUME (\E p \in Volatile : Change(p)) \/ Crash \/ UNCHANGED vars
      PROVE  UNCHANGED <<ss, seen, ssPc>>
  BY <1>6 DEF Change, Crash, vars, ssVars
<1> QED BY <1>2, <1>3, <1>4, <1>5, <1>6, WalkStartCount, WalkCopyCount, WalkCountCount,
        SendCountCount DEF Next, Thread

----------------------------------------------------------------------------
(* Types *)

\* The handlers' part of the type invariant.
HandlerType ==
    /\ nmPc \in [Refreshes -> {"idle", "count", "ok", "paths", "done", "failed"}]
    /\ numPaths \in [Refreshes -> Places] /\ place \in [Refreshes -> Places]
    /\ listing \in Record /\ alive \in BOOLEAN
    /\ \A r \in Refreshes :
           place[r] <= numPaths[r] /\ (nmPc[r] # "paths" => place[r] = 0)

\* The threads' part, but for the bound on the shared count.
ThreadType ==
    /\ ssPc \in [Refreshes -> {"none", "start", "walk", "copied", "echo", "sending",
                               "sent", "returned", "done"}]
    /\ seen \in [Refreshes -> SUBSET Paths] /\ due \in [Refreshes -> SUBSET Paths]
    /\ announced \in [Refreshes -> Places] /\ next \in [Refreshes -> Places]
    /\ ss \in [accessiblePaths : [Places -> Paths \cup {Root, EMPTY}], numPaths : Nat \ {0}]
    /\ \A r \in Refreshes :
           /\ ssPc[r] \in {"none", "start", "walk", "copied", "echo"} => next[r] = 0
           /\ ssPc[r] = "sent" => next[r] < MaxPaths
           /\ ssPc[r] \notin {"walk", "copied"} => seen[r] = {}

\* The rest, but for the lengths of the streams, which Wire knows.
RestType ==
    /\ DOMAIN toNM = Refreshes /\ DOMAIN toSS = Refreshes
    /\ closed \subseteq Refreshes /\ reset \subseteq Refreshes
    /\ disk \subseteq Paths /\ changes \in 0 .. MaxChanges /\ crashed \in BOOLEAN
    /\ latest \in Refreshes \cup {NOBODY}
    /\ beganAt \in [Refreshes -> Nat] /\ overlapped \subseteq Refreshes

\* The combinations of Wire keep the streams short, and every message a text of
\* the protocol.
LEMMA WireStreams ==
    ASSUME NEW r \in Refreshes, Wire(r), announced[r] \in Places,
           nmPc[r] \in {"idle", "count", "ok", "paths", "done", "failed"}
    PROVE  \A stream \in {toNM[r], toSS[r]} :
               Len(stream) <= 2 /\ \A k \in 1 .. Len(stream) : stream[k] \in Texts
<1>1. /\ OK \in Texts /\ Refusal \in Texts /\ Dirty \in Texts /\ CountText(announced[r]) \in Texts
      /\ \A p \in Entries : PathText(p) \in Texts
  BY DEF Texts, Entries
<1> DEFINE Good(s) == Len(s) <= 2 /\ \A k \in 1 .. Len(s) : s[k] \in Texts
<1>2. Good(<<>>) /\ \A m \in Texts : Good(<<m>>) /\ \A n \in Texts : Good(<<m, n>>)
  <2>1. \A k \in 1 .. 1 : k = 1
    OBVIOUS
  <2>2. \A k \in 1 .. 2 : k = 1 \/ k = 2
    OBVIOUS
  <2>3. Good(<<>>)
    BY Short
  <2>4. ASSUME NEW m \in Texts PROVE Good(<<m>>)
    BY <2>1, Short
  <2>5. ASSUME NEW m \in Texts, NEW n \in Texts PROVE Good(<<m, n>>)
    BY <2>2, Short
  <2> QED BY <2>3, <2>4, <2>5
<1> HIDE DEF Good
<1>3. Good(toNM[r])
  BY <1>1, <1>2 DEF Wire, WireIdle, WireCount, WireOk, WirePaths, WireDone, WireFailed, PathWaits
<1>4. Good(toSS[r])
  BY <1>1, <1>2 DEF Wire, WireIdle, WireCount, WireOk, WirePaths, WireDone, WireFailed
<1> QED BY <1>3, <1>4 DEF Good

\* The type invariant has the three parts.
LEMMA TypeParts == TypeInv => HandlerType /\ ThreadType /\ RestType
  BY DEF TypeInv, TypeOK, ShapeInv, HandlerType, ThreadType, RestType, Record, Places

\* The parts make up the whole.
LEMMA TypeWhole ==
    HandlerType /\ ThreadType /\ RestType /\ WireInv /\ CountInv => TypeInv
<1> SUFFICES ASSUME HandlerType, ThreadType, RestType, WireInv, CountInv
             PROVE  TypeInv
  OBVIOUS
<1>1. ss.numPaths \in Places /\ ss.numPaths >= 1
  BY CountInRange DEF ThreadType
<1>2. ss \in Record
  BY <1>1 DEF ThreadType, Record
<1>3. ASSUME NEW r \in Refreshes
      PROVE  \A stream \in {toNM[r], toSS[r]} :
                 Len(stream) <= 2 /\ \A k \in 1 .. Len(stream) : stream[k] \in Texts
  BY WireStreams DEF WireInv, ThreadType, HandlerType
<1>4. TypeOK
  BY <1>2, <1>3 DEF TypeOK, HandlerType, ThreadType, RestType
<1> QED BY <1>1, <1>4 DEF TypeInv, ShapeInv, HandlerType, ThreadType, RestType

\* The handler stores a count that the thread sent or that old bytes stand for,
\* and paths that the thread sent, at places below its count.
LEMMA HandlerTypeStep ==
    ASSUME TypeInv, WireInv, [Next]_vars
    PROVE  HandlerType'
<1>0. HandlerType /\ OnRefreshes
  BY TypeParts, TypedOnRefreshes
<1>1. CASE UNCHANGED nmVars
  BY <1>0, <1>1 DEF HandlerType, nmVars
<1>2. ASSUME NEW r \in Refreshes, RefreshBegin(r) PROVE HandlerType'
  BY <1>0, <1>2 DEF HandlerType, RefreshBegin, NMGoto
<1>3. ASSUME NEW r \in Refreshes, NEW n \in Places, NEW text, StoreCount(r, n, text),
             nmPc[r] = "count"
      PROVE  HandlerType'
  <2>1. /\ nmPc' = [nmPc EXCEPT ![r] = "ok"] /\ numPaths' = [numPaths EXCEPT ![r] = n]
        /\ listing' = [listing EXCEPT !.numPaths = n] /\ UNCHANGED <<place, alive>>
    BY <1>3 DEF StoreCount, NMGoto
  <2>2. listing' \in Record
    BY <1>0, <2>1 DEF HandlerType, Record
  <2>3. n \in Nat /\ place[r] = 0
    BY <1>0, <1>3 DEF HandlerType, Places
  <2> QED BY <1>0, <2>1, <2>2, <2>3 DEF HandlerType
<1>4. ASSUME NEW r \in Refreshes, RefreshCount(r) \/ RefreshCountDirty(r) PROVE HandlerType'
  <2>1. CASE RefreshCount(r)
    <3>1. nmPc[r] = "count" /\ toNM[r] # <<>> /\ Wire(r)
      BY <2>1 DEF RefreshCount, WireInv
    <3>2. toNM[r] = <<CountText(announced[r])>> /\ announced[r] \in Places
      BY <3>1 DEF Wire, WireCount, TypeInv, TypeOK
    <3>3. Head(toNM[r])[2] \in Places
      BY <3>2, Short, TextsDiffer
    <3> QED BY <1>3, <2>1, <3>1, <3>3 DEF RefreshCount
  <2>2. CASE RefreshCountDirty(r)
    BY <1>3, <2>2, RefreshAssumption DEF RefreshCountDirty
  <2> QED BY <1>4, <2>1, <2>2
<1>5. ASSUME NEW r \in Refreshes, RefreshOk(r) \/ RefreshOkLost(r) PROVE HandlerType'
  <2>1. /\ \E label \in {"paths", "failed"} : nmPc' = [nmPc EXCEPT ![r] = label]
        /\ nmPc[r] = "ok"
        /\ listing' \in {listing, [listing EXCEPT !.accessiblePaths = Blank]}
        /\ UNCHANGED <<numPaths, place, alive>>
    <3>1. CASE RefreshOk(r)
      <4>1. \E taken \in Taken(toNM[r]) :
                IF taken = <<OK>>
                THEN listing' = [listing EXCEPT !.accessiblePaths = Blank] /\ NMGoto(r, "paths")
                ELSE NMGoto(r, "failed") /\ UNCHANGED listing
        BY <3>1 DEF RefreshOk
      <4> QED BY <3>1, <4>1 DEF RefreshOk, NMGoto
    <3>2. CASE RefreshOkLost(r)
      BY <3>2 DEF RefreshOkLost, NMGoto
    <3> QED BY <1>5, <3>1, <3>2
  <2>2. listing' \in Record
    BY <1>0, <2>1 DEF HandlerType, Record, Blank
  <2> QED BY <1>0, <2>1, <2>2 DEF HandlerType
<1>6. ASSUME NEW r \in Refreshes, RefreshPath(r) \/ RefreshPathLost(r) PROVE HandlerType'
  <2>1. PICK p \in Entries \cup {EMPTY} : PathArrives(r, p)
    <3>1. CASE RefreshPath(r)
      <4>1. nmPc[r] = "paths" /\ toNM[r] # <<>> /\ Wire(r)
        BY <3>1 DEF RefreshPath, WireInv
      <4>2. PICK p \in Entries : toNM[r] = <<PathText(p)>>
        BY <4>1 DEF Wire, WirePaths, PathWaits
      <4>3. Head(toNM[r])[2] = p
        BY <4>2, Short, TextsDiffer
      <4> QED BY <3>1, <4>3 DEF RefreshPath
    <3>2. CASE RefreshPathLost(r)
      BY <3>2 DEF RefreshPathLost
    <3> QED BY <1>6, <3>1, <3>2
  <2>2. /\ nmPc' = nmPc /\ numPaths' = numPaths /\ alive' \in BOOLEAN
        /\ place[r] < numPaths[r] /\ nmPc[r] = "paths"
    BY <1>0, <1>6 DEF RefreshPath, RefreshPathLost, HandlerType
  <2>3. place' = [place EXCEPT ![r] = @ + 1]
    BY <2>1 DEF PathArrives
  <2>4. listing' = [listing EXCEPT !.accessiblePaths[place[r]] = p]
    BY <2>1 DEF PathArrives
  <2>5. listing' \in Record
    BY <1>0, <2>1, <2>4 DEF HandlerType, Record, Entries
  <2>6. place[r] \in Nat /\ numPaths[r] \in Nat /\ numPaths[r] <= MaxPaths /\ MaxPaths \in Nat
    BY <1>0, Bounds DEF HandlerType, Places
  <2>7. place[r] + 1 \in Places /\ place[r] + 1 <= numPaths[r]
    BY <2>2, <2>6 DEF Places
  <2> QED BY <1>0, <2>2, <2>3, <2>5, <2>7 DEF HandlerType
<1>7. ASSUME NEW r \in Refreshes, RefreshEnd(r) PROVE HandlerType'
  <2>1. /\ nmPc' = [nmPc EXCEPT ![r] = "done"] /\ numPaths' = [numPaths EXCEPT ![r] = 0]
        /\ place' = [place EXCEPT ![r] = 0] /\ UNCHANGED <<listing, alive>>
    BY <1>7 DEF RefreshEnd, NMGoto
  <2>2. 0 \in Places
    BY Bounds DEF Places
  <2> QED BY <1>0, <2>1, <2>2 DEF HandlerType
<1>8. ASSUME NEW r \in Refreshes, Thread(r) PROVE UNCHANGED nmVars
  BY <1>8 DEF Thread, WalkStart, WalkCopy, WalkCount, SendCount, RecvEcho, SendPath, SendEnd,
     RecvOk, RecvOkLost
<1>9. ASSUME (\E p \in Volatile : Change(p)) \/ Crash \/ UNCHANGED vars
      PROVE  UNCHANGED nmVars
  BY <1>9 DEF Change, Crash, vars
<1> QED BY <1>1, <1>2, <1>4, <1>5, <1>6, <1>7, <1>8, <1>9 DEF Next, Handler

\* A walk copies and counts what it meets; a thread sends from places below the
\* shared count.
LEMMA ThreadTypeStep ==
    ASSUME TypeInv, WireInv, [Next]_vars
    PROVE  ThreadType'
<1>0. /\ ThreadType /\ disk \subseteq Paths
      /\ MaxPaths \in Nat /\ ss.numPaths \in Nat /\ 1 <= ss.numPaths /\ ss.numPaths <= MaxPaths
      /\ ss.accessiblePaths \in [Places -> Paths \cup {Root, EMPTY}]
  BY TypeParts, Bounds DEF TypeInv, TypeOK, ShapeInv, Record, Places
<1>1. CASE UNCHANGED ssVars
  BY <1>0, <1>1 DEF ThreadType, ssVars
<1>2. ASSUME NEW r \in Refreshes, RefreshBegin(r) PROVE ThreadType'
  <2>1. /\ UNCHANGED <<seen, due, announced, next, ss>>
        /\ ssPc[r] = "none"
        /\ ssPc' = [ssPc EXCEPT ![r] = IF crashed THEN "none" ELSE "start"]
    BY <1>2 DEF RefreshBegin, WireInv, Wire, WireIdle
  <2> QED BY <1>0, <2>1 DEF ThreadType
<1>3. ASSUME NEW r \in Refreshes, WalkStart(r) PROVE ThreadType'
  <2>1. /\ ssPc[r] = "start" /\ ssPc' = [ssPc EXCEPT ![r] = "walk"]
        /\ due' = [due EXCEPT ![r] = disk] /\ UNCHANGED <<seen, announced, next>>
        /\ ss' = [accessiblePaths |-> [Blank EXCEPT ![0] = Root], numPaths |-> 1]
    BY <1>3 DEF WalkStart, SSGoto
  <2>2. ss' \in [accessiblePaths : [Places -> Paths \cup {Root, EMPTY}], numPaths : Nat \ {0}]
    <3>1. Blank \in [Places -> Paths \cup {Root, EMPTY}]
      BY DEF Blank
    <3>2. [Blank EXCEPT ![0] = Root] \in [Places -> Paths \cup {Root, EMPTY}]
      BY <3>1
    <3> QED BY <2>1, <3>2
  <2> QED BY <1>0, <2>1, <2>2 DEF ThreadType
<1>4. ASSUME NEW r \in Refreshes, NEW p \in Paths, WalkCopy(r, p) PROVE ThreadType'
  <2>1. /\ ssPc[r] = "walk" /\ ssPc' = [ssPc EXCEPT ![r] = "copied"]
        /\ seen' = [seen EXCEPT ![r] = @ \cup {p}] /\ UNCHANGED <<due, announced, next>>
        /\ ss' = [ss EXCEPT !.accessiblePaths[ss.numPaths] = p]
    BY <1>4 DEF WalkCopy, SSGoto
  <2>2. ss' \in [accessiblePaths : [Places -> Paths \cup {Root, EMPTY}], numPaths : Nat \ {0}]
    BY <1>0, <2>1 DEF ThreadType
  <2> QED BY <1>0, <2>1, <2>2 DEF ThreadType
<1>5. ASSUME NEW r \in Refreshes, WalkCount(r) PROVE ThreadType'
  <2>1. /\ ssPc[r] = "copied" /\ ssPc' = [ssPc EXCEPT ![r] = "walk"]
        /\ ss' = [ss EXCEPT !.numPaths = @ + 1] /\ UNCHANGED <<seen, due, announced, next>>
    BY <1>5 DEF WalkCount, SSGoto
  <2>2. ss' \in [accessiblePaths : [Places -> Paths \cup {Root, EMPTY}], numPaths : Nat \ {0}]
    BY <1>0, <2>1 DEF ThreadType
  <2> QED BY <1>0, <2>1, <2>2 DEF ThreadType
<1>6. ASSUME NEW r \in Refreshes, SendCount(r) PROVE ThreadType'
  <2>1. /\ ssPc[r] = "walk" /\ ssPc' = [ssPc EXCEPT ![r] = "echo"]
        /\ announced' = [announced EXCEPT ![r] = ss.numPaths]
        /\ seen' = [seen EXCEPT ![r] = {}] /\ due' = [due EXCEPT ![r] = {}]
        /\ UNCHANGED <<next, ss>>
    BY <1>6 DEF SendCount, SSGoto
  <2>2. ss.numPaths \in Places
    BY <1>0 DEF Places
  <2> QED BY <1>0, <2>1, <2>2 DEF ThreadType
<1>7. ASSUME NEW r \in Refreshes, RecvEcho(r) PROVE ThreadType'
  <2>1. /\ ssPc[r] = "echo" /\ announced' = [announced EXCEPT ![r] = 0]
        /\ \E label \in {"sending", "returned"} : ssPc' = [ssPc EXCEPT ![r] = label]
        /\ UNCHANGED <<seen, due, next, ss>>
    BY <1>7 DEF RecvEcho, SSGoto
  <2>2. 0 \in Places
    BY <1>0 DEF Places
  <2> QED BY <1>0, <2>1, <2>2 DEF ThreadType
<1>8. ASSUME NEW r \in Refreshes, SendPath(r) PROVE ThreadType'
  <2>1. /\ ssPc[r] = "sending" /\ ssPc' = [ssPc EXCEPT ![r] = "sent"]
        /\ next[r] < ss.numPaths /\ UNCHANGED <<seen, due, announced, next, ss>>
    BY <1>8 DEF SendPath, SSGoto
  <2>2. next[r] < MaxPaths
    BY <1>0, <2>1 DEF ThreadType, Places
  <2> QED BY <1>0, <2>1, <2>2 DEF ThreadType
<1>9. ASSUME NEW r \in Refreshes, SendEnd(r) PROVE ThreadType'
  <2>1. /\ ssPc[r] = "sending" /\ ssPc' = [ssPc EXCEPT ![r] = "done"]
        /\ next' = [next EXCEPT ![r] = 0] /\ UNCHANGED <<seen, due, announced, ss>>
    BY <1>9 DEF SendEnd, SSGoto
  <2>2. 0 \in Places
    BY <1>0 DEF Places
  <2> QED BY <1>0, <2>1, <2>2 DEF ThreadType
<1>10. ASSUME NEW r \in Refreshes, RecvOk(r) \/ RecvOkLost(r) PROVE ThreadType'
  <2>1. ssPc[r] = "sent" /\ UNCHANGED <<seen, due, announced, ss>>
    BY <1>10 DEF RecvOk, RecvOkLost
  <2>2. \/ ssPc' = [ssPc EXCEPT ![r] = "sending"] /\ next' = [next EXCEPT ![r] = @ + 1]
        \/ ssPc' = [ssPc EXCEPT ![r] = "returned"] /\ next' = next
    BY <1>10 DEF RecvOk, RecvOkLost, SSGoto
  <2>3. next[r] + 1 \in Places
    BY <1>0, <2>1 DEF ThreadType, Places
  <2> QED BY <1>0, <2>1, <2>2, <2>3 DEF ThreadType
<1>11. ASSUME NEW r \in Refreshes, Handler(r) PROVE UNCHANGED ssVars
  BY <1>11 DEF Handler, RefreshCount, RefreshCountDirty, StoreCount, RefreshOk, RefreshOkLost,
     RefreshPath, RefreshPathLost, RefreshEnd
<1>12. ASSUME (\E p \in Volatile : Change(p)) \/ Crash \/ UNCHANGED vars
       PROVE  UNCHANGED ssVars
  BY <1>12 DEF Change, Crash, vars
<1> QED BY <1>1, <1>2, <1>3, <1>4, <1>5, <1>6, <1>7, <1>8, <1>9, <1>10, <1>11, <1>12
        DEF Next, Thread

\* Streams, connections, the disk and the histories.
LEMMA RestTypeStep ==
    ASSUME TypeInv, [Next]_vars
    PROVE  RestType'
<1>0. RestType
  BY TypeParts
<1>1. ASSUME NEW r \in Refreshes, RefreshBegin(r) PROVE RestType'
  <2>1. changes \in Nat
    BY <1>0 DEF RestType
  <2> QED BY <1>0, <1>1, <2>1 DEF RestType, RefreshBegin, wireVars, diskVars
<1>2. ASSUME NEW r \in Refreshes, Handler(r) PROVE RestType'
  <2>1. UNCHANGED diskVars /\ UNCHANGED historyVars
    BY <1>2 DEF Handler, RefreshCount, RefreshCountDirty, StoreCount, RefreshOk, RefreshOkLost,
       RefreshPath, RefreshPathLost, RefreshEnd
  <2>2. closed' \in {closed, closed \cup {r}} /\ reset' \in {reset, reset \cup {r}}
    BY <1>2 DEF Handler, RefreshCount, RefreshCountDirty, StoreCount, RefreshOk, RefreshOkLost,
       RefreshPath, RefreshPathLost, RefreshEnd, wireVars
  <2>3. DOMAIN toNM' = Refreshes /\ DOMAIN toSS' = Refreshes
    BY <1>0, <1>2 DEF Handler, RefreshCount, RefreshCountDirty, StoreCount, RefreshOk,
       RefreshOkLost, RefreshPath, RefreshPathLost, RefreshEnd, wireVars, RestType
  <2> QED BY <1>0, <2>1, <2>2, <2>3 DEF RestType, diskVars, historyVars
<1>3. ASSUME NEW r \in Refreshes, Thread(r) PROVE RestType'
  <2>1. UNCHANGED diskVars /\ UNCHANGED historyVars
    BY <1>3 DEF Thread, WalkStart, WalkCopy, WalkCount, SendCount, RecvEcho, SendPath, SendEnd,
       RecvOk, RecvOkLost
  <2>2. closed' \in {closed, closed \cup {r}} /\ reset' = reset
    BY <1>3 DEF Thread, WalkStart, WalkCopy, WalkCount, SendCount, RecvEcho, SendPath, SendEnd,
       RecvOk, RecvOkLost, wireVars
  <2>3. DOMAIN toNM' = Refreshes /\ DOMAIN toSS' = Refreshes
    BY <1>0, <1>3 DEF Thread, WalkStart, WalkCopy, WalkCount, SendCount, RecvEcho, SendPath,
       SendEnd, RecvOk, RecvOkLost, wireVars, RestType
  <2> QED BY <1>0, <2>1, <2>2, <2>3 DEF RestType, diskVars, historyVars
<1>4. ASSUME NEW p \in Volatile, Change(p) PROVE RestType'
  <2>1. p \in Paths /\ MaxChanges \in Nat
    BY RefreshAssumption
  <2>2. changes' \in 0 .. MaxChanges
    BY <1>0, <1>4, <2>1 DEF RestType, Change
  <2>3. disk' \subseteq Paths
    BY <1>0, <1>4, <2>1 DEF RestType, Change
  <2> QED BY <1>0, <1>4, <2>2, <2>3 DEF RestType, Change, wireVars, historyVars
<1>5. ASSUME Crash PROVE RestType'
  <2>1. changes' \in 0 .. MaxChanges
    BY <1>0, <1>5, RefreshAssumption DEF RestType, Crash
  <2> QED BY <1>0, <1>5, <2>1 DEF RestType, Crash, wireVars, historyVars
<1>6. ASSUME UNCHANGED vars PROVE RestType'
  BY <1>0, <1>6 DEF RestType, vars, wireVars, diskVars, historyVars
<1> QED BY <1>1, <1>2, <1>3, <1>4, <1>5, <1>6 DEF Next

\* A step keeps the types, given where handlers, threads and the count are.
LEMMA TypeStep ==
    ASSUME TypeInv, WireInv, CountInv, [Next]_vars
    PROVE  TypeInv' /\ WireInv' /\ CountInv'
<1>1. WireInv' /\ CountInv' /\ HandlerType' /\ ThreadType' /\ RestType'
  BY WireStep, CountStep, HandlerTypeStep, ThreadTypeStep, RestTypeStep
<1> QED BY <1>1, TypeWhole, PTL

----------------------------------------------------------------------------
(* Refreshes that run alone *)

\* Handlers only move on, and nobody but a beginning refresh touches the histories.
LEMMA HandlersMoveOn ==
    ASSUME TypeInv, [Next]_vars, \A r \in Refreshes : ~RefreshBegin(r)
    PROVE  /\ UNCHANGED historyVars
           /\ \A q \in Refreshes :
                  /\ Running(q)' => Running(q)
                  /\ nmPc'[q] = "done" => nmPc[q] = "done" \/ Running(q)
                  /\ nmPc[q] = "idle" => nmPc'[q] = "idle"
<1>0. OnRefreshes
  BY TypedOnRefreshes
<1>1. CASE nmPc' = nmPc /\ UNCHANGED historyVars
  BY <1>1 DEF Running
<1>2. ASSUME NEW r \in Refreshes, Handler(r)
      PROVE  /\ UNCHANGED historyVars
             /\ Running(r)
             /\ \E label \in {"count", "ok", "paths", "done", "failed"} :
                    nmPc' = [nmPc EXCEPT ![r] = label]
  <2>1. UNCHANGED historyVars /\ Running(r)
    BY <1>2 DEF Handler, RefreshCount, RefreshCountDirty, StoreCount, RefreshOk, RefreshOkLost,
       RefreshPath, RefreshPathLost, RefreshEnd, Running
  <2>2. CASE RefreshPath(r) \/ RefreshPathLost(r)
    <3>1. nmPc' = nmPc /\ nmPc[r] = "paths"
      BY <2>2 DEF RefreshPath, RefreshPathLost
    <3>2. nmPc' = [nmPc EXCEPT ![r] = "paths"]
      BY <3>1 DEF TypeInv, TypeOK
    <3> QED BY <2>1, <3>2
  <2>3. CASE RefreshCount(r) \/ RefreshCountDirty(r) \/ RefreshOk(r) \/ RefreshOkLost(r)
             \/ RefreshEnd(r)
    BY <2>1, <2>3 DEF RefreshCount, RefreshCountDirty, StoreCount, RefreshOk, RefreshOkLost,
       RefreshEnd, NMGoto
  <2> QED BY <1>2, <2>2, <2>3 DEF Handler
<1>3. ASSUME NEW r \in Refreshes, Handler(r)
      PROVE  \A q \in Refreshes :
                  /\ Running(q)' => Running(q)
                  /\ nmPc'[q] = "done" => nmPc[q] = "done" \/ Running(q)
                  /\ nmPc[q] = "idle" => nmPc'[q] = "idle"
  BY <1>0, <1>2, <1>3 DEF Running, OnRefreshes
<1>4. ASSUME NEW r \in Refreshes, Thread(r) PROVE nmPc' = nmPc /\ UNCHANGED historyVars
  BY <1>4 DEF Thread, WalkStart, WalkCopy, WalkCount, SendCount, RecvEcho, SendPath, SendEnd,
     RecvOk, RecvOkLost, nmVars
<1>5. ASSUME (\E p \in Volatile : Change(p)) \/ Crash \/ UNCHANGED vars
      PROVE  nmPc' = nmPc /\ UNCHANGED historyVars
  BY <1>5 DEF Change, Crash, vars, nmVars
<1> QED BY <1>1, <1>2, <1>3, <1>4, <1>5 DEF Next

\* A refresh that begins while another runs marks both.
LEMMA AloneStep ==
    ASSUME TypeInv, AloneInv, BeganInv, [Next]_vars
    PROVE  AloneInv' /\ BeganInv'
<1>0. /\ OnRefreshes /\ changes \in Nat /\ beganAt \in [Refreshes -> Nat]
      /\ overlapped \subseteq Refreshes
  BY TypedOnRefreshes DEF TypeInv, TypeOK
<1>1. ASSUME NEW r \in Refreshes, RefreshBegin(r) PROVE AloneInv' /\ BeganInv'
  <2>1. /\ latest' = r /\ nmPc[r] = "idle" /\ changes' = changes
        /\ beganAt' = [beganAt EXCEPT ![r] = changes]
        /\ \E label : nmPc' = [nmPc EXCEPT ![r] = label]
    BY <1>1 DEF RefreshBegin, NMGoto, diskVars
  <2>2. \A q \in Refreshes \ {r} : Running(q)' <=> Running(q)
    BY <1>0, <2>1 DEF Running, OnRefreshes
  <2>3. \A q \in Refreshes : Running(q) => q \in overlapped' /\ r \in overlapped'
    BY <1>1 DEF RefreshBegin
  <2>4. r # NOBODY
    BY RefreshAssumption
  <2>5. AloneInv'
    BY <2>1, <2>2, <2>3, <2>4 DEF AloneInv, Alone
  <2>6. BeganInv'
    BY <1>0, <2>1 DEF BeganInv
  <2> QED BY <2>5, <2>6
<1>2. CASE \A r \in Refreshes : ~RefreshBegin(r)
  <2>1. /\ latest' = latest /\ overlapped' = overlapped /\ beganAt' = beganAt
        /\ \A q \in Refreshes :
                  /\ Running(q)' => Running(q)
                  /\ nmPc'[q] = "done" => nmPc[q] = "done" \/ Running(q)
                  /\ nmPc[q] = "idle" => nmPc'[q] = "idle"
    BY <1>0, <1>2, HandlersMoveOn DEF historyVars
  <2>2. changes' \in Nat /\ changes <= changes'
    <3>1. changes' = changes \/ changes' = changes + 1
      <4>1. ASSUME NEW r \in Refreshes, Step(r) PROVE changes' = changes
        BY <4>1 DEF Step, RefreshBegin, Handler, RefreshCount, RefreshCountDirty, StoreCount,
           RefreshOk, RefreshOkLost, RefreshPath, RefreshPathLost, RefreshEnd, Thread, WalkStart, WalkCopy,
           WalkCount, SendCount, RecvEcho, SendPath, SendEnd, RecvOk, RecvOkLost, diskVars
      <4> QED BY <4>1 DEF Next, Step, Change, Crash, vars, diskVars
    <3> QED BY <1>0, <3>1
  <2>3. AloneInv'
    BY <2>1 DEF AloneInv, Alone
  <2>4. BeganInv'
    BY <1>0, <2>1, <2>2 DEF BeganInv
  <2> QED BY <2>3, <2>4
<1> QED BY <1>1, <1>2

\* While a refresh runs alone, or has been the last one, nobody else writes the
\* shared record or the listing.
LEMMA OtherStep ==
    ASSUME TypeInv, WireInv, AloneInv, ~crashed,
           NEW r \in Refreshes, Alone(r),
           NEW q \in Refreshes \ {r}, Handler(q) \/ Thread(q)
    PROVE  Same(r) /\ ss' = ss /\ listing' = listing /\ changes' = changes /\ disk' = disk
<1>1. Same(r) /\ changes' = changes /\ disk' = disk
  BY TypedOnRefreshes, OthersSame DEF Step, diskVars
<1>2. ~Running(q)
  BY DEF AloneInv
<1>3. ~Handler(q)
  BY <1>2 DEF Running, Handler, RefreshCount, RefreshCountDirty, RefreshOk, RefreshOkLost,
     RefreshPath, RefreshPathLost, RefreshEnd
<1>4. ssPc[q] \notin Walking
  BY <1>2, WalkersWait DEF Running
<1>5. RecvEcho(q) \/ SendPath(q) \/ SendEnd(q) \/ RecvOk(q) \/ RecvOkLost(q)
  BY <1>3, <1>4 DEF Thread, WalkStart, WalkCopy, WalkCount, SendCount, Walking
<1>6. ss' = ss /\ listing' = listing
  BY <1>5 DEF RecvEcho, SendPath, SendEnd, RecvOk, RecvOkLost, nmVars
<1> QED BY <1>1, <1>6

\* A refresh that is alone after a step was alone before it, or has just begun.
LEMMA AloneBefore ==
    ASSUME TypeInv, [Next]_vars, NEW r \in Refreshes, Alone(r)'
    PROVE  RefreshBegin(r) \/ (Alone(r) /\ \A q \in Refreshes : ~RefreshBegin(q))
<1>1. ASSUME NEW q \in Refreshes, RefreshBegin(q) PROVE q = r
  BY <1>1 DEF RefreshBegin, Alone
<1>2. CASE \A q \in Refreshes : ~RefreshBegin(q)
  <2>1. latest' = latest /\ overlapped' = overlapped
    BY <1>2, HandlersMoveOn DEF historyVars
  <2>2. Running(r) \/ nmPc[r] = "done"
    BY <1>2, HandlersMoveOn DEF Alone
  <2> QED BY <1>2, <2>1, <2>2 DEF Alone
<1> QED BY <1>1, <1>2

\* As long as the storage server runs and the refresh is alone, its handler never
\* reaches the end of the stream before its count.
LEMMA NoEarlyEnd ==
    ASSUME TypeInv, WireInv, FrozenInv, ~crashed, NEW r \in Refreshes, Alone(r)
    PROVE  ~RefreshPathLost(r)
<1> SUFFICES ASSUME RefreshPathLost(r) PROVE FALSE
  OBVIOUS
<1>1. /\ nmPc[r] = "paths" /\ place[r] < numPaths[r] /\ r \in closed /\ Wire(r)
      /\ place[r] \in Nat /\ numPaths[r] \in Nat
  BY DEF RefreshPathLost, EndOfStream, WireInv, TypeInv, TypeOK, Places
<1>2. ssPc[r] = "done" /\ Running(r)
  BY <1>1 DEF Wire, WireIdle, Running
<1>3. place[r] = numPaths[r]
  BY <1>2 DEF FrozenInv, Frozen
<1> QED BY <1>1, <1>3

\* The handler's own steps.
LEMMA FrozenHandler ==
    ASSUME TypeInv, WireInv, FrozenInv, ~crashed, NEW r \in Refreshes, Alone(r), Handler(r)
    PROVE  Frozen(r)'
<1>0. /\ OnRefreshes /\ Wire(r) /\ Frozen(r)
      /\ ssPc' = ssPc /\ announced' = announced /\ ss' = ss
  BY TypedOnRefreshes DEF WireInv, FrozenInv, Handler, RefreshCount, RefreshCountDirty, StoreCount,
     RefreshOk, RefreshOkLost, RefreshPath, RefreshPathLost, RefreshEnd, ssVars
<1>1. CASE RefreshCount(r) \/ RefreshCountDirty(r)
  <2>1. nmPc[r] = "count"
    BY <1>1 DEF RefreshCount, RefreshCountDirty
  <2>2. ssPc[r] \in Walking \cup {"echo"}
    BY <1>0, <2>1 DEF Wire, WireCount
  <2> QED BY <1>0, <2>2 DEF Frozen, Walking
<1>2. CASE RefreshOk(r) \/ RefreshOkLost(r)
  <2>1. nmPc[r] = "ok" /\ numPaths' = numPaths /\ place' = place
    BY <1>2 DEF RefreshOk, RefreshOkLost
  <2>2. Running(r)
    BY <2>1 DEF Running
  <2> QED BY <1>0, <2>1, <2>2 DEF Frozen
<1>3. CASE RefreshPath(r)
  <2>1. nmPc[r] = "paths" /\ toNM[r] # <<>> /\ numPaths' = numPaths
    BY <1>3 DEF RefreshPath
  <2>2. ssPc[r] = "sent" /\ Running(r)
    BY <1>0, <2>1 DEF Wire, WirePaths, Running
  <2> QED BY <1>0, <2>1, <2>2 DEF Frozen
<1>4. CASE RefreshEnd(r)
  <2>1. ~Running(r)'
    BY <1>0, <1>4 DEF RefreshEnd, NMGoto, Running, OnRefreshes
  <2> QED BY <1>0, <2>1 DEF Frozen
<1> QED BY <1>1, <1>2, <1>3, <1>4, NoEarlyEnd DEF Handler

\* The thread's own steps: the count that came back is the count that was sent, and
\* the loop ends where that count is reached.
LEMMA FrozenThread ==
    ASSUME TypeInv, WireInv, FrozenInv, ~crashed, NEW r \in Refreshes, Alone(r), Thread(r)
    PROVE  Frozen(r)'
<1>0. /\ OnRefreshes /\ Wire(r) /\ Frozen(r)
      /\ nmPc' = nmPc /\ numPaths' = numPaths /\ place' = place
  BY TypedOnRefreshes DEF WireInv, FrozenInv, Thread, WalkStart, WalkCopy, WalkCount, SendCount,
     RecvEcho, SendPath, SendEnd, RecvOk, RecvOkLost, nmVars
<1>1. CASE WalkStart(r) \/ WalkCount(r) \/ \E p \in Paths : WalkCopy(r, p)
  <2>1. ssPc'[r] \in Walking
    BY <1>0, <1>1 DEF WalkStart, WalkCount, WalkCopy, SSGoto, OnRefreshes, Walking
  <2> QED BY <2>1 DEF Frozen, Walking
<1>2. CASE SendCount(r)
  <2>1. ssPc'[r] = "echo" /\ announced'[r] = ss.numPaths /\ ss' = ss
    BY <1>0, <1>2 DEF SendCount, SSGoto, OnRefreshes
  <2> QED BY <2>1 DEF Frozen
<1>3. CASE RecvEcho(r)
  <2>1. /\ ssPc[r] = "echo" /\ ss' = ss /\ ssPc'[r] \in {"sending", "returned"}
    BY <1>0, <1>3 DEF RecvEcho, SSGoto, OnRefreshes
  <2>2. ssPc'[r] = "sending" => numPaths[r] = announced[r]
    BY <1>3, EchoWire
  <2> QED BY <1>0, <2>1, <2>2 DEF Frozen
<1>4. CASE SendPath(r) \/ RecvOk(r) \/ RecvOkLost(r)
  <2>1. /\ ssPc[r] \in {"sending", "sent"} /\ ss' = ss
        /\ ssPc'[r] \in {"sending", "sent", "returned"}
    BY <1>0, <1>4 DEF SendPath, RecvOk, RecvOkLost, SSGoto, OnRefreshes
  <2> QED BY <1>0, <2>1 DEF Frozen, Running
<1>5. CASE SendEnd(r)
  <2>1. ssPc[r] = "sending" /\ ssPc'[r] = "done" /\ ss' = ss /\ next[r] >= ss.numPaths
    BY <1>0, <1>5 DEF SendEnd, SSGoto, OnRefreshes
  <2>2. /\ ss.numPaths >= 1 /\ ss.numPaths \in Nat /\ place[r] \in Nat /\ numPaths[r] \in Nat
        /\ place[r] <= numPaths[r]
    BY DEF TypeInv, TypeOK, ShapeInv, Record, Places
  <2>3. Running(r) => place[r] = next[r] /\ numPaths[r] = ss.numPaths
    BY <1>0, <2>1, <2>2, SendersHandler DEF Running, Frozen
  <2>4. Running(r)' <=> Running(r)
    BY <1>0 DEF Running
  <2> QED BY <1>0, <2>1, <2>2, <2>3, <2>4 DEF Frozen
<1> QED BY <1>1, <1>2, <1>3, <1>4, <1>5 DEF Thread

\* No step of anybody moves the shared count under a refresh that is alone.
LEMMA FrozenStep ==
    ASSUME TypeInv, WireInv, AloneInv, FrozenInv, [Next]_vars
    PROVE  FrozenInv'
<1> SUFFICES ASSUME ~crashed', NEW r \in Refreshes, Alone(r)' PROVE Frozen(r)'
  BY DEF FrozenInv
<1>0. OnRefreshes
  BY TypedOnRefreshes
<1>1. CASE RefreshBegin(r)
  <2>1. ssPc'[r] = "start" \/ crashed'
    BY <1>0, <1>1 DEF RefreshBegin, OnRefreshes, diskVars
  <2> QED BY <2>1 DEF Frozen
<1>2. CASE Alone(r) /\ \A q \in Refreshes : ~RefreshBegin(q)
  <2>1. CASE (\E p \in Volatile : Change(p)) \/ Crash \/ UNCHANGED vars
    <3>1. ~crashed /\ Same(r) /\ ss' = ss
      BY <2>1 DEF Change, Crash, vars, nmVars, ssVars, wireVars, diskVars, historyVars, Same
    <3> QED BY <1>2, <3>1 DEF FrozenInv, Frozen, Same, Running
  <2>2. ASSUME NEW q \in Refreshes, Handler(q) \/ Thread(q) PROVE Frozen(r)'
    <3>1. ~crashed
      BY <2>2 DEF Handler, RefreshCount, RefreshCountDirty, StoreCount, RefreshOk,
         RefreshOkLost, RefreshPath, RefreshPathLost, RefreshEnd, Thread, WalkStart, WalkCopy,
         WalkCount, SendCount, RecvEcho, SendPath, SendEnd, RecvOk, RecvOkLost, diskVars
    <3>2. CASE q = r
      BY <1>2, <2>2, <3>1, <3>2, FrozenHandler, FrozenThread
    <3>3. CASE q # r
      <4>1. Same(r) /\ ss' = ss
        BY <1>2, <2>2, <3>1, <3>3, OtherStep
      <4> QED BY <1>2, <3>1, <4>1 DEF FrozenInv, Frozen, Same, Running
    <3> QED BY <3>2, <3>3
  <2> QED BY <1>2, <2>1, <2>2 DEF Next
<1> QED BY <1>1, <1>2, AloneBefore

\* Only a second "OK" into a closed connection ends the naming server.
LEMMA HarmlessStep ==
    ASSUME TypeInv, WireInv, AloneInv, FrozenInv, LoneRefreshIsHarmless, [Next]_vars
    PROVE  LoneRefreshIsHarmless'
<1>1. overlapped \subseteq overlapped' /\ (crashed => crashed')
  <2>1. ASSUME NEW r \in Refreshes, RefreshBegin(r) PROVE overlapped \subseteq overlapped'
    BY <2>1 DEF RefreshBegin
  <2>2. ASSUME \A r \in Refreshes : ~RefreshBegin(r) PROVE overlapped' = overlapped
    BY <2>2, HandlersMoveOn DEF historyVars
  <2>3. ASSUME NEW r \in Refreshes, Step(r) PROVE crashed' = crashed
    BY <2>3 DEF Step, RefreshBegin, Handler, RefreshCount, RefreshCountDirty, StoreCount,
       RefreshOk, RefreshOkLost, RefreshPath, RefreshPathLost, RefreshEnd, Thread, WalkStart,
       WalkCopy, WalkCount, SendCount, RecvEcho, SendPath, SendEnd, RecvOk, RecvOkLost, diskVars
  <2>4. crashed => crashed'
    BY <2>3 DEF Next, Step, Change, Crash, vars, diskVars
  <2> QED BY <2>1, <2>2, <2>4
<1>2. ASSUME NEW r \in Refreshes, RefreshPathLost(r), overlapped = {}, ~crashed PROVE FALSE
  <2>1. Running(r)
    BY <1>2 DEF RefreshPathLost, Running
  <2>2. Alone(r)
    BY <1>2, <2>1 DEF AloneInv, Alone
  <2> QED BY <1>2, <2>2, NoEarlyEnd
<1>3. CASE \A r \in Refreshes : ~RefreshPathLost(r)
  <2>1. alive' = alive
    BY <1>3 DEF Next, RefreshBegin, Handler, RefreshCount, RefreshCountDirty, StoreCount, RefreshOk,
       RefreshOkLost, RefreshPath, RefreshEnd, Thread, WalkStart, WalkCopy, WalkCount, SendCount,
       RecvEcho, SendPath, SendEnd, RecvOk, RecvOkLost, Change, Crash, vars, nmVars
  <2> QED BY <1>1, <2>1 DEF LoneRefreshIsHarmless
<1> QED BY <1>1, <1>2, <1>3 DEF LoneRefreshIsHarmless

----------------------------------------------------------------------------
(* What a refresh alone leaves in the listing *)

\* One more entry behind the last one lists one more path.
LEMMA ListsCopy ==
    ASSUME NEW record \in Record, record.numPaths >= 1, NEW S \in SUBSET Paths,
           NEW p \in Paths \ S, Lists(record, record.numPaths, S)
    PROVE  LET new == [record EXCEPT !.accessiblePaths[record.numPaths] = p]
           IN  Lists(new, record.numPaths + 1, S \cup {p}) /\ new.numPaths = record.numPaths
<1> DEFINE new == [record EXCEPT !.accessiblePaths[record.numPaths] = p]
           n == record.numPaths
<1>1. n \in Places /\ n \in Nat /\ record.accessiblePaths \in [Places -> Paths \cup {Root, EMPTY}]
  BY DEF Record, Places
<1>2. new.numPaths = n /\ new.accessiblePaths = [record.accessiblePaths EXCEPT ![n] = p]
  BY DEF Record
<1>3. new.accessiblePaths[n] = p
      /\ \A k \in 0 .. n - 1 : new.accessiblePaths[k] = record.accessiblePaths[k]
  <2>1. \A k \in 0 .. n - 1 : k \in Places /\ k # n
    BY <1>1, Bounds DEF Places
  <2> QED BY <1>1, <1>2, <2>1
<1> HIDE DEF new, n
<1>4. First(new, n + 1) = First(record, n) \cup {p}
  <2>1. \A k : k \in 0 .. (n + 1) - 1 <=> k \in 0 .. n - 1 \/ k = n
    BY <1>1
  <2> QED BY <1>3, <2>1 DEF First
<1>5. /\ IsFiniteSet(S) /\ Cardinality(S) \in Nat
      /\ Cardinality(S \cup {p}) = Cardinality(S) + 1
  <2>1. IsFiniteSet(S)
    BY RefreshAssumption, FS_Subset
  <2> QED BY <2>1, FS_CardinalityType, FS_AddElement
<1>6. First(record, n) = {Root} \cup S /\ n = 1 + Cardinality(S)
  BY DEF Lists, n
<1>7. Lists(new, n + 1, S \cup {p})
  BY <1>1, <1>4, <1>5, <1>6 DEF Lists
<1> QED BY <1>2, <1>7 DEF new, n

\* The walk of a refresh alone: it begins with the mount point, adds what it meets,
\* and is over when it has met everything on a disk at rest.
LEMMA WalkTruth ==
    ASSUME TypeInv, WireInv, ~crashed, NEW r \in Refreshes, WalkInv(r),
           \/ WalkStart(r) \/ WalkCount(r) \/ SendCount(r)
           \/ \E p \in Paths : WalkCopy(r, p)
    PROVE  WalkInv(r)' /\ TransferInv(r)'
<1>0. /\ OnRefreshes /\ ss \in Record /\ ss.numPaths >= 1 /\ ss.numPaths \in Nat
      /\ seen[r] \in SUBSET Paths
      /\ ssPc[r] \in Walking /\ nmPc' = nmPc /\ disk' = disk
  <2>1. OnRefreshes /\ ss \in Record /\ ss.numPaths >= 1 /\ seen[r] \in SUBSET Paths
    BY TypedOnRefreshes DEF TypeInv, TypeOK, ShapeInv
  <2>2. ss.numPaths \in Nat
    BY <2>1 DEF Record, Places
  <2>3. ssPc[r] \in Walking /\ nmPc' = nmPc /\ disk' = disk
    BY DEF WalkStart, WalkCount, WalkCopy, SendCount, Walking, nmVars, diskVars
  <2> QED BY <2>1, <2>2, <2>3
<1>1. nmPc[r] = "count"
  BY <1>0, WalkersWait
<1>2. TransferInv(r)'
  BY <1>0, <1>1 DEF TransferInv
<1>3. CASE WalkStart(r)
  <2>1. /\ ssPc'[r] = "walk" /\ due'[r] = disk /\ seen'[r] = {}
        /\ ss' = [accessiblePaths |-> [Blank EXCEPT ![0] = Root], numPaths |-> 1]
    BY <1>0, <1>3 DEF WalkStart, SSGoto, OnRefreshes, TypeInv, ShapeInv
  <2>2. ss'.numPaths = 1 /\ ss'.accessiblePaths[0] = Root
    BY <2>1, Bounds DEF Blank, Places
  <2>3. First(ss', 1) = {Root}
    <3>1. \A k : k \in 0 .. 1 - 1 <=> k = 0
      OBVIOUS
    <3> QED BY <2>2, <3>1 DEF First
  <2>4. Lists(ss', 1, {})
    BY <2>3, FS_EmptySet DEF Lists
  <2>5. WalkInv(r)'
    BY <1>0, <2>1, <2>2, <2>4 DEF WalkInv, Over
  <2> QED BY <1>2, <2>5
<1>4. CASE \E p \in Paths : WalkCopy(r, p)
  <2>1. PICK p \in Paths : WalkCopy(r, p)
    BY <1>4
  <2>2. /\ ssPc[r] = "walk" /\ ssPc'[r] = "copied" /\ due' = due /\ p \in disk
        /\ seen'[r] = seen[r] \cup {p} /\ p \notin seen[r]
        /\ ss' = [ss EXCEPT !.accessiblePaths[ss.numPaths] = p]
    BY <1>0, <2>1 DEF WalkCopy, SSGoto, OnRefreshes
  <2>3. due[r] = disk /\ seen[r] \subseteq disk /\ Lists(ss, ss.numPaths, seen[r])
    BY <2>2 DEF WalkInv
  <2>4. Lists(ss', ss.numPaths + 1, seen[r] \cup {p}) /\ ss'.numPaths = ss.numPaths
    BY <1>0, <2>1, <2>2, <2>3, ListsCopy
  <2>5. WalkInv(r)'
    BY <1>0, <2>2, <2>3, <2>4 DEF WalkInv, Over
  <2> QED BY <1>2, <2>5
<1>5. CASE WalkCount(r)
  <2>1. /\ ssPc[r] = "copied" /\ ssPc'[r] = "walk" /\ due' = due /\ seen' = seen
        /\ ss'.numPaths = ss.numPaths + 1 /\ ss'.accessiblePaths = ss.accessiblePaths
    BY <1>0, <1>5 DEF WalkCount, SSGoto, OnRefreshes, Record
  <2>2. due[r] = disk /\ seen[r] \subseteq disk /\ Lists(ss, ss.numPaths + 1, seen[r])
    BY <2>1 DEF WalkInv
  <2>3. Lists(ss', ss'.numPaths, seen[r])
    BY <2>1, <2>2 DEF Lists, First
  <2>4. WalkInv(r)'
    BY <1>0, <2>1, <2>2, <2>3 DEF WalkInv, Over
  <2> QED BY <1>2, <2>4
<1>6. CASE SendCount(r)
  <2>1. /\ ssPc[r] = "walk" /\ ssPc'[r] = "echo" /\ ss' = ss
        /\ due[r] \cap disk \subseteq seen[r]
    BY <1>0, <1>6 DEF SendCount, SSGoto, OnRefreshes
  <2>2. due[r] = disk /\ seen[r] \subseteq disk /\ Lists(ss, ss.numPaths, seen[r])
    BY <2>1 DEF WalkInv
  <2>3. seen[r] = disk
    BY <2>1, <2>2
  <2>4. WalkInv(r)'
    BY <1>0, <2>1, <2>2, <2>3 DEF WalkInv, Over
  <2> QED BY <1>2, <2>4
<1> QED BY <1>3, <1>4, <1>5, <1>6

\* The handler of a refresh alone stores the count it was sent and, place by place,
\* the entries of the shared record.
LEMMA HandlerTruth ==
    ASSUME TypeInv, WireInv, FrozenInv, ~crashed, NEW r \in Refreshes, Alone(r),
           WalkInv(r), TransferInv(r), Handler(r)
    PROVE  WalkInv(r)' /\ TransferInv(r)'
<1>0. /\ OnRefreshes /\ Wire(r) /\ Frozen(r) /\ listing \in Record
      /\ ShapeInv
      /\ place[r] \in Nat /\ numPaths[r] \in Nat
  BY TypedOnRefreshes DEF WireInv, FrozenInv, TypeInv, TypeOK, Places
<1>1. UNCHANGED <<ssVars, diskVars>>
  BY DEF Handler, RefreshCount, RefreshCountDirty, StoreCount, RefreshOk, RefreshOkLost,
     RefreshPath, RefreshPathLost, RefreshEnd
<1>2. ss' = ss /\ ssPc' = ssPc /\ WalkInv(r)'
  BY <1>1 DEF ssVars, diskVars, WalkInv
<1>3. CASE RefreshCount(r) \/ RefreshCountDirty(r)
  <2>1. PICK n, text : StoreCount(r, n, text)
    BY <1>3 DEF RefreshCount, RefreshCountDirty
  <2>2. nmPc[r] = "count" /\ nmPc'[r] = "ok" /\ numPaths'[r] = n /\ listing'.numPaths = n
    BY <1>0, <1>3, <2>1
       DEF StoreCount, NMGoto, OnRefreshes, RefreshCount, RefreshCountDirty, Record
  <2>3. ssPc[r] # "sent"
    BY <1>0, <2>2 DEF Wire, WireCount, Walking
  <2> QED BY <1>2, <2>2, <2>3 DEF TransferInv
<1>4. CASE RefreshOk(r)
  <2>1. PICK taken \in Taken(toNM[r]) :
            /\ toNM' = [toNM EXCEPT ![r] = Rest(@, taken)]
            /\ IF taken = <<OK>>
               THEN listing' = [listing EXCEPT !.accessiblePaths = Blank] /\ NMGoto(r, "paths")
               ELSE NMGoto(r, "failed") /\ UNCHANGED listing
    BY <1>4 DEF RefreshOk
  <2>2. nmPc[r] = "ok" /\ numPaths' = numPaths /\ place' = place /\ place[r] = 0
    BY <1>0, <1>4 DEF RefreshOk, ShapeInv
  <2>3. CASE taken # <<OK>>
    <3>1. nmPc'[r] = "failed"
      BY <1>0, <2>1, <2>3 DEF NMGoto, OnRefreshes
    <3> QED BY <1>2, <3>1 DEF TransferInv
  <2>4. CASE taken = <<OK>>
    <3>1. nmPc'[r] = "paths" /\ listing'.numPaths = listing.numPaths
      BY <1>0, <2>1, <2>4 DEF NMGoto, OnRefreshes, Record
    <3>2. toNM'[r] = Rest(toNM[r], taken)
      BY <1>0, <2>1 DEF OnRefreshes
    <3>3. toNM[r] = <<OK>> \/ toNM[r] = <<OK, PathText(ss.accessiblePaths[0])>>
      <4>1. toNM[r] # <<>> /\ toNM[r] # <<Refusal>>
        BY <2>1, <2>4, TakenShort, TextsDiffer, Short
      <4>2. ssPc[r] \in {"sending", "sent"}
        BY <1>0, <2>2, <4>1 DEF Wire, WireOk
      <4>3. ssPc[r] = "sending" => toNM[r] = <<OK>>
        BY <1>0, <2>2, <4>1 DEF Wire, WireOk, Walking
      <4> QED BY <2>2, <4>2, <4>3 DEF TransferInv
    <3>4. toNM'[r] = <<>> \/ toNM'[r] = <<PathText(ss.accessiblePaths[0])>>
      <4>1. CASE toNM[r] = <<OK>>
        BY <2>1, <3>2, <4>1, TakenShort
      <4>2. CASE toNM[r] = <<OK, PathText(ss.accessiblePaths[0])>>
        BY <2>1, <3>2, <4>2, TakenShort
      <4> QED BY <3>3, <4>1, <4>2
    <3> QED BY <1>2, <2>2, <3>1, <3>4 DEF TransferInv
  <2> QED BY <2>3, <2>4
<1>5. CASE RefreshOkLost(r)
  <2>1. nmPc'[r] = "failed"
    BY <1>0, <1>5 DEF RefreshOkLost, NMGoto, OnRefreshes
  <2> QED BY <1>2, <2>1 DEF TransferInv
<1>6. CASE RefreshPath(r)
  <2>1. /\ nmPc[r] = "paths" /\ nmPc' = nmPc /\ numPaths' = numPaths /\ toNM[r] # <<>>
        /\ place[r] < numPaths[r] /\ toNM'[r] = Tail(toNM[r])
        /\ PathArrives(r, Head(toNM[r])[2])
    BY <1>0, <1>6 DEF RefreshPath, OnRefreshes
  <2>2. toNM[r] = <<PathText(ss.accessiblePaths[place[r]])>>
    BY <2>1 DEF TransferInv
  <2>3. Head(toNM[r])[2] = ss.accessiblePaths[place[r]] /\ toNM'[r] = <<>>
    BY <2>1, <2>2, Short, TextsDiffer
  <2>4. place'[r] = place[r] + 1
    BY <1>0, <2>1 DEF PathArrives, OnRefreshes
  <2>5. /\ listing'.numPaths = listing.numPaths
        /\ listing'.accessiblePaths
               = [listing.accessiblePaths EXCEPT ![place[r]] = ss.accessiblePaths[place[r]]]
    BY <1>0, <2>1, <2>3 DEF PathArrives, Record
  <2>6. \A k \in 0 .. (place[r] + 1) - 1 : k \in Places /\ (k = place[r] \/ k \in 0 .. place[r] - 1)
    <3>1. place[r] \in Places
      BY DEF TypeInv, TypeOK
    <3> QED BY <1>0, <3>1, Bounds DEF Places
  <2>7. \A k \in 0 .. place'[r] - 1 : listing'.accessiblePaths[k] = ss.accessiblePaths[k]
    <3>1. DOMAIN listing.accessiblePaths = Places
      BY <1>0 DEF Record
    <3>2. \A k \in 0 .. place[r] - 1 : listing.accessiblePaths[k] = ss.accessiblePaths[k]
      BY <2>1 DEF TransferInv
    <3> QED BY <2>4, <2>5, <2>6, <3>1, <3>2
  <2> QED BY <1>2, <2>1, <2>3, <2>5, <2>7 DEF TransferInv
<1>7. CASE RefreshEnd(r)
  <2>1. /\ nmPc[r] = "paths" /\ nmPc'[r] = "done" /\ listing' = listing
        /\ place[r] = numPaths[r]
    BY <1>0, <1>7 DEF RefreshEnd, NMGoto, OnRefreshes
  <2>2. ssPc[r] \in {"sending", "sent", "done"} /\ Running(r)
    BY <1>0, <2>1 DEF Wire, WirePaths, Running
  <2>3. numPaths[r] = ss.numPaths /\ listing.numPaths = numPaths[r]
    BY <1>0, <2>1, <2>2 DEF Frozen, TransferInv
  <2>4. \A k \in 0 .. place[r] - 1 : listing.accessiblePaths[k] = ss.accessiblePaths[k]
    BY <2>1 DEF TransferInv
  <2> QED BY <1>2, <2>1, <2>3, <2>4 DEF TransferInv
<1> QED BY <1>3, <1>4, <1>5, <1>6, <1>7, NoEarlyEnd DEF Handler

\* The thread sends the entry at its index, which is the handler's place.
LEMMA SenderTruth ==
    ASSUME TypeInv, WireInv, ~crashed, NEW r \in Refreshes, WalkInv(r), TransferInv(r),
           RecvEcho(r) \/ SendPath(r) \/ SendEnd(r) \/ RecvOk(r) \/ RecvOkLost(r)
    PROVE  WalkInv(r)' /\ TransferInv(r)'
<1>0. OnRefreshes
  BY TypedOnRefreshes
<1>1. /\ nmPc' = nmPc /\ numPaths' = numPaths /\ place' = place /\ listing' = listing
      /\ ss' = ss /\ disk' = disk
      /\ ssPc[r] \in Over /\ ssPc'[r] \in Over
  BY <1>0 DEF RecvEcho, SendPath, SendEnd, RecvOk, RecvOkLost, SSGoto, OnRefreshes, nmVars,
     diskVars, Over
<1>2. WalkInv(r)'
  BY <1>1 DEF WalkInv, Over
<1>3. CASE RecvEcho(r)
  <2>1. nmPc[r] = "ok" /\ ssPc'[r] # "sent"
    BY <1>0, <1>3, EchoWire DEF RecvEcho, SSGoto, OnRefreshes
  <2> QED BY <1>1, <1>2, <2>1 DEF TransferInv
<1>4. CASE SendPath(r)
  <2>1. /\ ssPc[r] = "sending"
        /\ LET p == ss.accessiblePaths[next[r]]
           IN  toNM'[r] = IF p = EMPTY THEN toNM[r] ELSE Append(toNM[r], PathText(p))
    BY <1>0, <1>4 DEF SendPath, OnRefreshes
  <2>2. CASE nmPc[r] = "ok"
    <3>1. next[r] = 0 /\ toNM[r] = <<OK>>
      BY <2>1, <2>2, SendersHandler
    <3>2. toNM'[r] = <<OK>> \/ toNM'[r] = <<OK, PathText(ss.accessiblePaths[0])>>
      BY <2>1, <3>1, Short
    <3> QED BY <1>1, <1>2, <2>2, <3>2 DEF TransferInv
  <2>3. CASE nmPc[r] = "paths"
    <3>1. next[r] = place[r] /\ toNM[r] = <<>>
      BY <2>1, <2>3, SendersHandler
    <3>2. toNM'[r] = <<>> \/ toNM'[r] = <<PathText(ss.accessiblePaths[place[r]])>>
      BY <2>1, <3>1, Short
    <3> QED BY <1>1, <1>2, <2>3, <3>2 DEF TransferInv
  <2>4. CASE nmPc[r] = "done"
    BY <1>1, <1>2, <2>4 DEF TransferInv
  <2> QED BY <2>1, <2>2, <2>3, <2>4, SendersHandler
<1>5. CASE SendEnd(r) \/ RecvOk(r) \/ RecvOkLost(r)
  <2>1. toNM' = toNM /\ ssPc'[r] # "sent"
    BY <1>0, <1>5 DEF SendEnd, RecvOk, RecvOkLost, SSGoto, OnRefreshes, wireVars
  <2> QED BY <1>1, <1>2, <2>1 DEF TransferInv
<1> QED BY <1>3, <1>4, <1>5

\* No step of anybody makes the record or the listing of a refresh alone untrue:
\* a change of the disk ends the claim, other refreshes do not write.
LEMMA TruthStep ==
    ASSUME TypeInv, WireInv, AloneInv, FrozenInv, TruthInv, BeganInv, [Next]_vars
    PROVE  TruthInv'
<1> SUFFICES ASSUME ~crashed', NEW r \in Refreshes, Alone(r)', beganAt'[r] = changes'
             PROVE  WalkInv(r)' /\ TransferInv(r)'
  BY DEF TruthInv
<1>0. OnRefreshes /\ beganAt[r] \in Nat /\ changes \in Nat /\ beganAt[r] <= changes
  BY TypedOnRefreshes DEF TypeInv, TypeOK, BeganInv
<1>1. CASE RefreshBegin(r)
  <2>1. ssPc'[r] = "start" /\ nmPc'[r] = "count"
    BY <1>0, <1>1 DEF RefreshBegin, NMGoto, OnRefreshes, diskVars
  <2> QED BY <2>1 DEF WalkInv, TransferInv, Over
<1>2. CASE Alone(r) /\ \A q \in Refreshes : ~RefreshBegin(q)
  <2>1. ASSUME NEW p \in Volatile, Change(p) PROVE FALSE
    <3>1. changes' = changes + 1 /\ beganAt' = beganAt
      BY <2>1 DEF Change, historyVars
    <3> QED BY <1>0, <3>1
  <2>2. CASE UNCHANGED vars
    BY <1>2, <2>2 DEF TruthInv, WalkInv, TransferInv, Lists, First, vars, nmVars, ssVars, wireVars,
       diskVars, historyVars
  <2>3. ASSUME NEW q \in Refreshes, Handler(q) \/ Thread(q) PROVE WalkInv(r)' /\ TransferInv(r)'
    <3>1. /\ ~crashed /\ changes' = changes
      BY <2>3 DEF Handler, RefreshCount, RefreshCountDirty, StoreCount, RefreshOk,
         RefreshOkLost, RefreshPath, RefreshPathLost, RefreshEnd, Thread, WalkStart, WalkCopy,
         WalkCount, SendCount, RecvEcho, SendPath, SendEnd, RecvOk, RecvOkLost, diskVars
    <3>2. beganAt' = beganAt
      BY <1>2, HandlersMoveOn DEF historyVars
    <3>3. WalkInv(r) /\ TransferInv(r)
      BY <1>2, <3>1, <3>2 DEF TruthInv
    <3>4. CASE q = r
      BY <1>2, <2>3, <3>1, <3>3, <3>4, HandlerTruth, WalkTruth, SenderTruth DEF Thread
    <3>5. CASE q # r
      <4>1. Same(r) /\ ss' = ss /\ listing' = listing /\ disk' = disk
        BY <1>2, <2>3, <3>1, <3>5, OtherStep
      <4>2. WalkInv(r)'
        BY <3>3, <4>1 DEF WalkInv, Same
      <4>3. TransferInv(r)'
        BY <3>3, <4>1 DEF TransferInv, Same
      <4> QED BY <4>2, <4>3
    <3> QED BY <3>4, <3>5
  <2>4. ~Crash
    BY DEF Crash
  <2> QED BY <1>2, <2>1, <2>2, <2>3, <2>4 DEF Next
<1> QED BY <1>1, <1>2, AloneBefore

----------------------------------------------------------------------------
(* The initial state and the theorems *)

\* Nothing is under way, and the listing is what registration reported.
LEMMA RefreshInvInit == Init => RefreshInv
<1> SUFFICES ASSUME Init PROVE RefreshInv
  OBVIOUS
<1>1. /\ nmPc = [r \in Refreshes |-> "idle"] /\ ssPc = [r \in Refreshes |-> "none"]
      /\ numPaths = [r \in Refreshes |-> 0] /\ place = [r \in Refreshes |-> 0]
      /\ seen = [r \in Refreshes |-> {}] /\ due = [r \in Refreshes |-> {}]
      /\ announced = [r \in Refreshes |-> 0] /\ next = [r \in Refreshes |-> 0]
      /\ toNM = [r \in Refreshes |-> <<>>] /\ toSS = [r \in Refreshes |-> <<>>]
      /\ closed = {} /\ reset = {} /\ changes = 0 /\ crashed = FALSE /\ alive = TRUE
      /\ latest = NOBODY /\ beganAt = [r \in Refreshes |-> 0] /\ overlapped = {}
      /\ disk = Range(FirstPaths) \ Deleted
      /\ listing = ss
  BY DEF Init
<1>2. /\ ss.numPaths = 1 + Len(FirstPaths)
      /\ ss = [accessiblePaths |-> ss.accessiblePaths, numPaths |-> ss.numPaths]
      /\ ss.accessiblePaths \in [Places -> Paths \cup {Root, EMPTY}]
  <2>1. FirstPaths \in Seq(Paths)
    BY RefreshAssumption
  <2>2. \A k \in Places : k # 0 /\ k <= Len(FirstPaths) => FirstPaths[k] \in Paths
    BY <2>1, Bounds DEF Places
  <2>3. ss = [accessiblePaths |-> [k \in Places |-> IF k = 0 THEN Root
                                     ELSE IF k <= Len(FirstPaths) THEN FirstPaths[k]
                                     ELSE EMPTY],
              numPaths |-> 1 + Len(FirstPaths)]
    BY DEF Init
  <2> QED BY <2>2, <2>3
<1>3. ss \in Record /\ listing \in Record /\ ss.numPaths \in Nat \ {0}
  BY <1>1, <1>2, Bounds DEF Record, Places
<1>4. 0 \in Places
  BY Bounds DEF Places
<1>5. HandlerType
  BY <1>1, <1>3, <1>4 DEF HandlerType
<1>6. ThreadType
  <2>1. ss \in [accessiblePaths : [Places -> Paths \cup {Root, EMPTY}], numPaths : Nat \ {0}]
    BY <1>2, <1>3
  <2> QED BY <1>1, <1>4, <2>1 DEF ThreadType
<1>7. RestType
  <2>1. Range(FirstPaths) \subseteq Paths
    BY RefreshAssumption DEF Range
  <2>2. disk \subseteq Paths
    BY <1>1, <2>1
  <2>3. changes \in 0 .. MaxChanges
    BY <1>1, RefreshAssumption
  <2>4. closed \subseteq Refreshes /\ reset \subseteq Refreshes /\ overlapped \subseteq Refreshes
    BY <1>1
  <2>5. beganAt \in [Refreshes -> Nat] /\ DOMAIN toNM = Refreshes /\ DOMAIN toSS = Refreshes
    BY <1>1
  <2> QED BY <1>1, <2>2, <2>3, <2>4, <2>5 DEF RestType
<1>8. WireInv
  BY <1>1 DEF WireInv, Wire, WireIdle, WireCount, WireOk, WirePaths, WireDone, WireFailed
<1>9. CountInv
  <2>1. Copying = {}
    BY <1>1 DEF Copying
  <2>2. Cardinality(Copying) <= Cardinality(Met)
    BY <2>1, MetBound, FS_EmptySet
  <2> QED BY <1>1, <1>2, <2>2 DEF CountInv
<1>10. AloneInv /\ BeganInv
  BY <1>1, RefreshAssumption DEF AloneInv, Alone, Running, BeganInv
<1>11. FrozenInv /\ TruthInv
  <2>1. \A r \in Refreshes : ~Alone(r)
    BY <1>1, RefreshAssumption DEF Alone
  <2> QED BY <2>1 DEF FrozenInv, TruthInv
<1>12. TypeInv
  BY <1>5, <1>6, <1>7, <1>8, <1>9, TypeWhole
<1> QED BY <1>1, <1>8, <1>9, <1>10, <1>11, <1>12 DEF RefreshInv, LoneRefreshIsHarmless

\* Every step keeps the inductive invariant.
LEMMA RefreshInvStep == RefreshInv /\ [Next]_vars => RefreshInv'
<1> SUFFICES ASSUME RefreshInv, [Next]_vars PROVE RefreshInv'
  OBVIOUS
<1> USE DEF RefreshInv
<1>1. TypeInv' /\ WireInv' /\ CountInv'
  BY TypeStep
<1>2. AloneInv' /\ BeganInv'
  BY AloneStep
<1>3. FrozenInv' /\ TruthInv' /\ LoneRefreshIsHarmless'
  BY FrozenStep, TruthStep, HarmlessStep
<1> QED BY <1>1, <1>2, <1>3

\* The inductive invariant of the refreshes: where handler and thread of each are and
\* what is between them, what walks may count, and what a refresh that runs alone
\* may rely on.
THEOREM RefreshInvCorrect == Spec => []RefreshInv
<1>1. Init => RefreshInv
  BY RefreshInvInit
<1>2. RefreshInv /\ [Next]_vars => RefreshInv'
  BY RefreshInvStep
<1> QED BY <1>1, <1>2, PTL DEF Spec

\* For any number of refreshes and paths: every state is well typed; no more than two
\* messages are on their way, and overlapping walks stay within the bound.
THEOREM TypeCorrect == Spec => []TypeOK
<1>1. RefreshInv => TypeOK
  BY DEF RefreshInv, TypeInv
<1> QED BY <1>1, RefreshInvCorrect, PTL

\* As long as refreshes do not overlap and the storage server lives, refreshing a
\* listing does not end the naming server.
THEOREM HarmlessCorrect == Spec => []LoneRefreshIsHarmless
<1>1. RefreshInv => LoneRefreshIsHarmless
  BY DEF RefreshInv
<1> QED BY <1>1, RefreshInvCorrect, PTL

\* A refresh that ran alone on a disk at rest leaves exactly the paths that exist,
\* each once, whatever became of earlier refreshes and their threads.
THEOREM ListingCorrect == Spec => []RefreshedListingIsTrue
<1>1. RefreshInv => RefreshedListingIsTrue
  <2> SUFFICES ASSUME RefreshInv, latest # NOBODY, nmPc[latest] = "done",
                      latest \notin overlapped, beganAt[latest] = changes, ~crashed
               PROVE  /\ Listed = {Root} \cup disk
                      /\ listing.numPaths = 1 + Cardinality(disk)
    BY DEF RefreshedListingIsTrue
  <2>1. latest \in Refreshes /\ Wire(latest)
    BY DEF RefreshInv, TypeInv, TypeOK, WireInv
  <2>2. Alone(latest)
    BY DEF Alone
  <2>3. WalkInv(latest) /\ TransferInv(latest)
    BY <2>1, <2>2 DEF RefreshInv, TruthInv
  <2>4. ssPc[latest] \in Over
    BY <2>1 DEF Wire, WireDone, Over
  <2>5. First(ss, ss.numPaths) = {Root} \cup disk /\ ss.numPaths = 1 + Cardinality(disk)
    BY <2>3, <2>4 DEF WalkInv, Lists
  <2>6. /\ listing.numPaths = ss.numPaths
        /\ \A k \in 0 .. listing.numPaths - 1 :
               listing.accessiblePaths[k] = ss.accessiblePaths[k]
    BY <2>3 DEF TransferInv
  <2>7. Listed = First(ss, ss.numPaths)
    BY <2>6 DEF Listed, First
  <2> QED BY <2>5, <2>6, <2>7
<1> QED BY <1>1, RefreshInvCorrect, PTL

============================================================================
