---------------------------- MODULE PathRefresh ----------------------------
(***************************************************************************)
(* The refresh of one slot's listing after a DELETE, message by message:   *)
(* update_list_of_accessiblepaths in handlers of the naming server, and    *)
(* GETPATHS in request threads of the storage server, which all walk into  *)
(* and send from the one global ss.  One handler and one thread for each   *)
(* refresh; refreshes of two clients may overlap, and files are created    *)
(* and removed meanwhile.                                                  *)
(*                                                                         *)
(* A recv takes any non-empty part of what has been sent.  Sending an empty*)
(* path sends nothing.                                                     *)
(***************************************************************************)
EXTENDS Naturals, Sequences, FiniteSets, Functions

CONSTANTS
    Refreshes,   \* the refreshes of the instance
    Paths,       \* what may exist below the mount point
    FirstPaths,  \* what registration reported, in the order of its walk
    Deleted,     \* what the DELETEs that cause the refreshes have removed
    Volatile,    \* what other requests create and remove meanwhile
    Garbage,     \* the counts that old bytes in a buffer may be read as
    Root,        \* MOUNT
    EMPTY,       \* the empty string
    NOBODY,      \* no refresh has begun
    MaxChanges   \* bound: files created or removed, and crashes of the storage server

\* Overlapping walks may add every path once each.
MaxPaths == 1 + Cardinality(Refreshes) * Cardinality(Paths)
Places == 0 .. MaxPaths
Blank == [k \in Places |-> EMPTY]

\* What the two sides send: a count, a path, and fixed words; Dirty is a count with
\* foreign bytes behind it.
CountText(n) == <<"count", n>>
PathText(p) == <<"path", p>>
OK == <<"OK">>
Refusal == <<"1">>
Dirty == <<"dirty">>

ASSUME RefreshAssumption ==
    /\ IsFiniteSet(Refreshes) /\ Refreshes # {} /\ IsFiniteSet(Paths)
    /\ FirstPaths \in Seq(Paths) /\ IsInjective(FirstPaths)
    /\ Garbage \subseteq Places
    /\ Deleted \subseteq Paths /\ Volatile \subseteq Paths
    /\ Root \notin Paths /\ EMPTY \notin Paths \cup {Root}
    /\ NOBODY \notin Refreshes
    /\ MaxChanges \in Nat

\* Locals that are not read any more are set back to their first values.
VARIABLES
    nmPc,       \* the handler: idle, count, ok, paths, done, failed
    numPaths,   \* the handler's own count
    place,      \* the handler's index i
    ssPc,       \* the request thread
    seen,       \* the entries its walk has met
    due,        \* the entries its walk will meet unless they are removed
    announced,  \* the count it sent
    next,       \* its index _path
    toNM, toSS, \* what has been sent and not received
    closed,     \* refreshes whose connection one side has closed
    reset,      \* refreshes whose connection was reset by a send after that
    ss,         \* the storage server's global record
    listing,    \* the slot of storageServers
    disk,       \* the paths that exist
    changes,    \* how often this has changed
    crashed,    \* the storage server has died
    alive,      \* the naming server runs
    latest,     \* history: the refresh that began last
    beganAt,    \* history: the value of changes when each refresh began
    overlapped  \* history: refreshes that ran while another did

nmVars == <<nmPc, numPaths, place, listing, alive>>
ssVars == <<ssPc, seen, due, announced, next, ss>>
wireVars == <<toNM, toSS, closed, reset>>
diskVars == <<disk, changes, crashed>>
historyVars == <<latest, beganAt, overlapped>>
vars == <<nmVars, ssVars, wireVars, diskVars, historyVars>>

NMGoto(r, label) == nmPc' = [nmPc EXCEPT ![r] = label]
SSGoto(r, label) == ssPc' = [ssPc EXCEPT ![r] = label]
Running(r) == nmPc[r] \in {"count", "ok", "paths"}

Taken(stream) == {SubSeq(stream, 1, k) : k \in 1 .. Len(stream)}
Rest(stream, taken) == SubSeq(stream, Len(taken) + 1, Len(stream))

\* recv returns 0: everything was received and the peer has closed.
EndOfStream(r, stream) == stream = <<>> /\ (r \in closed \/ crashed)

----------------------------------------------------------------------------
(* Around the refreshes *)

\* The storage server is followed until one of the servers dies.
SSRuns == alive /\ ~crashed

\* A CREATE, DELETE or COPY of somebody else.
Change(p) ==
    /\ SSRuns
    /\ changes < MaxChanges
    /\ changes' = changes + 1
    /\ disk' = IF p \in disk THEN disk \ {p} ELSE disk \cup {p}
    /\ UNCHANGED <<nmVars, ssVars, wireVars, crashed, historyVars>>

\* The storage server dies and its kernel ends its connections.
Crash ==
    /\ SSRuns
    /\ changes < MaxChanges
    /\ changes' = changes + 1
    /\ crashed' = TRUE
    /\ UNCHANGED <<nmVars, ssVars, wireVars, disk, historyVars>>

----------------------------------------------------------------------------
(* update_list_of_accessiblepaths *)

\* socket, connect, "GETPATHS server"; a refused connection ends the function.
RefreshBegin(r) ==
    /\ alive
    /\ nmPc[r] = "idle"
    /\ NMGoto(r, IF crashed THEN "failed" ELSE "count")
    /\ ssPc' = [ssPc EXCEPT ![r] = IF crashed THEN @ ELSE "start"]
    /\ latest' = r
    /\ beganAt' = [beganAt EXCEPT ![r] = changes]
    /\ overlapped' = IF \E q \in Refreshes : Running(q)
                     THEN overlapped \cup {r} \cup {q \in Refreshes : Running(q)}
                     ELSE overlapped
    /\ UNCHANGED <<numPaths, place, listing, alive, seen, due, announced, next, ss,
                   wireVars, diskVars>>

\* The count is received behind nothing but the buffer's old bytes, converted,
\* stored in the slot and sent back as it stands.
StoreCount(r, n, text) ==
    /\ numPaths' = [numPaths EXCEPT ![r] = n]
    /\ listing' = [listing EXCEPT !.numPaths = n]
    /\ toSS' = [toSS EXCEPT ![r] = Append(@, text)]
    /\ NMGoto(r, "ok")
    /\ UNCHANGED <<place, alive, ssVars, closed, reset, diskVars, historyVars>>

RefreshCount(r) ==
    /\ alive
    /\ nmPc[r] = "count"
    /\ toNM[r] # <<>>
    /\ toNM' = [toNM EXCEPT ![r] = Tail(@)]
    /\ StoreCount(r, Head(toNM[r])[2], Head(toNM[r]))

\* The buffer was never cleared: the digits may be followed by old bytes, and
\* after the end of the stream there are only those.
RefreshCountDirty(r) ==
    /\ alive
    /\ nmPc[r] = "count"
    /\ toNM[r] # <<>> \/ EndOfStream(r, toNM[r])
    /\ toNM' = [toNM EXCEPT ![r] = <<>>]
    /\ \E n \in Garbage : StoreCount(r, n, Dirty)

\* "OK" must come alone; anything else ends the function, which closes nothing.
RefreshOk(r) ==
    /\ alive
    /\ nmPc[r] = "ok"
    /\ \E taken \in Taken(toNM[r]) :
           /\ toNM' = [toNM EXCEPT ![r] = Rest(@, taken)]
           /\ IF taken = <<OK>>
              THEN /\ listing' = [listing EXCEPT !.accessiblePaths = Blank]
                   /\ NMGoto(r, "paths")
              ELSE NMGoto(r, "failed") /\ UNCHANGED listing
    /\ UNCHANGED <<numPaths, place, alive, ssVars, toSS, closed, reset, diskVars, historyVars>>

RefreshOkLost(r) ==
    /\ alive
    /\ nmPc[r] = "ok"
    /\ EndOfStream(r, toNM[r])
    /\ NMGoto(r, "failed")
    /\ UNCHANGED <<numPaths, place, listing, alive, ssVars, wireVars, diskVars, historyVars>>

PathArrives(r, p) ==
    /\ listing' = [listing EXCEPT !.accessiblePaths[place[r]] = p]
    /\ place' = [place EXCEPT ![r] = @ + 1]

\* One path, and an "OK" for it.
RefreshPath(r) ==
    /\ alive
    /\ nmPc[r] = "paths"
    /\ place[r] < numPaths[r]
    /\ toNM[r] # <<>>
    /\ toNM' = [toNM EXCEPT ![r] = Tail(@)]
    /\ PathArrives(r, Head(toNM[r])[2])
    /\ toSS' = [toSS EXCEPT ![r] = Append(@, OK)]
    /\ UNCHANGED <<nmPc, numPaths, alive, ssVars, closed, reset, diskVars, historyVars>>

\* After the end of the stream the empty string is the path.  The first "OK" sent
\* to a closed connection resets it, the next one raises SIGPIPE.
RefreshPathLost(r) ==
    /\ alive
    /\ nmPc[r] = "paths"
    /\ place[r] < numPaths[r]
    /\ EndOfStream(r, toNM[r])
    /\ PathArrives(r, EMPTY)
    /\ alive' = (r \notin reset)
    /\ reset' = reset \cup {r}
    /\ UNCHANGED <<nmPc, numPaths, ssVars, toNM, toSS, closed, diskVars, historyVars>>

RefreshEnd(r) ==
    /\ alive
    /\ nmPc[r] = "paths"
    /\ place[r] = numPaths[r]
    /\ closed' = closed \cup {r}
    /\ numPaths' = [numPaths EXCEPT ![r] = 0]
    /\ place' = [place EXCEPT ![r] = 0]
    /\ NMGoto(r, "done")
    /\ UNCHANGED <<listing, alive, ssVars, toNM, toSS, reset, diskVars,
                   historyVars>>

----------------------------------------------------------------------------
(* GETPATHS in executeNMRequest *)

\* Mutant: the count is not set back before the walk.
WalkStartKeepsCount(r) ==
    /\ SSRuns
    /\ ssPc[r] = "start"
    /\ ss' = [ss EXCEPT !.accessiblePaths = [Blank EXCEPT ![0] = Root]]
    /\ due' = [due EXCEPT ![r] = disk]
    /\ SSGoto(r, "walk")
    /\ UNCHANGED <<nmVars, seen, announced, next, wireVars, diskVars, historyVars>>

\* ss is cleared and gets the mount point.
WalkStart(r) ==
    /\ SSRuns
    /\ ssPc[r] = "start"
    /\ ss' = [accessiblePaths |-> [Blank EXCEPT ![0] = Root], numPaths |-> 1]
    /\ due' = [due EXCEPT ![r] = disk]
    /\ SSGoto(r, "walk")
    /\ UNCHANGED <<nmVars, seen, announced, next, wireVars, diskVars, historyVars>>

\* update_accessible_paths_recursive: an entry is copied behind the last one,
\* then numPaths is incremented.  Entries that appear meanwhile may be met.
WalkCopy(r, p) ==
    /\ SSRuns
    /\ ssPc[r] = "walk"
    /\ p \in disk \ seen[r]
    /\ ss' = [ss EXCEPT !.accessiblePaths[ss.numPaths] = p]
    /\ seen' = [seen EXCEPT ![r] = @ \cup {p}]
    /\ SSGoto(r, "copied")
    /\ UNCHANGED <<nmVars, due, announced, next, wireVars, diskVars, historyVars>>

WalkCount(r) ==
    /\ SSRuns
    /\ ssPc[r] = "copied"
    /\ ss' = [ss EXCEPT !.numPaths = @ + 1]
    /\ SSGoto(r, "walk")
    /\ UNCHANGED <<nmVars, seen, due, announced, next, wireVars, diskVars, historyVars>>

\* The walk is over: the count is sent.
SendCount(r) ==
    /\ SSRuns
    /\ ssPc[r] = "walk"
    /\ due[r] \cap disk \subseteq seen[r]
    /\ announced' = [announced EXCEPT ![r] = ss.numPaths]
    /\ toNM' = [toNM EXCEPT ![r] = Append(@, CountText(ss.numPaths))]
    /\ seen' = [seen EXCEPT ![r] = {}]
    /\ due' = [due EXCEPT ![r] = {}]
    /\ SSGoto(r, "echo")
    /\ UNCHANGED <<nmVars, next, ss, toSS, closed, reset, diskVars, historyVars>>

\* Mutant: the connection is closed after "OK".
RecvEchoCloses(r) ==
    /\ SSRuns
    /\ ssPc[r] = "echo"
    /\ toSS[r] # <<>>
    /\ toSS' = [toSS EXCEPT ![r] = Tail(@)]
    /\ toNM' = [toNM EXCEPT ![r] = Append(@, OK)]
    /\ closed' = closed \cup {r}
    /\ SSGoto(r, "done")
    /\ UNCHANGED <<nmVars, seen, due, announced, next, ss, reset, diskVars, historyVars>>

\* The count must come back as it was sent: "OK", or "1" and the thread ends
\* without closing the connection.
RecvEcho(r) ==
    LET same == Head(toSS[r]) = CountText(announced[r]) IN
    /\ SSRuns
    /\ ssPc[r] = "echo"
    /\ toSS[r] # <<>>
    /\ toSS' = [toSS EXCEPT ![r] = Tail(@)]
    /\ toNM' = [toNM EXCEPT ![r] = Append(@, IF same THEN OK ELSE Refusal)]
    /\ announced' = [announced EXCEPT ![r] = 0]
    /\ SSGoto(r, IF same THEN "sending" ELSE "returned")
    /\ UNCHANGED <<nmVars, seen, due, next, ss, closed, reset, diskVars,
                   historyVars>>

\* Mutant: the paths are sent without waiting for an "OK" after each.
SendPathAhead(r) ==
    /\ SSRuns
    /\ ssPc[r] = "sending"
    /\ next[r] < ss.numPaths
    /\ toNM' = [toNM EXCEPT ![r] = Append(@, PathText(ss.accessiblePaths[next[r]]))]
    /\ next' = [next EXCEPT ![r] = @ + 1]
    /\ UNCHANGED <<nmVars, ssPc, seen, due, announced, ss, toSS, closed, reset, diskVars,
                   historyVars>>

\* The path at the index goes out as long as the index is below the count that ss
\* holds now.
SendPath(r) ==
    LET p == ss.accessiblePaths[next[r]] IN
    /\ SSRuns
    /\ ssPc[r] = "sending"
    /\ next[r] < ss.numPaths
    /\ toNM' = [toNM EXCEPT ![r] = IF p = EMPTY THEN @ ELSE Append(@, PathText(p))]
    /\ SSGoto(r, "sent")
    /\ UNCHANGED <<nmVars, seen, due, announced, next, ss, toSS, closed, reset,
                   diskVars, historyVars>>

SendEnd(r) ==
    /\ SSRuns
    /\ ssPc[r] = "sending"
    /\ next[r] >= ss.numPaths
    /\ closed' = closed \cup {r}
    /\ next' = [next EXCEPT ![r] = 0]
    /\ SSGoto(r, "done")
    /\ UNCHANGED <<nmVars, seen, due, announced, ss, toNM, toSS, reset, diskVars, historyVars>>

\* Mutant: the index is not advanced.
RecvOkSamePath(r) ==
    /\ SSRuns
    /\ ssPc[r] = "sent"
    /\ toSS[r] # <<>>
    /\ toSS' = [toSS EXCEPT ![r] = Tail(@)]
    /\ SSGoto(r, "sending")
    /\ UNCHANGED <<nmVars, seen, due, announced, next, ss, toNM, closed, reset, diskVars,
                   historyVars>>

RecvOk(r) ==
    /\ SSRuns
    /\ ssPc[r] = "sent"
    /\ toSS[r] # <<>>
    /\ toSS' = [toSS EXCEPT ![r] = Tail(@)]
    /\ next' = [next EXCEPT ![r] = @ + 1]
    /\ SSGoto(r, "sending")
    /\ UNCHANGED <<nmVars, seen, due, announced, ss, toNM, closed, reset, diskVars,
                   historyVars>>

\* The handler has closed: the thread ends.
RecvOkLost(r) ==
    /\ SSRuns
    /\ ssPc[r] = "sent"
    /\ EndOfStream(r, toSS[r])
    /\ SSGoto(r, "returned")
    /\ UNCHANGED <<nmVars, seen, due, announced, next, ss, wireVars, diskVars,
                   historyVars>>

----------------------------------------------------------------------------
\* The listing is what registration reported.
Init ==
    /\ nmPc = [r \in Refreshes |-> "idle"]
    /\ numPaths = [r \in Refreshes |-> 0]
    /\ place = [r \in Refreshes |-> 0]
    /\ ssPc = [r \in Refreshes |-> "none"]
    /\ seen = [r \in Refreshes |-> {}]
    /\ due = [r \in Refreshes |-> {}]
    /\ announced = [r \in Refreshes |-> 0]
    /\ next = [r \in Refreshes |-> 0]
    /\ toNM = [r \in Refreshes |-> <<>>]
    /\ toSS = [r \in Refreshes |-> <<>>]
    /\ closed = {}
    /\ reset = {}
    /\ ss = [accessiblePaths |-> [k \in Places |-> IF k = 0 THEN Root
                                     ELSE IF k <= Len(FirstPaths) THEN FirstPaths[k]
                                     ELSE EMPTY],
             numPaths |-> 1 + Len(FirstPaths)]
    /\ listing = ss
    /\ disk = Range(FirstPaths) \ Deleted
    /\ changes = 0
    /\ crashed = FALSE
    /\ alive = TRUE
    /\ latest = NOBODY
    /\ beganAt = [r \in Refreshes |-> 0]
    /\ overlapped = {}

Handler(r) ==
    \/ RefreshCount(r)
    \/ RefreshCountDirty(r)
    \/ RefreshOk(r)
    \/ RefreshOkLost(r)
    \/ RefreshPath(r)
    \/ RefreshPathLost(r)
    \/ RefreshEnd(r)

Thread(r) ==
    \/ WalkStart(r)
    \/ \E p \in Paths : WalkCopy(r, p)
    \/ WalkCount(r)
    \/ SendCount(r)
    \/ RecvEcho(r)
    \/ SendPath(r)
    \/ SendEnd(r)
    \/ RecvOk(r)
    \/ RecvOkLost(r)

Next ==
    \/ \E r \in Refreshes : RefreshBegin(r) \/ Handler(r) \/ Thread(r)
    \/ \E p \in Volatile : Change(p)
    \/ Crash

Spec == Init /\ [][Next]_vars

\* Handlers and request threads run.  Nobody promises to delete, create or crash.
FairSpec ==
    /\ Spec
    /\ \A r \in Refreshes : WF_vars(Handler(r)) /\ WF_vars(Thread(r))

----------------------------------------------------------------------------
(* Properties *)

Record == [accessiblePaths : [Places -> Paths \cup {Root, EMPTY}], numPaths : Places]
Texts == {OK, Refusal, Dirty} \cup {PathText(p) : p \in Paths \cup {Root}}
             \cup {CountText(n) : n \in Places}

\* Type invariant of the refresh.  Among the rest, no more than an "OK" and one path
\* are ever on their way, and ss.numPaths stays within what overlapping walks may
\* count together, more than the number of files.
TypeOK ==
    /\ nmPc \in [Refreshes -> {"idle", "count", "ok", "paths", "done", "failed"}]
    /\ numPaths \in [Refreshes -> Places]
    /\ place \in [Refreshes -> Places]
    /\ ssPc \in [Refreshes -> {"none", "start", "walk", "copied", "echo", "sending",
                               "sent", "returned", "done"}]
    /\ seen \in [Refreshes -> SUBSET Paths]
    /\ due \in [Refreshes -> SUBSET Paths]
    /\ announced \in [Refreshes -> Places]
    /\ next \in [Refreshes -> Places]
    /\ \A r \in Refreshes : \A stream \in {toNM[r], toSS[r]} :
           Len(stream) <= 2 /\ \A k \in 1 .. Len(stream) : stream[k] \in Texts
    /\ closed \subseteq Refreshes
    /\ reset \subseteq Refreshes
    /\ ss \in Record
    /\ listing \in Record
    /\ disk \subseteq Paths
    /\ changes \in 0 .. MaxChanges
    /\ crashed \in BOOLEAN
    /\ alive \in BOOLEAN
    /\ latest \in Refreshes \cup {NOBODY}
    /\ beganAt \in [Refreshes -> Nat]
    /\ overlapped \subseteq Refreshes

Listed == {listing.accessiblePaths[k] : k \in 0 .. listing.numPaths - 1}

\* A refresh that ran alone and received everything leaves exactly the paths that
\* exist in the listing, each once and no empty entry, if none was made or removed
\* since it began; threads of earlier refreshes that were given up do not matter.
RefreshedListingIsTrue ==
    (/\ latest # NOBODY
     /\ nmPc[latest] = "done"
     /\ latest \notin overlapped
     /\ beganAt[latest] = changes
     /\ ~crashed) =>
        /\ Listed = {Root} \cup disk
        /\ listing.numPaths = 1 + Cardinality(disk)

\* A refresh that runs alone ends, one way or the other: handler and thread never
\* both wait, although "OK" and the first path may arrive together and the count
\* may be misread.
LoneRefreshEnds ==
    \A r \in Refreshes : nmPc[r] = "count" ~>
        nmPc[r] \in {"done", "failed"} \/ r \in overlapped \/ ~alive

\* Only overlapping refreshes or a dying storage server make the storage server
\* end a transfer before the count it announced is reached, whereupon the naming
\* server writes to a closed connection and dies.
LoneRefreshIsHarmless == alive \/ overlapped # {} \/ crashed

============================================================================
