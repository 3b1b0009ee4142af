------------------------- MODULE CopyTransferProofs -------------------------
(***************************************************************************)
(* Proofs about COPY, for every set of copies, paths, servers and archive  *)
(* lengths, and whatever crashes, failed opens and writes, vanished files, *)
(* leaked descriptors and departed clients there are.                      *)
(*                                                                         *)
(* The heart is what a receiver that met nobody knows of its temporary     *)
(* archive: it created the file, it alone writes it, and the file holds    *)
(* the first pos chunks of its source, with at most a piece of the next    *)
(* behind them.  unzip extracts nothing from less than a whole archive, so *)
(* such a receiver never damages a file, and when the source has sent      *)
(* everything, and all of it was written, it delivers it.                  *)
(***************************************************************************)
EXTENDS CopyTransfer, SequenceTheorems, FiniteSetTheorems, TLAPS

----------------------------------------------------------------------------
(* The inductive invariant *)

\* What TypeOK leaves open: the counters of the chain, and that a receiver's
\* offset is inside the file it has open.
ShapeInv ==
    /\ sent \in [Copies -> Nat] /\ put \in [Copies -> Nat]
    /\ took \in [Copies -> Nat] /\ pos \in [Copies -> Nat]
    /\ DOMAIN data = Copies
    /\ \A c \in Copies : name[c][1] = Target(c)
    /\ \A c \in Copies : receiver[c] = "open" =>
           fd[c] \in Copies /\ pos[c] <= Len(data[fd[c]])

TypeInv == TypeOK /\ ShapeInv

\* Without a crash no port is out of date and no connection is reset.
CrashInv ==
    ~Crashed =>
        /\ live = Indexed
        /\ \A c \in Copies : stale[c] = {} /\ sender[c] # "gone" /\ receiver[c] # "gone"

\* Only a copy under way has sockets, and none to its destination before it
\* connects there.
SocketInv ==
    \A c \in Copies :
        /\ <<c, "source">> \in sockets => pc[c] \in {"connect2", "ask1", "ask2", "relay"}
        /\ <<c, "dest">> \in sockets => pc[c] \in {"ask1", "ask2", "relay"}

\* Every archive has a sender, and every temporary archive a receiver, that will
\* remove it unless it crashes or could not open it.
RemoverInv ==
    /\ \A p \in archives : \E c \in Copies :
           Source(c) = p /\ sender[c] \in {"zipped", "sending", "cut", "unread", "gone"}
    /\ \A n \in TempNames : temp[n] # NONE => \E c \in Copies :
           name[c] = n /\ receiver[c] \in {"open", "received", "unpacked", "gone"}

\* The servers' threads follow the handler: until it has asked them they are idle.
\* A handler that has ended has relayed everything, if everything was sent and the
\* receiver has not crashed, and a receiver that has seen the end has read
\* everything.
RelayInv ==
    \A c \in Copies :
        /\ pc[c] \in {"idle", "connect1"} => sender[c] = "none"
        /\ pc[c] \in {"connect2", "ask1"} => sender[c] \in {"connected", "gone"}
        /\ pc[c] \in {"idle", "connect1", "connect2"} => receiver[c] = "none"
        /\ pc[c] \in {"ask1", "ask2"} => receiver[c] \in {"connected", "gone"}
        /\ sender[c] = "sent" => sent[c] = Length[Source(c)]
        /\ pc[c] = "done" => \/ receiver[c] = "gone"
                             \/ /\ sender[c] \in {"none", "sent", "failed", "unread", "gone"}
                                /\ sender[c] = "sent" => put[c] = sent[c]
        /\ receiver[c] \in {"received", "unpacked", "done"} =>
               c \in short \/ (pc[c] = "done" /\ took[c] = put[c])
        /\ c \in short => receiver[c] \in {"received", "unpacked", "done", "gone"}

\* The receivers that work with a temporary archive, and those that have not
\* opened one yet.
Using(c) == receiver[c] \in {"open", "received", "unpacked"}
Before(c) == receiver[c] \in {"none", "connected", "asked", "named"}

\* The first k chunks of p's archive.
Prefix(p, k) == [i \in 1 .. k |-> <<p, i>>]

\* What a receiver that wrote alone has written: the chunks it has counted, and
\* after a short write perhaps a piece of the next.
Written(c) ==
    \/ data[c] = Prefix(Source(c), pos[c])
    \/ /\ c \in short
       /\ data[c] = WriteAt(Prefix(Source(c), pos[c]), pos[c], <<Source(c), 0>>)

\* A receiver that met nobody owns its temporary archive.
ShareInv ==
    /\ \A c \in Copies : Before(c) => pos[c] = 0 /\ data[c] = << >>
    /\ \A c \in Copies : name[c][2] = "proper" =>
           took[c] = IF c \in short THEN pos[c] + 1 ELSE pos[c]
    /\ \A n \in TempNames : temp[n] # NONE => name[temp[n]] = n /\ ~Before(temp[n])
    /\ \A c \in Copies : fd[c] # NONE => ~Before(fd[c])
    /\ \A c, e \in Copies : Using(c) /\ c \notin mixed /\ e # c =>
           fd[e] # c /\ ~(Using(e) /\ name[e] = name[c])
    /\ \A c \in Copies : Using(c) /\ c \notin mixed =>
           /\ temp[name[c]] = c /\ fd[c] = c
           /\ name[c][2] = "proper" => Written(c)

\* A file that was there before is listed, and a copy to its new path is refused.
OldInv ==
    /\ \A d \in Targets, b \in Bases : target[d][b] = "old" => <<d, b>> \in listed
    /\ \A c \in Copies : receiver[c] # "none" \/ pc[c] \in {"connect1", "connect2"} =>
           target[Target(c)][Base[Source(c)]] # "old"

\* Where nobody met anybody, an intact file comes from a copy to that new path.
OriginInv ==
    \A d \in Targets, b \in Bases :
        target[d][b] \in Sources /\ (\A e \in mixed : Target(e) # d) =>
            \E e \in Copies : /\ Target(e) = d /\ Base[Source(e)] = b /\ receiver[e] # "none"
                              /\ target[d][b] = Source(e)

\* Where nobody met anybody, a whole archive that was unpacked has left a file.
ArriveInv ==
    \A c \in Copies :
        (/\ receiver[c] \in {"unpacked", "done"} /\ sender[c] = "sent"
         /\ name[c][2] = "proper" /\ c \notin short
         /\ \A e \in mixed : Target(e) # Target(c))
        => target[Target(c)][Base[Source(c)]] # "absent"

CopyInv ==
    /\ TypeInv /\ CrashInv /\ SocketInv /\ RemoverInv /\ RelayInv /\ ShareInv
    /\ OldInv /\ OriginInv /\ ArriveInv
    /\ DamageNeedsSharing /\ WhatEndsTheNamingServer

----------------------------------------------------------------------------
(* Steps *)

\* The source's steps other than its death, all steps of the destination, and
\* what happens beside the copies.
Sends(c) ==
    \/ SenderZip(c) \/ SenderOpen(c) \/ SenderOpenFails(c) \/ SenderSend(c) \/ SenderCut(c)
    \/ SenderRemove(c)
Receives(c) == Receiver(c) \/ ReceiverOpenFails(c) \/ ReceiverShort(c)
Beside ==
    \/ \E s \in Servers : Restart(s)
    \/ \E p \in Sources : FileVanishes(p)
    \/ Leak
    \/ \E c \in Copies : ClientLeaves(c)

----------------------------------------------------------------------------
(* Operators *)

\* The paths of a job and what is known of them.
LEMMA JobFacts ==
    ASSUME TypeInv, NEW c \in Copies
    PROVE  /\ Source(c) \in Sources /\ Target(c) \in Targets
           /\ Length[Source(c)] \in Nat \ {0} /\ Base[Source(c)] \in Bases
           /\ Home(c) \in Servers /\ Host(c) \in Servers
           /\ job[c] \in Jobs
<1>1. job[c] \in Jobs
  BY DEF TypeInv, TypeOK
<1>2. Source(c) \in Sources /\ Target(c) \in Targets
  BY <1>1 DEF Source, Target, Sources, Targets
<1>3. Base[Source(c)] \in Bases
  BY <1>2 DEF Bases
<1> QED BY <1>1, <1>2, <1>3, CopyAssumption DEF Home, Host

\* The kinds of steps.
LEMMA NextCases ==
    ASSUME TypeInv, Next
    PROVE  /\ nm = "up" /\ job' = job
           /\ \/ \E c \in Copies : \/ CopyRefuse(c) \/ CopyStart(c) \/ Handler(c)
                                   \/ Sends(c) \/ Receives(c)
              \/ \E s \in Servers : Die(s)
              \/ Beside
<1>1. ASSUME NEW c \in Copies, SenderKilled(c) PROVE \E s \in Servers : Die(s)
  BY <1>1, JobFacts DEF SenderKilled
<1> QED BY <1>1 DEF Next, Sender, Sends, Receives, Beside, Crash

\* What a file holds in common with another archive's is its first chunk.
LEMMA ArchiveInjective ==
    ASSUME NEW p \in Sources, NEW q \in Sources, Archive(p) = Archive(q)
    PROVE  p = q
<1>1. 1 \in 1 .. Length[p] /\ 1 \in 1 .. Length[q]
  BY CopyAssumption
<1>2. Archive(p)[1] = <<p, 1>> /\ Archive(q)[1] = <<q, 1>>
  BY <1>1 DEF Archive
<1> QED BY <1>2

\* A write inside a file or at its end makes a file that is no shorter, and holds
\* the chunk.
LEMMA WriteAtSeq ==
    ASSUME NEW S, NEW d \in Seq(S), NEW i \in Nat, i <= Len(d), NEW x \in S
    PROVE  /\ WriteAt(d, i, x) \in Seq(S)
           /\ Len(WriteAt(d, i, x)) >= Len(d)
           /\ Len(WriteAt(d, i, x)) >= i + 1
<1> DEFINE m == IF i < Len(d) THEN Len(d) ELSE i + 1
           f == [j \in 1 .. m |-> IF j = i + 1 THEN x ELSE d[j]]
<1>1. m \in Nat /\ m >= Len(d) /\ m >= i + 1 /\ Len(d) \in Nat
  OBVIOUS
<1>2. \A j \in 1 .. m : j # i + 1 => j \in 1 .. Len(d)
  OBVIOUS
<1> HIDE DEF m
<1>3. \A j \in 1 .. m : f[j] \in S
  BY <1>2
<1>4. f \in Seq(S) /\ Len(f) = m
  BY <1>1, <1>3
<1>5. WriteAt(d, i, x) = f
  BY DEF WriteAt, m
<1> HIDE DEF f
<1> QED BY <1>1, <1>4, <1>5

\* The next chunk, written at the end of a prefix, makes the next prefix.
LEMMA WritePrefix ==
    ASSUME NEW p, NEW k \in Nat
    PROVE  WriteAt(Prefix(p, k), k, <<p, k + 1>>) = Prefix(p, k + 1)
<1>1. Len(Prefix(p, k)) = k
  BY DEF Prefix
<1>2. WriteAt(Prefix(p, k), k, <<p, k + 1>>) =
          [j \in 1 .. k + 1 |-> IF j = k + 1 THEN <<p, k + 1>> ELSE Prefix(p, k)[j]]
  BY <1>1 DEF WriteAt
<1>3. \A j \in 1 .. k + 1 :
          (IF j = k + 1 THEN <<p, k + 1>> ELSE Prefix(p, k)[j]) = <<p, j>>
  BY DEF Prefix
<1> QED BY <1>2, <1>3 DEF Prefix

----------------------------------------------------------------------------
(* The initial state *)

\* Before the first command nothing is under way.
LEMMA CopyInvInit ==
    ASSUME Init
    PROVE  CopyInv
<1>0. \A c \in Copies : job[c] \in Jobs /\ Source(c) \in Sources /\ Target(c) \in Targets
  BY DEF Init, Source, Target, Sources, Targets
<1>1. TypeInv
  <2>1. \A c \in Copies : name[c] = <<Target(c), "proper">> /\ name[c] \in TempNames
    BY <1>0 DEF Init, TempNames
  <2>2. name \in [Copies -> TempNames]
    BY <2>1 DEF Init
  <2>3. \A c \in Copies : Length[Source(c)] \in Nat
    BY <1>0, CopyAssumption
  <2>4. ShapeInv
    BY <2>1 DEF Init, ShapeInv
  <2>5. target \in [Targets -> [Bases -> Sources \cup {"absent", "old", "damaged"}]]
    BY DEF Init
  <2>6. \A c \in Copies : data[c] \in Seq(Sources \X Nat)
    BY EmptySeq DEF Init
  <2>7. TypeOK
    BY <1>0, <2>2, <2>3, <2>5, <2>6, CopyAssumption DEF Init, TypeOK
  <2> QED BY <2>4, <2>7 DEF TypeInv
<1>2. CrashInv /\ RemoverInv /\ SocketInv
  BY DEF Init, CrashInv, RemoverInv, SocketInv
<1>3. RelayInv
  BY DEF Init, RelayInv
<1>4. ShareInv
  BY CopyAssumption DEF Init, ShareInv, Before, Using
<1>5. \A d \in Targets, b \in Bases :
          target[d][b] = IF <<d, b>> \in Listed THEN "old" ELSE "absent"
  BY DEF Init
<1>6. OldInv
  BY <1>5 DEF Init, OldInv
<1>7. DamageNeedsSharing /\ OriginInv
  BY <1>5, CopyAssumption DEF DamageNeedsSharing, OriginInv
<1>8. ArriveInv /\ WhatEndsTheNamingServer
  BY DEF Init, ArriveInv, WhatEndsTheNamingServer
<1> QED BY <1>1, <1>2, <1>3, <1>4, <1>6, <1>7, <1>8 DEF CopyInv

----------------------------------------------------------------------------
(* Types *)

\* The handler's steps keep the types.
LEMMA HandlerType ==
    ASSUME TypeInv, NEW c \in Copies, job' = job, CopyRefuse(c) \/ CopyStart(c) \/ Handler(c)
    PROVE  TypeInv'
<1>0. /\ put \in [Copies -> Nat] /\ sent \in [Copies -> Nat] /\ took \in [Copies -> Nat]
      /\ \A d \in Copies : put[d] <= sent[d] /\ took[d] <= put[d]
      /\ Source(c) \in Sources /\ Target(c) \in Targets
  BY JobFacts DEF TypeInv, TypeOK, ShapeInv
<1> USE DEF TypeInv, TypeOK, ShapeInv, Source, Target, serverVars, senderVars, receiverVars, faultVars
<1>1. CASE CopyRefuse(c)
  <2>1. Refusal(c) \in {"8", "2", "5"}
    BY <1>1 DEF CopyRefuse, Refusal
  <2>2. nm' \in {"up", "exited", "killed"}
    BY <1>1 DEF CopyRefuse, Reply, LostOrKilled
  <2>3. answer' \in [Copies -> {"8", "2", "5", "11", NONE}]
    BY <1>1, <2>1 DEF CopyRefuse, Reply
  <2> QED BY <1>1, <2>2, <2>3 DEF CopyRefuse, Goto
<1>2. CASE CopyStart(c)
  <2>1. Source(c) \in Sources \cup Targets /\ Target(c) \in Sources \cup Targets
    BY <1>0
  <2>2. stale' \in [Copies -> SUBSET (Sources \cup Targets)]
    BY <1>2, <2>1 DEF CopyStart
  <2> QED BY <1>2, <2>2 DEF CopyStart, Goto
<1>3. CASE ConnectFails(c)
  BY <1>3 DEF ConnectFails
<1>4. CASE ConnectSource(c)
  <2>1. sockets' \subseteq Copies \X {"source", "dest"}
    BY <1>4 DEF ConnectSource
  <2> QED BY <1>4, <2>1 DEF ConnectSource, Goto, SenderAt
<1>5. CASE ConnectDest(c)
  <2>1. sockets' \subseteq Copies \X {"source", "dest"}
    BY <1>5 DEF ConnectDest
  <2> QED BY <1>5, <2>1 DEF ConnectDest, Goto, ReceiverAt
<1>6. CASE AskSource(c)
  <2>1. sender' = sender \/ sender' = [sender EXCEPT ![c] = "asked"]
    BY <1>6 DEF AskSource, SenderAt
  <2>2. sender' \in [Copies -> {"none", "connected", "asked", "zipped", "sending", "cut", "sent",
                               "failed", "unread", "gone"}]
    BY <2>1
  <2>3. nm' \in {"up", "exited", "killed"}
    BY <1>6 DEF AskSource, LostOrKilled
  <2> QED BY <1>6, <2>2, <2>3 DEF AskSource, Goto
<1>7. CASE AskDest(c)
  <2>1. receiver' = receiver \/ receiver' = [receiver EXCEPT ![c] = "asked"]
    BY <1>7 DEF AskDest, ReceiverAt
  <2>2. /\ receiver' \in [Copies -> {"none", "connected", "asked", "named", "open", "received",
                                    "unpacked", "done", "deaf", "gone"}]
        /\ \A d \in Copies : receiver'[d] = "open" => receiver[d] = "open"
    BY <2>1
  <2>3. nm' \in {"up", "exited", "killed"}
    BY <1>7 DEF AskDest, LostOrKilled
  <2> QED BY <1>7, <2>2, <2>3 DEF AskDest, Goto
<1>8. CASE RelayChunk(c)
  <2>1. nm' \in {"up", "exited", "killed"}
    BY <1>8 DEF RelayChunk, LostOrKilled
  <2>2. put' = [put EXCEPT ![c] = @ + 1] /\ put[c] < sent[c]
    BY <1>8 DEF RelayChunk
  <2>3. put' \in [Copies -> Nat] /\ \A d \in Copies : put'[d] <= sent[d] /\ put[d] <= put'[d]
    BY <1>0, <2>2
  <2>4. \A d \in Copies : took[d] <= put'[d]
    BY <1>0, <2>3
  <2> QED BY <1>8, <2>1, <2>3, <2>4 DEF RelayChunk
<1>9. CASE RelayEnd(c)
  <2>1. nm' \in {"up", "exited", "killed"} /\ sockets' \subseteq sockets
    BY <1>9 DEF RelayEnd, Reply, LostOrKilled
  <2>2. answer' \in [Copies -> {"8", "2", "5", "11", NONE}]
    BY <1>9 DEF RelayEnd, Reply
  <2>3. sockets' \subseteq Copies \X {"source", "dest"}
    BY <2>1
  <2> QED BY <1>9, <2>1, <2>2, <2>3 DEF RelayEnd, Goto
<1> QED BY <1>1, <1>2, <1>3, <1>4, <1>5, <1>6, <1>7, <1>8, <1>9 DEF Handler

\* The source server's steps keep the types.
LEMMA SenderType ==
    ASSUME TypeInv, NEW c \in Copies, job' = job, Sends(c)
    PROVE  TypeInv'
<1>0. /\ put \in [Copies -> Nat] /\ sent \in [Copies -> Nat]
      /\ \A d \in Copies : put[d] <= sent[d] /\ sent[d] <= Length[Source(d)]
      /\ \A d \in Copies : Source(d) \in Sources /\ Length[Source(d)] \in Nat
  BY JobFacts DEF TypeInv, TypeOK, ShapeInv
<1>1. ASSUME sent' \in [Copies -> Nat],
             \A d \in Copies : put[d] <= sent'[d] /\ sent'[d] <= Length[Source(d)]
      PROVE  \A d \in Copies : put[d] <= sent'[d] /\ sent'[d] <= Length[Source(d)']
  BY <1>1 DEF Source
<1> USE DEF TypeInv, TypeOK, ShapeInv, Target, handlerVars, serverVars, receiverVars, faultVars
<1>2. CASE SenderZip(c)
  <2>1. /\ sender' = [sender EXCEPT ![c] = "zipped"] \/ sender' = [sender EXCEPT ![c] = "failed"]
        /\ archives' \subseteq Sources
    BY <1>0, <1>2 DEF SenderZip, SenderAt
  <2>2. sender' \in [Copies -> {"none", "connected", "asked", "zipped", "sending", "cut", "sent",
                               "failed", "unread", "gone"}]
    BY <2>1
  <2> QED BY <1>2, <2>1, <2>2 DEF SenderZip, Source
<1>3. CASE SenderOpen(c)
  BY <1>3 DEF SenderOpen, SenderAt, Source
<1>4. CASE SenderSend(c)
  <2>1. sent' = [sent EXCEPT ![c] = @ + 1] /\ sent[c] < Length[Source(c)]
    BY <1>4 DEF SenderSend
  <2>2. sent' \in [Copies -> Nat]
    BY <1>0, <2>1
  <2>3. \A d \in Copies : put[d] <= sent'[d] /\ sent'[d] <= Length[Source(d)]
    BY <1>0, <2>1
  <2> QED BY <1>1, <1>4, <2>2, <2>3 DEF SenderSend
<1>5. CASE SenderCut(c)
  BY <1>5 DEF SenderCut, SenderAt, Source
<1>6. CASE SenderRemove(c)
  <2>1. \/ sender' = [sender EXCEPT ![c] = "sent"] \/ sender' = [sender EXCEPT ![c] = "failed"]
    BY <1>6 DEF SenderRemove, SenderAt
  <2>2. sender' \in [Copies -> {"none", "connected", "asked", "zipped", "sending", "cut", "sent",
                               "failed", "unread", "gone"}]
    BY <2>1
  <2> QED BY <1>6, <2>2 DEF SenderRemove, Source
<1>7. CASE SenderOpenFails(c)
  <2>1. /\ sender' = [sender EXCEPT ![c] = "unread"] /\ faults' = faults + 1 /\ faults < MaxFaults
        /\ UNCHANGED <<handlerVars, serverVars, files, archives, sent, put, receiverVars, leaked,
                       departed>>
    BY <1>7 DEF SenderOpenFails, SenderAt, Fault
  <2>2. sender' \in [Copies -> {"none", "connected", "asked", "zipped", "sending", "cut", "sent",
                               "failed", "unread", "gone"}]
    BY <2>1
  <2>3. faults' \in 0 .. MaxFaults
    BY <2>1, CopyAssumption
  <2> QED BY <2>1, <2>2, <2>3 DEF Source
<1> QED BY <1>2, <1>3, <1>4, <1>5, <1>6, <1>7 DEF Sends

\* unzip puts the files named in B into the directory of c, as x.
Extracts(c, B, x) ==
    target' = [target EXCEPT ![Target(c)] = [b \in Bases |-> IF b \in B THEN x ELSE @[b]]]

\* Unpacking changes the files it extracts, in one directory.
LEMMA ExtractsType ==
    ASSUME TypeInv, NEW c \in Copies, NEW B \in SUBSET Bases, NEW x \in Sources \cup {"damaged"},
           Extracts(c, B, x)
    PROVE  /\ target' \in [Targets -> [Bases -> Sources \cup {"absent", "old", "damaged"}]]
           /\ \A d \in Targets, b \in Bases :
                 target'[d][b] = IF d = Target(c) /\ b \in B THEN x ELSE target[d][b]
<1> DEFINE T == target[Target(c)]
           F == [b \in Bases |-> IF b \in B THEN x ELSE T[b]]
           V == Sources \cup {"absent", "old", "damaged"}
<1>0. x \in V
  OBVIOUS
<1>1. Target(c) \in Targets /\ target \in [Targets -> [Bases -> V]]
  BY JobFacts DEF TypeInv, TypeOK
<1> HIDE DEF V
<1>2. T \in [Bases -> V]
  BY <1>1
<1>3. target' = [target EXCEPT ![Target(c)] = F]
  BY DEF Extracts
<1> HIDE DEF T
<1>4. F \in [Bases -> V]
  BY <1>0, <1>2
<1>5. \A b \in Bases : F[b] = IF b \in B THEN x ELSE T[b]
  OBVIOUS
<1> HIDE DEF F
<1>6. target'[Target(c)] = F /\ \A d \in Targets : d # Target(c) => target'[d] = target[d]
  BY <1>1, <1>3
<1>7. target' \in [Targets -> [Bases -> V]]
  BY <1>1, <1>3, <1>4
<1> QED BY <1>5, <1>6, <1>7 DEF T, V

\* What unzip does to the directory.
LEMMA UnzipExtracts ==
    ASSUME NEW c \in Copies, ReceiverUnzip(c)
    PROVE  \/ target' = target
           \/ \E p \in Sources : /\ name[c][2] = "proper" /\ Readable(name[c])
                                 /\ data[temp[name[c]]] = Archive(p)
                                 /\ Extracts(c, {Base[p]}, p)
           \/ /\ name[c][2] = "proper" /\ Readable(name[c])
              /\ \A p \in Sources : data[temp[name[c]]] # Archive(p)
              /\ \E B \in SUBSET Bases : Extracts(c, B, "damaged")
<1>1. \A S \in SUBSET Parts(name[c]) : {Base[p] : p \in S} \in SUBSET Bases
  BY DEF Parts, Bases
<1> QED BY <1>1 DEF ReceiverUnzip, Extracts

\* The destination server's steps keep the types.
LEMMA ReceiverType ==
    ASSUME TypeInv, ShareInv, NEW c \in Copies, job' = job, Receives(c)
    PROVE  TypeInv'
<1>0. /\ put \in [Copies -> Nat] /\ took \in [Copies -> Nat] /\ pos \in [Copies -> Nat]
      /\ name \in [Copies -> TempNames] /\ DOMAIN data = Copies
      /\ fd \in [Copies -> Copies \cup {NONE}] /\ temp \in [TempNames -> Copies \cup {NONE}]
      /\ \A d \in Copies : /\ took[d] <= put[d] /\ pos[d] <= took[d]
                           /\ Source(d) \in Sources /\ Target(d) \in Targets
                           /\ data[d] \in Seq(Sources \X Nat)
                           /\ Source(d)' = Source(d) /\ Target(d)' = Target(d)
                           /\ receiver[d] = "open" => fd[d] \in Copies /\ pos[d] <= Len(data[fd[d]])
      /\ NONE \notin Copies
  BY JobFacts, CopyAssumption DEF TypeInv, TypeOK, ShapeInv, Source, Target
<1> USE DEF TypeInv, TypeOK, ShapeInv, handlerVars, serverVars, senderVars, faultVars
<1>1. CASE ReceiverRecv(c)
  <2>1. PICK k \in 0 .. put[c] :
           /\ took' = [took EXCEPT ![c] = k]
           /\ name' = [name EXCEPT ![c][2] = IF k = 0 THEN "proper" ELSE "garbled"]
    BY <1>1 DEF ReceiverRecv
  <2>2. /\ receiver' = [receiver EXCEPT ![c] = "named"]
        /\ UNCHANGED <<handlerVars, serverVars, senderVars, put, temp, fd, pos, data, target,
                   mixed, short, faultVars>>
    BY <1>1 DEF ReceiverRecv, ReceiverAt
  <2>0. pos[c] = 0
    BY <1>1 DEF ReceiverRecv, ShareInv, Before
  <2>3. /\ took' \in [Copies -> Nat]
        /\ \A d \in Copies : took'[d] <= put[d] /\ pos[d] <= took'[d]
    BY <1>0, <2>0, <2>1
  <2>4. name' \in [Copies -> TempNames] /\ \A d \in Copies : name'[d][1] = name[d][1]
    <3>1. \A n \in TempNames, q \in {"proper", "garbled"} :
             [n EXCEPT ![2] = q] \in TempNames /\ [n EXCEPT ![2] = q][1] = n[1]
      BY DEF TempNames
    <3>2. PICK q \in {"proper", "garbled"} :
             name' = [name EXCEPT ![c] = [name[c] EXCEPT ![2] = q]]
      BY <2>1
    <3> DEFINE m == [name[c] EXCEPT ![2] = q]
    <3>3. m \in TempNames /\ m[1] = name[c][1]
      BY <1>0, <3>1
    <3> HIDE DEF m
    <3>4. name' = [name EXCEPT ![c] = m]
      BY <3>2 DEF m
    <3> QED BY <1>0, <3>3, <3>4
  <2>5. TypeOK'
    BY <1>0, <2>2, <2>3, <2>4
  <2>6. ShapeInv'
    BY <1>0, <2>2, <2>3, <2>4
  <2> QED BY <2>5, <2>6
<1>2. CASE ReceiverOpen(c)
  <2> HIDE DEF TypeInv, TypeOK, ShapeInv
  <2>1. /\ temp' = [temp EXCEPT ![name[c]] = IF @ = NONE THEN c ELSE @]
        /\ fd' = [fd EXCEPT ![c] = temp'[name[c]]]
        /\ receiver[c] = "named" /\ receiver' = [receiver EXCEPT ![c] = "open"]
        /\ mixed' \in {mixed, mixed \cup UsersOf(name[c]) \cup {c}}
        /\ UNCHANGED <<handlerVars, serverVars, senderVars, put, took, name, pos, data, target,
                       short, faultVars>>
    BY <1>2 DEF ReceiverOpen, ReceiverAt
  <2>2. mixed' \subseteq Copies
    BY <2>1 DEF UsersOf, TypeInv, TypeOK
  <2>3. temp' \in [TempNames -> Copies \cup {NONE}] /\ temp'[name[c]] \in Copies
    BY <1>0, <2>1
  <2>4. fd' \in [Copies -> Copies \cup {NONE}] /\ fd'[c] \in Copies
    BY <1>0, <2>1, <2>3
  <2>5. pos[c] = 0
    BY <2>1 DEF ShareInv, Before
  <2>6. ASSUME NEW d \in Copies, receiver'[d] = "open"
        PROVE  fd'[d] \in Copies /\ pos[d] <= Len(data[fd'[d]])
    <3>1. CASE d = c
      <4>1. Len(data[fd'[c]]) \in Nat
        BY <1>0, <2>4
      <4> QED BY <2>4, <2>5, <3>1, <4>1
    <3>2. CASE d # c
      BY <1>0, <2>1, <2>6, <3>2
    <3> QED BY <3>1, <3>2
  <2>7. receiver' \in [Copies -> {"none", "connected", "asked", "named", "open", "received",
                                 "unpacked", "done", "deaf", "gone"}]
    BY <2>1 DEF TypeInv, TypeOK
  <2>8. TypeOK'
    BY <1>0, <2>1, <2>2, <2>3, <2>4, <2>7 DEF TypeInv, TypeOK
  <2>9. ShapeInv'
    <3>1. \A d \in Copies : name'[d][1] = Target(d)'
      BY <1>0, <2>1 DEF TypeInv, ShapeInv
    <3>2. \A d \in Copies : receiver'[d] = "open" =>
              fd'[d] \in Copies /\ pos'[d] <= Len(data'[fd'[d]])
      BY <2>1, <2>6
    <3> QED BY <1>0, <2>1, <3>1, <3>2 DEF TypeInv, ShapeInv
  <2> QED BY <2>8, <2>9 DEF TypeInv
<1>3. CASE ReceiverOpenFails(c)
  <2>1. /\ receiver' = [receiver EXCEPT ![c] = "deaf"]
        /\ faults < MaxFaults /\ faults' = faults + 1
        /\ UNCHANGED <<handlerVars, serverVars, senderVars, put, took, temp, name, fd, pos, data,
                       target, mixed, short, leaked, departed>>
    BY <1>3 DEF ReceiverOpenFails, ReceiverAt, Fault
  <2>2. faults' \in 0 .. MaxFaults
    BY <2>1, CopyAssumption
  <2>3. receiver' \in [Copies -> {"none", "connected", "asked", "named", "open", "received",
                                 "unpacked", "done", "deaf", "gone"}]
    BY <2>1
  <2>4. \A d \in Copies : receiver'[d] = "open" => receiver[d] = "open"
    BY <2>1
  <2>5. TypeOK'
    <3>1. \A d \in Copies : Source(d)' = Source(d)
      BY <1>0
    <3> QED BY <2>1, <2>2, <2>3, <3>1
  <2>6. ShapeInv'
    BY <1>0, <2>1, <2>4
  <2> QED BY <2>5, <2>6
<1>4. CASE ReceiverWrite(c)
  <2> HIDE DEF TypeInv, TypeOK, ShapeInv
  <2> DEFINE f == fd[c]
             x == <<Source(c), took[c] + 1>>
             w == WriteAt(data[f], pos[c], x)
  <2>1. /\ receiver[c] = "open" /\ took[c] < put[c]
        /\ data' = [data EXCEPT ![f] = w]
        /\ pos' = [pos EXCEPT ![c] = @ + 1]
        /\ took' = [took EXCEPT ![c] = @ + 1]
        /\ UNCHANGED <<handlerVars, serverVars, senderVars, put, receiver, temp, name, fd, target,
                       mixed, short, faultVars>>
    BY <1>4 DEF ReceiverWrite
  <2>2. /\ f \in Copies /\ data[f] \in Seq(Sources \X Nat) /\ pos[c] \in Nat
        /\ pos[c] <= Len(data[f]) /\ x \in Sources \X Nat
    BY <1>0, <2>1
  <2> HIDE DEF f, x
  <2>3. w \in Seq(Sources \X Nat) /\ Len(w) >= Len(data[f]) /\ Len(w) >= pos[c] + 1
    BY <2>2, WriteAtSeq
  <2> HIDE DEF w
  <2>4. /\ DOMAIN data' = Copies /\ data'[f] = w
        /\ \A d \in Copies : d # f => data'[d] = data[d]
    BY <1>0, <2>1, <2>2
  <2>5. \A d \in Copies : data'[d] \in Seq(Sources \X Nat) /\ Len(data'[d]) >= Len(data[d])
    <3> SUFFICES ASSUME NEW d \in Copies
                 PROVE  data'[d] \in Seq(Sources \X Nat) /\ Len(data'[d]) >= Len(data[d])
      OBVIOUS
    <3>1. Len(data[d]) \in Nat
      BY <1>0
    <3>2. CASE d = f
      BY <2>3, <2>4, <3>2
    <3>3. CASE d # f
      BY <1>0, <2>4, <3>1, <3>3
    <3> QED BY <3>2, <3>3
  <2>6. /\ pos' \in [Copies -> Nat] /\ took' \in [Copies -> Nat]
        /\ \A d \in Copies : pos'[d] <= took'[d] /\ took'[d] <= put[d]
    BY <1>0, <2>1
  <2>7. ASSUME NEW d \in Copies, receiver[d] = "open"
        PROVE  fd[d] \in Copies /\ pos'[d] <= Len(data'[fd[d]])
    <3>1. CASE d = c
      BY <1>0, <2>1, <2>2, <2>3, <2>4, <3>1 DEF f
    <3>2. CASE d # c
      <4>1. fd[d] \in Copies /\ pos'[d] = pos[d] /\ pos[d] <= Len(data[fd[d]])
        BY <1>0, <2>1, <2>7, <3>2
      <4>2. Len(data'[fd[d]]) >= Len(data[fd[d]])
        BY <2>5, <4>1
      <4>3. pos[d] \in Nat /\ Len(data[fd[d]]) \in Nat /\ Len(data'[fd[d]]) \in Nat
        <5> DEFINE g == fd[d]
        <5>1. g \in Copies
          BY <4>1
        <5> HIDE DEF g
        <5>2. data[g] \in Seq(Sources \X Nat) /\ data'[g] \in Seq(Sources \X Nat)
          BY <1>0, <2>5, <5>1
        <5>3. Len(data[g]) \in Nat /\ Len(data'[g]) \in Nat
          BY <5>2
        <5> QED BY <1>0, <5>3 DEF g
      <4> QED BY <4>1, <4>2, <4>3
    <3> QED BY <3>1, <3>2
  <2>8. TypeOK'
    BY <1>0, <2>1, <2>4, <2>5, <2>6 DEF TypeInv, TypeOK
  <2>9. ShapeInv'
    <3>1. sent' \in [Copies -> Nat] /\ put' \in [Copies -> Nat]
      BY <2>1 DEF TypeInv, ShapeInv
    <3>2. \A d \in Copies : name'[d][1] = Target(d)'
      BY <1>0, <2>1 DEF TypeInv, ShapeInv
    <3>3. \A d \in Copies : receiver'[d] = "open" =>
              fd'[d] \in Copies /\ pos'[d] <= Len(data'[fd'[d]])
      BY <2>1, <2>7
    <3> QED BY <2>4, <2>6, <3>1, <3>2, <3>3 DEF ShapeInv
  <2> QED BY <2>8, <2>9 DEF TypeInv
<1>5. CASE ReceiverEnd(c)
  BY <1>0, <1>5 DEF ReceiverEnd, ReceiverAt
<1>6. CASE ReceiverUnzip(c)
  <2>1. /\ receiver' = [receiver EXCEPT ![c] = "unpacked"]
        /\ UNCHANGED <<handlerVars, serverVars, senderVars, put, took, temp, name, fd, pos, data,
                       mixed, short, faultVars>>
        /\ \/ target' = target
           \/ \E B \in SUBSET Bases, x \in Sources \cup {"damaged"} : Extracts(c, B, x)
    <3>1. \A p \in Sources : {Base[p]} \in SUBSET Bases
      BY DEF Bases
    <3>2. \/ target' = target
          \/ \E B \in SUBSET Bases, x \in Sources \cup {"damaged"} : Extracts(c, B, x)
      BY <1>6, <3>1, UnzipExtracts
    <3> QED BY <1>6, <3>2 DEF ReceiverUnzip, ReceiverAt
  <2>2. target' \in [Targets -> [Bases -> Sources \cup {"absent", "old", "damaged"}]]
    BY <1>0, <2>1, ExtractsType
  <2> QED BY <1>0, <2>1, <2>2
<1>7. CASE ReceiverRemove(c)
  BY <1>0, <1>7 DEF ReceiverRemove, ReceiverAt
<1>8. CASE ReceiverShort(c)
  <2> HIDE DEF TypeInv, TypeOK, ShapeInv
  <2> DEFINE f == fd[c]
             x == <<Source(c), 0>>
             w == WriteAt(data[f], pos[c], x)
  <2>1. /\ receiver[c] = "open" /\ took[c] < put[c]
        /\ data' = data \/ data' = [data EXCEPT ![f] = w]
        /\ took' = [took EXCEPT ![c] = @ + 1]
        /\ short' = short \cup {c}
        /\ receiver' = [receiver EXCEPT ![c] = "received"]
        /\ faults < MaxFaults /\ faults' = faults + 1
        /\ UNCHANGED <<handlerVars, serverVars, senderVars, put, temp, name, fd, pos, target, mixed,
                       leaked, departed>>
    BY <1>8 DEF ReceiverShort, ReceiverAt, Fault
  <2>2. /\ f \in Copies /\ data[f] \in Seq(Sources \X Nat) /\ pos[c] \in Nat
        /\ pos[c] <= Len(data[f]) /\ x \in Sources \X Nat
    BY <1>0, <2>1
  <2> HIDE DEF f, x
  <2>3. w \in Seq(Sources \X Nat) /\ Len(w) >= Len(data[f])
    BY <2>2, WriteAtSeq
  <2> HIDE DEF w
  <2>4. /\ DOMAIN data' = Copies /\ data'[f] \in {data[f], w}
        /\ \A d \in Copies : d # f => data'[d] = data[d]
    BY <1>0, <2>1, <2>2
  <2>5. \A d \in Copies : data'[d] \in Seq(Sources \X Nat) /\ Len(data'[d]) >= Len(data[d])
    <3> SUFFICES ASSUME NEW d \in Copies
                 PROVE  data'[d] \in Seq(Sources \X Nat) /\ Len(data'[d]) >= Len(data[d])
      OBVIOUS
    <3>1. Len(data[d]) \in Nat
      BY <1>0
    <3>2. CASE d = f
      BY <2>2, <2>3, <2>4, <3>1, <3>2
    <3>3. CASE d # f
      BY <1>0, <2>4, <3>1, <3>3
    <3> QED BY <3>2, <3>3
  <2>6. /\ took' \in [Copies -> Nat] /\ short' \subseteq Copies /\ faults' \in 0 .. MaxFaults
        /\ \A d \in Copies : pos[d] <= took'[d] /\ took'[d] <= put[d]
    BY <1>0, <2>1, CopyAssumption DEF TypeInv, TypeOK
  <2>7. /\ receiver' \in [Copies -> {"none", "connected", "asked", "named", "open", "received",
                                    "unpacked", "done", "deaf", "gone"}]
        /\ \A d \in Copies : receiver'[d] = "open" => receiver[d] = "open"
    BY <2>1 DEF TypeInv, TypeOK
  <2>8. ASSUME NEW d \in Copies, receiver'[d] = "open"
        PROVE  fd[d] \in Copies /\ pos[d] <= Len(data'[fd[d]])
    <3> DEFINE g == fd[d]
    <3>1. g \in Copies /\ pos[d] <= Len(data[g]) /\ pos[d] \in Nat
      BY <1>0, <2>7, <2>8
    <3> HIDE DEF g
    <3>2. data[g] \in Seq(Sources \X Nat) /\ data'[g] \in Seq(Sources \X Nat)
      BY <1>0, <2>5, <3>1
    <3>3. Len(data[g]) \in Nat /\ Len(data'[g]) \in Nat /\ Len(data'[g]) >= Len(data[g])
      BY <2>5, <3>1, <3>2
    <3>4. pos[d] <= Len(data'[g])
      BY <3>1, <3>3
    <3> QED BY <3>1, <3>4 DEF g
  <2>9. TypeOK'
    <3>1. /\ UNCHANGED <<nm, pc, answer, sockets, status, live, stale, listed, files, archives, sender,
                         sent, put, temp, name, fd, pos, target, mixed, leaked, departed>>
          /\ job' = job
      BY <2>1
    <3>2. \A d \in Copies : /\ pos'[d] <= took'[d] /\ took'[d] <= put'[d]
                            /\ put'[d] <= sent'[d] /\ sent'[d] <= Length[Source(d)']
                            /\ data'[d] \in Seq(Sources \X Nat)
      BY <1>0, <2>5, <2>6, <3>1 DEF TypeInv, TypeOK
    <3> QED BY <2>6, <2>7, <3>1, <3>2 DEF TypeInv, TypeOK
  <2>10. ShapeInv'
    <3>1. sent' \in [Copies -> Nat] /\ put' \in [Copies -> Nat] /\ pos' \in [Copies -> Nat]
      BY <2>1 DEF TypeInv, ShapeInv
    <3>2. \A d \in Copies : name'[d][1] = Target(d)'
      BY <1>0, <2>1 DEF TypeInv, ShapeInv
    <3>3. \A d \in Copies : receiver'[d] = "open" =>
              fd'[d] \in Copies /\ pos'[d] <= Len(data'[fd'[d]])
      BY <2>1, <2>8
    <3> QED BY <2>4, <2>6, <3>1, <3>2, <3>3 DEF ShapeInv
  <2> QED BY <2>9, <2>10 DEF TypeInv
<1> QED BY <1>1, <1>2, <1>3, <1>4, <1>5, <1>6, <1>7, <1>8 DEF Receives, Receiver

\* The death of a server keeps the types.
LEMMA DieType ==
    ASSUME TypeInv, job' = job, NEW s \in Servers, Die(s), faults' \in 0 .. MaxFaults
    PROVE  TypeInv'
<1>0. \A d \in Copies : /\ Source(d) \in Sources /\ Target(d) \in Targets
                        /\ Source(d)' = Source(d) /\ Target(d)' = Target(d)
  BY JobFacts DEF Source, Target
<1> USE DEF TypeInv, TypeOK, ShapeInv, handlerVars
<1>1. /\ status' = [status EXCEPT ![s] = "down"]
      /\ live' = {x \in live : Location[x] # s}
      /\ stale' = [c \in Copies |-> IF pc[c] \in {"connect1", "connect2"}
                       THEN stale[c] \cup {x \in {Source(c), Target(c)} : Location[x] = s}
                       ELSE stale[c]]
      /\ UNCHANGED <<handlerVars, listed, files, archives, sent, put, took, temp, name, fd, pos,
                     data, target, mixed, short, leaked, departed>>
  BY DEF Die, LosePorts
<1>2. stale' \in [Copies -> SUBSET (Sources \cup Targets)]
  BY <1>0, <1>1
<1>3. /\ sender' \in [Copies -> {"none", "connected", "asked", "zipped", "sending", "cut", "sent",
                                 "failed", "unread", "gone"}]
      /\ receiver' \in [Copies -> {"none", "connected", "asked", "named", "open", "received",
                                   "unpacked", "done", "deaf", "gone"}]
      /\ \A d \in Copies : receiver'[d] = "open" => receiver[d] = "open"
  BY DEF Die
<1>4. TypeOK'
  BY <1>0, <1>1, <1>2, <1>3
<1>5. ShapeInv'
  BY <1>0, <1>1, <1>3
<1> QED BY <1>4, <1>5

\* So do crashes, restarts, vanished files, leaks and departures.
LEMMA FaultType ==
    ASSUME TypeInv, job' = job,
           \/ \E s \in Servers : Crash(s)
           \/ \E c \in Copies : SenderKilled(c)
           \/ Beside
    PROVE  TypeInv'
<1>0. \A d \in Copies : /\ Source(d) \in Sources /\ Target(d) \in Targets
                        /\ Source(d)' = Source(d) /\ Target(d)' = Target(d)
  BY JobFacts DEF Source, Target
<1>1. Fault => faults' \in 0 .. MaxFaults
  BY CopyAssumption DEF Fault, TypeInv, TypeOK
<1>2. ASSUME NEW s \in Servers, Crash(s) PROVE TypeInv'
  BY <1>1, <1>2, DieType DEF Crash
<1>3. ASSUME NEW c \in Copies, SenderKilled(c) PROVE TypeInv'
  <2>1. Home(c) \in Servers /\ faults' \in 0 .. MaxFaults
    BY <1>3, JobFacts DEF SenderKilled, TypeInv, TypeOK
  <2> QED BY <1>3, <2>1, DieType DEF SenderKilled
<1> USE DEF TypeInv, TypeOK, ShapeInv, handlerVars, senderVars, receiverVars, serverVars, faultVars
<1>4. ASSUME NEW s \in Servers, Restart(s) PROVE TypeInv'
  BY <1>0, <1>4 DEF Restart
<1>5. ASSUME NEW p \in Sources, FileVanishes(p) PROVE TypeInv'
  BY <1>0, <1>1, <1>5 DEF FileVanishes
<1>6. ASSUME Leak PROVE TypeInv'
  <2>1. leaked' \in Nat
    BY <1>6 DEF Leak
  <2>2. faults' \in 0 .. MaxFaults
    BY <1>1, <1>6 DEF Leak
  <2>3. UNCHANGED <<handlerVars, serverVars, senderVars, put, receiverVars, departed>>
    BY <1>6 DEF Leak
  <2> QED BY <1>0, <2>1, <2>2, <2>3
<1>7. ASSUME NEW c \in Copies, ClientLeaves(c) PROVE TypeInv'
  BY <1>0, <1>1, <1>7 DEF ClientLeaves
<1> QED BY <1>2, <1>3, <1>4, <1>5, <1>6, <1>7 DEF Beside

\* Every step keeps the types.
LEMMA TypeStep ==
    ASSUME TypeInv, ShareInv, Next
    PROVE  TypeInv'
BY HandlerType, SenderType, ReceiverType, FaultType DEF Next, Sender, Sends, Receives, Beside

----------------------------------------------------------------------------
(* Crashes, clean-up and the relay *)

\* Only deaths and restarts change a server's status.
LEMMA StatusStep ==
    ASSUME TypeInv, Next
    PROVE  \/ status' = status /\ live' = live
           \/ \E s \in Servers : status'[s] # "fresh"
<1> USE DEF handlerVars, serverVars, senderVars, receiverVars, faultVars
<1>0. status \in [Servers -> {"fresh", "down", "restarted"}]
  BY DEF TypeInv, TypeOK
<1>1. ASSUME NEW c \in Copies, CopyRefuse(c) \/ CopyStart(c) \/ Handler(c)
      PROVE  status' = status /\ live' = live
  BY <1>1 DEF CopyRefuse, CopyStart, Handler, ConnectFails, ConnectSource, ConnectDest, AskSource,
              AskDest, RelayChunk, RelayEnd
<1>2. ASSUME NEW c \in Copies, Sends(c)
      PROVE  status' = status /\ live' = live
  BY <1>2 DEF Sends, SenderZip, SenderOpen, SenderOpenFails, SenderSend, SenderCut, SenderRemove
<1>3. ASSUME NEW c \in Copies, Receives(c)
      PROVE  status' = status /\ live' = live
  BY <1>3 DEF Receives, Receiver, ReceiverRecv, ReceiverOpen, ReceiverOpenFails, ReceiverWrite,
              ReceiverShort, ReceiverEnd, ReceiverUnzip, ReceiverRemove
<1>4. ASSUME NEW s \in Servers, Die(s) \/ Restart(s) PROVE status'[s] # "fresh"
  BY <1>0, <1>4 DEF Die, Restart
<1>5. ASSUME \/ \E p \in Sources : FileVanishes(p)
             \/ Leak
             \/ \E c \in Copies : ClientLeaves(c)
      PROVE  status' = status /\ live' = live
  BY <1>5 DEF FileVanishes, Leak, ClientLeaves
<1> QED BY <1>1, <1>2, <1>3, <1>4, <1>5, NextCases DEF Beside

\* Without a crash, the ports that were looked up are right and the connections
\* hold.
LEMMA CrashStep ==
    ASSUME TypeInv, CrashInv, Next
    PROVE  CrashInv'
<1> SUFFICES ASSUME \A s \in Servers : status'[s] = "fresh"
             PROVE  /\ live' = Indexed
                    /\ \A c \in Copies : stale'[c] = {} /\ sender'[c] # "gone" /\ receiver'[c] # "gone"
  BY DEF CrashInv, Crashed
<1>0. /\ status \in [Servers -> {"fresh", "down", "restarted"}]
      /\ stale \in [Copies -> SUBSET (Sources \cup Targets)]
      /\ sender \in [Copies -> {"none", "connected", "asked", "zipped", "sending", "cut", "sent",
                                "failed", "unread", "gone"}]
      /\ receiver \in [Copies -> {"none", "connected", "asked", "named", "open", "received",
                                  "unpacked", "done", "deaf", "gone"}]
  BY DEF TypeInv, TypeOK
<1>1. ASSUME NEW s \in Servers, Die(s) \/ Restart(s) PROVE FALSE
  BY <1>0, <1>1 DEF Die, Restart
<1>2. status' = status /\ live' = live
  BY StatusStep
<1>3. /\ live = Indexed
      /\ \A c \in Copies : stale[c] = {} /\ sender[c] # "gone" /\ receiver[c] # "gone"
  BY <1>2 DEF CrashInv, Crashed
<1> USE DEF handlerVars, serverVars, senderVars, receiverVars, faultVars, SenderAt, ReceiverAt
<1>4. ASSUME NEW c \in Copies, CopyRefuse(c) \/ RelayEnd(c) \/ ConnectFails(c)
      PROVE  UNCHANGED <<stale, sender, receiver>>
  BY <1>4 DEF CopyRefuse, RelayEnd, ConnectFails
<1>5. ASSUME NEW c \in Copies, CopyStart(c)
      PROVE  UNCHANGED <<sender, receiver>> /\ \A d \in Copies : stale'[d] = {}
  <2>1. Source(c) \in Indexed /\ Target(c) \in Indexed
    BY <1>5, CopyAssumption DEF CopyStart, Refusal
  <2> QED BY <1>0, <1>3, <1>5, <2>1 DEF CopyStart
<1>6. ASSUME NEW c \in Copies,
             \/ ConnectSource(c) \/ ConnectDest(c) \/ AskSource(c) \/ AskDest(c) \/ RelayChunk(c)
      PROVE  /\ UNCHANGED stale
             /\ \A d \in Copies : sender'[d] # "gone" /\ receiver'[d] # "gone"
  BY <1>0, <1>3, <1>6 DEF ConnectSource, ConnectDest, AskSource, AskDest, RelayChunk
<1>7. ASSUME NEW c \in Copies, Sends(c)
      PROVE  UNCHANGED <<stale, receiver>> /\ \A d \in Copies : sender'[d] # "gone"
  <2>1. UNCHANGED <<stale, receiver>>
    BY <1>7 DEF Sends, SenderZip, SenderOpen, SenderOpenFails, SenderSend, SenderCut, SenderRemove
  <2>2. \/ sender' = sender
        \/ \E l \in {"zipped", "failed", "unread", "sending", "cut", "sent"} :
              sender' = [sender EXCEPT ![c] = l]
    BY <1>7 DEF Sends, SenderZip, SenderOpen, SenderOpenFails, SenderSend, SenderCut, SenderRemove
  <2> QED BY <1>0, <1>3, <2>1, <2>2
<1>8. ASSUME NEW c \in Copies, Receives(c)
      PROVE  UNCHANGED <<stale, sender>> /\ \A d \in Copies : receiver'[d] # "gone"
  <2>1. UNCHANGED <<stale, sender>>
    BY <1>8 DEF Receives, Receiver, ReceiverRecv, ReceiverOpen, ReceiverOpenFails, ReceiverWrite,
                ReceiverShort, ReceiverEnd, ReceiverUnzip, ReceiverRemove
  <2>2. \/ receiver' = receiver
        \/ \E l \in {"named", "open", "deaf", "received", "unpacked", "done"} :
              receiver' = [receiver EXCEPT ![c] = l]
    BY <1>8 DEF Receives, Receiver, ReceiverRecv, ReceiverOpen, ReceiverOpenFails, ReceiverWrite,
                ReceiverShort, ReceiverEnd, ReceiverUnzip, ReceiverRemove
  <2> QED BY <1>0, <1>3, <2>1, <2>2
<1>9. ASSUME \/ \E p \in Sources : FileVanishes(p)
             \/ Leak
             \/ \E c \in Copies : ClientLeaves(c)
      PROVE  UNCHANGED <<stale, sender, receiver>>
  BY <1>9 DEF FileVanishes, Leak, ClientLeaves
<1> QED BY <1>1, <1>2, <1>3, <1>4, <1>5, <1>6, <1>7, <1>8, <1>9, NextCases DEF Handler, Beside

\* Sockets are opened by a copy under way and closed at its end.
LEMMA SocketStep ==
    ASSUME TypeInv, SocketInv, Next
    PROVE  SocketInv'
<1>0. pc \in [Copies -> {"idle", "connect1", "connect2", "ask1", "ask2", "relay", "done"}]
  BY DEF TypeInv, TypeOK
<1> USE DEF handlerVars, serverVars, senderVars, receiverVars, faultVars
<1>1. ASSUME NEW c \in Copies, CopyRefuse(c) \/ CopyStart(c) PROVE SocketInv'
  BY <1>0, <1>1 DEF CopyRefuse, CopyStart, Goto, SocketInv
<1>2. ASSUME NEW c \in Copies, ConnectFails(c) \/ RelayChunk(c) PROVE UNCHANGED <<pc, sockets>>
  BY <1>2 DEF ConnectFails, RelayChunk
<1>3. ASSUME NEW c \in Copies, ConnectSource(c) PROVE SocketInv'
  BY <1>0, <1>3 DEF ConnectSource, Goto, SocketInv
<1>4. ASSUME NEW c \in Copies, ConnectDest(c) PROVE SocketInv'
  BY <1>0, <1>4 DEF ConnectDest, Goto, SocketInv
<1>5. ASSUME NEW c \in Copies, AskSource(c) \/ AskDest(c) PROVE SocketInv'
  BY <1>0, <1>5 DEF AskSource, AskDest, Goto, SocketInv
<1>6. ASSUME NEW c \in Copies, RelayEnd(c) PROVE SocketInv'
  BY <1>0, <1>6 DEF RelayEnd, Goto, SocketInv
<1>7. ASSUME NEW c \in Copies, Sends(c) \/ Receives(c) PROVE UNCHANGED <<pc, sockets>>
  BY <1>7 DEF Sends, SenderZip, SenderOpen, SenderOpenFails, SenderSend, SenderCut, SenderRemove, Receives, Receiver,
              ReceiverRecv, ReceiverOpen, ReceiverOpenFails, ReceiverWrite, ReceiverShort,
              ReceiverEnd, ReceiverUnzip, ReceiverRemove
<1>8. ASSUME (\E s \in Servers : Die(s)) \/ Beside PROVE UNCHANGED <<pc, sockets>>
  BY <1>8 DEF Die, Beside, Restart, FileVanishes, Leak, ClientLeaves
<1>9. ASSUME UNCHANGED <<pc, sockets>> PROVE SocketInv'
  BY <1>9 DEF SocketInv
<1> QED BY <1>1, <1>2, <1>3, <1>4, <1>5, <1>6, <1>7, <1>8, <1>9, NextCases DEF Handler

\* A copy that still needs a socket leaves the copies under way with fewer than
\* two each.
LEMMA SocketCount ==
    ASSUME TypeInv, SocketInv, NEW c \in Copies, pc[c] \in {"connect1", "connect2"}
    PROVE  /\ Cardinality(sockets) \in Nat /\ Cardinality(Busy) \in Nat
           /\ Cardinality(sockets) < 2 * Cardinality(Busy)
<1> DEFINE K == {"source", "dest"}
           y == <<c, "dest">>
           S == sockets \cup {y}
<1>1. IsFiniteSet(Busy) /\ Cardinality(Busy) \in Nat
  <2>1. Busy \subseteq Copies /\ IsFiniteSet(Copies)
    BY CopyAssumption DEF Busy
  <2> QED BY <2>1, FS_Subset, FS_CardinalityType
<1>2. IsFiniteSet(K) /\ Cardinality(K) = 2
  <2>1. IsFiniteSet({"source"}) /\ Cardinality({"source"}) = 1
    BY FS_Singleton
  <2>2. K = {"source"} \cup {"dest"} /\ "dest" \notin {"source"}
    OBVIOUS
  <2>3. IsFiniteSet({"source"} \cup {"dest"}) /\ Cardinality({"source"} \cup {"dest"}) = 1 + 1
    BY <2>1, FS_AddElement
  <2> QED BY <2>2, <2>3
<1>3. y \notin sockets
  BY DEF SocketInv
<1>4. S \subseteq Busy \X K
  <2>1. c \in Busy
    BY DEF Busy
  <2>2. \A x \in sockets : x \in Busy \X K
    <3> SUFFICES ASSUME NEW x \in sockets PROVE x \in Busy \X K
      OBVIOUS
    <3>1. PICK d \in Copies, k \in K : x = <<d, k>>
      BY DEF TypeInv, TypeOK
    <3>2. d \in Busy
      BY <3>1 DEF SocketInv, Busy
    <3> QED BY <3>1, <3>2
  <2> QED BY <2>1, <2>2
<1> HIDE DEF K, y
<1>5. IsFiniteSet(Busy \X K) /\ Cardinality(Busy \X K) = Cardinality(Busy) * 2
  BY <1>1, <1>2, FS_Product
<1>6. IsFiniteSet(S) /\ Cardinality(S) <= Cardinality(Busy \X K)
  BY <1>4, <1>5, FS_Subset
<1>7. IsFiniteSet(sockets) /\ Cardinality(sockets) \in Nat
  <2>1. sockets \subseteq S
    OBVIOUS
  <2> QED BY <1>6, <2>1, FS_Subset, FS_CardinalityType
<1>8. Cardinality(S) = Cardinality(sockets) + 1
  BY <1>3, <1>7, FS_AddElement
<1> QED BY <1>1, <1>5, <1>6, <1>7, <1>8

\* What ends the naming server.
LEMMA EndStep ==
    ASSUME TypeInv, CrashInv, SocketInv, Next
    PROVE  WhatEndsTheNamingServer'
<1>0. nm = "up"
  BY NextCases
<1> USE DEF handlerVars, serverVars, senderVars, receiverVars, faultVars
<1>1. ASSUME nm' = "up" PROVE WhatEndsTheNamingServer'
  BY <1>1 DEF WhatEndsTheNamingServer
<1>2. ASSUME NEW c \in Copies, ConnectFails(c) PROVE WhatEndsTheNamingServer'
  <2>1. /\ pc[c] \in {"connect1", "connect2"} /\ nm' = "exited"
        /\ ~SocketFree \/ stale[c] # {}
        /\ UNCHANGED <<pc, status, leaked>>
    BY <1>2 DEF ConnectFails
  <2>2. CASE stale[c] # {}
    <3>1. Crashed
      BY <2>2 DEF CrashInv
    <3> QED BY <2>1, <3>1 DEF WhatEndsTheNamingServer, Crashed
  <2>3. CASE ~SocketFree
    <3>1. leaked + Cardinality(sockets) >= Descriptors /\ leaked \in Nat /\ Descriptors \in Nat
      <4>1. Cardinality(sockets) \in Nat
        BY <2>1, SocketCount
      <4>2. leaked \in Nat /\ Descriptors \in Nat
        BY CopyAssumption DEF TypeInv, TypeOK
      <4> QED BY <2>3, <4>1, <4>2 DEF SocketFree
    <3>2. leaked + 2 * Cardinality(Busy) > Descriptors
      BY <2>1, <3>1, SocketCount
    <3>3. Busy' = Busy
      BY <2>1 DEF Busy
    <3> QED BY <2>1, <3>2, <3>3 DEF WhatEndsTheNamingServer
  <2> QED BY <2>1, <2>2, <2>3
<1>3. ASSUME NEW c \in Copies, AskSource(c) \/ AskDest(c) \/ RelayChunk(c)
      PROVE  WhatEndsTheNamingServer'
  <2>1. /\ nm' \in {"up", "killed"} /\ status' = status
        /\ nm' = "killed" => sender[c] = "gone" \/ receiver[c] = "gone"
    BY <1>0, <1>3 DEF AskSource, AskDest, RelayChunk, LostOrKilled
  <2>2. nm' = "killed" => Crashed
    BY <2>1 DEF CrashInv
  <2> QED BY <2>1, <2>2 DEF WhatEndsTheNamingServer, Crashed
<1>4. ASSUME NEW c \in Copies, CopyRefuse(c) \/ RelayEnd(c)
      PROVE  WhatEndsTheNamingServer'
  <2>1. /\ nm' \in {"up", "killed"} /\ departed' = departed
        /\ nm' = "killed" => c \in departed
    BY <1>0, <1>4 DEF CopyRefuse, RelayEnd, Reply, LostOrKilled
  <2> QED BY <2>1 DEF WhatEndsTheNamingServer
<1>5. ASSUME NEW c \in Copies, CopyStart(c) \/ ConnectSource(c) \/ ConnectDest(c)
      PROVE  nm' = nm
  BY <1>5 DEF CopyStart, ConnectSource, ConnectDest
<1>6. ASSUME NEW c \in Copies, Sends(c) \/ Receives(c) PROVE nm' = nm
  BY <1>6 DEF Sends, SenderZip, SenderOpen, SenderOpenFails, SenderSend, SenderCut, SenderRemove, Receives, Receiver,
              ReceiverRecv, ReceiverOpen, ReceiverOpenFails, ReceiverWrite, ReceiverShort,
              ReceiverEnd, ReceiverUnzip, ReceiverRemove
<1>7. ASSUME (\E s \in Servers : Die(s)) \/ Beside PROVE nm' = nm
  BY <1>7 DEF Die, Beside, Restart, FileVanishes, Leak, ClientLeaves
<1> QED BY <1>0, <1>1, <1>2, <1>3, <1>4, <1>5, <1>6, <1>7, NextCases DEF Handler

\* Whoever stops being the remover of an archive has removed it.
LEMMA RemoverStep ==
    ASSUME TypeInv, RelayInv, RemoverInv, Next
    PROVE  RemoverInv'
<1> DEFINE Removing(c) == sender[c] \in {"zipped", "sending", "cut", "unread", "gone"}
           Clearing(c) == receiver[c] \in {"open", "received", "unpacked", "gone"}
<1>0. /\ sender \in [Copies -> {"none", "connected", "asked", "zipped", "sending", "cut", "sent",
                                "failed", "unread", "gone"}]
      /\ receiver \in [Copies -> {"none", "connected", "asked", "named", "open", "received",
                                  "unpacked", "done", "deaf", "gone"}]
      /\ temp \in [TempNames -> Copies \cup {NONE}] /\ name \in [Copies -> TempNames]
  BY DEF TypeInv, TypeOK
<1>1. job' = job /\ \A c \in Copies : Source(c)' = Source(c)
  BY DEF Next, Source
<1> USE DEF handlerVars, serverVars, senderVars, receiverVars, faultVars, SenderAt, ReceiverAt
<1>2. ASSUME archives' = archives, temp' = temp,
             \A c \in Copies : Removing(c) => Removing(c)',
             \A c \in Copies : Clearing(c) => Clearing(c)' /\ name'[c] = name[c]
      PROVE  RemoverInv'
  BY <1>1, <1>2 DEF RemoverInv
<1>3. ASSUME NEW c \in Copies, CopyRefuse(c) \/ CopyStart(c) \/ ConnectFails(c) \/ RelayChunk(c)
                               \/ RelayEnd(c) \/ SenderSend(c) \/ ReceiverWrite(c)
      PROVE  UNCHANGED <<archives, temp, sender, receiver, name>>
  BY <1>3 DEF CopyRefuse, CopyStart, ConnectFails, RelayChunk, RelayEnd, SenderSend, ReceiverWrite
<1>4. ASSUME NEW c \in Copies, ConnectSource(c) \/ AskSource(c) PROVE RemoverInv'
  <2>1. /\ UNCHANGED <<archives, temp, receiver, name>>
        /\ \/ sender' = sender
           \/ sender[c] \in {"none", "connected"} /\ \E l \in {"connected", "asked"} :
                 sender' = [sender EXCEPT ![c] = l]
    BY <1>4 DEF ConnectSource, AskSource, RelayInv
  <2>2. \A d \in Copies : Removing(d) => Removing(d)'
    BY <1>0, <2>1
  <2> QED BY <1>2, <2>1, <2>2
<1>5. ASSUME NEW c \in Copies, ConnectDest(c) \/ AskDest(c) \/ ReceiverOpenFails(c) \/ ReceiverEnd(c)
                               \/ ReceiverShort(c) \/ ReceiverUnzip(c)
      PROVE  RemoverInv'
  <2>1. /\ UNCHANGED <<archives, temp, sender, name>>
        /\ \/ receiver' = receiver
           \/ /\ receiver[c] \in {"none", "connected", "named"}
              /\ \E l \in {"connected", "asked", "deaf"} : receiver' = [receiver EXCEPT ![c] = l]
           \/ \E l \in {"received", "unpacked"} : receiver' = [receiver EXCEPT ![c] = l]
    BY <1>5 DEF ConnectDest, AskDest, ReceiverOpenFails, ReceiverShort, ReceiverEnd, ReceiverUnzip,
                RelayInv
  <2>2. \A d \in Copies : Clearing(d) => Clearing(d)'
    BY <1>0, <2>1
  <2> QED BY <1>2, <2>1, <2>2
<1>6. ASSUME NEW c \in Copies, SenderZip(c) PROVE RemoverInv'
  <2>1. UNCHANGED <<temp, receiver, name>> /\ sender[c] = "asked"
    BY <1>6 DEF SenderZip
  <2>2. CASE archives' = archives \cup {Source(c)} /\ sender' = [sender EXCEPT ![c] = "zipped"]
    <3>1. Removing(c)' /\ \A d \in Copies : Removing(d) => Removing(d)'
      BY <1>0, <2>2
    <3> QED BY <1>1, <2>1, <2>2, <3>1 DEF RemoverInv
  <2>3. CASE archives' = archives /\ sender' = [sender EXCEPT ![c] = "failed"]
    <3>1. \A d \in Copies : Removing(d) => Removing(d)'
      BY <1>0, <2>1, <2>3
    <3> QED BY <1>2, <2>1, <2>3, <3>1
  <2> QED BY <1>6, <2>2, <2>3 DEF SenderZip
<1>7. ASSUME NEW c \in Copies, SenderOpen(c) \/ SenderOpenFails(c) \/ SenderCut(c) \/ SenderRemove(c)
      PROVE  RemoverInv'
  <2>1. /\ UNCHANGED <<temp, receiver, name>> /\ archives' \subseteq archives
        /\ Source(c) \in archives' => Removing(c)'
        /\ \A d \in Copies : d # c => sender'[d] = sender[d]
    BY <1>0, <1>7 DEF SenderOpen, SenderOpenFails, SenderCut, SenderRemove
  <2>2. ASSUME NEW p \in archives'
        PROVE  \E d \in Copies : Source(d) = p /\ Removing(d)'
    <3>1. PICK d \in Copies : Source(d) = p /\ Removing(d)
      BY <2>1 DEF RemoverInv
    <3> QED BY <2>1, <3>1
  <2> QED BY <1>1, <2>1, <2>2 DEF RemoverInv
<1>8. ASSUME NEW c \in Copies, ReceiverRecv(c) PROVE RemoverInv'
  <2>1. /\ UNCHANGED <<archives, temp, sender>>
        /\ receiver[c] = "asked" /\ receiver' = [receiver EXCEPT ![c] = "named"]
        /\ \A d \in Copies : d # c => name'[d] = name[d]
    BY <1>0, <1>8 DEF ReceiverRecv
  <2>2. \A d \in Copies : Clearing(d) => Clearing(d)' /\ name'[d] = name[d]
    BY <1>0, <2>1
  <2> QED BY <1>2, <2>1, <2>2
<1>9. ASSUME NEW c \in Copies, ReceiverOpen(c) PROVE RemoverInv'
  <2>1. /\ UNCHANGED <<archives, sender, name>>
        /\ receiver' = [receiver EXCEPT ![c] = "open"]
        /\ temp' = [temp EXCEPT ![name[c]] = IF @ = NONE THEN c ELSE @]
    BY <1>9 DEF ReceiverOpen
  <2>2. /\ Clearing(c)' /\ \A d \in Copies : Clearing(d) => Clearing(d)'
        /\ \A n \in TempNames : n # name[c] => temp'[n] = temp[n]
    BY <1>0, <2>1
  <2> QED BY <1>1, <2>1, <2>2 DEF RemoverInv
<1>10. ASSUME NEW c \in Copies, ReceiverRemove(c) PROVE RemoverInv'
  <2>1. /\ UNCHANGED <<archives, sender, name>>
        /\ \A d \in Copies : d # c => receiver'[d] = receiver[d]
        /\ \A n \in TempNames : temp'[n] = IF n = name[c] THEN NONE ELSE temp[n]
    BY <1>0, <1>10 DEF ReceiverRemove
  <2>2. ASSUME NEW n \in TempNames, temp'[n] # NONE
        PROVE  \E d \in Copies : name[d] = n /\ Clearing(d)'
    <3>1. temp[n] # NONE /\ n # name[c]
      BY <2>1, <2>2
    <3>2. PICK d \in Copies : name[d] = n /\ Clearing(d)
      BY <3>1 DEF RemoverInv
    <3> QED BY <2>1, <3>1, <3>2
  <2> QED BY <1>1, <2>1, <2>2 DEF RemoverInv
<1>11. ASSUME NEW s \in Servers, Die(s) PROVE RemoverInv'
  <2>1. UNCHANGED <<archives, temp, name>>
    BY <1>11 DEF Die
  <2>2. \A d \in Copies : (Removing(d) => Removing(d)') /\ (Clearing(d) => Clearing(d)')
    BY <1>0, <1>11 DEF Die
  <2> QED BY <1>2, <2>1, <2>2
<1>12. ASSUME Beside PROVE UNCHANGED <<archives, temp, sender, receiver, name>>
  BY <1>12 DEF Beside, Restart, FileVanishes, Leak, ClientLeaves
<1>13. ASSUME UNCHANGED <<archives, temp, sender, receiver, name>> PROVE RemoverInv'
  BY <1>2, <1>13
<1> HIDE DEF Removing, Clearing
<1> QED BY <1>3, <1>4, <1>5, <1>6, <1>7, <1>8, <1>9, <1>10, <1>11, <1>12, <1>13, NextCases
        DEF Handler, Sends, Receives, Receiver

\* The stages of one copy follow each other.
LEMMA RelayStep ==
    ASSUME TypeInv, RelayInv, Next
    PROVE  RelayInv'
<1>0. /\ pc \in [Copies -> {"idle", "connect1", "connect2", "ask1", "ask2", "relay", "done"}]
      /\ sender \in [Copies -> {"none", "connected", "asked", "zipped", "sending", "cut", "sent",
                                "failed", "unread", "gone"}]
      /\ receiver \in [Copies -> {"none", "connected", "asked", "named", "open", "received",
                                  "unpacked", "done", "deaf", "gone"}]
      /\ sent \in [Copies -> Nat] /\ put \in [Copies -> Nat] /\ took \in [Copies -> Nat]
  BY DEF TypeInv, TypeOK, ShapeInv
<1>1. \A c \in Copies : Source(c)' = Source(c)
  BY DEF Next, Source
<1> DEFINE Stages(c) ==
        /\ pc[c] \in {"idle", "connect1"} => sender[c] = "none"
        /\ pc[c] \in {"connect2", "ask1"} => sender[c] \in {"connected", "gone"}
        /\ pc[c] \in {"idle", "connect1", "connect2"} => receiver[c] = "none"
        /\ pc[c] \in {"ask1", "ask2"} => receiver[c] \in {"connected", "gone"}
        /\ sender[c] = "sent" => sent[c] = Length[Source(c)]
        /\ pc[c] = "done" => \/ receiver[c] = "gone"
                             \/ /\ sender[c] \in {"none", "sent", "failed", "unread", "gone"}
                                /\ sender[c] = "sent" => put[c] = sent[c]
        /\ receiver[c] \in {"received", "unpacked", "done"} =>
               c \in short \/ (pc[c] = "done" /\ took[c] = put[c])
        /\ c \in short => receiver[c] \in {"received", "unpacked", "done", "gone"}
<1>2. \A c \in Copies : Stages(c)
  BY DEF RelayInv
<1>3. (\A c \in Copies : Stages(c)') => RelayInv'
  BY DEF RelayInv
<1>4. ASSUME NEW c \in Copies,
             /\ pc'[c] = pc[c] /\ sender'[c] = sender[c] /\ sent'[c] = sent[c] /\ put'[c] = put[c]
             /\ receiver'[c] = receiver[c] /\ took'[c] = took[c] /\ (c \in short' <=> c \in short)
      PROVE  Stages(c)'
  BY <1>1, <1>2, <1>4
<1>5. ASSUME NEW c \in Copies, Stages(c)',
             \A d \in Copies \ {c} :
                 /\ pc'[d] = pc[d] /\ sender'[d] = sender[d] /\ sent'[d] = sent[d] /\ put'[d] = put[d]
                 /\ receiver'[d] = receiver[d] /\ took'[d] = took[d]
                 /\ (d \in short' <=> d \in short)
      PROVE  RelayInv'
  BY <1>3, <1>4, <1>5
<1> HIDE DEF Stages
<1> USE DEF handlerVars, serverVars, senderVars, receiverVars, faultVars, Goto, SenderAt, ReceiverAt
<1>6. ASSUME NEW c \in Copies, CopyRefuse(c) \/ CopyStart(c) \/ Handler(c) PROVE RelayInv'
  <2>1. CASE CopyRefuse(c) \/ CopyStart(c) \/ ConnectFails(c) \/ RelayEnd(c)
    <3>1. UNCHANGED <<sender, sent, put, receiver, took, short>>
      BY <2>1 DEF CopyRefuse, CopyStart, ConnectFails, RelayEnd
    <3>2. /\ \/ pc' = pc
             \/ pc[c] = "idle" /\ pc'[c] \in {"connect1", "done"}
             \/ pc[c] = "relay" /\ (SourceEnded(c) \/ SendFails(c)) /\ pc'[c] = "done"
          /\ \A d \in Copies \ {c} : pc'[d] = pc[d]
      BY <1>0, <2>1 DEF CopyRefuse, CopyStart, ConnectFails, RelayEnd
    <3>3. Stages(c)'
      BY <1>1, <1>2, <3>1, <3>2 DEF Stages, SourceEnded, SendFails
    <3> QED BY <1>5, <3>1, <3>2, <3>3
  <2>2. CASE ConnectSource(c) \/ AskSource(c)
    <3>1. /\ UNCHANGED <<sent, put, receiver, took, short>>
          /\ \/ pc[c] = "connect1" /\ pc'[c] = "connect2" /\ sender'[c] = "connected"
             \/ pc[c] = "ask1" /\ pc'[c] = "ask2" /\ sender'[c] \in {"asked", "gone"}
          /\ \A d \in Copies \ {c} : pc'[d] = pc[d] /\ sender'[d] = sender[d]
      BY <1>0, <2>2 DEF ConnectSource, AskSource
    <3>2. Stages(c)'
      BY <1>1, <1>2, <3>1 DEF Stages
    <3> QED BY <1>5, <3>1, <3>2
  <2>3. CASE ConnectDest(c) \/ AskDest(c)
    <3>1. /\ UNCHANGED <<sender, sent, put, took, short>>
          /\ \/ pc[c] = "connect2" /\ pc'[c] = "ask1" /\ receiver'[c] = "connected"
             \/ /\ pc[c] = "ask2" /\ pc'[c] = "relay"
                /\ receiver'[c] = IF receiver[c] = "gone" THEN "gone" ELSE "asked"
          /\ \A d \in Copies \ {c} : pc'[d] = pc[d] /\ receiver'[d] = receiver[d]
      BY <1>0, <2>3 DEF ConnectDest, AskDest
    <3>2. Stages(c)'
      BY <1>1, <1>2, <3>1 DEF Stages
    <3> QED BY <1>5, <3>1, <3>2
  <2>4. CASE RelayChunk(c)
    <3>1. /\ UNCHANGED <<pc, sender, sent, receiver, took, short>> /\ pc[c] = "relay"
          /\ \A d \in Copies \ {c} : put'[d] = put[d]
      BY <1>0, <2>4 DEF RelayChunk
    <3>2. Stages(c)'
      BY <1>1, <1>2, <3>1 DEF Stages
    <3> QED BY <1>5, <3>1, <3>2
  <2> QED BY <1>6, <2>1, <2>2, <2>3, <2>4 DEF Handler
<1>7. ASSUME NEW c \in Copies, Sends(c) PROVE RelayInv'
  <2>1. UNCHANGED <<pc, put, receiver, took, short>>
    BY <1>7 DEF Sends, SenderZip, SenderOpen, SenderOpenFails, SenderSend, SenderCut, SenderRemove
  <2>2. /\ sender[c] \in {"asked", "zipped", "sending", "cut"}
        /\ \/ sender' = sender
           \/ sender' = [sender EXCEPT ![c] = "sent"] /\ sent[c] = Length[Source(c)] /\ sent' = sent
           \/ \E l \in {"zipped", "failed", "unread", "sending", "cut"} : sender' = [sender EXCEPT ![c] = l]
        /\ \A d \in Copies \ {c} : sent'[d] = sent[d]
    BY <1>0, <1>7 DEF Sends, SenderZip, SenderOpen, SenderOpenFails, SenderSend, SenderCut, SenderRemove
  <2>3. /\ sender'[c] \in {"asked", "zipped", "failed", "unread", "sending", "cut", "sent"}
        /\ sender'[c] = "sent" => sent'[c] = Length[Source(c)]
        /\ \A d \in Copies \ {c} : sender'[d] = sender[d]
    BY <1>0, <2>2
  <2>4. pc[c] \notin {"idle", "connect1", "connect2", "ask1"}
        /\ (pc[c] = "done" => receiver[c] = "gone")
    BY <1>2, <2>2 DEF Stages
  <2>5. Stages(c)'
    BY <1>1, <1>2, <2>1, <2>3, <2>4 DEF Stages
  <2> QED BY <1>5, <2>1, <2>2, <2>3, <2>5
<1>8. ASSUME NEW c \in Copies, Receives(c) PROVE RelayInv'
  <2>1. UNCHANGED <<pc, sender, sent, put>>
    BY <1>8 DEF Receives, Receiver, ReceiverRecv, ReceiverOpen, ReceiverOpenFails, ReceiverWrite,
                ReceiverShort, ReceiverEnd, ReceiverUnzip, ReceiverRemove
  <2>2. CASE ReceiverRecv(c) \/ ReceiverOpen(c) \/ ReceiverOpenFails(c) \/ ReceiverWrite(c)
    <3>1. /\ receiver[c] \in {"asked", "named", "open"} /\ receiver'[c] \in {"named", "open", "deaf"}
          /\ \A d \in Copies \ {c} : receiver'[d] = receiver[d] /\ took'[d] = took[d]
          /\ short' = short
      <4>1. CASE ReceiverRecv(c)
        BY <1>0, <4>1 DEF ReceiverRecv
      <4>2. CASE ReceiverOpen(c) \/ ReceiverOpenFails(c) \/ ReceiverWrite(c)
        BY <1>0, <4>2 DEF ReceiverOpen, ReceiverOpenFails, ReceiverWrite
      <4> QED BY <2>2, <4>1, <4>2
    <3>2. Stages(c)'
      BY <1>1, <1>2, <2>1, <3>1 DEF Stages
    <3> QED BY <1>5, <2>1, <3>1, <3>2
  <2>3. CASE ReceiverEnd(c) \/ ReceiverUnzip(c) \/ ReceiverRemove(c)
    <3>1. /\ took' = took /\ short' = short
          /\ \/ receiver[c] = "open" /\ pc[c] = "done" /\ took[c] = put[c]
             \/ receiver[c] \in {"received", "unpacked"}
          /\ receiver'[c] \in {"received", "unpacked", "done"}
          /\ \A d \in Copies \ {c} : receiver'[d] = receiver[d]
      BY <1>0, <2>3 DEF ReceiverEnd, ReceiverUnzip, ReceiverRemove
    <3>2. Stages(c)'
      BY <1>1, <1>2, <2>1, <3>1 DEF Stages
    <3> QED BY <1>5, <2>1, <3>1, <3>2
  <2>4. CASE ReceiverShort(c)
    <3>1. /\ receiver[c] = "open" /\ receiver'[c] = "received" /\ short' = short \cup {c}
          /\ \A d \in Copies \ {c} : receiver'[d] = receiver[d] /\ took'[d] = took[d]
      BY <1>0, <2>4 DEF ReceiverShort
    <3>2. Stages(c)'
      BY <1>1, <1>2, <2>1, <3>1 DEF Stages
    <3> QED BY <1>5, <2>1, <3>1, <3>2
  <2> QED BY <1>8, <2>2, <2>3, <2>4 DEF Receives, Receiver
<1>9. ASSUME NEW s \in Servers, Die(s) PROVE RelayInv'
  <2> SUFFICES ASSUME NEW c \in Copies PROVE Stages(c)'
    BY <1>3 DEF Stages
  <2>1. /\ UNCHANGED <<pc, sent, put, took, short>>
        /\ \/ sender'[c] = sender[c]
           \/ sender[c] \notin {"none", "sent", "failed", "unread"} /\ sender'[c] = "gone"
        /\ \/ receiver'[c] = receiver[c]
           \/ receiver[c] # "none" /\ receiver'[c] = "gone"
    BY <1>0, <1>9 DEF Die
  <2> QED BY <1>1, <1>2, <2>1 DEF Stages
<1>10. ASSUME Beside PROVE RelayInv'
  <2>1. UNCHANGED <<pc, sender, sent, put, receiver, took, short>>
    BY <1>10 DEF Beside, Restart, FileVanishes, Leak, ClientLeaves
  <2> QED BY <1>3, <1>4, <2>1 DEF Stages
<1> QED BY <1>6, <1>7, <1>8, <1>9, <1>10, NextCases

----------------------------------------------------------------------------
(* Temporary archives *)

\* What Written says of the next state.
LEMMA WrittenNext ==
    ASSUME job' = job, NEW c \in Copies
    PROVE  /\ Written(c)' <=>
                 \/ data'[c] = Prefix(Source(c), pos'[c])
                 \/ /\ c \in short'
                    /\ data'[c] = WriteAt(Prefix(Source(c), pos'[c]), pos'[c], <<Source(c), 0>>)
           /\ (data'[c] = data[c] /\ pos'[c] = pos[c] /\ (c \in short <=> c \in short'))
                 => (Written(c)' <=> Written(c))
<1>1. Source(c)' = Source(c)
  BY DEF Source
<1>2. Written(c)' <=>
          \/ data'[c] = Prefix(Source(c), pos'[c])
          \/ /\ c \in short'
             /\ data'[c] = WriteAt(Prefix(Source(c), pos'[c]), pos'[c], <<Source(c), 0>>)
  BY <1>1 DEF Written, Prefix, WriteAt
<1> QED BY <1>2 DEF Written

\* A step that opens, writes and removes no temporary archive.
LEMMA ShareFrame ==
    ASSUME ShareInv, job' = job, UNCHANGED <<pos, data, name, took, temp, fd, mixed, short>>,
           temp \in [TempNames -> Copies \cup {NONE}], fd \in [Copies -> Copies \cup {NONE}],
           \A c \in Copies : (Before(c)' => Before(c)) /\ (Using(c)' => Using(c))
    PROVE  ShareInv'
<1>1. \A c \in Copies : Written(c)' <=> Written(c)
  BY WrittenNext
<1>2. /\ \A n \in TempNames : temp[n] # NONE => temp[n] \in Copies
      /\ \A c \in Copies : fd[c] # NONE => fd[c] \in Copies
  OBVIOUS
<1> QED BY <1>1, <1>2 DEF ShareInv

\* A receiver that met nobody when it opened its temporary archive stays alone,
\* or is among those that have met.
LEMMA ShareStep ==
    ASSUME TypeInv, RelayInv, ShareInv, Next
    PROVE  ShareInv'
<1>0. /\ receiver \in [Copies -> {"none", "connected", "asked", "named", "open", "received",
                                  "unpacked", "done", "deaf", "gone"}]
      /\ temp \in [TempNames -> Copies \cup {NONE}] /\ name \in [Copies -> TempNames]
      /\ fd \in [Copies -> Copies \cup {NONE}] /\ DOMAIN data = Copies
      /\ took \in [Copies -> Nat] /\ pos \in [Copies -> Nat] /\ mixed \subseteq Copies
      /\ short \subseteq Copies
      /\ NONE \notin Copies
  BY CopyAssumption DEF TypeInv, TypeOK, ShapeInv
<1>1. /\ job' = job
      /\ \A c \in Copies : Source(c)' = Source(c)
      /\ \A c \in Copies : c \in short => receiver[c] \in {"received", "unpacked", "done", "gone"}
  BY DEF Next, Source, RelayInv
<1>2. /\ \A c \in Copies : Before(c) => pos[c] = 0 /\ data[c] = << >>
      /\ \A c \in Copies : name[c][2] = "proper" =>
             took[c] = IF c \in short THEN pos[c] + 1 ELSE pos[c]
      /\ \A n \in TempNames : temp[n] # NONE => name[temp[n]] = n /\ ~Before(temp[n])
      /\ \A c \in Copies : fd[c] # NONE => ~Before(fd[c])
      /\ \A c, e \in Copies : Using(c) /\ c \notin mixed /\ e # c =>
             fd[e] # c /\ ~(Using(e) /\ name[e] = name[c])
      /\ \A c \in Copies : Using(c) /\ c \notin mixed =>
             /\ temp[name[c]] = c /\ fd[c] = c
             /\ name[c][2] = "proper" => Written(c)
  BY DEF ShareInv
<1> USE DEF handlerVars, serverVars, senderVars, receiverVars, faultVars, ReceiverAt
<1>3. ASSUME UNCHANGED <<receiver, pos, data, name, took, temp, fd, mixed, short>> PROVE ShareInv'
  BY <1>0, <1>1, <1>3, ShareFrame DEF Before, Using
<1>4. ASSUME NEW c \in Copies,
             \/ CopyRefuse(c) \/ CopyStart(c) \/ ConnectFails(c) \/ ConnectSource(c)
             \/ AskSource(c) \/ RelayChunk(c) \/ RelayEnd(c) \/ Sends(c)
      PROVE  UNCHANGED <<receiver, pos, data, name, took, temp, fd, mixed, short>>
  BY <1>4 DEF CopyRefuse, CopyStart, ConnectFails, ConnectSource, AskSource, RelayChunk, RelayEnd,
              Sends, SenderZip, SenderOpen, SenderOpenFails, SenderSend, SenderCut, SenderRemove
<1>5. ASSUME NEW c \in Copies,
             \/ ConnectDest(c) \/ AskDest(c) \/ ReceiverOpenFails(c)
             \/ ReceiverEnd(c) \/ ReceiverUnzip(c)
      PROVE  ShareInv'
  <2>1. /\ UNCHANGED <<pos, data, name, took, temp, fd, mixed, short>>
        /\ \/ receiver' = receiver
           \/ /\ receiver[c] \in {"none", "connected", "named"}
              /\ \E l \in {"connected", "asked", "deaf"} : receiver' = [receiver EXCEPT ![c] = l]
           \/ /\ receiver[c] \in {"open", "received"}
              /\ \E l \in {"received", "unpacked"} : receiver' = [receiver EXCEPT ![c] = l]
    BY <1>5 DEF ConnectDest, AskDest, ReceiverOpenFails, ReceiverEnd, ReceiverUnzip, RelayInv
  <2>2. \A d \in Copies : (Before(d)' => Before(d)) /\ (Using(d)' => Using(d))
    BY <1>0, <2>1 DEF Before, Using
  <2> QED BY <1>0, <1>1, <2>1, <2>2, ShareFrame
<1>6. ASSUME NEW s \in Servers, Die(s) PROVE ShareInv'
  <2>1. UNCHANGED <<pos, data, name, took, temp, fd, mixed, short>>
    BY <1>6 DEF Die
  <2>2. \A d \in Copies : (Before(d)' => Before(d)) /\ (Using(d)' => Using(d))
    BY <1>0, <1>6 DEF Die, Before, Using
  <2> QED BY <1>0, <1>1, <2>1, <2>2, ShareFrame
<1>7. ASSUME Beside
      PROVE  UNCHANGED <<receiver, pos, data, name, took, temp, fd, mixed, short>>
  BY <1>7 DEF Beside, Restart, FileVanishes, Leak, ClientLeaves
<1>8. ASSUME NEW c \in Copies, ReceiverRecv(c) PROVE ShareInv'
  <2>1. PICK k \in 0 .. put[c] :
           /\ took' = [took EXCEPT ![c] = k]
           /\ name' = [name EXCEPT ![c][2] = IF k = 0 THEN "proper" ELSE "garbled"]
    BY <1>8 DEF ReceiverRecv
  <2>2. /\ receiver[c] = "asked" /\ receiver' = [receiver EXCEPT ![c] = "named"]
        /\ UNCHANGED <<pos, data, temp, fd, mixed, short>>
    BY <1>8 DEF ReceiverRecv
  <2>3. Before(c) /\ ~Using(c) /\ \A d \in Copies : Before(d)' = Before(d) /\ Using(d)' = Using(d)
    BY <1>0, <2>2 DEF Before, Using
  <2>4. \A d \in Copies : d # c => name'[d] = name[d] /\ took'[d] = took[d]
    BY <1>0, <2>1
  <2>5. c \notin short /\ (name'[c][2] = "proper" => took'[c] = pos[c])
    <3>1. name'[c][2] = IF k = 0 THEN "proper" ELSE "garbled"
      BY <1>0, <2>1 DEF TempNames
    <3>2. c \notin short
      BY <1>1, <2>2
    <3>3. took'[c] = k /\ pos[c] = 0
      BY <1>0, <1>2, <2>1, <2>3
    <3> QED BY <3>1, <3>2, <3>3
  <2>6. \A n \in TempNames : temp[n] # NONE => temp[n] \in Copies /\ temp[n] # c
    BY <1>0, <1>2, <2>3
  <2>7. \A d \in Copies : fd[d] # NONE => fd[d] \in Copies
    BY <1>0
  <2>8. \A d \in Copies : Written(d)' <=> Written(d)
    BY <1>1, <2>2, WrittenNext
  <2>9. (\A d \in Copies : name[d][2] = "proper" =>
             took[d] = IF d \in short THEN pos[d] + 1 ELSE pos[d])'
    BY <1>2, <2>2, <2>4, <2>5
  <2> QED BY <1>2, <2>2, <2>3, <2>4, <2>6, <2>7, <2>8, <2>9 DEF ShareInv
<1>9. ASSUME NEW c \in Copies, ReceiverOpen(c) PROVE ShareInv'
  <2> DEFINE n == name[c]
  <2>1. /\ receiver[c] = "named" /\ receiver' = [receiver EXCEPT ![c] = "open"]
        /\ temp' = [temp EXCEPT ![n] = IF @ = NONE THEN c ELSE @]
        /\ fd' = [fd EXCEPT ![c] = temp'[n]]
        /\ mixed' = IF temp[n] = NONE /\ UsersOf(n) = {} THEN mixed
                    ELSE mixed \cup UsersOf(n) \cup {c}
        /\ UNCHANGED <<name, took, pos, data, short>>
    BY <1>9 DEF ReceiverOpen
  <2>2. /\ n \in TempNames
        /\ temp'[n] = (IF temp[n] = NONE THEN c ELSE temp[n])
        /\ \A m \in TempNames : m # n => temp'[m] = temp[m]
        /\ fd'[c] = temp'[n] /\ \A d \in Copies : d # c => fd'[d] = fd[d]
    BY <1>0, <2>1
  <2>3. /\ Before(c) /\ ~Using(c) /\ ~Before(c)' /\ Using(c)'
        /\ \A d \in Copies : d # c => Before(d)' = Before(d) /\ Using(d)' = Using(d)
    BY <1>0, <2>1 DEF Before, Using
  <2>4. \A d \in Copies : d \in UsersOf(n) <=> (name[d] = n /\ Using(d))
    BY DEF UsersOf, Using
  <2>5. mixed \subseteq mixed'
    BY <2>1
  <2> HIDE DEF n
  <2>6. \A m \in TempNames : temp[m] # NONE => temp[m] \in Copies /\ temp[m] # c
    BY <1>0, <1>2, <2>3
  <2>7. \A d \in Copies : fd[d] # NONE => fd[d] \in Copies /\ fd[d] # c
    BY <1>0, <1>2, <2>3
  <2>8. (\A m \in TempNames : temp[m] # NONE => name[temp[m]] = m /\ ~Before(temp[m]))'
    BY <1>2, <2>1, <2>2, <2>3, <2>6 DEF n
  <2>9. (\A d \in Copies : fd[d] # NONE => ~Before(fd[d]))'
    BY <1>2, <2>2, <2>3, <2>6, <2>7
  <2>10. ASSUME NEW d \in Copies, NEW e \in Copies, Using(d)', d \notin mixed', e # d
         PROVE  fd'[e] # d /\ ~(Using(e)' /\ name[e] = name[d])
    <3>1. CASE d = c
      <4>1. UsersOf(n) = {} /\ temp[n] = NONE
        BY <2>1, <2>10, <3>1
      <4> QED BY <2>2, <2>3, <2>4, <2>7, <2>10, <3>1, <4>1, <1>0 DEF n
    <3>2. CASE d # c
      <4>1. Using(d) /\ d \notin mixed
        BY <2>3, <2>5, <2>10, <3>2
      <4>2. ~(temp[n] = NONE /\ UsersOf(n) = {}) => d \notin UsersOf(n)
        BY <2>1, <2>10
      <4>3. d \notin UsersOf(n)
        BY <4>2
      <4>4. name[d] # n
        BY <2>4, <4>1, <4>3
      <4>5. CASE e = c
        <5>1. fd'[c] # d
          BY <1>2, <2>2, <2>6, <3>2, <4>4
        <5> QED BY <4>4, <4>5, <5>1 DEF n
      <4>6. CASE e # c
        BY <1>2, <2>2, <2>3, <2>10, <4>1, <4>6
      <4> QED BY <4>5, <4>6
    <3> QED BY <3>1, <3>2
  <2>11. ASSUME NEW d \in Copies, Using(d)', d \notin mixed'
         PROVE  /\ temp'[name[d]] = d /\ fd'[d] = d
                /\ name[d][2] = "proper" => Written(d)
    <3>1. CASE d = c
      <4>1. temp[n] = NONE
        BY <2>1, <2>11, <3>1
      <4>2. pos[c] = 0 /\ data[c] = << >>
        BY <1>2, <2>3
      <4>3. \A p : Prefix(p, 0) = << >>
        BY DEF Prefix
      <4>4. Written(c)
        BY <4>2, <4>3 DEF Written
      <4> QED BY <2>2, <3>1, <4>1, <4>4 DEF n
    <3>2. CASE d # c
      <4>1. Using(d) /\ d \notin mixed
        BY <2>3, <2>5, <2>11, <3>2
      <4>2. temp[name[d]] = d /\ fd[d] = d
        BY <1>2, <4>1
      <4>3. temp'[name[d]] = d
        BY <1>0, <2>2, <4>2
      <4> QED BY <1>2, <2>2, <3>2, <4>1, <4>2, <4>3
    <3> QED BY <3>1, <3>2
  <2>12. \A d \in Copies : Before(d)' => Before(d)
    BY <2>3
  <2>13. (\A d \in Copies : Before(d) => pos[d] = 0 /\ data[d] = << >>)'
    BY <1>2, <2>1, <2>12
  <2>14. (\A d \in Copies : name[d][2] = "proper" =>
             took[d] = IF d \in short THEN pos[d] + 1 ELSE pos[d])'
    BY <1>2, <2>1
  <2>15. (\A d, e \in Copies : Using(d) /\ d \notin mixed /\ e # d =>
             fd[e] # d /\ ~(Using(e) /\ name[e] = name[d]))'
    BY <2>1, <2>10
  <2>16. (\A d \in Copies : Using(d) /\ d \notin mixed =>
             /\ temp[name[d]] = d /\ fd[d] = d
             /\ name[d][2] = "proper" => Written(d))'
    <3>1. \A d \in Copies : Written(d)' <=> Written(d)
      BY <1>1, <2>1, WrittenNext
    <3> QED BY <2>1, <2>11, <3>1
  <2> QED BY <2>8, <2>9, <2>13, <2>14, <2>15, <2>16 DEF ShareInv
<1>10. ASSUME NEW c \in Copies, ReceiverWrite(c) PROVE ShareInv'
  <2>1. /\ receiver[c] = "open"
        /\ data' = [data EXCEPT ![fd[c]] = WriteAt(@, pos[c], <<Source(c), took[c] + 1>>)]
        /\ pos' = [pos EXCEPT ![c] = @ + 1]
        /\ took' = [took EXCEPT ![c] = @ + 1]
        /\ UNCHANGED <<receiver, temp, name, fd, mixed, short>>
        /\ c \notin short
    BY <1>1, <1>10 DEF ReceiverWrite
  <2>2. fd[c] \in Copies
    BY <2>1 DEF TypeInv, ShapeInv
  <2>3. /\ data'[fd[c]] = WriteAt(data[fd[c]], pos[c], <<Source(c), took[c] + 1>>)
        /\ \A d \in Copies : d # fd[c] => data'[d] = data[d]
        /\ pos'[c] = pos[c] + 1 /\ took'[c] = took[c] + 1
        /\ \A d \in Copies : d # c => pos'[d] = pos[d] /\ took'[d] = took[d]
    BY <1>0, <2>1, <2>2
  <2>4. /\ ~Before(c) /\ ~Before(fd[c]) /\ Using(c)
        /\ \A d \in Copies : Before(d)' = Before(d) /\ Using(d)' = Using(d)
    BY <1>0, <1>2, <2>1, <2>2 DEF Before, Using
  <2>5. ASSUME NEW d \in Copies, Before(d)' PROVE pos'[d] = 0 /\ data'[d] = << >>
    BY <1>2, <2>3, <2>4, <2>5
  <2>6. ASSUME NEW d \in Copies, name[d][2] = "proper"
        PROVE  took'[d] = IF d \in short THEN pos'[d] + 1 ELSE pos'[d]
    BY <1>2, <2>1, <2>3, <2>6
  <2>7. ASSUME NEW d \in Copies, Using(d), d \notin mixed, name[d][2] = "proper"
        PROVE  Written(d)'
    <3>1. Written(d) /\ fd[d] = d /\ pos[d] \in Nat
      BY <1>0, <1>2, <2>7
    <3>2. CASE d = c
      <4>1. data[c] = Prefix(Source(c), pos[c]) /\ took[c] = pos[c]
        BY <1>2, <2>1, <2>7, <3>1, <3>2 DEF Written
      <4>2. data'[c] = WriteAt(Prefix(Source(c), pos[c]), pos[c], <<Source(c), pos[c] + 1>>)
        BY <2>3, <3>1, <3>2, <4>1
      <4>3. data'[c] = Prefix(Source(c), pos'[c])
        BY <2>3, <3>1, <3>2, <4>2, WritePrefix
      <4> QED BY <1>1, <3>2, <4>3, WrittenNext
    <3>3. CASE d # c
      <4>1. fd[c] # d
        BY <1>2, <2>7, <3>3
      <4> QED BY <1>1, <2>1, <2>3, <3>1, <3>3, <4>1, WrittenNext
    <3> QED BY <3>2, <3>3
  <2>8. /\ \A n \in TempNames : temp[n] # NONE => temp[n] \in Copies
        /\ \A d \in Copies : fd[d] # NONE => fd[d] \in Copies
    BY <1>0
  <2>9. (\A d \in Copies : Using(d) /\ d \notin mixed =>
             /\ temp[name[d]] = d /\ fd[d] = d
             /\ name[d][2] = "proper" => Written(d))'
    <3> SUFFICES ASSUME NEW d \in Copies, Using(d), d \notin mixed
                 PROVE  /\ temp[name[d]] = d /\ fd[d] = d
                        /\ name[d][2] = "proper" => Written(d)'
      BY <2>1, <2>4
    <3> QED BY <1>2, <2>7
  <2>10. /\ (\A n \in TempNames : temp[n] # NONE => name[temp[n]] = n /\ ~Before(temp[n]))'
         /\ (\A d \in Copies : fd[d] # NONE => ~Before(fd[d]))'
         /\ (\A d, e \in Copies : Using(d) /\ d \notin mixed /\ e # d =>
                fd[e] # d /\ ~(Using(e) /\ name[e] = name[d]))'
    BY <1>2, <2>1, <2>4, <2>8
  <2> QED BY <2>1, <2>5, <2>6, <2>9, <2>10 DEF ShareInv
<1>11. ASSUME NEW c \in Copies, ReceiverRemove(c) PROVE ShareInv'
  <2>1. /\ receiver[c] = "unpacked" /\ receiver' = [receiver EXCEPT ![c] = "done"]
        /\ temp' = [temp EXCEPT ![name[c]] = NONE]
        /\ UNCHANGED <<took, name, fd, pos, data, mixed, short>>
    BY <1>11 DEF ReceiverRemove
  <2>2. /\ Using(c) /\ ~Using(c)' /\ ~Before(c) /\ ~Before(c)'
        /\ \A d \in Copies : d # c => Before(d)' = Before(d) /\ Using(d)' = Using(d)
    BY <1>0, <2>1 DEF Before, Using
  <2>3. temp'[name[c]] = NONE /\ \A n \in TempNames : n # name[c] => temp'[n] = temp[n]
    BY <1>0, <2>1
  <2>4. /\ \A n \in TempNames : temp[n] # NONE => temp[n] \in Copies
        /\ \A d \in Copies : fd[d] # NONE => fd[d] \in Copies
    BY <1>0
  <2>5. ASSUME NEW d \in Copies, Using(d)', d \notin mixed PROVE temp'[name[d]] = d
    <3>1. Using(d) /\ d # c
      BY <2>2, <2>5
    <3>2. name[d] # name[c]
      BY <1>2, <2>2, <2>5, <3>1
    <3> QED BY <1>0, <1>2, <2>3, <2>5, <3>1, <3>2
  <2>6. (\A n \in TempNames : temp[n] # NONE => name[temp[n]] = n /\ ~Before(temp[n]))'
    BY <1>2, <2>1, <2>2, <2>3, <2>4
  <2>7. (\A d \in Copies : Using(d) /\ d \notin mixed =>
             /\ temp[name[d]] = d /\ fd[d] = d
             /\ name[d][2] = "proper" => Written(d))'
    <3>1. \A d \in Copies : Written(d)' <=> Written(d)
      BY <1>1, <2>1, WrittenNext
    <3> SUFFICES ASSUME NEW d \in Copies, Using(d)', d \notin mixed
                 PROVE  /\ temp'[name[d]] = d /\ fd[d] = d
                        /\ name[d][2] = "proper" => Written(d)
      BY <2>1, <3>1
    <3> QED BY <1>2, <2>2, <2>5
  <2>8. /\ (\A d \in Copies : Before(d) => pos[d] = 0 /\ data[d] = << >>)'
        /\ (\A d \in Copies : name[d][2] = "proper" =>
                took[d] = IF d \in short THEN pos[d] + 1 ELSE pos[d])'
        /\ (\A d \in Copies : fd[d] # NONE => ~Before(fd[d]))'
        /\ (\A d, e \in Copies : Using(d) /\ d \notin mixed /\ e # d =>
                fd[e] # d /\ ~(Using(e) /\ name[e] = name[d]))'
    BY <1>2, <2>1, <2>2, <2>4
  <2> QED BY <2>6, <2>7, <2>8 DEF ShareInv
<1>12. ASSUME NEW c \in Copies, ReceiverShort(c) PROVE ShareInv'
  <2> DEFINE w == WriteAt(data[fd[c]], pos[c], <<Source(c), 0>>)
  <2>1. /\ receiver[c] = "open" /\ receiver' = [receiver EXCEPT ![c] = "received"]
        /\ data' = data \/ data' = [data EXCEPT ![fd[c]] = w]
        /\ took' = [took EXCEPT ![c] = @ + 1]
        /\ short' = short \cup {c}
        /\ UNCHANGED <<pos, temp, name, fd, mixed>>
        /\ c \notin short
    BY <1>1, <1>12 DEF ReceiverShort
  <2>2. fd[c] \in Copies
    BY <2>1 DEF TypeInv, ShapeInv
  <2> HIDE DEF w
  <2>3. /\ data'[fd[c]] \in {data[fd[c]], w}
        /\ \A d \in Copies : d # fd[c] => data'[d] = data[d]
        /\ took'[c] = took[c] + 1
        /\ \A d \in Copies : d # c => took'[d] = took[d] /\ (d \in short' <=> d \in short)
    BY <1>0, <2>1, <2>2
  <2>4. /\ ~Before(c) /\ ~Before(fd[c]) /\ Using(c)
        /\ \A d \in Copies : Before(d)' = Before(d) /\ Using(d)' = Using(d)
    BY <1>0, <1>2, <2>1, <2>2 DEF Before, Using
  <2>5. (\A d \in Copies : Before(d) => pos[d] = 0 /\ data[d] = << >>)'
    BY <1>2, <2>1, <2>3, <2>4
  <2>6. (\A d \in Copies : name[d][2] = "proper" =>
             took[d] = IF d \in short THEN pos[d] + 1 ELSE pos[d])'
    BY <1>2, <2>1, <2>3
  <2>7. ASSUME NEW d \in Copies, Using(d), d \notin mixed, name[d][2] = "proper"
        PROVE  Written(d)'
    <3>1. Written(d) /\ fd[d] = d
      BY <1>2, <2>7
    <3>2. CASE d = c
      <4>1. data[c] = Prefix(Source(c), pos[c])
        BY <2>1, <3>1, <3>2 DEF Written
      <4>2. \/ data'[c] = Prefix(Source(c), pos'[c])
            \/ data'[c] = WriteAt(Prefix(Source(c), pos'[c]), pos'[c], <<Source(c), 0>>)
        BY <2>1, <2>3, <3>1, <3>2, <4>1 DEF w
      <4> QED BY <1>1, <2>1, <3>2, <4>2, WrittenNext
    <3>3. CASE d # c
      <4>1. fd[c] # d
        BY <1>2, <2>7, <3>3
      <4> QED BY <1>1, <2>1, <2>3, <3>1, <3>3, <4>1, WrittenNext
    <3> QED BY <3>2, <3>3
  <2>8. /\ \A n \in TempNames : temp[n] # NONE => temp[n] \in Copies
        /\ \A d \in Copies : fd[d] # NONE => fd[d] \in Copies
    BY <1>0
  <2>9. (\A d \in Copies : Using(d) /\ d \notin mixed =>
             /\ temp[name[d]] = d /\ fd[d] = d
             /\ name[d][2] = "proper" => Written(d))'
    <3> SUFFICES ASSUME NEW d \in Copies, Using(d), d \notin mixed
                 PROVE  /\ temp[name[d]] = d /\ fd[d] = d
                        /\ name[d][2] = "proper" => Written(d)'
      BY <2>1, <2>4
    <3> QED BY <1>2, <2>7
  <2>10. /\ (\A n \in TempNames : temp[n] # NONE => name[temp[n]] = n /\ ~Before(temp[n]))'
         /\ (\A d \in Copies : fd[d] # NONE => ~Before(fd[d]))'
         /\ (\A d, e \in Copies : Using(d) /\ d \notin mixed /\ e # d =>
                fd[e] # d /\ ~(Using(e) /\ name[e] = name[d]))'
    BY <1>2, <2>1, <2>4, <2>8
  <2> QED BY <2>5, <2>6, <2>9, <2>10 DEF ShareInv
<1> QED BY <1>3, <1>4, <1>5, <1>6, <1>7, <1>8, <1>9, <1>10, <1>11, <1>12, NextCases
        DEF Handler, Receives, Receiver

----------------------------------------------------------------------------
(* What unzip finds *)

\* A receiver that met nobody finds the chunks of its own source: a whole archive
\* if it is readable at all, and a readable one if everything was sent and written.
LEMMA AloneUnzip ==
    ASSUME TypeInv, RelayInv, ShareInv, NEW c \in Copies, receiver[c] = "received",
           c \notin mixed, name[c][2] = "proper"
    PROVE  /\ Readable(name[c]) => data[temp[name[c]]] = Archive(Source(c))
           /\ sender[c] = "sent" /\ c \notin short =>
                  /\ Readable(name[c])
                  /\ data[temp[name[c]]] = Archive(Source(c))
                  /\ Parts(name[c]) = {Source(c)}
<1> DEFINE n == name[c]
           p == Source(c)
           k == pos[c]
<1>1. /\ temp[n] = c /\ Written(c)
      /\ took[c] = IF c \in short THEN k + 1 ELSE k
  BY DEF ShareInv, Using
<1>2. /\ k \in Nat /\ p \in Sources /\ Length[p] \in Nat \ {0} /\ temp[n] # NONE
      /\ took[c] <= Length[p]
  <2>1. took[c] \in Nat /\ put[c] \in Nat /\ sent[c] \in Nat
    BY DEF TypeInv, ShapeInv
  <2>2. took[c] <= put[c] /\ put[c] <= sent[c] /\ sent[c] <= Length[p]
    BY DEF TypeInv, TypeOK
  <2>3. k \in Nat /\ p \in Sources /\ Length[p] \in Nat \ {0} /\ temp[n] # NONE
    BY <1>1, JobFacts, CopyAssumption DEF TypeInv, ShapeInv
  <2> QED BY <2>1, <2>2, <2>3
<1>3. Archive(p) = Prefix(p, Length[p])
  BY DEF Archive, Prefix
<1>W. \/ data[c] = Prefix(p, k)
      \/ c \in short /\ data[c] = WriteAt(Prefix(p, k), k, <<p, 0>>)
  BY <1>1 DEF Written
<1> HIDE DEF n, p, k
<1>4. Len(Prefix(p, k)) = k /\ \A i \in 1 .. k : Prefix(p, k)[i] = <<p, i>>
  BY <1>2 DEF Prefix
<1>5. ASSUME Readable(n) PROVE data[temp[n]] = Archive(p)
  <2>1. CASE data[c] = Prefix(p, k)
    <3>1. Prefix(p, k) # << >> /\ Prefix(p, k)[k][2] = Length[Prefix(p, k)[k][1]]
      BY <1>1, <1>4, <1>5, <2>1 DEF Readable
    <3>2. k # 0
      <4>1. Prefix(p, 0) = << >>
        BY DEF Prefix
      <4> QED BY <3>1, <4>1
    <3>3. Prefix(p, k)[k] = <<p, k>>
      BY <1>2, <1>4, <3>2
    <3>4. k = Length[p]
      BY <3>1, <3>3
    <3> QED BY <1>1, <1>3, <2>1, <3>4
  <2>2. CASE data[c] = WriteAt(Prefix(p, k), k, <<p, 0>>)
    <3>1. WriteAt(Prefix(p, k), k, <<p, 0>>) =
              [i \in 1 .. k + 1 |-> IF i = k + 1 THEN <<p, 0>> ELSE Prefix(p, k)[i]]
      BY <1>2, <1>4 DEF WriteAt
    <3>2. Len(data[c]) = k + 1 /\ data[c][k + 1] = <<p, 0>>
      BY <1>2, <2>2, <3>1
    <3>3. Length[p] = 0
      BY <1>1, <1>5, <3>2 DEF Readable
    <3> QED BY <1>2, <3>3
  <2> QED BY <1>W, <2>1, <2>2
<1>6. ASSUME sender[c] = "sent", c \notin short
      PROVE  Readable(n) /\ data[temp[n]] = Archive(p) /\ Parts(n) = {p}
  <2>1. k = Length[p]
    BY <1>1, <1>6 DEF RelayInv, p
  <2>2. data[temp[n]] = Prefix(p, k) /\ k \in 1 .. k /\ 1 \in 1 .. k
    BY <1>1, <1>2, <1>6, <1>W, <2>1
  <2>3. Prefix(p, k) # << >> /\ Prefix(p, k)[k] = <<p, k>>
    BY <1>2, <1>4, <2>2
  <2>4. Readable(n)
    BY <1>2, <1>4, <2>1, <2>2, <2>3 DEF Readable
  <2>5. DOMAIN Prefix(p, k) = 1 .. k
    BY DEF Prefix
  <2>6. \A i \in 1 .. k : Prefix(p, k)[i][1] = p
    BY <1>4
  <2>7. Parts(n) = {p}
    BY <1>2, <2>2, <2>5, <2>6 DEF Parts
  <2> QED BY <1>3, <2>1, <2>2, <2>4, <2>7
<1> QED BY <1>5, <1>6 DEF n, p

\* What unzip does to the directory: one that met nobody extracts its own file,
\* and whoever damages a file has met another copy.
LEMMA UnzipEffect ==
    ASSUME TypeInv, RelayInv, ShareInv, NEW c \in Copies, ReceiverUnzip(c)
    PROVE  \/ target' = target
           \/ \E p \in Sources : /\ Extracts(c, {Base[p]}, p) /\ {Base[p]} \in SUBSET Bases
                                 /\ c \notin mixed => p = Source(c)
           \/ c \in mixed /\ \E B \in SUBSET Bases : Extracts(c, B, "damaged")
<1>1. \A p \in Sources : {Base[p]} \in SUBSET Bases
  BY DEF Bases
<1>2. receiver[c] = "received" /\ Source(c) \in Sources
  BY JobFacts DEF ReceiverUnzip
<1>3. ASSUME name[c][2] = "proper", Readable(name[c]), c \notin mixed
      PROVE  data[temp[name[c]]] = Archive(Source(c))
  BY <1>2, <1>3, AloneUnzip
<1>4. CASE \E p \in Sources : /\ name[c][2] = "proper" /\ Readable(name[c])
                              /\ data[temp[name[c]]] = Archive(p)
                              /\ Extracts(c, {Base[p]}, p)
  <2>1. PICK p \in Sources : /\ name[c][2] = "proper" /\ Readable(name[c])
                             /\ data[temp[name[c]]] = Archive(p)
                             /\ Extracts(c, {Base[p]}, p)
    BY <1>4
  <2>2. c \notin mixed => p = Source(c)
    BY <1>2, <1>3, <2>1, ArchiveInjective
  <2> QED BY <1>1, <2>1, <2>2
<1>5. CASE /\ name[c][2] = "proper" /\ Readable(name[c])
           /\ \A p \in Sources : data[temp[name[c]]] # Archive(p)
           /\ \E B \in SUBSET Bases : Extracts(c, B, "damaged")
  BY <1>2, <1>3, <1>5
<1> QED BY <1>4, <1>5, UnzipExtracts

\* Only the destination's unzip changes the files of a directory, nobody is taken
\* from those that have met, and no receiver is undone.
LEMMA TargetStep ==
    ASSUME TypeInv, RelayInv, Next
    PROVE  /\ target' = target \/ \E c \in Copies : ReceiverUnzip(c)
           /\ mixed \subseteq mixed'
           /\ \A c \in Copies : Target(c)' = Target(c) /\ Source(c)' = Source(c)
           /\ \A c \in Copies : receiver[c] # "none" => receiver'[c] # "none"
<1> DEFINE Kept == \A d \in Copies : receiver[d] # "none" => receiver'[d] # "none"
<1>0. receiver \in [Copies -> {"none", "connected", "asked", "named", "open", "received",
                               "unpacked", "done", "deaf", "gone"}]
  BY DEF TypeInv, TypeOK
<1> USE DEF handlerVars, senderVars, receiverVars, faultVars
<1>1. ASSUME NEW c \in Copies, CopyRefuse(c) \/ CopyStart(c) \/ Handler(c) \/ Sends(c)
      PROVE  target' = target /\ mixed' = mixed /\ Kept
  <2>1. target' = target /\ mixed' = mixed
    BY <1>1 DEF Handler, Sends, CopyRefuse, CopyStart, ConnectFails, ConnectSource, ConnectDest,
                AskSource, AskDest, RelayChunk, RelayEnd, SenderZip, SenderOpen, SenderOpenFails, SenderSend,
                SenderCut, SenderRemove
  <2>2. receiver' = receiver \/ \E l \in {"connected", "asked"} : receiver' = [receiver EXCEPT ![c] = l]
    BY <1>1 DEF Handler, Sends, CopyRefuse, CopyStart, ConnectFails, ConnectSource, ConnectDest,
                AskSource, AskDest, RelayChunk, RelayEnd, SenderZip, SenderOpen, SenderOpenFails, SenderSend,
                SenderCut, SenderRemove, ReceiverAt
  <2> QED BY <1>0, <2>1, <2>2
<1>2. ASSUME NEW c \in Copies, Receives(c)
      PROVE  /\ target' = target \/ ReceiverUnzip(c)
             /\ mixed \subseteq mixed' /\ Kept
  <2>1. (target' = target \/ ReceiverUnzip(c)) /\ mixed \subseteq mixed'
    BY <1>2 DEF Receives, Receiver, ReceiverRecv, ReceiverOpen, ReceiverOpenFails, ReceiverWrite,
                ReceiverShort, ReceiverEnd, ReceiverUnzip, ReceiverRemove
  <2>2. \/ receiver' = receiver
        \/ \E l \in {"named", "open", "deaf", "received", "unpacked", "done"} :
              receiver' = [receiver EXCEPT ![c] = l]
    BY <1>2 DEF Receives, Receiver, ReceiverRecv, ReceiverOpen, ReceiverOpenFails, ReceiverWrite,
                ReceiverShort, ReceiverEnd, ReceiverUnzip, ReceiverRemove, ReceiverAt
  <2> QED BY <1>0, <2>1, <2>2
<1>3. ASSUME NEW s \in Servers, Die(s) PROVE target' = target /\ mixed' = mixed /\ Kept
  BY <1>0, <1>3 DEF Die
<1>4. ASSUME Beside PROVE target' = target /\ mixed' = mixed /\ Kept
  BY <1>0, <1>4 DEF Beside, Restart, FileVanishes, Leak, ClientLeaves
<1>5. \A c \in Copies : Target(c)' = Target(c) /\ Source(c)' = Source(c)
  BY DEF Next, Target, Source
<1> HIDE DEF Kept
<1>6. (target' = target \/ \E c \in Copies : ReceiverUnzip(c)) /\ mixed \subseteq mixed' /\ Kept
  BY <1>1, <1>2, <1>3, <1>4, NextCases
<1> QED BY <1>5, <1>6 DEF Kept

\* What one step can do to a file: leave it, put there the archive of a copy to
\* that new path, if nobody met in that directory, or do so after a meeting.
LEMMA FileStep ==
    ASSUME TypeInv, RelayInv, ShareInv, Next, NEW d \in Targets, NEW b \in Bases
    PROVE  \/ target'[d][b] = target[d][b]
           \/ /\ target'[d][b] \in Sources \cup {"damaged"}
              /\ \/ \E e \in mixed : Target(e) = d
                 \/ \E e \in Copies : /\ Target(e) = d /\ Base[Source(e)] = b
                                      /\ receiver[e] # "none" /\ target'[d][b] = Source(e)
<1>1. CASE target' = target
  BY <1>1
<1>2. ASSUME NEW c \in Copies, ReceiverUnzip(c), target'[d][b] # target[d][b]
      PROVE  /\ target'[d][b] \in Sources \cup {"damaged"}
             /\ \/ \E e \in mixed : Target(e) = d
                \/ \E e \in Copies : /\ Target(e) = d /\ Base[Source(e)] = b
                                     /\ receiver[e] # "none" /\ target'[d][b] = Source(e)
  <2>1. receiver[c] # "none"
    BY <1>2 DEF ReceiverUnzip
  <2>2. ASSUME NEW p \in Sources, Extracts(c, {Base[p]}, p), {Base[p]} \in SUBSET Bases,
               c \notin mixed => p = Source(c)
        PROVE  /\ target'[d][b] = p /\ d = Target(c) /\ b = Base[p]
               /\ c \in mixed \/ p = Source(c)
    <3> DEFINE B == {Base[p]}
    <3>1. B \in SUBSET Bases /\ Extracts(c, B, p) /\ p \in Sources \cup {"damaged"}
      BY <2>2
    <3> HIDE DEF B
    <3>2. target'[d][b] = IF d = Target(c) /\ b \in B THEN p ELSE target[d][b]
      BY <3>1, ExtractsType
    <3> QED BY <1>2, <2>2, <3>2 DEF B
  <2>3. ASSUME NEW B \in SUBSET Bases, c \in mixed, Extracts(c, B, "damaged")
        PROVE  target'[d][b] = "damaged" /\ d = Target(c)
    <3>0. "damaged" \in Sources \cup {"damaged"}
      OBVIOUS
    <3>1. target'[d][b] = IF d = Target(c) /\ b \in B THEN "damaged" ELSE target[d][b]
      BY <1>2, <2>3, <3>0, ExtractsType
    <3> QED BY <1>2, <3>1
  <2>4. CASE \E p \in Sources : /\ Extracts(c, {Base[p]}, p) /\ {Base[p]} \in SUBSET Bases
                                /\ c \notin mixed => p = Source(c)
    BY <2>1, <2>2, <2>4
  <2>5. CASE c \in mixed /\ \E B \in SUBSET Bases : Extracts(c, B, "damaged")
    BY <2>3, <2>5
  <2> QED BY <1>2, <2>4, <2>5, UnzipEffect
<1> QED BY <1>1, <1>2, TargetStep

\* Damage needs two copies in one temporary archive.
LEMMA DamageStep ==
    ASSUME TypeInv, RelayInv, ShareInv, DamageNeedsSharing, Next
    PROVE  DamageNeedsSharing'
<1> SUFFICES ASSUME NEW d \in Targets, NEW b \in Bases, target'[d][b] = "damaged"
             PROVE  \E e \in mixed' : Target(e)' = d
  BY DEF DamageNeedsSharing
<1>1. mixed \subseteq mixed' /\ mixed \subseteq Copies /\ \A e \in Copies : Target(e)' = Target(e)
  BY TargetStep DEF TypeInv, TypeOK
<1>2. \A e \in Copies : Source(e) # "damaged"
  BY JobFacts, CopyAssumption
<1>3. \E e \in mixed : Target(e) = d
  BY <1>2, FileStep DEF DamageNeedsSharing
<1> QED BY <1>1, <1>3

\* A file that was there before stays listed: only a restart changes a listing,
\* and it lists what is there.
LEMMA OldStep ==
    ASSUME TypeInv, RelayInv, ShareInv, OldInv, Next
    PROVE  OldInv'
<1>0. /\ pc \in [Copies -> {"idle", "connect1", "connect2", "ask1", "ask2", "relay", "done"}]
      /\ receiver \in [Copies -> {"none", "connected", "asked", "named", "open", "received",
                                  "unpacked", "done", "deaf", "gone"}]
      /\ \A c \in Copies : /\ Target(c) \in Targets /\ Base[Source(c)] \in Bases
                           /\ Target(c)' = Target(c) /\ Source(c)' = Source(c)
  BY TargetStep, JobFacts DEF TypeInv, TypeOK
<1>1. \A d \in Targets, b \in Bases : target'[d][b] = "old" => target[d][b] = "old"
  BY FileStep, CopyAssumption
<1> USE DEF handlerVars, serverVars, senderVars, receiverVars, faultVars
<1>2. ASSUME NEW d \in Targets, NEW b \in Bases, target'[d][b] = "old"
      PROVE  <<d, b>> \in listed'
  <2>1. target[d][b] = "old" /\ <<d, b>> \in listed
    BY <1>1, <1>2 DEF OldInv
  <2>2. ASSUME NEW s \in Servers, Restart(s) PROVE <<d, b>> \in listed'
    BY <2>1, <2>2 DEF Restart
  <2>3. ASSUME NEW c \in Copies, CopyRefuse(c) \/ CopyStart(c) \/ Handler(c) PROVE listed' = listed
    BY <2>3 DEF Handler, CopyRefuse, CopyStart, ConnectFails, ConnectSource, ConnectDest,
                AskSource, AskDest, RelayChunk, RelayEnd
  <2>4. ASSUME NEW c \in Copies, Sends(c) \/ Receives(c) PROVE listed' = listed
    BY <2>4 DEF Sends, SenderZip, SenderOpen, SenderOpenFails, SenderSend, SenderCut, SenderRemove, Receives,
                Receiver, ReceiverRecv, ReceiverOpen, ReceiverOpenFails, ReceiverWrite,
                ReceiverShort, ReceiverEnd, ReceiverUnzip, ReceiverRemove
  <2>5. ASSUME \/ \E s \in Servers : Die(s)
               \/ \E p \in Sources : FileVanishes(p)
               \/ Leak
               \/ \E c \in Copies : ClientLeaves(c)
        PROVE  listed' = listed
    BY <2>5 DEF Die, FileVanishes, Leak, ClientLeaves
  <2> QED BY <2>1, <2>2, <2>3, <2>4, <2>5, NextCases DEF Beside
<1>3. ASSUME NEW c \in Copies, receiver'[c] # "none" \/ pc'[c] \in {"connect1", "connect2"}
      PROVE  target[Target(c)][Base[Source(c)]] # "old"
  <2>1. CASE receiver[c] # "none" \/ pc[c] \in {"connect1", "connect2"}
    BY <2>1 DEF OldInv
  <2>2. CASE receiver[c] = "none" /\ pc[c] \notin {"connect1", "connect2"}
    <3>1. CopyStart(c)
      <4>1. ASSUME NEW e \in Copies, CopyRefuse(e) \/ Handler(e)
            PROVE  receiver'[c] = "none" /\ pc'[c] \notin {"connect1", "connect2"}
        BY <1>0, <2>2, <4>1 DEF Handler, CopyRefuse, ConnectFails, ConnectSource, ConnectDest,
               AskSource, AskDest, RelayChunk, RelayEnd, Goto, ReceiverAt, RelayInv
      <4>2. ASSUME NEW e \in Copies, CopyStart(e), e # c
            PROVE  receiver'[c] = "none" /\ pc'[c] \notin {"connect1", "connect2"}
        BY <1>0, <2>2, <4>2 DEF CopyStart, Goto
      <4>3. ASSUME NEW e \in Copies, Sends(e)
            PROVE  UNCHANGED <<receiver, pc>>
        BY <4>3 DEF Sends, SenderZip, SenderOpen, SenderOpenFails, SenderSend, SenderCut, SenderRemove
      <4>4. ASSUME NEW e \in Copies, Receives(e)
            PROVE  receiver'[c] = "none" /\ pc' = pc
        <5>1. pc' = pc /\ receiver[e] # "none" /\ \A d \in Copies \ {e} : receiver'[d] = receiver[d]
          BY <1>0, <4>4 DEF Receives, Receiver, ReceiverRecv, ReceiverOpen, ReceiverOpenFails,
                 ReceiverWrite, ReceiverShort, ReceiverEnd, ReceiverUnzip, ReceiverRemove, ReceiverAt
        <5> QED BY <2>2, <5>1
      <4>5. ASSUME NEW s \in Servers, Die(s) PROVE receiver'[c] = "none" /\ pc' = pc
        BY <1>0, <2>2, <4>5 DEF Die
      <4>6. ASSUME Beside PROVE UNCHANGED <<receiver, pc>>
        BY <4>6 DEF Beside, Restart, FileVanishes, Leak, ClientLeaves
      <4> QED BY <1>3, <2>2, <4>1, <4>2, <4>3, <4>4, <4>5, <4>6, NextCases
    <3>2. <<Target(c), Base[Source(c)]>> \notin listed
      BY <3>1, CopyAssumption DEF CopyStart, Refusal, NewPath
    <3> QED BY <1>0, <3>2 DEF OldInv
  <2> QED BY <2>1, <2>2
<1>4. ASSUME NEW c \in Copies, receiver'[c] # "none" \/ pc'[c] \in {"connect1", "connect2"}
      PROVE  target'[Target(c)'][Base[Source(c)']] # "old"
  BY <1>0, <1>1, <1>3, <1>4
<1> QED BY <1>2, <1>4 DEF OldInv

\* Intact files come from copies to their new path.
LEMMA OriginStep ==
    ASSUME TypeInv, RelayInv, ShareInv, OriginInv, Next
    PROVE  OriginInv'
<1>1. /\ mixed \subseteq mixed' /\ mixed \subseteq Copies /\ mixed' \subseteq Copies
      /\ \A c \in Copies : Target(c)' = Target(c) /\ Source(c)' = Source(c)
      /\ \A c \in Copies : receiver[c] # "none" => receiver'[c] # "none"
  <2>1. TypeOK'
    BY TypeStep DEF TypeInv
  <2> QED BY <2>1, TargetStep DEF TypeInv, TypeOK
<1> SUFFICES ASSUME NEW d \in Targets, NEW b \in Bases, target'[d][b] \in Sources,
                    \A e \in mixed' : Target(e)' # d
             PROVE  \E e \in Copies : /\ Target(e)' = d /\ Base[Source(e)'] = b
                                      /\ receiver'[e] # "none" /\ target'[d][b] = Source(e)'
  BY DEF OriginInv
<1>2. \A e \in mixed : Target(e) # d
  BY <1>1
<1>3. \E e \in Copies : /\ Target(e) = d /\ Base[Source(e)] = b
                        /\ receiver[e] # "none" /\ target'[d][b] = Source(e)
  <2>1. CASE target'[d][b] = target[d][b]
    BY <1>2, <2>1 DEF OriginInv
  <2>2. CASE target'[d][b] # target[d][b]
    BY <1>2, <2>2, FileStep
  <2> QED BY <2>1, <2>2
<1> QED BY <1>1, <1>3

\* A receiver that has unpacked, of a copy that has been sent, has been sent before.
LEMMA SentBefore ==
    ASSUME TypeInv, RelayInv, Next, NEW c \in Copies, receiver[c] \in {"unpacked", "done"},
           c \notin short, sender'[c] = "sent"
    PROVE  sender[c] = "sent" /\ name'[c] = name[c]
<1>0. /\ receiver \in [Copies -> {"none", "connected", "asked", "named", "open", "received",
                                  "unpacked", "done", "deaf", "gone"}]
      /\ sender \in [Copies -> {"none", "connected", "asked", "zipped", "sending", "cut", "sent",
                                "failed", "unread", "gone"}]
      /\ name \in [Copies -> TempNames]
  BY DEF TypeInv, TypeOK
<1>1. pc[c] = "done" /\ sender[c] \in {"none", "sent", "failed", "unread", "gone"}
  BY DEF RelayInv
<1> USE DEF handlerVars, serverVars, senderVars, receiverVars, faultVars
<1>2. ASSUME NEW d \in Copies, Sends(d) PROVE sender'[c] = sender[c] /\ name' = name
  <2>1. /\ sender[d] \in {"asked", "zipped", "sending", "cut"} /\ name' = name
        /\ \A e \in Copies \ {d} : sender'[e] = sender[e]
    BY <1>0, <1>2 DEF Sends, SenderZip, SenderOpen, SenderOpenFails, SenderSend, SenderCut, SenderRemove, SenderAt
  <2> QED BY <1>1, <2>1
<1>3. ASSUME NEW d \in Copies, ConnectSource(d) \/ AskSource(d)
      PROVE  sender'[c] = sender[c] /\ name' = name
  BY <1>0, <1>1, <1>3 DEF ConnectSource, AskSource, SenderAt
<1>4. ASSUME NEW d \in Copies,
             \/ CopyRefuse(d) \/ CopyStart(d) \/ ConnectFails(d) \/ ConnectDest(d)
             \/ AskDest(d) \/ RelayChunk(d) \/ RelayEnd(d)
      PROVE  sender' = sender /\ name' = name
  BY <1>4 DEF CopyRefuse, CopyStart, ConnectFails, ConnectDest, AskDest, RelayChunk, RelayEnd
<1>5. ASSUME NEW d \in Copies, Receives(d) PROVE sender' = sender /\ name'[c] = name[c]
  <2>1. CASE ReceiverRecv(d)
    BY <1>0, <2>1 DEF ReceiverRecv
  <2>2. CASE ~ReceiverRecv(d)
    BY <1>5, <2>2 DEF Receives, Receiver, ReceiverOpen, ReceiverOpenFails, ReceiverWrite,
           ReceiverShort, ReceiverEnd, ReceiverUnzip, ReceiverRemove
  <2> QED BY <2>1, <2>2
<1>6. ASSUME NEW s \in Servers, Die(s) PROVE sender'[c] \in {sender[c], "gone"} /\ name' = name
  BY <1>0, <1>6 DEF Die
<1>7. ASSUME Beside PROVE sender' = sender /\ name' = name
  BY <1>7 DEF Beside, Restart, FileVanishes, Leak, ClientLeaves
<1> QED BY <1>2, <1>3, <1>4, <1>5, <1>6, <1>7, NextCases DEF Handler

\* Only its own unzip makes a receiver one that has unpacked.
LEMMA UnpackedBy ==
    ASSUME TypeInv, RelayInv, Next, NEW c \in Copies, receiver[c] \notin {"unpacked", "done"},
           receiver'[c] \in {"unpacked", "done"}
    PROVE  ReceiverUnzip(c)
<1>0. receiver \in [Copies -> {"none", "connected", "asked", "named", "open", "received",
                               "unpacked", "done", "deaf", "gone"}]
  BY DEF TypeInv, TypeOK
<1> USE DEF handlerVars, receiverVars, faultVars
<1>1. ASSUME NEW d \in Copies, CopyRefuse(d) \/ CopyStart(d) \/ Handler(d) \/ Sends(d)
      PROVE  receiver'[c] \notin {"unpacked", "done"}
  BY <1>0, <1>1
     DEF Handler, Sends, CopyRefuse, CopyStart, ConnectFails, ConnectSource, ConnectDest,
         AskSource, AskDest, RelayChunk, RelayEnd, SenderZip, SenderOpen, SenderOpenFails, SenderSend,
         SenderCut, SenderRemove, ReceiverAt
<1>2. ASSUME NEW d \in Copies, Receives(d), ~ReceiverUnzip(d)
      PROVE  receiver'[c] \notin {"unpacked", "done"}
  BY <1>0, <1>2
     DEF Receives, Receiver, ReceiverRecv, ReceiverOpen, ReceiverOpenFails, ReceiverWrite,
         ReceiverShort, ReceiverEnd, ReceiverRemove, ReceiverAt
<1>3. ASSUME NEW d \in Copies, ReceiverUnzip(d), d # c
      PROVE  receiver'[c] \notin {"unpacked", "done"}
  BY <1>0, <1>3 DEF ReceiverUnzip, ReceiverAt
<1>4. ASSUME (\E s \in Servers : Die(s)) \/ Beside
      PROVE  receiver'[c] \notin {"unpacked", "done"}
  BY <1>0, <1>4 DEF Die, Beside, Restart, FileVanishes, Leak, ClientLeaves
<1> QED BY <1>1, <1>2, <1>3, <1>4, NextCases

\* Nobody is taken from those whose write fell short.
LEMMA ShortGrows ==
    ASSUME TypeInv, Next
    PROVE  short \subseteq short'
<1> USE DEF handlerVars, receiverVars, faultVars
<1>1. ASSUME NEW c \in Copies, CopyRefuse(c) \/ CopyStart(c) \/ Handler(c) \/ Sends(c)
      PROVE  short' = short
  BY <1>1 DEF Handler, Sends, CopyRefuse, CopyStart, ConnectFails, ConnectSource, ConnectDest,
              AskSource, AskDest, RelayChunk, RelayEnd, SenderZip, SenderOpen, SenderOpenFails, SenderSend,
              SenderCut, SenderRemove
<1>2. ASSUME NEW c \in Copies, Receives(c) PROVE short \subseteq short'
  BY <1>2 DEF Receives, Receiver, ReceiverRecv, ReceiverOpen, ReceiverOpenFails, ReceiverWrite,
              ReceiverShort, ReceiverEnd, ReceiverUnzip, ReceiverRemove
<1>3. ASSUME (\E s \in Servers : Die(s)) \/ Beside PROVE short' = short
  BY <1>3 DEF Die, Beside, Restart, FileVanishes, Leak, ClientLeaves
<1> QED BY <1>1, <1>2, <1>3, NextCases

\* What has arrived stays, and what is unpacked whole arrives.
LEMMA ArriveStep ==
    ASSUME TypeInv, RelayInv, ShareInv, ArriveInv, Next
    PROVE  ArriveInv'
<1>0. /\ mixed \subseteq mixed' /\ mixed \subseteq Copies
      /\ \A e \in Copies : Target(e)' = Target(e) /\ Source(e)' = Source(e)
      /\ mixed' \subseteq Copies
  <2>1. TypeOK'
    BY TypeStep DEF TypeInv
  <2> QED BY <2>1, TargetStep DEF TypeInv, TypeOK
<1> SUFFICES ASSUME NEW c \in Copies,
                    receiver'[c] \in {"unpacked", "done"}, sender'[c] = "sent",
                    name'[c][2] = "proper", c \notin short',
                    \A e \in mixed' : Target(e)' # Target(c)'
             PROVE  target'[Target(c)'][Base[Source(c)']] # "absent"
  BY DEF ArriveInv
<1> DEFINE d == Target(c)
           b == Base[Source(c)]
<1>1. /\ d \in Targets /\ b \in Bases /\ Source(c) \in Sources /\ Source(c) # "absent"
      /\ c \notin short /\ \A e \in mixed : Target(e) # d
  BY <1>0, JobFacts, ShortGrows, CopyAssumption
<1>2. CASE receiver[c] \in {"unpacked", "done"}
  <2>1. sender[c] = "sent" /\ name[c] = name'[c]
    BY <1>1, <1>2, SentBefore
  <2>2. target[d][b] # "absent"
    BY <1>1, <1>2, <2>1 DEF ArriveInv
  <2>3. target'[d][b] # "absent"
    BY <1>1, <2>2, FileStep, CopyAssumption
  <2> QED BY <1>0, <2>3
<1>3. CASE receiver[c] \notin {"unpacked", "done"}
  <2>1. ReceiverUnzip(c)
    BY <1>3, UnpackedBy
  <2>2. /\ receiver[c] = "received" /\ sender[c] = "sent" /\ name[c][2] = "proper"
        /\ c \notin mixed
    BY <1>0, <1>1, <2>1 DEF ReceiverUnzip, senderVars
  <2>3. /\ Readable(name[c]) /\ data[temp[name[c]]] = Archive(Source(c))
        /\ Parts(name[c]) = {Source(c)}
    BY <1>1, <2>2, AloneUnzip
  <2>4. \/ target' = target /\ target[d][b] # "absent"
        \/ \E p \in Sources : data[temp[name[c]]] = Archive(p) /\ Extracts(c, {Base[p]}, p)
    BY <1>1, <2>1, <2>2, <2>3 DEF ReceiverUnzip, Extracts
  <2>5. ASSUME NEW p \in Sources, data[temp[name[c]]] = Archive(p), Extracts(c, {Base[p]}, p)
        PROVE  target'[d][b] # "absent"
    <3>1. p = Source(c)
      BY <1>1, <2>3, <2>5, ArchiveInjective
    <3> DEFINE B == {Base[p]}
    <3>2. B \in SUBSET Bases /\ b \in B
      BY <1>1, <3>1
    <3>3. Extracts(c, B, p) /\ p \in Sources \cup {"damaged"}
      BY <2>5
    <3> HIDE DEF B
    <3>4. \A y \in Targets, z \in Bases :
              target'[y][z] = IF y = Target(c) /\ z \in B THEN p ELSE target[y][z]
      BY <3>2, <3>3, ExtractsType
    <3>5. target'[d][b] = p
      BY <1>1, <3>2, <3>4
    <3> QED BY <1>1, <3>1, <3>5
  <2> QED BY <1>0, <2>4, <2>5
<1> QED BY <1>2, <1>3

----------------------------------------------------------------------------
(* Theorems *)

\* The invariant is inductive.
LEMMA CopyInvStep ==
    ASSUME CopyInv, [Next]_copyVars
    PROVE  CopyInv'
<1>1. CASE Next
  <2>1. TypeInv' /\ CrashInv' /\ SocketInv' /\ RemoverInv' /\ RelayInv' /\ ShareInv'
    BY <1>1, TypeStep, CrashStep, SocketStep, RemoverStep, RelayStep, ShareStep DEF CopyInv
  <2>2. OldInv' /\ OriginInv' /\ ArriveInv' /\ DamageNeedsSharing'
    BY <1>1, OldStep, OriginStep, ArriveStep, DamageStep DEF CopyInv
  <2>3. WhatEndsTheNamingServer'
    BY <1>1, EndStep DEF CopyInv
  <2> QED BY <2>1, <2>2, <2>3 DEF CopyInv
<1>2. CASE UNCHANGED copyVars
  <2>1. TypeInv'
    BY <1>2 DEF CopyInv, copyVars, TypeInv, TypeOK, ShapeInv, Source, Target
  <2>2. CrashInv' /\ SocketInv' /\ RemoverInv' /\ RelayInv'
    BY <1>2 DEF CopyInv, copyVars, CrashInv, Crashed, SocketInv, RemoverInv, RelayInv, Source
  <2>3. ShareInv'
    <3>1. /\ ShareInv /\ job' = job
          /\ UNCHANGED <<pos, data, name, took, temp, fd, mixed, short>>
          /\ temp \in [TempNames -> Copies \cup {NONE}] /\ fd \in [Copies -> Copies \cup {NONE}]
      BY <1>2 DEF CopyInv, copyVars, TypeInv, TypeOK
    <3>2. \A c \in Copies : (Before(c)' => Before(c)) /\ (Using(c)' => Using(c))
      BY <1>2 DEF copyVars, Before, Using
    <3> QED BY <3>1, <3>2, ShareFrame
  <2>4. OldInv' /\ OriginInv' /\ ArriveInv' /\ DamageNeedsSharing'
    BY <1>2 DEF CopyInv, copyVars, OldInv, OriginInv, DamageNeedsSharing, ArriveInv, Source, Target
  <2>5. WhatEndsTheNamingServer'
    BY <1>2 DEF CopyInv, copyVars, WhatEndsTheNamingServer, Crashed, Busy
  <2> QED BY <2>1, <2>2, <2>3, <2>4, <2>5 DEF CopyInv
<1> QED BY <1>1, <1>2

\* COPY keeps its inductive invariant, whatever overlaps, crashes and vanishes.
THEOREM CopyInvCorrect == Spec => []CopyInv
<1>1. Init => CopyInv
  BY CopyInvInit
<1>2. CopyInv /\ [Next]_copyVars => CopyInv'
  BY CopyInvStep
<1> QED BY <1>1, <1>2, PTL DEF Spec

\* The type invariant of the copies, with the order of the counters along the
\* relay.
THEOREM TypeCorrect == Spec => []TypeOK
<1>1. CopyInv => TypeOK
  BY DEF CopyInv, TypeInv
<1> QED BY <1>1, CopyInvCorrect, PTL

\* A copy that met no other in its destination directory, and whose receiver
\* wrote all it read, leaves at its new path the file it sent, or the file of
\* another copy to the same new path (executeSSRequest, the relay,
\* executeSSRequestRecv).
THEOREM UndisturbedArrives == Spec => []UndisturbedCopyArrives
<1>1. ASSUME CopyInv, NEW c \in Copies,
             receiver[c] = "done", sender[c] = "sent", name[c][2] = "proper", c \notin short,
             \A e \in mixed : Target(e) # Target(c)
      PROVE  \E e \in Copies : /\ NewPath(e) = NewPath(c) /\ receiver[e] # "none"
                               /\ target[Target(c)][Base[Source(c)]] = Source(e)
  <2> DEFINE x == target[Target(c)][Base[Source(c)]]
  <2>1. Target(c) \in Targets /\ Base[Source(c)] \in Bases
    BY <1>1, JobFacts DEF CopyInv
  <2>2. x \in Sources \cup {"absent", "old", "damaged"}
    BY <1>1, <2>1 DEF CopyInv, TypeInv, TypeOK
  <2>3. x # "absent"
    BY <1>1 DEF CopyInv, ArriveInv
  <2>4. x # "old"
    BY <1>1 DEF CopyInv, OldInv
  <2>5. x # "damaged"
    BY <1>1, <2>1 DEF CopyInv, DamageNeedsSharing
  <2>6. x \in Sources
    BY <2>2, <2>3, <2>4, <2>5
  <2>7. \E e \in Copies : /\ Target(e) = Target(c) /\ Base[Source(e)] = Base[Source(c)]
                          /\ receiver[e] # "none" /\ x = Source(e)
    BY <1>1, <2>1, <2>6 DEF CopyInv, OriginInv
  <2> QED BY <2>7 DEF NewPath
<1>2. CopyInv => UndisturbedCopyArrives
  BY <1>1 DEF UndisturbedCopyArrives
<1> QED BY <1>2, CopyInvCorrect, PTL

\* Damaged files come from copies that met in one temporary archive; truncated
\* transfers leave none.
THEOREM DamageSharing == Spec => []DamageNeedsSharing
<1>1. CopyInv => DamageNeedsSharing
  BY DEF CopyInv
<1> QED BY <1>1, CopyInvCorrect, PTL

\* A copy ends the naming server only after a storage server has crashed, or for
\* want of descriptors that other commands leaked, or because a client has gone.
THEOREM EndsForACause == Spec => []WhatEndsTheNamingServer
<1>1. CopyInv => WhatEndsTheNamingServer
  BY DEF CopyInv
<1> QED BY <1>1, CopyInvCorrect, PTL

\* Copies that have run to their end leave no temporary archive behind, and no
\* archive but one that could not be opened.
THEOREM CleansUp == Spec => []CopiesCleanUp
<1>1. ASSUME CopyInv,
             \A c \in Copies : /\ pc[c] \in {"idle", "done"}
                               /\ sender[c] \in {"none", "sent", "failed", "unread"}
                               /\ receiver[c] \in {"none", "done", "deaf"}
      PROVE  /\ \A p \in archives : \E c \in Copies : Source(c) = p /\ sender[c] = "unread"
             /\ \A n \in TempNames : temp[n] = NONE
  <2>1. \A c \in Copies : /\ sender[c] \notin {"zipped", "sending", "cut", "gone"}
                          /\ receiver[c] \notin {"open", "received", "unpacked", "gone"}
    BY <1>1
  <2> QED BY <1>1, <2>1 DEF CopyInv, RemoverInv
<1>2. CopyInv => CopiesCleanUp
  BY <1>1 DEF CopiesCleanUp
<1> QED BY <1>2, CopyInvCorrect, PTL

============================================================================
