---------------------------- MODULE SessionProofs ----------------------------
(***************************************************************************)
(* Proofs about the sessions, for every number of clients, commands and    *)
(* descriptors and whoever leaves when.                                    *)
(*                                                                         *)
(* Descriptors: a number is handed out only while it is free, a connection *)
(* is accepted once, and only its own handler frees its number, after the  *)
(* client has left.  So a thread of a CREATE that finds somebody else      *)
(* behind the number it was given works for a client that has left.        *)
(*                                                                         *)
(* Answers: while nothing has slipped, a client has at most one command    *)
(* under way, and that command is in one place: in the stream to the       *)
(* handler, in the handler's hands, with the original's thread, or         *)
(* answered.  Calm(c) says for each place what the client's stream holds.  *)
(***************************************************************************)
EXTENDS Session, SequenceTheorems, WellFoundedInduction, TLAPS

----------------------------------------------------------------------------
(* The inductive invariant *)

Busy == {"received", "dispatch", "asked"}

\* What TypeOK leaves open: a busy handler works on a numbered command.
TypeInv ==
    /\ TypeOK
    /\ DOMAIN handling = Clients
    /\ \A c \in Clients : handlerPc[c] \in Busy => handling[c].number \in 1 .. MaxCommands

\* A connection waits to be accepted once, and has no descriptor meanwhile.
BacklogInv ==
    /\ \A i \in 1 .. Len(backlog) :
           /\ clientPc[backlog[i]] # "off" /\ fdOf[backlog[i]] = 0
           /\ \A k \in 1 .. Len(backlog) : backlog[k] = backlog[i] => k = i
    /\ \A c \in Clients : clientPc[c] = "off" => fdOf[c] = 0

\* The descriptor table and the numbers the threads hold agree, but for the
\* numbers of clients that have left.
FdInv ==
    /\ \A c \in Clients : handlerPc[c] \in Serving => fdOf[c] # 0
    /\ \A fd \in Fds : files[fd] \in Clients => fdOf[files[fd]] = fd
    /\ \A c \in Clients : fdOf[c] # 0 /\ files[fdOf[c]] # c => c \in Departed
    /\ \A j \in Jobs : jobPc[j] \in {"started", "asked"} => fdOf[j[1][1]] # 0
    /\ \A c \in Clients : line[c] # "open" => c \in Departed

\* Nothing is sent to a client that has not been accepted.
WireInv == \A c \in Clients : down[c] # <<>> => fdOf[c] # 0

OwnerInv ==
    /\ BacklogInv /\ FdInv /\ WireInv
    /\ HandlersKeepTheirDescriptors /\ StraysComeFromTheDeparted

ACK(c) == [what |-> "ACK", of |-> <<c, Last(c)>>]
REPLY(c) == [what |-> "reply", of |-> <<c, Last(c)>>]

\* The original's thread of a command is under way.
Started(c, n) == jobPc[<<<<c, n>>, 0>>] \in {"started", "asked"}

\* What the client's stream holds when the command is acknowledged and not
\* answered, and when it is answered as well.
Acknowledged(c) == down[c] = (IF clientPc[c] = "ack" THEN <<ACK(c)>> ELSE <<>>)
Answered(c) == down[c] = (IF clientPc[c] = "ack" THEN <<ACK(c), REPLY(c)>> ELSE <<REPLY(c)>>)

\* No thread has a command of the client in its hands.
Quiet(c) == handlerPc[c] \notin Busy /\ \A n \in 1 .. MaxCommands : ~Started(c, n)

\* Where the one command of a waiting client is.
Queued(c) == clientPc[c] = "ack" /\ up[c] = <<Last(c)>> /\ down[c] = <<>> /\ Quiet(c)
Received(c) ==
    /\ clientPc[c] = "ack" /\ up[c] = <<>> /\ down[c] = <<>>
    /\ handlerPc[c] = "received" /\ handling[c].number = Last(c)
    /\ \A n \in 1 .. MaxCommands : ~Started(c, n)
AtHandler(c) ==
    /\ up[c] = <<>> /\ Acknowledged(c)
    /\ handlerPc[c] \in {"dispatch", "asked"} /\ handling[c].number = Last(c)
    /\ \A n \in 1 .. MaxCommands : ~Started(c, n)
AtThread(c) ==
    /\ up[c] = <<>> /\ Acknowledged(c)
    /\ handlerPc[c] \notin Busy
    /\ \A n \in 1 .. MaxCommands : Started(c, n) => n = Last(c)
Done(c) == up[c] = <<>> /\ Answered(c) /\ Quiet(c)

\* A client that has not left, and whose messages have not come apart.
Calm(c) ==
    /\ clientPc[c] \in {"off", "prompt"} => up[c] = <<>> /\ down[c] = <<>> /\ Quiet(c)
    /\ clientPc[c] = "off" => Last(c) = 0
    /\ clientPc[c] \in {"ack", "reply"} =>
           /\ Last(c) \in 1 .. MaxCommands
           /\ \/ Queued(c) \/ Received(c) \/ AtHandler(c) \/ AtThread(c) \/ Done(c)

\* What the client has been told, command by command.
ToldInv(c) ==
    /\ \A n \in 1 .. MaxCommands : told[c][n] \in {<<>>, OwnReply(c, n)}
    /\ \A n \in 1 .. MaxCommands :
           n < Last(c) \/ (n = Last(c) /\ clientPc[c] = "prompt") =>
               clientPc[c] = "gone" \/ told[c][n] = OwnReply(c, n)

CalmInv == \A c \in Clients \ slipped : ToldInv(c) /\ (c \notin Departed => Calm(c))

\* Only the original's thread waits for the storage server's reply.
CopiesInv == \A j \in Jobs : j[2] # 0 => jobPc[j] # "asked"

SessionInv == TypeInv /\ OwnerInv /\ CopiesInv /\ CalmInv

----------------------------------------------------------------------------
(* Operators *)

\* A set of numbers that is not empty has a least one.
LEMMA MinOf ==
    ASSUME NEW S \in SUBSET Nat, S # {}
    PROVE  Min(S) \in S
<1> DEFINE R == {z \in Nat \X Nat : z[1] < z[2]}
<1>1. R = OpToRel(<, Nat)
  BY DEF OpToRel
<1>2. IsWellFoundedOn(R, Nat)
  BY <1>1, NatLessThanWellFounded
<1> HIDE DEF R
<1>3. \E x \in S : \A y \in S : ~(<<y, x>> \in R)
  BY <1>2, WFMin
<1>4. ASSUME NEW x \in Nat, NEW y \in Nat, ~(<<y, x>> \in R)
      PROVE  x <= y
  <2>1. <<y, x>> \in Nat \X Nat /\ <<y, x>>[1] = y /\ <<y, x>>[2] = x
    OBVIOUS
  <2>2. ~(<<y, x>>[1] < <<y, x>>[2])
    BY <1>4, <2>1 DEF R
  <2> QED BY <2>1, <2>2
<1>5. \E x \in S : \A y \in S : x =< y
  BY <1>3, <1>4
<1> QED BY <1>5 DEF Min

\* The number that accept and socket return is free and in the table.
LEMMA FreeFd ==
    ASSUME Free # {}
    PROVE  Min(Free) \in Fds /\ files[Min(Free)] = NOBODY /\ Min(Free) # 0
<1>1. Free \in SUBSET Nat
  BY SessionAssumption DEF Free, Fds
<1>2. Min(Free) \in Free
  BY <1>1, MinOf
<1> QED BY <1>2, SessionAssumption DEF Free, Fds

\* What one recv takes is a non-empty part of the stream, and what it leaves is
\* the rest, in the same order.
LEMMA TakenRest ==
    ASSUME NEW S, NEW stream \in Seq(S), NEW taken \in Taken(stream)
    PROVE  /\ taken \in Seq(S) /\ Len(taken) \in 1 .. Len(stream)
           /\ taken[1] = stream[1]
           /\ Rest(stream, taken) \in Seq(S)
           /\ Len(Rest(stream, taken)) = Len(stream) - Len(taken)
           /\ \A i \in 1 .. Len(Rest(stream, taken)) :
                  Rest(stream, taken)[i] = stream[Len(taken) + i]
<1>1. PICK k \in 1 .. Len(stream) : taken = SubSeq(stream, 1, k)
  BY DEF Taken
<1>2. /\ taken \in Seq(S) /\ Len(taken) = k
      /\ taken[1] = stream[1]
  BY <1>1
<1>3. k \in 1 .. Len(stream) /\ Len(stream) \in Nat
  OBVIOUS
<1>4. Rest(stream, taken) = SubSeq(stream, k + 1, Len(stream))
  BY <1>2 DEF Rest
<1>5. \A i \in k + 1 .. Len(stream) : stream[i] \in S
  BY <1>3
<1>6. /\ SubSeq(stream, k + 1, Len(stream)) \in Seq(S)
      /\ Len(SubSeq(stream, k + 1, Len(stream))) = Len(stream) - k
      /\ \A i \in 1 .. Len(stream) - k :
             SubSeq(stream, k + 1, Len(stream))[i] = stream[k + i]
  BY <1>3, <1>5
<1> QED BY <1>2, <1>3, <1>4, <1>6

\* A part of one message is that message.
LEMMA SubSeqOne ==
    ASSUME NEW S, NEW stream \in Seq(S), NEW m \in 1 .. Len(stream)
    PROVE  SubSeq(stream, m, m) = <<stream[m]>>
<1>1. SubSeq(stream, m, m) = <<stream[m]>> \o SubSeq(stream, m + 1, m)
  BY SubSeqRecursiveFirst
<1>2. SubSeq(stream, m + 1, m) = <<>>
  BY SubSeqEmpty
<1>3. <<stream[m]>> \in Seq(S)
  OBVIOUS
<1> QED BY <1>1, <1>2, <1>3, ConcatEmptySeq

\* One recv on a stream of one message takes it and leaves nothing; one message
\* taken of two leaves the second.
LEMMA TakenShort ==
    /\ Taken(<<>>) = {}
    /\ \A x : \A taken \in Taken(<<x>>) : taken = <<x>> /\ Rest(<<x>>, taken) = <<>>
    /\ \A x, y : \A taken \in Taken(<<x, y>>) :
           Len(taken) = 1 => taken = <<x>> /\ Rest(<<x, y>>, taken) = <<y>>
<1>1. Taken(<<>>) = {}
  BY DEF Taken
<1>2. ASSUME NEW x, NEW taken \in Taken(<<x>>)
      PROVE  taken = <<x>> /\ Rest(<<x>>, taken) = <<>>
  <2> DEFINE s == <<x>>
  <2>1. s \in Seq({x}) /\ Len(s) = 1 /\ s[1] = x
    OBVIOUS
  <2> HIDE DEF s
  <2>2. SubSeq(s, 1, 1) = <<s[1]>>
    BY <2>1, SubSeqOne
  <2>3. SubSeq(s, 2, 1) = <<>>
    BY SubSeqEmpty
  <2>4. PICK k \in 1 .. Len(s) : taken = SubSeq(s, 1, k)
    BY <1>2 DEF Taken, s
  <2>5. taken = <<x>> /\ Rest(s, taken) = <<>>
    BY <2>1, <2>2, <2>3, <2>4 DEF Rest
  <2> QED BY <2>5 DEF s
<1>3. ASSUME NEW x, NEW y, NEW taken \in Taken(<<x, y>>), Len(taken) = 1
      PROVE  taken = <<x>> /\ Rest(<<x, y>>, taken) = <<y>>
  <2> DEFINE s == <<x, y>>
  <2>1. s \in Seq({x, y}) /\ Len(s) = 2 /\ s[1] = x /\ s[2] = y
    OBVIOUS
  <2> HIDE DEF s
  <2>2. SubSeq(s, 1, 1) = <<s[1]>>
    BY <2>1, SubSeqOne
  <2>3. SubSeq(s, 2, 2) = <<s[2]>>
    BY <2>1, SubSeqOne
  <2>4. PICK k \in 1 .. Len(s) : taken = SubSeq(s, 1, k)
    BY <1>3 DEF Taken, s
  <2>5. k = 1
    BY <1>3, <2>1, <2>4
  <2>6. taken = <<x>> /\ Rest(s, taken) = <<y>>
    BY <1>3, <2>1, <2>2, <2>3, <2>4, <2>5 DEF Rest
  <2> QED BY <2>6 DEF s
<1> QED BY <1>1, <1>2, <1>3

\* A second message goes behind the first.
LEMMA AppendTwo == \A a, b : Append(<<a>>, b) = <<a, b>>
<1> TAKE a, b
<1>1. <<a>> \in Seq({a, b}) /\ b \in {a, b} /\ <<a, b>> \in Seq({a, b})
  OBVIOUS
<1>2. /\ Append(<<a>>, b) \in Seq({a, b})
      /\ Len(Append(<<a>>, b)) = Len(<<a, b>>)
      /\ \A i \in 1 .. Len(<<a, b>>) : Append(<<a>>, b)[i] = <<a, b>>[i]
  BY <1>1
<1> QED BY <1>1, <1>2, SeqEqual

----------------------------------------------------------------------------
(* The initial state *)

\* Before the first client starts, nothing is under way.
LEMMA SessionInvInit ==
    ASSUME Init
    PROVE  SessionInv
<1>1. TypeInv
  <2>1. \A c \in Clients : Last(c) = 0
    BY DEF Init, Last
  <2>2. \A S : <<>> \in Seq(S)
    BY EmptySeq
  <2> QED BY <2>1, <2>2, SessionAssumption DEF Init, TypeInv, TypeOK, HandlerStates, Busy, Fds
<1>2. OwnerInv
  BY SessionAssumption
     DEF Init, OwnerInv, BacklogInv, FdInv, WireInv, HandlersKeepTheirDescriptors,
         StraysComeFromTheDeparted, Serving, HandlerStates
<1>3. CopiesInv
  BY DEF Init, CopiesInv
<1>4. CalmInv
  <2> SUFFICES ASSUME NEW c \in Clients PROVE ToldInv(c) /\ Calm(c)
    BY DEF CalmInv
  <2>1. Last(c) = 0 /\ clientPc[c] = "off" /\ up[c] = <<>> /\ down[c] = <<>>
    BY DEF Init, Last
  <2>2. \A n \in 1 .. MaxCommands : <<<<c, n>>, 0>> \in Jobs
    BY SessionAssumption DEF Jobs, Commands
  <2>3. Quiet(c)
    BY <2>2 DEF Init, Quiet, Busy, Started
  <2>4. ToldInv(c)
    BY <2>1, SessionAssumption DEF Init, ToldInv
  <2> QED BY <2>1, <2>3, <2>4 DEF Calm
<1> QED BY <1>1, <1>2, <1>3, <1>4 DEF SessionInv

----------------------------------------------------------------------------
(* Types *)

\* Whatever becomes of a send, the streams and what the server knows of the
\* client's end stay well-formed.
LEMMA SendType ==
    ASSUME TypeOK, NEW c \in Clients, NEW m \in Messages,
           SendOk(c, m) \/ SendFails(c) \/ SendKills(c)
    PROVE  /\ up' = up
           /\ down' \in [Clients -> Seq(Messages)]
           /\ line' \in [Clients -> {"open", "closed", "broken", "reset"}]
           /\ alive' \in BOOLEAN
<1>1. CASE SendOk(c, m)
  <2>1. CASE down' = [down EXCEPT ![c] = Append(@, m)] /\ UNCHANGED <<up, line, alive>>
    BY <2>1 DEF TypeOK
  <2>2. CASE /\ \E state \in {"closed", "reset"} : line' = [line EXCEPT ![c] = state]
             /\ UNCHANGED <<up, down, alive>>
    BY <2>2 DEF TypeOK
  <2> QED BY <1>1, <2>1, <2>2 DEF SendOk
<1>2. CASE SendFails(c)
  BY <1>2 DEF SendFails, TypeOK
<1>3. CASE SendKills(c)
  BY <1>3 DEF SendKills, TypeOK
<1> QED BY <1>1, <1>2, <1>3

\* A handler's send keeps the types and moves only its own thread.
LEMMA HandlerSendType ==
    ASSUME TypeInv, NEW c \in Clients, NEW what \in {"ACK", "reply"},
           NEW next \in HandlerStates, handlerPc[c] \in Busy, HandlerSend(c, what, next)
    PROVE  TypeInv'
<1>1. [what |-> what, of |-> Command(c)] \in Messages
  BY DEF TypeInv, Command, Commands, Messages
<1>2. /\ up' = up
      /\ down' \in [Clients -> Seq(Messages)]
      /\ line' \in [Clients -> {"open", "closed", "broken", "reset"}]
      /\ alive' \in BOOLEAN
  BY <1>1, SendType DEF HandlerSend, TypeInv
<1>3. /\ handlerPc' \in [Clients -> HandlerStates]
      /\ \A d \in Clients \ {c} : handlerPc'[d] = handlerPc[d]
  <2>1. \/ handlerPc' = handlerPc
        \/ handlerPc' = [handlerPc EXCEPT ![c] = next]
        \/ handlerPc' = [handlerPc EXCEPT ![c] = "ended"]
    BY DEF HandlerSend, Goto
  <2>2. handlerPc \in [Clients -> HandlerStates] /\ "ended" \in HandlerStates
    BY DEF TypeInv, TypeOK, HandlerStates
  <2> QED BY <2>1, <2>2
<1> QED BY <1>2, <1>3 DEF HandlerSend, TypeInv, TypeOK, clientVars, fdVars, historyVars, Last

\* Opening a descriptor keeps the table well-formed.
LEMMA OpenFdType ==
    ASSUME TypeOK, NEW owner \in Clients \cup {SERVER}, OpenFd(owner)
    PROVE  files' \in [Fds -> Clients \cup {NOBODY, SERVER}]
BY DEF OpenFd, TypeOK

\* What clients do keeps the types.
LEMMA ClientTypeStep ==
    ASSUME TypeInv, NEW c \in Clients,
           \/ ClientStart(c) \/ (\E kind \in Kinds : ClientSend(c, kind)) \/ TimePasses(c)
           \/ Reading(c) \/ ClientDepart(c)
    PROVE  TypeInv'
<1> USE DEF TypeInv, TypeOK, Last
<1>1. CASE ClientStart(c)
  BY <1>1 DEF ClientStart, wireVars, threadVars, historyVars
<1>2. ASSUME NEW kind \in Kinds, ClientSend(c, kind) PROVE TypeInv'
  <2>1. /\ typed' = [typed EXCEPT ![c] = Append(@, kind)]
        /\ up' = [up EXCEPT ![c] = Append(@, Last(c) + 1)]
        /\ Last(c) < MaxCommands
        /\ late' = [late EXCEPT ![c] = FALSE]
        /\ clientPc' = [clientPc EXCEPT ![c] = "ack"]
        /\ UNCHANGED <<told, down, line, alive, fdVars, threadVars, historyVars>>
    BY <1>2 DEF ClientSend
  <2>2. Last(c) + 1 \in 1 .. MaxCommands
    BY <2>1, SessionAssumption
  <2>3. typed' \in [Clients -> Seq(Kinds)] /\ up' \in [Clients -> Seq(1 .. MaxCommands)]
    BY <2>1, <2>2
  <2>4. \A d \in Clients : Len(typed'[d]) <= MaxCommands
    BY <2>1, <2>2
  <2> QED BY <2>1, <2>3, <2>4 DEF fdVars, threadVars, historyVars
<1>3. CASE TimePasses(c)
  BY <1>3 DEF TimePasses, wireVars, fdVars, threadVars, historyVars
<1>4. CASE waitforAck(c)
  <2>1. PICK taken \in Taken(down[c]) : down' = [down EXCEPT ![c] = Rest(@, taken)]
    BY <1>4 DEF waitforAck
  <2>2. down' \in [Clients -> Seq(Messages)]
    BY <2>1, TakenRest
  <2>3. slipped' \subseteq Clients /\ starved' \subseteq Clients
    BY <1>4 DEF waitforAck, Slip, historyVars
  <2>4. clientPc' \in [Clients -> {"off", "prompt", "ack", "reply", "gone"}]
    BY <1>4 DEF waitforAck
  <2> QED BY <1>4, <2>2, <2>3, <2>4 DEF waitforAck, fdVars, threadVars
<1>5. CASE ClientReply(c)
  <2>1. PICK taken \in Taken(down[c]) : /\ down' = [down EXCEPT ![c] = Rest(@, taken)]
                                        /\ told' = [told EXCEPT ![c][Last(c)] = taken]
    BY <1>5 DEF ClientReply
  <2>2. down' \in [Clients -> Seq(Messages)] /\ taken \in Seq(Messages)
    BY <2>1, TakenRest
  <2>3. told' \in [Clients -> [1 .. MaxCommands -> Seq(Messages)]]
    BY <2>1, <2>2
  <2> QED BY <1>5, <2>2, <2>3 DEF ClientReply, fdVars, threadVars, historyVars
<1>6. CASE ClientEndOfStream(c)
  <2>1. clientPc' \in {[clientPc EXCEPT ![c] = "prompt"], [clientPc EXCEPT ![c] = "reply"]}
    BY <1>6 DEF ClientEndOfStream
  <2> QED BY <1>6, <2>1 DEF ClientEndOfStream, Slip, wireVars, fdVars, threadVars
<1>7. CASE ClientDepart(c)
  <2>1. down' \in [Clients -> Seq(Messages)]
    BY <1>7, EmptySeq DEF ClientDepart
  <2>2. line' \in [Clients -> {"open", "closed", "broken", "reset"}]
    BY <1>7 DEF ClientDepart
  <2> QED BY <1>7, <2>1, <2>2 DEF ClientDepart, fdVars, threadVars, historyVars
<1> QED BY <1>1, <1>2, <1>3, <1>4, <1>5, <1>6, <1>7 DEF Reading

\* Every step keeps the types, and a handler takes up numbered commands only.
LEMMA TypeStep ==
    ASSUME TypeInv, FdInv, Next
    PROVE  TypeInv'
<1> USE DEF Last
<1>1. CASE \E c \in Clients :
              \/ ClientStart(c) \/ (\E kind \in Kinds : ClientSend(c, kind)) \/ TimePasses(c)
              \/ Reading(c) \/ ClientDepart(c)
  BY <1>1, ClientTypeStep
<1>2. CASE Accept
  <2>1. /\ Head(backlog) \in Clients /\ Tail(backlog) \in Seq(Clients)
        /\ Free # {} /\ OpenFd(Head(backlog))
    BY <1>2 DEF Accept, TypeInv, TypeOK
  <2>2. files' \in [Fds -> Clients \cup {NOBODY, SERVER}]
    BY <2>1, OpenFdType DEF TypeInv
  <2>3. fdOf' \in [Clients -> Fds \cup {0}]
    BY <1>2, <2>1, FreeFd DEF Accept, TypeInv, TypeOK
  <2> QED BY <1>2, <2>1, <2>2, <2>3
          DEF Accept, TypeInv, TypeOK, clientVars, wireVars, historyVars, HandlerStates, Busy
<1>3. ASSUME NEW c \in Clients, Handler(c) PROVE TypeInv'
  <2> USE DEF HandlerStates, Busy
  <2>1. CASE HandlerRecv(c)
    <3>1. PICK taken \in Taken(up[c]) :
             /\ up' = [up EXCEPT ![c] = Rest(@, taken)]
             /\ handling' = [handling EXCEPT ![c] =
                              [number |-> taken[1], kind |-> KindTaken(c, taken)]]
      BY <2>1 DEF HandlerRecv
    <3>2. up[c] \in Seq(1 .. MaxCommands)
      BY DEF TypeInv, TypeOK
    <3>3. /\ Rest(up[c], taken) \in Seq(1 .. MaxCommands)
          /\ taken[1] \in 1 .. MaxCommands
      <4>1. /\ taken \in Seq(1 .. MaxCommands) /\ Len(taken) \in 1 .. Len(up[c])
            /\ Rest(up[c], taken) \in Seq(1 .. MaxCommands)
        BY <3>2, TakenRest
      <4>2. Len(up[c]) \in Nat /\ 1 \in 1 .. Len(taken)
        BY <3>2, <4>1
      <4> QED BY <4>1, <4>2, ElementOfSeq
    <3>4. slipped' \subseteq Clients /\ starved' \subseteq Clients
      BY <2>1 DEF HandlerRecv, Slip, historyVars, TypeInv, TypeOK
    <3>5. up' \in [Clients -> Seq(1 .. MaxCommands)]
      BY <3>1, <3>3 DEF TypeInv, TypeOK
    <3>6. /\ DOMAIN handling' = Clients /\ handling'[c].number = taken[1]
          /\ \A d \in Clients \ {c} : handling'[d] = handling[d]
      BY <3>1 DEF TypeInv
    <3>7. handlerPc' = [handlerPc EXCEPT ![c] = "received"]
      BY <2>1 DEF HandlerRecv, Goto
    <3> QED BY <2>1, <3>3, <3>4, <3>5, <3>6, <3>7
            DEF HandlerRecv, TypeInv, TypeOK, clientVars, fdVars
  <2>2. CASE HandlerClose(c)
    BY <2>2 DEF HandlerClose, Goto, TypeInv, TypeOK, clientVars, wireVars, historyVars
  <2>3. CASE HandlerAck(c)
    BY <2>3, HandlerSendType DEF HandlerAck
  <2>4. CASE HandlerLookup(c)
    BY <2>4, HandlerSendType DEF HandlerLookup
  <2>5. CASE HandlerKnown(c)
    BY <2>5 DEF HandlerKnown, Goto, TypeInv, TypeOK, clientVars, wireVars, fdVars, historyVars
  <2>6. CASE HandlerDelete(c)
    <3>1. files' \in [Fds -> Clients \cup {NOBODY, SERVER}]
      BY <2>6, OpenFdType DEF HandlerDelete, TypeInv, TypeOK
    <3>2. starved' \subseteq Clients /\ slipped' \subseteq Clients
      BY <2>6 DEF HandlerDelete, Starve, historyVars, TypeInv, TypeOK
    <3>3. handlerPc' \in {[handlerPc EXCEPT ![c] = "asked"], [handlerPc EXCEPT ![c] = "ended"]}
      BY <2>6 DEF HandlerDelete, Goto
    <3> QED BY <2>6, <3>1, <3>2, <3>3 DEF HandlerDelete, TypeInv, TypeOK, clientVars, wireVars
  <2>7. CASE HandlerRelay(c)
    BY <2>7, HandlerSendType DEF HandlerRelay
  <2>8. CASE HandlerRefresh(c)
    <3>1. files' \in [Fds -> Clients \cup {NOBODY, SERVER}]
      BY <2>8, OpenFdType DEF HandlerRefresh, TypeInv, TypeOK
    <3> QED BY <2>8, <3>1
            DEF HandlerRefresh, Goto, TypeInv, TypeOK, clientVars, wireVars, historyVars
  <2>9. CASE HandlerCreate(c)
    <3>1. jobPc' \in [Jobs -> {"none", "started", "asked", "ended"}]
      BY <2>9 DEF HandlerCreate, TypeInv, TypeOK
    <3> QED BY <2>9, <3>1
            DEF HandlerCreate, Goto, TypeInv, TypeOK, clientVars, wireVars, fdVars, historyVars
  <2> QED BY <1>3, <2>1, <2>2, <2>3, <2>4, <2>5, <2>6, <2>7, <2>8, <2>9 DEF Handler
<1>4. ASSUME NEW j \in Jobs, Job(j) PROVE TypeInv'
  <2>0. j[1] \in Commands /\ j[1][1] \in Clients
    BY DEF Jobs, Commands
  <2>1. CASE JobAsk(j)
    <3>1. files' \in [Fds -> Clients \cup {NOBODY, SERVER}]
      BY <2>1, OpenFdType DEF JobAsk, TypeInv, TypeOK
    <3>2. starved' \subseteq Clients /\ slipped' \subseteq Clients
      BY <2>0, <2>1 DEF JobAsk, Starve, historyVars, TypeInv, TypeOK
    <3>3. jobPc' \in {[jobPc EXCEPT ![j] = "asked"], [jobPc EXCEPT ![j] = "ended"]}
      BY <2>1 DEF JobAsk, JobGoto
    <3> QED BY <2>1, <3>1, <3>2, <3>3 DEF JobAsk, TypeInv, TypeOK, clientVars, wireVars
  <2>2. CASE JobReply(j)
    <3> DEFINE owner == files[fdOf[j[1][1]]]
               message == [what |-> "reply", of |-> j[1]]
    <3>1. message \in Messages
      BY <2>0 DEF Messages
    <3> HIDE DEF owner, message
    <3>2. CASE owner \in Clients
      <4>1. SendOk(owner, message) \/ SendFails(owner) \/ SendKills(owner)
        BY <2>2, <3>2 DEF JobReply, owner, message
      <4>2. /\ up' = up
            /\ down' \in [Clients -> Seq(Messages)]
            /\ line' \in [Clients -> {"open", "closed", "broken", "reset"}]
            /\ alive' \in BOOLEAN
        BY <3>1, <3>2, <4>1, SendType DEF TypeInv
      <4>3. slipped' \subseteq Clients /\ starved' \subseteq Clients
        BY <2>2, <3>2 DEF JobReply, owner, Slip, historyVars, TypeInv, TypeOK
      <4> QED BY <2>2, <4>2, <4>3 DEF JobReply, JobGoto, TypeInv, TypeOK, clientVars, fdVars
    <3>3. CASE owner \notin Clients
      <4>1. UNCHANGED <<wireVars, historyVars>>
        BY <2>2, <3>3 DEF JobReply, owner
      <4> QED BY <2>2, <4>1
              DEF JobReply, JobGoto, TypeInv, TypeOK, clientVars, wireVars, fdVars, historyVars
    <3> QED BY <3>2, <3>3
  <2> QED BY <1>4, <2>1, <2>2 DEF Job
<1> QED BY <1>1, <1>2, <1>3, <1>4 DEF Next

----------------------------------------------------------------------------
(* Descriptors *)

\* No step brings a client back from its end, and only connect starts one.
LEMMA ClientsMove ==
    ASSUME TypeInv, Next
    PROVE  /\ Departed \subseteq Departed'
           /\ \A c \in Clients : clientPc'[c] = "off" => clientPc[c] = "off"
<1> DEFINE Moves == \/ clientPc' = clientPc
                    \/ \E c \in Clients, l \in {"prompt", "ack", "reply", "gone"} :
                          clientPc[c] # "gone" /\ clientPc' = [clientPc EXCEPT ![c] = l]
<1>1. Moves
  <2>1. ASSUME NEW c \in Clients, ClientStart(c) \/ TimePasses(c) \/ ClientDepart(c)
        PROVE  Moves
    BY <2>1 DEF ClientStart, TimePasses, ClientDepart
  <2>2. ASSUME NEW c \in Clients, NEW kind \in Kinds, ClientSend(c, kind) PROVE Moves
    BY <2>2 DEF ClientSend
  <2>3. ASSUME NEW c \in Clients, Reading(c) PROVE Moves
    BY <2>3 DEF Reading, waitforAck, ClientReply, ClientEndOfStream
  <2>4. ASSUME NEW c \in Clients, Handler(c) PROVE Moves
    BY <2>4 DEF Handler, HandlerRecv, HandlerClose, HandlerAck, HandlerLookup, HandlerKnown,
                HandlerDelete, HandlerRelay, HandlerRefresh, HandlerCreate, HandlerSend, clientVars
  <2>5. ASSUME Accept PROVE Moves
    BY <2>5 DEF Accept, clientVars
  <2>6. ASSUME NEW j \in Jobs, Job(j) PROVE Moves
    BY <2>6 DEF Job, JobAsk, JobReply, clientVars
  <2> QED BY <2>1, <2>2, <2>3, <2>4, <2>5, <2>6 DEF Next
<1>2. clientPc \in [Clients -> {"off", "prompt", "ack", "reply", "gone"}]
  BY DEF TypeInv, TypeOK
<1> QED BY <1>1, <1>2 DEF Departed

\* A connection enters the backlog once and leaves it when it gets a descriptor.
LEMMA BacklogStep ==
    ASSUME TypeInv, BacklogInv, Next
    PROVE  BacklogInv'
<1>0. /\ backlog \in Seq(Clients) /\ fdOf \in [Clients -> Fds \cup {0}]
      /\ clientPc \in [Clients -> {"off", "prompt", "ack", "reply", "gone"}]
      /\ \A i \in 1 .. Len(backlog) : backlog[i] \in Clients
  BY DEF TypeInv, TypeOK
<1>1. ASSUME NEW c \in Clients, ClientStart(c) PROVE BacklogInv'
  <2>1. /\ clientPc[c] = "off" /\ clientPc' = [clientPc EXCEPT ![c] = "prompt"]
        /\ backlog' = Append(backlog, c) /\ fdOf' = fdOf
    BY <1>1 DEF ClientStart
  <2>2. /\ Len(backlog') = Len(backlog) + 1 /\ backlog'[Len(backlog) + 1] = c
        /\ \A i \in 1 .. Len(backlog) : backlog'[i] = backlog[i] /\ backlog'[i] # c
        /\ Len(backlog) \in Nat
    BY <1>0, <2>1 DEF BacklogInv
  <2>3. ASSUME NEW i \in 1 .. Len(backlog')
        PROVE  /\ clientPc'[backlog'[i]] # "off" /\ fdOf'[backlog'[i]] = 0
               /\ \A k \in 1 .. Len(backlog') : backlog'[k] = backlog'[i] => k = i
    <3>1. CASE i = Len(backlog) + 1
      BY <1>0, <2>1, <2>2, <3>1 DEF BacklogInv
    <3>2. CASE i # Len(backlog) + 1
      <4>1. i \in 1 .. Len(backlog)
        BY <2>2, <3>2
      <4>2. clientPc'[backlog'[i]] # "off" /\ fdOf'[backlog'[i]] = 0
        BY <1>0, <2>1, <2>2, <4>1 DEF BacklogInv
      <4>3. \A k \in 1 .. Len(backlog) : backlog[k] = backlog[i] => k = i
        BY <4>1 DEF BacklogInv
      <4>4. ASSUME NEW k \in 1 .. Len(backlog'), backlog'[k] = backlog'[i] PROVE k = i
        <5>1. k # Len(backlog) + 1
          BY <2>2, <4>1, <4>4
        <5>2. k \in 1 .. Len(backlog)
          BY <2>2, <5>1
        <5> QED BY <2>2, <4>1, <4>3, <4>4, <5>2
      <4> QED BY <4>2, <4>4
    <3> QED BY <3>1, <3>2
  <2> QED BY <1>0, <2>1, <2>3 DEF BacklogInv
<1>2. ASSUME Accept PROVE BacklogInv'
  <2> DEFINE c == backlog[1]
  <2>1. /\ backlog # <<>> /\ fdOf' = [fdOf EXCEPT ![c] = Min(Free)]
        /\ backlog' = Tail(backlog) /\ clientPc' = clientPc
    BY <1>0, <1>2 DEF Accept, clientVars
  <2>2. /\ Len(backlog') = Len(backlog) - 1 /\ Len(backlog) \in Nat \ {0}
        /\ \A i \in 1 .. Len(backlog) - 1 : backlog'[i] = backlog[i + 1]
    BY <1>0, <2>1
  <2>3. ASSUME NEW i \in 1 .. Len(backlog')
        PROVE  /\ clientPc'[backlog'[i]] # "off" /\ fdOf'[backlog'[i]] = 0
               /\ \A k \in 1 .. Len(backlog') : backlog'[k] = backlog'[i] => k = i
    <3>1. /\ i + 1 \in 1 .. Len(backlog) /\ 1 \in 1 .. Len(backlog) /\ i + 1 # 1
          /\ backlog'[i] = backlog[i + 1]
      BY <2>2
    <3>2. /\ clientPc[backlog[i + 1]] # "off" /\ fdOf[backlog[i + 1]] = 0
          /\ \A k \in 1 .. Len(backlog) : backlog[k] = backlog[i + 1] => k = i + 1
      BY <3>1 DEF BacklogInv
    <3>3. backlog[i + 1] # c
      BY <3>1, <3>2
    <3>4. ASSUME NEW k \in 1 .. Len(backlog'), backlog'[k] = backlog'[i] PROVE k = i
      <4>1. k + 1 \in 1 .. Len(backlog) /\ backlog'[k] = backlog[k + 1]
        BY <2>2
      <4>2. k + 1 = i + 1
        BY <3>1, <3>2, <3>4, <4>1
      <4> QED BY <2>2, <4>2
    <3> QED BY <1>0, <2>1, <3>1, <3>2, <3>3, <3>4
  <2>4. c \in Clients /\ clientPc[c] # "off"
    BY <1>0, <2>2 DEF BacklogInv
  <2> QED BY <1>0, <2>1, <2>3, <2>4 DEF BacklogInv
<1>3. ASSUME backlog' = backlog, fdOf' = fdOf PROVE BacklogInv'
  BY <1>0, <1>3, ClientsMove DEF BacklogInv
<1>4. ASSUME NEW c \in Clients, Handler(c) PROVE backlog' = backlog /\ fdOf' = fdOf
  BY <1>4 DEF Handler, HandlerRecv, HandlerClose, HandlerAck, HandlerLookup, HandlerKnown,
              HandlerDelete, HandlerRelay, HandlerRefresh, HandlerCreate, HandlerSend, fdVars
<1>5. ASSUME NEW c \in Clients, TimePasses(c) \/ Reading(c) \/ ClientDepart(c)
      PROVE  backlog' = backlog /\ fdOf' = fdOf
  BY <1>5 DEF TimePasses, Reading, waitforAck, ClientReply, ClientEndOfStream, ClientDepart, fdVars
<1>6. ASSUME NEW c \in Clients, NEW kind \in Kinds, ClientSend(c, kind)
      PROVE  backlog' = backlog /\ fdOf' = fdOf
  BY <1>6 DEF ClientSend, fdVars
<1>7. ASSUME NEW j \in Jobs, Job(j) PROVE backlog' = backlog /\ fdOf' = fdOf
  BY <1>7 DEF Job, JobAsk, JobReply, fdVars
<1> QED BY <1>1, <1>2, <1>3, <1>4, <1>5, <1>6, <1>7 DEF Next

\* A send to a client changes what is known of its end only if that was over.
LEMMA SendLine ==
    ASSUME TypeInv, NEW c \in Clients, NEW m,
           SendOk(c, m) \/ SendFails(c) \/ SendKills(c)
    PROVE  \A d \in Clients : line'[d] # "open" => line[d] # "open"
BY DEF SendOk, SendFails, SendKills, TypeInv, TypeOK

\* A step that at most opens a connection to a storage server keeps the
\* descriptors of the clients.
LEMMA FdFrame ==
    ASSUME TypeInv, FdInv, HandlersKeepTheirDescriptors,
           fdOf' = fdOf,
           files' = files \/ (Free # {} /\ OpenFd(SERVER)),
           Departed \subseteq Departed',
           \A c \in Clients : line'[c] # "open" => line[c] # "open" \/ c \in Departed',
           \A c \in Clients : handlerPc'[c] \in Serving => handlerPc[c] \in Serving,
           \A j \in Jobs : jobPc'[j] \in {"started", "asked"} =>
               jobPc[j] \in {"started", "asked"} \/ handlerPc[j[1][1]] \in Serving
    PROVE  FdInv' /\ HandlersKeepTheirDescriptors'
<1>0. /\ files \in [Fds -> Clients \cup {NOBODY, SERVER}]
      /\ fdOf \in [Clients -> Fds \cup {0}]
      /\ SERVER \notin Clients /\ NOBODY \notin Clients
  BY SessionAssumption DEF TypeInv, TypeOK
<1>1. /\ \A fd \in Fds : files[fd] \in Clients => files'[fd] = files[fd]
      /\ \A fd \in Fds : files'[fd] \in Clients => files'[fd] = files[fd]
  BY <1>0, FreeFd DEF OpenFd
<1>2. \A c \in Clients : handlerPc[c] \in Serving => fdOf[c] \in Fds
  BY <1>0 DEF FdInv
<1>3. HandlersKeepTheirDescriptors'
  BY <1>0, <1>1, <1>2 DEF HandlersKeepTheirDescriptors
<1>4. \A c \in Clients : fdOf[c] # 0 => fdOf[c] \in Fds
  BY <1>0
<1>5. (\A c \in Clients : fdOf[c] # 0 /\ files[fdOf[c]] # c => c \in Departed)'
  BY <1>0, <1>1, <1>4 DEF FdInv
<1>6. \A j \in Jobs : j[1][1] \in Clients
  BY DEF Jobs, Commands
<1>7. (\A j \in Jobs : jobPc[j] \in {"started", "asked"} => fdOf[j[1][1]] # 0)'
  BY <1>6 DEF FdInv
<1> QED BY <1>1, <1>3, <1>5, <1>7 DEF FdInv

\* A descriptor is given to one connection, and taken from it by its own handler.
LEMMA FdStep ==
    ASSUME TypeInv, BacklogInv, FdInv, HandlersKeepTheirDescriptors, Next
    PROVE  FdInv' /\ HandlersKeepTheirDescriptors'
<1>0. /\ files \in [Fds -> Clients \cup {NOBODY, SERVER}]
      /\ fdOf \in [Clients -> Fds \cup {0}]
      /\ handlerPc \in [Clients -> HandlerStates]
      /\ jobPc \in [Jobs -> {"none", "started", "asked", "ended"}]
      /\ SERVER \notin Clients /\ NOBODY \notin Clients /\ 0 \notin Fds
      /\ \A j \in Jobs : j[1][1] \in Clients
  BY SessionAssumption DEF TypeInv, TypeOK, Fds, Jobs, Commands
<1>1. Departed \subseteq Departed'
  BY ClientsMove
<1>2. ASSUME NEW c \in Clients,
             \/ ClientStart(c) \/ (\E kind \in Kinds : ClientSend(c, kind)) \/ TimePasses(c)
             \/ Reading(c)
      PROVE  FdInv' /\ HandlersKeepTheirDescriptors'
  <2>1. UNCHANGED <<fdOf, files, handlerPc, jobPc, line>>
    BY <1>2 DEF ClientStart, ClientSend, TimePasses, Reading, waitforAck, ClientReply,
                ClientEndOfStream, wireVars, fdVars, threadVars
  <2> QED BY <1>1, <2>1, FdFrame
<1>3. ASSUME NEW c \in Clients, ClientDepart(c)
      PROVE  FdInv' /\ HandlersKeepTheirDescriptors'
  <2>1. UNCHANGED <<fdOf, files, handlerPc, jobPc>>
    BY <1>3 DEF ClientDepart, fdVars, threadVars
  <2>2. c \in Departed' /\ \A d \in Clients \ {c} : line'[d] = line[d]
    BY <1>3 DEF ClientDepart, Departed, TypeInv, TypeOK
  <2> QED BY <1>1, <2>1, <2>2, FdFrame
<1>4. CASE Accept
  <2> DEFINE c == Head(backlog)
             fd == Min(Free)
  <2>1. /\ c \in Clients /\ fdOf[c] = 0
        /\ files' = [files EXCEPT ![fd] = c]
        /\ fdOf' = [fdOf EXCEPT ![c] = fd]
        /\ handlerPc' = [handlerPc EXCEPT ![c] = "recv"]
        /\ UNCHANGED <<jobPc, line>>
    <3>1. backlog \in Seq(Clients) /\ backlog # <<>>
      BY <1>4 DEF Accept, TypeInv, TypeOK
    <3>2. c = backlog[1] /\ 1 \in 1 .. Len(backlog) /\ c \in Clients
      BY <3>1
    <3> QED BY <1>4, <3>2 DEF Accept, OpenFd, BacklogInv, wireVars
  <2>2. fd \in Fds /\ files[fd] = NOBODY /\ fd # 0
    BY <1>4, FreeFd DEF Accept
  <2> HIDE DEF c, fd
  <2>3. \A d \in Clients \ {c} : fdOf'[d] = fdOf[d] /\ handlerPc'[d] = handlerPc[d]
    BY <1>0, <2>1
  <2>4. \A x \in Fds \ {fd} : files'[x] = files[x]
    BY <1>0, <2>1
  <2>5. files'[fd] = c /\ fdOf'[c] = fd
    BY <1>0, <2>1, <2>2
  <2>6. \A x \in Fds : files[x] # c
    BY <1>0, <2>1 DEF FdInv
  <2>7. \A d \in Clients \ {c} : fdOf[d] # 0 => fdOf[d] \in Fds
    BY <1>0
  <2>8. HandlersKeepTheirDescriptors'
    <3> SUFFICES ASSUME NEW d \in Clients, handlerPc'[d] \in Serving PROVE files'[fdOf'[d]] = d
      BY DEF HandlersKeepTheirDescriptors
    <3>1. CASE d = c
      BY <2>5, <3>1
    <3>2. CASE d # c
      <4>1. files[fdOf[d]] = d /\ fdOf[d] \in Fds
        BY <2>3, <2>7, <3>2 DEF HandlersKeepTheirDescriptors, FdInv
      <4> QED BY <1>0, <2>2, <2>3, <2>4, <3>2, <4>1
    <3> QED BY <3>1, <3>2
  <2>9. (\A x \in Fds : files[x] \in Clients => fdOf[files[x]] = x)'
    BY <2>3, <2>4, <2>5, <2>6 DEF FdInv
  <2>10. (\A d \in Clients : fdOf[d] # 0 /\ files[fdOf[d]] # d => d \in Departed)'
    <3> SUFFICES ASSUME NEW d \in Clients \ {c}, fdOf[d] # 0, files'[fdOf[d]] # d
                 PROVE  d \in Departed
      BY <1>1, <2>3, <2>5
    <3>1. files[fdOf[d]] # d
      BY <1>0, <2>2, <2>4, <2>7
    <3> QED BY <3>1 DEF FdInv
  <2>11. (\A j \in Jobs : jobPc[j] \in {"started", "asked"} => fdOf[j[1][1]] # 0)'
    BY <1>0, <2>1, <2>2, <2>3, <2>5 DEF FdInv
  <2>12. (\A d \in Clients : line[d] # "open" => d \in Departed)'
    BY <1>1, <2>1 DEF FdInv
  <2>13. \A d \in Clients : handlerPc'[d] \in Serving => fdOf'[d] # 0
    BY <2>2, <2>3, <2>5 DEF FdInv
  <2> QED BY <2>8, <2>9, <2>10, <2>11, <2>12, <2>13 DEF FdInv
<1>5. ASSUME NEW c \in Clients, HandlerClose(c) PROVE FdInv' /\ HandlersKeepTheirDescriptors'
  <2>1. /\ handlerPc[c] = "recv" /\ line[c] # "open"
        /\ files' = [files EXCEPT ![fdOf[c]] = NOBODY]
        /\ handlerPc' = [handlerPc EXCEPT ![c] = "ended"]
        /\ UNCHANGED <<clientPc, fdOf, jobPc, line>>
    BY <1>5 DEF HandlerClose, Goto, clientVars, wireVars
  <2>2. fdOf[c] \in Fds /\ files[fdOf[c]] = c /\ c \in Departed
    BY <1>0, <2>1 DEF FdInv, HandlersKeepTheirDescriptors, Serving, HandlerStates
  <2>3. \A x \in Fds \ {fdOf[c]} : files'[x] = files[x]
    BY <1>0, <2>1
  <2>4. files'[fdOf[c]] = NOBODY
    BY <1>0, <2>1, <2>2
  <2>5. \A d \in Clients : handlerPc'[d] \in Serving => d # c /\ handlerPc[d] \in Serving
    BY <1>0, <2>1 DEF Serving
  <2>6. \A d \in Clients : fdOf[d] # 0 => fdOf[d] \in Fds
    BY <1>0
  <2>7. HandlersKeepTheirDescriptors'
    <3> SUFFICES ASSUME NEW d \in Clients, handlerPc'[d] \in Serving PROVE files'[fdOf[d]] = d
      BY <2>1 DEF HandlersKeepTheirDescriptors
    <3>1. d # c /\ files[fdOf[d]] = d /\ fdOf[d] \in Fds
      BY <2>5, <2>6 DEF HandlersKeepTheirDescriptors, FdInv
    <3> QED BY <2>2, <2>3, <3>1
  <2>8. (\A x \in Fds : files[x] \in Clients => fdOf[files[x]] = x)'
    BY <1>0, <2>1, <2>3, <2>4 DEF FdInv
  <2>9. (\A d \in Clients : fdOf[d] # 0 /\ files[fdOf[d]] # d => d \in Departed)'
    <3> SUFFICES ASSUME NEW d \in Clients, fdOf[d] # 0, files'[fdOf[d]] # d PROVE d \in Departed
      BY <1>1, <2>1
    <3>1. CASE d = c
      BY <2>2, <3>1
    <3>2. CASE d # c
      <4>1. files[fdOf[d]] # d
        BY <2>2, <2>3, <2>6, <3>2
      <4> QED BY <4>1 DEF FdInv
    <3> QED BY <3>1, <3>2
  <2> QED BY <1>1, <2>1, <2>5, <2>7, <2>8, <2>9 DEF FdInv
<1>6. ASSUME NEW c \in Clients, NEW what, NEW next \in Serving, handlerPc[c] \in Serving,
             HandlerSend(c, what, next)
      PROVE  FdInv' /\ HandlersKeepTheirDescriptors'
  <2>1. UNCHANGED <<fdOf, files, jobPc>>
    BY <1>6 DEF HandlerSend, fdVars
  <2>2. \A d \in Clients : line'[d] # "open" => line[d] # "open"
    BY <1>6, SendLine DEF HandlerSend
  <2>3. \A d \in Clients : handlerPc'[d] \in Serving => handlerPc[d] \in Serving
    BY <1>0, <1>6 DEF HandlerSend, Goto
  <2> QED BY <1>1, <2>1, <2>2, <2>3, FdFrame
<1>7. ASSUME NEW c \in Clients, Handler(c), ~HandlerClose(c)
      PROVE  FdInv' /\ HandlersKeepTheirDescriptors'
  <2>0. {"recv", "received", "dispatch", "asked", "refresh"} \subseteq Serving
    BY DEF Serving, HandlerStates
  <2>1. CASE HandlerAck(c) \/ HandlerLookup(c) \/ HandlerRelay(c)
    BY <1>6, <2>0, <2>1 DEF HandlerAck, HandlerLookup, HandlerRelay
  <2>2. CASE HandlerRecv(c) \/ HandlerKnown(c)
    <3>1. UNCHANGED <<fdOf, files, jobPc, line>>
      BY <2>2 DEF HandlerRecv, HandlerKnown, wireVars, fdVars
    <3>2. \A d \in Clients : handlerPc'[d] \in Serving => handlerPc[d] \in Serving
      BY <1>0, <2>0, <2>2 DEF HandlerRecv, HandlerKnown, Goto
    <3> QED BY <1>1, <3>1, <3>2, FdFrame
  <2>3. CASE HandlerDelete(c) \/ HandlerRefresh(c)
    <3>1. UNCHANGED <<fdOf, jobPc, line>> /\ (files' = files \/ (Free # {} /\ OpenFd(SERVER)))
      BY <2>3 DEF HandlerDelete, HandlerRefresh, wireVars
    <3>2. \A d \in Clients : handlerPc'[d] \in Serving => handlerPc[d] \in Serving
      BY <1>0, <2>0, <2>3 DEF HandlerDelete, HandlerRefresh, Goto
    <3> QED BY <1>1, <3>1, <3>2, FdFrame
  <2>4. CASE HandlerCreate(c)
    <3>1. UNCHANGED <<fdOf, files, line>>
      BY <2>4 DEF HandlerCreate, wireVars, fdVars
    <3>2. \A d \in Clients : handlerPc'[d] \in Serving => handlerPc[d] \in Serving
      BY <1>0, <2>0, <2>4 DEF HandlerCreate, Goto
    <3>3. \A j \in Jobs : jobPc'[j] = jobPc[j] \/ j[1][1] = c
      BY <2>4 DEF HandlerCreate, Command
    <3>4. handlerPc[c] \in Serving
      BY <2>0, <2>4 DEF HandlerCreate
    <3> QED BY <1>1, <3>1, <3>2, <3>3, <3>4, FdFrame
  <2> QED BY <1>7, <2>1, <2>2, <2>3, <2>4 DEF Handler
<1>8. ASSUME NEW j \in Jobs, Job(j) PROVE FdInv' /\ HandlersKeepTheirDescriptors'
  <2>1. /\ UNCHANGED <<fdOf, handlerPc>> /\ (files' = files \/ (Free # {} /\ OpenFd(SERVER)))
        /\ jobPc[j] \in {"started", "asked"}
        /\ \A i \in Jobs \ {j} : jobPc'[i] = jobPc[i]
    BY <1>0, <1>8 DEF Job, JobAsk, JobReply, JobGoto, fdVars
  <2>2. \A d \in Clients : line'[d] # "open" => line[d] # "open"
    <3>1. CASE JobAsk(j)
      BY <3>1 DEF JobAsk, wireVars
    <3>2. CASE JobReply(j)
      BY <3>2, SendLine DEF JobReply, wireVars
    <3> QED BY <1>8, <3>1, <3>2 DEF Job
  <2> QED BY <1>1, <2>1, <2>2, FdFrame
<1> QED BY <1>2, <1>3, <1>4, <1>5, <1>7, <1>8 DEF Next

----------------------------------------------------------------------------
(* What travels to the clients *)

\* A connection keeps the number it was accepted with.
LEMMA FdKept ==
    ASSUME TypeInv, BacklogInv, Next, NEW c \in Clients, fdOf[c] # 0
    PROVE  fdOf'[c] = fdOf[c]
<1>1. CASE Accept
  <2>1. backlog \in Seq(Clients) /\ backlog # <<>>
    BY <1>1 DEF Accept, TypeInv, TypeOK
  <2>2. Head(backlog) = backlog[1] /\ 1 \in 1 .. Len(backlog)
    BY <2>1
  <2>3. Head(backlog) # c
    BY <2>2 DEF BacklogInv
  <2> QED BY <1>1, <2>3 DEF Accept, TypeInv, TypeOK
<1>2. ASSUME NEW d \in Clients, Handler(d) PROVE fdOf' = fdOf
  BY <1>2 DEF Handler, HandlerRecv, HandlerClose, HandlerAck, HandlerLookup, HandlerKnown,
              HandlerDelete, HandlerRelay, HandlerRefresh, HandlerCreate, HandlerSend, fdVars
<1>3. ASSUME NEW d \in Clients, ClientStart(d) \/ TimePasses(d) \/ Reading(d) \/ ClientDepart(d)
      PROVE  fdOf' = fdOf
  BY <1>3 DEF ClientStart, TimePasses, Reading, waitforAck, ClientReply, ClientEndOfStream,
              ClientDepart, fdVars
<1>4. ASSUME NEW d \in Clients, NEW kind \in Kinds, ClientSend(d, kind) PROVE fdOf' = fdOf
  BY <1>4 DEF ClientSend, fdVars
<1>5. ASSUME NEW j \in Jobs, Job(j) PROVE fdOf' = fdOf
  BY <1>5 DEF Job, JobAsk, JobReply, fdVars
<1> QED BY <1>1, <1>2, <1>3, <1>4, <1>5 DEF Next

\* A message that may be in the stream of client c.
Fits(c, m) ==
    /\ fdOf[c] # 0
    /\ m.of[1] # c => /\ m.of[1] \in Departed
                      /\ fdOf[c] = fdOf[m.of[1]]
                      /\ m.what = "reply"

\* What a step may do to the stream of client c.
Flows(c) ==
    \/ down'[c] = down[c]
    \/ down'[c] = <<>>
    \/ \E taken \in Taken(down[c]) : down'[c] = Rest(down[c], taken)
    \/ \E m \in Messages : Fits(c, m) /\ down'[c] = Append(down[c], m)

\* A send adds its message to the stream of one client, or to none.
LEMMA SendFlow ==
    ASSUME TypeInv, NEW c \in Clients, NEW m \in Messages, Fits(c, m),
           SendOk(c, m) \/ SendFails(c) \/ SendKills(c),
           NEW d \in Clients
    PROVE  Flows(d)
<1>1. down \in [Clients -> Seq(Messages)]
  BY DEF TypeInv, TypeOK
<1>2. down' = down \/ down' = [down EXCEPT ![c] = Append(@, m)]
  BY DEF SendOk, SendFails, SendKills
<1> QED BY <1>1, <1>2 DEF Flows

\* Only a thread of a CREATE sends to a client whose command it does not answer,
\* and then the client it works for has left.
LEMMA DownFlow ==
    ASSUME TypeInv, FdInv, Next, NEW e \in Clients
    PROVE  Flows(e)
<1>0. /\ down \in [Clients -> Seq(Messages)]
      /\ fdOf \in [Clients -> Fds \cup {0}]
  BY DEF TypeInv, TypeOK
<1>1. ASSUME down' = down PROVE Flows(e)
  BY <1>1 DEF Flows
<1>2. ASSUME NEW c \in Clients,
             \/ ClientStart(c) \/ (\E kind \in Kinds : ClientSend(c, kind)) \/ TimePasses(c)
             \/ ClientEndOfStream(c)
      PROVE  down' = down
  BY <1>2 DEF ClientStart, ClientSend, TimePasses, ClientEndOfStream, wireVars
<1>3. ASSUME NEW c \in Clients, waitforAck(c) \/ ClientReply(c) PROVE Flows(e)
  <2>1. PICK taken \in Taken(down[c]) : down' = [down EXCEPT ![c] = Rest(@, taken)]
    BY <1>3 DEF waitforAck, ClientReply
  <2> QED BY <1>0, <2>1 DEF Flows
<1>4. ASSUME NEW c \in Clients, ClientDepart(c) PROVE Flows(e)
  BY <1>0, <1>4 DEF ClientDepart, Flows
<1>5. ASSUME Accept PROVE down' = down
  BY <1>5 DEF Accept, wireVars
<1>6. ASSUME NEW c \in Clients, NEW what \in {"ACK", "reply"}, NEW next,
             handlerPc[c] \in Busy, HandlerSend(c, what, next)
      PROVE  Flows(e)
  <2> DEFINE m == [what |-> what, of |-> Command(c)]
  <2>1. m \in Messages /\ m.of[1] = c
    BY <1>6 DEF TypeInv, Command, Commands, Messages
  <2>2. Fits(c, m)
    BY <1>6, <2>1 DEF Fits, FdInv, Busy, Serving, HandlerStates
  <2>3. SendOk(c, m) \/ SendFails(c) \/ SendKills(c)
    BY <1>6 DEF HandlerSend
  <2> QED BY <2>1, <2>2, <2>3, SendFlow
<1>7. ASSUME NEW c \in Clients, HandlerAck(c) \/ HandlerLookup(c) \/ HandlerRelay(c)
      PROVE  Flows(e)
  BY <1>6, <1>7 DEF HandlerAck, HandlerLookup, HandlerRelay, Busy
<1>8. ASSUME NEW c \in Clients,
             \/ HandlerRecv(c) \/ HandlerClose(c) \/ HandlerKnown(c) \/ HandlerDelete(c)
             \/ HandlerRefresh(c) \/ HandlerCreate(c)
      PROVE  down' = down
  BY <1>8 DEF HandlerRecv, HandlerClose, HandlerKnown, HandlerDelete, HandlerRefresh,
              HandlerCreate, wireVars
<1>9. ASSUME NEW j \in Jobs, JobReply(j) PROVE Flows(e)
  <2> DEFINE d == j[1][1]
             owner == files[fdOf[d]]
             m == [what |-> "reply", of |-> j[1]]
  <2>1. d \in Clients /\ m \in Messages /\ m.of[1] = d /\ m.what = "reply"
    BY DEF Jobs, Commands, Messages
  <2>2. CASE owner \in Clients
    <3>1. SendOk(owner, m) \/ SendFails(owner) \/ SendKills(owner)
      BY <1>9, <2>2 DEF JobReply
    <3>2. fdOf[d] # 0 /\ fdOf[d] \in Fds
      BY <1>0, <1>9, <2>1 DEF JobReply, FdInv
    <3>3. fdOf[owner] = fdOf[d] /\ (owner # d => d \in Departed)
      BY <2>1, <2>2, <3>2 DEF FdInv
    <3>4. Fits(owner, m)
      BY <2>1, <3>2, <3>3 DEF Fits
    <3> HIDE DEF owner, m
    <3> QED BY <2>1, <2>2, <3>1, <3>4, SendFlow
  <2>3. CASE owner \notin Clients
    BY <1>1, <1>9, <2>3 DEF JobReply, wireVars
  <2> QED BY <2>2, <2>3
<1>10. ASSUME NEW j \in Jobs, JobAsk(j) PROVE down' = down
  BY <1>10 DEF JobAsk, wireVars
<1> QED BY <1>1, <1>2, <1>3, <1>4, <1>5, <1>7, <1>8, <1>9, <1>10 DEF Next, Reading, Handler, Job

\* The stream of a client holds its own answers and those of clients that have
\* left, whose number it was given.
LEMMA StraysStep ==
    ASSUME TypeInv, BacklogInv, FdInv, WireInv, StraysComeFromTheDeparted, Next
    PROVE  WireInv' /\ StraysComeFromTheDeparted'
<1> SUFFICES ASSUME NEW c \in Clients
             PROVE  /\ down'[c] # <<>> => fdOf'[c] # 0
                    /\ \A i \in 1 .. Len(down'[c]) :
                          LET d == down'[c][i].of[1] IN
                          d # c => /\ d \in Departed'
                                   /\ fdOf'[c] = fdOf'[d]
                                   /\ down'[c][i].what = "reply"
  BY DEF WireInv, StraysComeFromTheDeparted
<1>1. down[c] \in Seq(Messages) /\ down'[c] \in Seq(Messages)
  BY TypeStep DEF TypeInv, TypeOK
<1>2. \A i \in 1 .. Len(down[c]) : Fits(c, down[c][i])
  BY <1>1 DEF Fits, WireInv, StraysComeFromTheDeparted
<1>3. \A i \in 1 .. Len(down'[c]) : Fits(c, down'[c][i])
  <2>1. CASE down'[c] = down[c]
    BY <1>2, <2>1
  <2>2. CASE down'[c] = <<>>
    BY <2>2
  <2>3. ASSUME NEW taken \in Taken(down[c]), down'[c] = Rest(down[c], taken)
        PROVE  \A i \in 1 .. Len(down'[c]) : Fits(c, down'[c][i])
    <3> SUFFICES ASSUME NEW i \in 1 .. Len(down'[c]) PROVE Fits(c, down'[c][i])
      OBVIOUS
    <3> DEFINE s == down[c]
               r == Rest(s, taken)
    <3>0. s \in Seq(Messages) /\ taken \in Taken(s) /\ down'[c] = r
      BY <1>1, <2>3
    <3> HIDE DEF s
    <3>1. /\ Len(taken) \in 1 .. Len(s)
          /\ Len(r) = Len(s) - Len(taken)
          /\ \A k \in 1 .. Len(r) : r[k] = s[Len(taken) + k]
      BY <3>0, TakenRest
    <3>2. Len(taken) + i \in 1 .. Len(s) /\ down'[c][i] = s[Len(taken) + i]
      BY <3>0, <3>1
    <3> QED BY <1>2, <3>2 DEF s
  <2>4. ASSUME NEW m \in Messages, Fits(c, m), down'[c] = Append(down[c], m)
        PROVE  \A i \in 1 .. Len(down'[c]) : Fits(c, down'[c][i])
    <3> SUFFICES ASSUME NEW i \in 1 .. Len(down'[c]) PROVE Fits(c, down'[c][i])
      OBVIOUS
    <3>1. \/ i = Len(down[c]) + 1 /\ down'[c][i] = m
          \/ i \in 1 .. Len(down[c]) /\ down'[c][i] = down[c][i]
      BY <1>1, <2>4
    <3> QED BY <1>2, <2>4, <3>1
  <2> QED BY <2>1, <2>2, <2>3, <2>4, DownFlow DEF Flows
<1>4. Departed \subseteq Departed' /\ Departed \subseteq Clients
  BY ClientsMove DEF Departed
<1>5. \A d \in Clients : fdOf[d] # 0 => fdOf'[d] = fdOf[d]
  BY FdKept
<1>6. down'[c] # <<>> => 1 \in 1 .. Len(down'[c])
  BY <1>1
<1>7. down'[c] # <<>> => fdOf'[c] # 0
  BY <1>3, <1>5, <1>6 DEF Fits
<1> QED BY <1>3, <1>4, <1>5, <1>7 DEF Fits

----------------------------------------------------------------------------
(* Answers *)

\* The threads of the copies end once the storage server has been asked.
LEMMA CopiesStep ==
    ASSUME TypeInv, CopiesInv, Next
    PROVE  CopiesInv'
<1>0. jobPc \in [Jobs -> {"none", "started", "asked", "ended"}]
  BY DEF TypeInv, TypeOK
<1>1. ASSUME NEW c \in Clients,
             \/ ClientStart(c) \/ (\E kind \in Kinds : ClientSend(c, kind)) \/ TimePasses(c)
             \/ Reading(c) \/ ClientDepart(c)
      PROVE  jobPc' = jobPc
  BY <1>1 DEF ClientStart, ClientSend, TimePasses, Reading, waitforAck, ClientReply,
              ClientEndOfStream, ClientDepart, threadVars
<1>2. ASSUME NEW c \in Clients, Handler(c), ~HandlerCreate(c) PROVE jobPc' = jobPc
  BY <1>2 DEF Handler, HandlerRecv, HandlerClose, HandlerAck, HandlerLookup, HandlerKnown,
              HandlerDelete, HandlerRelay, HandlerRefresh, HandlerSend
<1>3. ASSUME NEW c \in Clients, HandlerCreate(c) PROVE CopiesInv'
  BY <1>3 DEF HandlerCreate, CopiesInv
<1>4. ASSUME NEW j \in Jobs, Job(j) PROVE CopiesInv'
  BY <1>0, <1>4 DEF Job, JobAsk, JobReply, JobGoto, CopiesInv
<1>5. ASSUME Accept PROVE jobPc' = jobPc
  BY <1>5 DEF Accept
<1> QED BY <1>1, <1>2, <1>3, <1>4, <1>5 DEF Next, CopiesInv

\* A step that leaves a client's command where it is.
Steady(c) ==
    /\ clientPc'[c] = clientPc[c] /\ typed'[c] = typed[c] /\ told'[c] = told[c]
    /\ up'[c] = up[c] /\ down'[c] = down[c] /\ handling'[c] = handling[c]
    /\ \/ handlerPc'[c] = handlerPc[c]
       \/ handlerPc[c] \notin Busy /\ handlerPc'[c] \notin Busy
    /\ \A n \in 1 .. MaxCommands : Started(c, n)' => Started(c, n)

\* The client has been told nothing new, and is not back at its prompt.
LEMMA ToldFrame ==
    ASSUME NEW c \in Clients, ToldInv(c), typed'[c] = typed[c], told'[c] = told[c],
           clientPc'[c] = clientPc[c] \/ (clientPc[c] # "gone" /\ clientPc'[c] # "prompt")
    PROVE  ToldInv(c)'
BY DEF ToldInv, Last, OwnReply

\* A steady client stays calm.
LEMMA CalmFrame ==
    ASSUME NEW c \in Clients, Steady(c)
    PROVE  (ToldInv(c) => ToldInv(c)') /\ (Calm(c) => Calm(c)')
<1>1. ToldInv(c) => ToldInv(c)'
  BY ToldFrame DEF Steady
<1>2. Last(c)' = Last(c) /\ ACK(c)' = ACK(c) /\ REPLY(c)' = REPLY(c)
  BY DEF Steady, Last, ACK, REPLY
<1>3. /\ Quiet(c) => Quiet(c)'
      /\ Acknowledged(c) => Acknowledged(c)'
      /\ Answered(c) => Answered(c)'
  BY <1>2 DEF Steady, Quiet, Acknowledged, Answered
<1>4. Queued(c) => Queued(c)'
  BY <1>2, <1>3 DEF Steady, Queued
<1>5. Received(c) => Received(c)'
  BY <1>2 DEF Steady, Received, Busy
<1>6. AtHandler(c) => AtHandler(c)'
  BY <1>2, <1>3 DEF Steady, AtHandler, Busy
<1>7. AtThread(c) => AtThread(c)'
  BY <1>2, <1>3 DEF Steady, AtThread
<1>8. Done(c) => Done(c)'
  BY <1>2, <1>3 DEF Steady, Done
<1> QED BY <1>1, <1>2, <1>3, <1>4, <1>5, <1>6, <1>7, <1>8 DEF Calm, Steady

\* A client's own steps leave the commands of the others where they are.
LEMMA ClientSteady ==
    ASSUME TypeInv, NEW c \in Clients, NEW d \in Clients \ {c},
           \/ ClientStart(c) \/ (\E kind \in Kinds : ClientSend(c, kind)) \/ TimePasses(c)
           \/ Reading(c) \/ ClientDepart(c)
    PROVE  Steady(d)
<1> USE DEF TypeInv, TypeOK, Steady, Started, clientVars, wireVars, threadVars
<1>1. CASE ClientStart(c)
  BY <1>1 DEF ClientStart
<1>2. ASSUME NEW kind \in Kinds, ClientSend(c, kind) PROVE Steady(d)
  BY <1>2 DEF ClientSend
<1>3. CASE TimePasses(c)
  BY <1>3 DEF TimePasses
<1>4. CASE waitforAck(c)
  BY <1>4 DEF waitforAck
<1>5. CASE ClientReply(c)
  <2>1. told'[d] = told[d] /\ down'[d] = down[d]
    BY <1>5 DEF ClientReply
  <2> QED BY <1>5, <2>1 DEF ClientReply
<1>6. CASE ClientEndOfStream(c)
  BY <1>6 DEF ClientEndOfStream
<1>7. CASE ClientDepart(c)
  BY <1>7 DEF ClientDepart
<1> QED BY <1>1, <1>2, <1>3, <1>4, <1>5, <1>6, <1>7 DEF Reading

\* So do the steps of a handler.
LEMMA HandlerSteady ==
    ASSUME TypeInv, NEW c \in Clients, NEW d \in Clients \ {c}, Handler(c)
    PROVE  Steady(d)
<1> USE DEF TypeInv, TypeOK, Steady, Started, clientVars, wireVars, Goto
<1>1. CASE HandlerRecv(c)
  BY <1>1 DEF HandlerRecv
<1>2. CASE HandlerClose(c) \/ HandlerKnown(c) \/ HandlerRefresh(c)
  BY <1>2 DEF HandlerClose, HandlerKnown, HandlerRefresh
<1>3. ASSUME NEW what, NEW next, HandlerSend(c, what, next) PROVE Steady(d)
  <2>1. down'[d] = down[d] /\ up'[d] = up[d]
    BY <1>3 DEF HandlerSend, SendOk, SendFails, SendKills
  <2>2. handlerPc'[d] = handlerPc[d]
    BY <1>3 DEF HandlerSend
  <2> QED BY <1>3, <2>1, <2>2 DEF HandlerSend
<1>4. CASE HandlerAck(c) \/ HandlerLookup(c) \/ HandlerRelay(c)
  BY <1>3, <1>4 DEF HandlerAck, HandlerLookup, HandlerRelay
<1>5. CASE HandlerDelete(c)
  BY <1>5 DEF HandlerDelete
<1>6. CASE HandlerCreate(c)
  <2>1. \A n \in 1 .. MaxCommands : <<<<d, n>>, 0>> \in Jobs
    BY SessionAssumption DEF Jobs, Commands
  <2>2. \A n \in 1 .. MaxCommands : jobPc'[<<<<d, n>>, 0>>] = jobPc[<<<<d, n>>, 0>>]
    BY <1>6, <2>1 DEF HandlerCreate, Command
  <2> QED BY <1>6, <2>2 DEF HandlerCreate
<1> QED BY <1>1, <1>2, <1>4, <1>5, <1>6 DEF Handler

\* A calm client's own steps: it sends its next command when the last one is
\* answered, takes the acknowledgement first and then the answer.
LEMMA CalmClient ==
    ASSUME TypeInv, NEW c \in Clients, c \notin slipped', ToldInv(c),
           c \notin Departed => Calm(c),
           \/ ClientStart(c) \/ (\E kind \in Kinds : ClientSend(c, kind)) \/ TimePasses(c)
           \/ Reading(c) \/ ClientDepart(c)
    PROVE  ToldInv(c)' /\ (c \notin Departed' => Calm(c)')
<1>0. /\ clientPc \in [Clients -> {"off", "prompt", "ack", "reply", "gone"}]
      /\ typed \in [Clients -> Seq(Kinds)] /\ Last(c) \in Nat
      /\ up \in [Clients -> Seq(1 .. MaxCommands)]
      /\ down \in [Clients -> Seq(Messages)]
      /\ told \in [Clients -> [1 .. MaxCommands -> Seq(Messages)]]
  BY DEF TypeInv, TypeOK, Last
<1>c. clientPc[c] # "gone" => Calm(c)
  BY DEF Departed
<1>1. CASE ClientStart(c)
  <2>1. /\ clientPc[c] = "off" /\ clientPc'[c] = "prompt"
        /\ UNCHANGED <<typed, told, up, down, handlerPc, jobPc>>
    BY <1>0, <1>1 DEF ClientStart, wireVars, threadVars
  <2>2. Last(c) = 0 /\ Last(c)' = 0 /\ Quiet(c) /\ up[c] = <<>> /\ down[c] = <<>>
    BY <1>c, <2>1 DEF Calm, Last
  <2>3. Quiet(c)'
    BY <2>1, <2>2 DEF Quiet, Started
  <2>4. ToldInv(c)'
    BY <2>1, <2>2, SessionAssumption DEF ToldInv, OwnReply
  <2> QED BY <2>1, <2>2, <2>3, <2>4 DEF Calm
<1>2. ASSUME NEW kind \in Kinds, ClientSend(c, kind)
      PROVE  ToldInv(c)' /\ Calm(c)'
  <2>1. /\ clientPc[c] = "prompt" /\ clientPc'[c] = "ack" /\ Last(c) < MaxCommands
        /\ typed'[c] = Append(typed[c], kind)
        /\ up'[c] = Append(up[c], Last(c) + 1)
        /\ UNCHANGED <<told, down, handlerPc, jobPc>>
    BY <1>0, <1>2 DEF ClientSend, threadVars
  <2>2. Last(c)' = Last(c) + 1 /\ Last(c)' \in 1 .. MaxCommands
    BY <1>0, <2>1, SessionAssumption DEF Last
  <2>3. Quiet(c) /\ up[c] = <<>> /\ down[c] = <<>>
    BY <1>c, <2>1 DEF Calm
  <2>4. Quiet(c)' /\ up'[c] = <<Last(c)'>> /\ down'[c] = <<>>
    BY <2>1, <2>2, <2>3 DEF Quiet, Started
  <2>5. Queued(c)'
    BY <2>1, <2>4 DEF Queued
  <2>6. \A n \in 1 .. MaxCommands : n < Last(c) + 1 => told[c][n] = OwnReply(c, n)
    BY <1>0, <2>1 DEF ToldInv
  <2>7. ToldInv(c)'
    BY <2>1, <2>2, <2>6 DEF ToldInv, OwnReply
  <2> QED BY <2>1, <2>2, <2>5, <2>7 DEF Calm
<1>3. CASE TimePasses(c)
  <2>1. Steady(c)
    BY <1>3 DEF TimePasses, Steady, Started, wireVars, threadVars
  <2>2. Departed' = Departed
    BY <1>3 DEF TimePasses, Departed
  <2> QED BY <2>1, <2>2, CalmFrame
<1>4. CASE waitforAck(c)
  <2>1. PICK taken \in Taken(down[c]) :
            /\ down' = [down EXCEPT ![c] = Rest(@, taken)]
            /\ IF Len(taken) > 1 \/ late[c] THEN Slip(c) ELSE UNCHANGED historyVars
    BY <1>4 DEF waitforAck
  <2>2. ~(Len(taken) > 1) /\ ~late[c]
    BY <2>1 DEF Slip
  <2>3. Len(taken) = 1
    <3>1. Len(taken) \in 1 .. Len(down[c])
      BY <1>0, TakenRest
    <3>2. Len(down[c]) \in Nat
      BY <1>0
    <3>3. ~(Len(taken) > 1)
      BY <2>2
    <3>4. \A n \in Nat : \A k \in 1 .. n : ~(k > 1) => k = 1
      OBVIOUS
    <3> QED BY <3>1, <3>2, <3>3, <3>4
  <2>4. /\ clientPc[c] = "ack" /\ clientPc'[c] = "reply"
        /\ UNCHANGED <<typed, told, up, handlerPc, handling, jobPc>>
        /\ Last(c)' = Last(c) /\ ACK(c)' = ACK(c) /\ REPLY(c)' = REPLY(c)
        /\ down'[c] = Rest(down[c], taken)
    BY <1>0, <1>4, <2>1, <2>2 DEF waitforAck, threadVars, Last, ACK, REPLY
  <2>5. ToldInv(c)'
    BY <2>4, ToldFrame
  <2>6. down[c] # <<>>
    BY TakenShort
  <2>7. Last(c) \in 1 .. MaxCommands /\ (AtHandler(c) \/ AtThread(c) \/ Done(c))
    BY <1>c, <2>4, <2>6 DEF Calm, Queued, Received
  <2>8. Acknowledged(c) => down'[c] = <<>>
    BY <2>4, TakenShort DEF Acknowledged
  <2>9. Answered(c) => down'[c] = <<REPLY(c)>>
    BY <2>3, <2>4, TakenShort DEF Answered
  <2>10. /\ Acknowledged(c) => Acknowledged(c)'
         /\ Answered(c) => Answered(c)'
    BY <2>4, <2>8, <2>9 DEF Acknowledged, Answered
  <2>11. (AtHandler(c) => AtHandler(c)') /\ (AtThread(c) => AtThread(c)')
    BY <2>4, <2>10 DEF AtHandler, AtThread, Started
  <2>12. Done(c) => Done(c)'
    BY <2>4, <2>10 DEF Done, Quiet, Started
  <2> QED BY <2>4, <2>5, <2>7, <2>11, <2>12 DEF Calm
<1>5. CASE ClientReply(c)
  <2>1. PICK taken \in Taken(down[c]) :
            /\ down' = [down EXCEPT ![c] = Rest(@, taken)]
            /\ told' = [told EXCEPT ![c][Last(c)] = taken]
    BY <1>5 DEF ClientReply
  <2>2. /\ clientPc[c] = "reply" /\ clientPc'[c] = "prompt"
        /\ UNCHANGED <<typed, up, handlerPc, jobPc>>
        /\ Last(c)' = Last(c)
        /\ down'[c] = Rest(down[c], taken)
    BY <1>0, <1>5, <2>1 DEF ClientReply, threadVars, Last
  <2>3. down[c] # <<>>
    BY TakenShort
  <2>4. Last(c) \in 1 .. MaxCommands /\ Done(c)
    BY <1>c, <2>2, <2>3 DEF Calm, Queued, Received, AtHandler, AtThread, Acknowledged
  <2>5. down[c] = <<REPLY(c)>>
    BY <2>2, <2>4 DEF Done, Answered
  <2>6. taken = <<REPLY(c)>> /\ down'[c] = <<>>
    BY <2>2, <2>5, TakenShort
  <2>7. /\ told'[c][Last(c)] = OwnReply(c, Last(c))
        /\ \A n \in 1 .. MaxCommands : n # Last(c) => told'[c][n] = told[c][n]
    BY <1>0, <2>1, <2>4, <2>6 DEF OwnReply, REPLY
  <2>8. ToldInv(c)'
    <3> SUFFICES ASSUME NEW n \in 1 .. MaxCommands
                 PROVE  /\ told'[c][n] \in {<<>>, OwnReply(c, n)}
                        /\ n < Last(c) \/ n = Last(c) => told'[c][n] = OwnReply(c, n)
      BY <2>2 DEF ToldInv, OwnReply
    <3>1. CASE n = Last(c)
      BY <2>7, <3>1
    <3>2. CASE n # Last(c)
      BY <2>2, <2>7, <3>2 DEF ToldInv
    <3> QED BY <3>1, <3>2
  <2>9. Quiet(c)' /\ up'[c] = <<>>
    BY <2>2, <2>4 DEF Done, Quiet, Started
  <2> QED BY <2>2, <2>6, <2>8, <2>9 DEF Calm
<1>6. CASE ClientEndOfStream(c)
  BY <1>6 DEF ClientEndOfStream, Slip
<1>7. CASE ClientDepart(c)
  <2>1. clientPc[c] # "gone" /\ clientPc'[c] = "gone" /\ typed'[c] = typed[c] /\ told'[c] = told[c]
    BY <1>0, <1>7 DEF ClientDepart
  <2>2. c \in Departed'
    BY <2>1 DEF Departed
  <2> QED BY <2>1, <2>2, ToldFrame
<1> QED BY <1>1, <1>2, <1>3, <1>4, <1>5, <1>6, <1>7 DEF Reading

\* A calm client's handler: it takes one command, acknowledges it, and answers it
\* or passes it on.
LEMMA CalmHandler ==
    ASSUME TypeInv, FdInv, NEW c \in Clients, c \notin slipped', ToldInv(c), Handler(c),
           c \notin Departed => Calm(c)
    PROVE  ToldInv(c)' /\ (c \notin Departed' => Calm(c)')
<1>0. /\ up \in [Clients -> Seq(1 .. MaxCommands)]
      /\ down \in [Clients -> Seq(Messages)]
      /\ handlerPc \in [Clients -> HandlerStates]
      /\ jobPc \in [Jobs -> {"none", "started", "asked", "ended"}]
      /\ DOMAIN handling = Clients
  BY DEF TypeInv, TypeOK
<1>1. clientPc' = clientPc /\ typed' = typed /\ told' = told
  BY DEF Handler, HandlerRecv, HandlerClose, HandlerAck, HandlerLookup, HandlerKnown,
         HandlerDelete, HandlerRelay, HandlerRefresh, HandlerCreate, HandlerSend, clientVars
<1>2. ToldInv(c)' /\ Departed' = Departed
  BY <1>1, ToldFrame DEF Departed
<1> SUFFICES ASSUME c \notin Departed PROVE Calm(c)'
  BY <1>2
<1>3. /\ Calm(c) /\ line[c] = "open"
      /\ Last(c)' = Last(c) /\ ACK(c)' = ACK(c) /\ REPLY(c)' = REPLY(c)
  BY <1>1 DEF FdInv, Last, ACK, REPLY
<1>4. ASSUME NEW what, NEW next, HandlerSend(c, what, next)
      PROVE  /\ down'[c] = Append(down[c], [what |-> what, of |-> Command(c)])
             /\ handlerPc'[c] = next
             /\ UNCHANGED <<up, handling, jobPc>>
  BY <1>0, <1>3, <1>4 DEF HandlerSend, SendOk, SendFails, SendKills, Goto
<1>5. CASE HandlerRecv(c)
  <2>1. PICK taken \in Taken(up[c]) :
           /\ up' = [up EXCEPT ![c] = Rest(@, taken)]
           /\ handling' = [handling EXCEPT ![c] =
                              [number |-> taken[1], kind |-> KindTaken(c, taken)]]
    BY <1>5 DEF HandlerRecv
  <2>2. up[c] # <<>>
    BY TakenShort
  <2>3. /\ handlerPc[c] = "recv" /\ handlerPc'[c] = "received"
        /\ UNCHANGED <<down, jobPc>>
        /\ up'[c] = Rest(up[c], taken) /\ handling'[c].number = taken[1]
    BY <1>0, <1>5, <2>1 DEF HandlerRecv, Goto
  <2>4. clientPc[c] \in {"ack", "reply"} /\ Last(c) \in 1 .. MaxCommands /\ Queued(c)
    <3>1. clientPc[c] \in {"off", "prompt", "ack", "reply"}
      BY DEF TypeInv, TypeOK, Departed
    <3> QED BY <1>3, <2>2, <3>1 DEF Calm, Received, AtHandler, AtThread, Done
  <2>5. taken = <<Last(c)>> /\ up'[c] = <<>>
    BY <2>3, <2>4, TakenShort DEF Queued
  <2>6. Received(c)'
    BY <1>1, <1>3, <2>3, <2>4, <2>5 DEF Received, Queued, Quiet, Started
  <2> QED BY <1>1, <1>3, <2>4, <2>6 DEF Calm, Queued
<1>6. CASE HandlerClose(c) \/ HandlerRefresh(c)
  <2>1. handlerPc[c] \notin Busy /\ handlerPc'[c] \notin Busy
    BY <1>0, <1>6 DEF HandlerClose, HandlerRefresh, Goto, Busy
  <2>2. Steady(c)
    BY <1>1, <1>6, <2>1 DEF HandlerClose, HandlerRefresh, Steady, Started, wireVars
  <2> QED BY <1>3, <2>2, CalmFrame
<1>7. CASE HandlerAck(c)
  <2>1. handlerPc[c] = "received" /\ HandlerSend(c, "ACK", "dispatch")
    BY <1>7 DEF HandlerAck
  <2>2. clientPc[c] = "ack" /\ Last(c) \in 1 .. MaxCommands /\ Received(c)
    <3>1. clientPc[c] \in {"off", "prompt", "ack", "reply"}
      BY DEF TypeInv, TypeOK, Departed
    <3> QED BY <1>3, <2>1, <3>1 DEF Calm, Queued, Received, AtHandler, AtThread, Done, Quiet, Busy
  <2>3. /\ down'[c] = Append(down[c], [what |-> "ACK", of |-> Command(c)])
        /\ handlerPc'[c] = "dispatch" /\ UNCHANGED <<up, handling, jobPc>>
    BY <1>4, <2>1
  <2>4. down'[c] = <<ACK(c)>>
    BY <2>2, <2>3 DEF Received, Command, ACK
  <2>5. AtHandler(c)'
    BY <1>1, <1>3, <2>2, <2>3, <2>4 DEF AtHandler, Acknowledged, Received, Started
  <2> QED BY <1>1, <1>3, <2>2, <2>5 DEF Calm
<1>8. ASSUME handlerPc[c] \in {"dispatch", "asked"}
      PROVE  clientPc[c] \in {"ack", "reply"} /\ Last(c) \in 1 .. MaxCommands /\ AtHandler(c)
  <2>1. clientPc[c] \in {"off", "prompt", "ack", "reply"}
    BY DEF TypeInv, TypeOK, Departed
  <2> QED BY <1>3, <1>8, <2>1 DEF Calm, Queued, Received, AtThread, Done, Quiet, Busy
<1>9. CASE HandlerLookup(c) \/ HandlerRelay(c)
  <2>1. PICK next \in {"recv", "refresh"} : HandlerSend(c, "reply", next)
    BY <1>9 DEF HandlerLookup, HandlerRelay
  <2>2. handlerPc[c] \in {"dispatch", "asked"}
    BY <1>9 DEF HandlerLookup, HandlerRelay
  <2>3. /\ down'[c] = Append(down[c], [what |-> "reply", of |-> Command(c)])
        /\ handlerPc'[c] \notin Busy /\ UNCHANGED <<up, handling, jobPc>>
    BY <1>4, <2>1 DEF Busy
  <2>4. Answered(c)'
    <3>1. [what |-> "reply", of |-> Command(c)] = REPLY(c) /\ Acknowledged(c)
      BY <1>8, <2>2 DEF AtHandler, Command, REPLY
    <3>2. CASE clientPc[c] = "ack"
      <4>1. down'[c] = Append(<<ACK(c)>>, REPLY(c))
        BY <2>3, <3>1, <3>2 DEF Acknowledged
      <4>3. down'[c] = <<ACK(c), REPLY(c)>>
        BY <4>1, AppendTwo
      <4> QED BY <1>1, <1>3, <3>2, <4>3 DEF Answered
    <3>3. CASE clientPc[c] # "ack"
      <4>1. down'[c] = Append(<<>>, REPLY(c))
        BY <2>3, <3>1, <3>3 DEF Acknowledged
      <4> QED BY <1>1, <1>3, <3>3, <4>1 DEF Answered
    <3> QED BY <3>2, <3>3
  <2>5. Done(c)'
    BY <1>8, <2>2, <2>3, <2>4 DEF Done, AtHandler, Quiet, Started
  <2> QED BY <1>1, <1>3, <1>8, <2>2, <2>5 DEF Calm
<1>10. CASE HandlerKnown(c) \/ HandlerDelete(c)
  <2>1. /\ handlerPc[c] = "dispatch" /\ handlerPc'[c] \in {"recv", "asked", "ended"}
        /\ UNCHANGED <<up, down, handling, jobPc>>
    BY <1>0, <1>10 DEF HandlerKnown, HandlerDelete, Goto, wireVars
  <2>2. AtHandler(c) /\ Acknowledged(c)'
    BY <1>1, <1>3, <1>8, <2>1 DEF AtHandler, Acknowledged
  <2>3. AtHandler(c)' \/ AtThread(c)'
    BY <1>3, <2>1, <2>2 DEF AtHandler, AtThread, Started, Busy
  <2> QED BY <1>1, <1>3, <1>8, <2>1, <2>3 DEF Calm
<1>11. CASE HandlerCreate(c)
  <2>1. /\ handlerPc[c] = "dispatch" /\ handlerPc'[c] = "recv"
        /\ UNCHANGED <<up, down, handling>>
        /\ jobPc' = [j \in Jobs |-> IF j[1] = Command(c) THEN "started" ELSE jobPc[j]]
    BY <1>0, <1>11 DEF HandlerCreate, Goto, wireVars
  <2>2. AtHandler(c) /\ Acknowledged(c)'
    BY <1>1, <1>3, <1>8, <2>1 DEF AtHandler, Acknowledged
  <2>3. ASSUME NEW n \in 1 .. MaxCommands, n # Last(c) PROVE ~Started(c, n)'
    <3>1. <<<<c, n>>, 0>> \in Jobs /\ <<c, n>> # Command(c)
      BY <2>2, <2>3, SessionAssumption DEF Jobs, Commands, Command, AtHandler
    <3>2. jobPc'[<<<<c, n>>, 0>>] = jobPc[<<<<c, n>>, 0>>]
      BY <2>1, <3>1
    <3> QED BY <2>2, <3>2 DEF AtHandler, Started
  <2>4. AtThread(c)'
    BY <1>3, <2>1, <2>2, <2>3 DEF AtHandler, AtThread, Busy
  <2> QED BY <1>1, <1>3, <1>8, <2>1, <2>4 DEF Calm
<1> QED BY <1>5, <1>6, <1>7, <1>9, <1>10, <1>11 DEF Handler

\* A thread of a CREATE answers the one command its client waits for; who gets the
\* reply of another client's thread has slipped.
LEMMA CalmJob ==
    ASSUME TypeInv, FdInv, CopiesInv, NEW c \in Clients, c \notin slipped', ToldInv(c),
           c \notin Departed => Calm(c),
           NEW j \in Jobs, Job(j)
    PROVE  ToldInv(c)' /\ (c \notin Departed' => Calm(c)')
<1> DEFINE d == j[1][1]
           n == j[1][2]
           owner == files[fdOf[d]]
           message == [what |-> "reply", of |-> j[1]]
<1>0. /\ down \in [Clients -> Seq(Messages)]
      /\ jobPc \in [Jobs -> {"none", "started", "asked", "ended"}]
      /\ fdOf \in [Clients -> Fds \cup {0}]
      /\ d \in Clients /\ n \in 1 .. MaxCommands /\ j[1] = <<d, n>>
      /\ \A k \in 1 .. MaxCommands : <<<<c, k>>, 0>> \in Jobs
  BY SessionAssumption DEF TypeInv, TypeOK, Jobs, Commands
<1>1. UNCHANGED <<clientPc, typed, told, handlerPc, handling>>
  BY DEF Job, JobAsk, JobReply, clientVars
<1>2. ToldInv(c)' /\ Departed' = Departed
  BY <1>1, ToldFrame DEF Departed
<1> SUFFICES ASSUME c \notin Departed PROVE Calm(c)'
  BY <1>2
<1>3. \A k \in 1 .. MaxCommands : Started(c, k)' => Started(c, k)
  BY <1>0 DEF Job, JobAsk, JobReply, JobGoto, Started
<1>4. Calm(c) /\ line[c] = "open"
  BY DEF FdInv
<1>5. ASSUME up' = up, down'[c] = down[c] PROVE Calm(c)'
  <2>1. Steady(c)
    BY <1>1, <1>3, <1>5 DEF Steady
  <2> QED BY <1>4, <2>1, CalmFrame
<1>6. CASE JobAsk(j)
  BY <1>5, <1>6 DEF JobAsk, wireVars
<1>7. CASE JobReply(j)
  <2>1. /\ jobPc[j] = "asked" /\ jobPc' = [jobPc EXCEPT ![j] = "ended"]
        /\ fdOf[d] # 0 /\ j[2] = 0
    BY <1>0, <1>7 DEF JobReply, JobGoto, FdInv, CopiesInv
  <2>2. owner # d => d \in Departed
    BY <1>0, <2>1 DEF FdInv
  <2>3. CASE owner \notin Clients
    BY <1>5, <1>7, <2>3 DEF JobReply, wireVars
  <2>4. CASE owner \in Clients /\ owner # c
    <3>1. SendOk(owner, message) \/ SendFails(owner) \/ SendKills(owner)
      BY <1>7, <2>4 DEF JobReply
    <3>2. up' = up /\ down'[c] = down[c]
      BY <1>0, <2>4, <3>1 DEF SendOk, SendFails, SendKills
    <3> QED BY <1>5, <3>2
  <2>5. CASE owner = c
    <3>1. SendOk(c, message) /\ c = d
      BY <1>4, <1>7, <2>5 DEF JobReply, SendFails, SendKills, Slip
    <3>2. down'[c] = Append(down[c], message) /\ up' = up
      BY <1>0, <1>4, <3>1 DEF SendOk
    <3>3. j = <<<<c, n>>, 0>>
      BY <1>0, <2>1, <3>1 DEF Jobs, Commands
    <3>4. Started(c, n)
      BY <2>1, <3>3 DEF Started
    <3>5. clientPc[c] \in {"ack", "reply"} /\ Last(c) \in 1 .. MaxCommands
      <4>1. clientPc[c] \in {"off", "prompt", "ack", "reply"}
        BY DEF TypeInv, TypeOK, Departed
      <4> QED BY <1>0, <1>4, <3>4, <4>1 DEF Calm, Quiet
    <3>6. AtThread(c) /\ n = Last(c)
      BY <1>0, <1>4, <3>4, <3>5 DEF Calm, Queued, Received, AtHandler, AtThread, Done, Quiet
    <3>7. message = REPLY(c) /\ Last(c)' = Last(c) /\ ACK(c)' = ACK(c) /\ REPLY(c)' = REPLY(c)
      BY <1>0, <1>1, <3>1, <3>6 DEF REPLY, ACK, Last
    <3> HIDE DEF message
    <3>8. Answered(c)'
      <4>1. CASE clientPc[c] = "ack"
        <5>1. down'[c] = Append(<<ACK(c)>>, REPLY(c))
          BY <3>2, <3>6, <3>7, <4>1 DEF AtThread, Acknowledged
        <5>2. down'[c] = <<ACK(c), REPLY(c)>>
          BY <5>1, AppendTwo
        <5> QED BY <1>1, <3>7, <4>1, <5>2 DEF Answered
      <4>2. CASE clientPc[c] # "ack"
        <5>1. down'[c] = Append(<<>>, REPLY(c))
          BY <3>2, <3>6, <3>7, <4>2 DEF AtThread, Acknowledged
        <5> QED BY <1>1, <3>7, <4>2, <5>1 DEF Answered
      <4> QED BY <4>1, <4>2
    <3>9. jobPc'[<<<<c, Last(c)>>, 0>>] = "ended"
      BY <1>0, <2>1, <3>3, <3>6
    <3>10. \A k \in 1 .. MaxCommands : ~Started(c, k)'
      BY <1>3, <3>6, <3>9 DEF AtThread, Started
    <3>11. Done(c)'
      BY <1>1, <3>2, <3>6, <3>8, <3>10 DEF Done, Quiet, AtThread
    <3> QED BY <1>1, <3>5, <3>7, <3>11 DEF Calm
  <2> QED BY <2>3, <2>4, <2>5
<1> QED BY <1>6, <1>7 DEF Job

\* A client whose messages have come apart stays so.
LEMMA SlippedStays ==
    ASSUME Next
    PROVE  slipped \subseteq slipped'
<1>1. ASSUME NEW c \in Clients,
             \/ ClientStart(c) \/ (\E kind \in Kinds : ClientSend(c, kind)) \/ TimePasses(c)
             \/ Reading(c) \/ ClientDepart(c)
      PROVE  slipped \subseteq slipped'
  BY <1>1 DEF ClientStart, ClientSend, TimePasses, Reading, waitforAck, ClientReply,
              ClientEndOfStream, ClientDepart, Slip, historyVars
<1>2. ASSUME NEW c \in Clients, Handler(c) PROVE slipped \subseteq slipped'
  BY <1>2 DEF Handler, HandlerRecv, HandlerClose, HandlerAck, HandlerLookup, HandlerKnown,
              HandlerDelete, HandlerRelay, HandlerRefresh, HandlerCreate, HandlerSend,
              Slip, Starve, historyVars
<1>3. ASSUME NEW j \in Jobs, Job(j) PROVE slipped \subseteq slipped'
  BY <1>3 DEF Job, JobAsk, JobReply, Slip, Starve, historyVars
<1>4. ASSUME Accept PROVE slipped \subseteq slipped'
  BY <1>4 DEF Accept, historyVars
<1> QED BY <1>1, <1>2, <1>3, <1>4 DEF Next

\* While nothing slips, a client's one command is in one place.
LEMMA CalmStep ==
    ASSUME SessionInv, Next
    PROVE  CalmInv'
<1> SUFFICES ASSUME NEW c \in Clients, c \notin slipped'
             PROVE  ToldInv(c)' /\ (c \notin Departed' => Calm(c)')
  BY DEF CalmInv
<1>1. ToldInv(c) /\ (c \notin Departed => Calm(c))
  BY SlippedStays DEF SessionInv, CalmInv
<1>2. TypeInv /\ BacklogInv /\ FdInv /\ CopiesInv
  BY DEF SessionInv, OwnerInv
<1>3. ASSUME Steady(c) PROVE ToldInv(c)' /\ (c \notin Departed' => Calm(c)')
  <2>1. c \notin Departed' => c \notin Departed
    BY <1>2, ClientsMove
  <2> QED BY <1>1, <1>3, <2>1, CalmFrame
<1>4. ASSUME NEW d \in Clients,
             \/ ClientStart(d) \/ (\E kind \in Kinds : ClientSend(d, kind)) \/ TimePasses(d)
             \/ Reading(d) \/ ClientDepart(d)
      PROVE  ToldInv(c)' /\ (c \notin Departed' => Calm(c)')
  <2>1. CASE d = c
    BY <1>1, <1>2, <1>4, <2>1, CalmClient
  <2>2. CASE d # c
    BY <1>2, <1>3, <1>4, <2>2, ClientSteady
  <2> QED BY <2>1, <2>2
<1>5. ASSUME NEW d \in Clients, Handler(d)
      PROVE  ToldInv(c)' /\ (c \notin Departed' => Calm(c)')
  <2>1. CASE d = c
    BY <1>1, <1>2, <1>5, <2>1, CalmHandler
  <2>2. CASE d # c
    BY <1>2, <1>3, <1>5, <2>2, HandlerSteady
  <2> QED BY <2>1, <2>2
<1>6. CASE Accept
  <2>1. backlog \in Seq(Clients) /\ backlog # <<>>
    BY <1>2, <1>6 DEF Accept, TypeInv, TypeOK
  <2>2. Head(backlog) = backlog[1] /\ 1 \in 1 .. Len(backlog) /\ Head(backlog) \in Clients
    BY <2>1
  <2>3. handlerPc[Head(backlog)] \notin Busy
    BY <1>2, <2>2 DEF BacklogInv, FdInv, Busy, Serving, HandlerStates
  <2>4. Steady(c)
    BY <1>2, <1>6, <2>2, <2>3
       DEF Accept, Steady, Started, Busy, TypeInv, TypeOK, clientVars, wireVars
  <2> QED BY <1>3, <2>4
<1>7. ASSUME NEW j \in Jobs, Job(j)
      PROVE  ToldInv(c)' /\ (c \notin Departed' => Calm(c)')
  BY <1>1, <1>2, <1>7, CalmJob
<1> QED BY <1>4, <1>5, <1>6, <1>7 DEF Next

----------------------------------------------------------------------------
(* Theorems *)

\* The invariant is inductive.
LEMMA SessionInvStep ==
    ASSUME SessionInv, [Next]_vars
    PROVE  SessionInv'
<1>1. CASE Next
  BY <1>1, TypeStep, BacklogStep, FdStep, StraysStep, CopiesStep, CalmStep
     DEF SessionInv, OwnerInv
<1>2. CASE UNCHANGED vars
  <2>1. UNCHANGED <<clientPc, typed, late, told, up, down, line, alive, backlog, fdOf, files,
                    handlerPc, handling, jobPc, slipped, starved>>
    BY <1>2 DEF vars, clientVars, wireVars, fdVars, threadVars, historyVars
  <2>2. TypeInv'
    BY <2>1 DEF SessionInv, TypeInv, TypeOK, Last
  <2>3. OwnerInv'
    BY <2>1 DEF SessionInv, OwnerInv, BacklogInv, FdInv, WireInv, Departed,
                HandlersKeepTheirDescriptors, StraysComeFromTheDeparted
  <2>4. CopiesInv'
    BY <2>1 DEF SessionInv, CopiesInv
  <2>5. Departed' = Departed /\ \A c \in Clients : Steady(c)
    BY <2>1 DEF Departed, Steady, Started
  <2>6. CalmInv'
    BY <2>1, <2>5, CalmFrame DEF SessionInv, CalmInv
  <2> QED BY <2>2, <2>3, <2>4, <2>6 DEF SessionInv
<1> QED BY <1>1, <1>2

\* The sessions keep their inductive invariant, whatever the interleaving of
\* clients, accept loop, handlers and asynchronous threads.
THEOREM SessionInvCorrect == Spec => []SessionInv
<1>1. Init => SessionInv
  BY SessionInvInit
<1>2. SessionInv /\ [Next]_vars => SessionInv'
  BY SessionInvStep
<1> QED BY <1>1, <1>2, PTL DEF Spec

\* The type invariant of the sessions.
THEOREM TypeCorrect == Spec => []TypeOK
<1>1. SessionInv => TypeOK
  BY DEF SessionInv, TypeInv
<1> QED BY <1>1, SessionInvCorrect, PTL

\* A serving handler owns its descriptor: accept, close and the sockets that
\* CREATE and DELETE leave open never hand its number to anybody else.
THEOREM DescriptorsKept == Spec => []HandlersKeepTheirDescriptors
<1>1. SessionInv => HandlersKeepTheirDescriptors
  BY DEF SessionInv, OwnerInv
<1> QED BY <1>1, SessionInvCorrect, PTL

\* A reply that reaches the wrong client is one of send_request_async, for a
\* client that has left.
THEOREM StraysFromTheDeparted == Spec => []StraysComeFromTheDeparted
<1>1. SessionInv => StraysComeFromTheDeparted
  BY DEF SessionInv, OwnerInv
<1> QED BY <1>1, SessionInvCorrect, PTL

\* A client back at its prompt has read the reply to each of its commands, unless
\* its messages have come apart.
THEOREM AnswersMatch == Spec => []AnswersMatchCommands
<1>1. ASSUME SessionInv, NEW c \in Clients, c \notin slipped
      PROVE  /\ \A n \in 1 .. MaxCommands : told[c][n] \in {<<>>, OwnReply(c, n)}
             /\ clientPc[c] = "prompt" =>
                   down[c] = <<>> /\ \A n \in 1 .. Last(c) : told[c][n] = OwnReply(c, n)
  <2>1. ToldInv(c) /\ (c \notin Departed => Calm(c))
    BY <1>1 DEF SessionInv, CalmInv
  <2>2. Last(c) \in Nat /\ Last(c) <= MaxCommands /\ MaxCommands \in Nat
    BY <1>1, SessionAssumption DEF SessionInv, TypeInv, TypeOK, Last
  <2>3. ASSUME clientPc[c] = "prompt", NEW n \in 1 .. Last(c) PROVE told[c][n] = OwnReply(c, n)
    BY <2>1, <2>2, <2>3 DEF ToldInv
  <2>4. clientPc[c] = "prompt" => down[c] = <<>>
    BY <2>1 DEF Calm, Departed
  <2> QED BY <2>1, <2>3, <2>4 DEF ToldInv
<1>2. SessionInv => AnswersMatchCommands
  BY <1>1 DEF AnswersMatchCommands
<1> QED BY <1>2, SessionInvCorrect, PTL

============================================================================
