----------------------------- MODULE Catalogue -----------------------------
(***************************************************************************)
(* What the naming server promises those who use it, without its threads:  *)
(* a catalogue of which server has which path, and one justified answer to *)
(* each command.  A client is sent to a server only if the catalogue has   *)
(* the path there, a creation is confirmed only when the path is stored    *)
(* and catalogued, it fails only after a fault, and nothing is stored that *)
(* nobody asked for.  The catalogue only grows, until two additions to it  *)
(* overlap; from then on it is loose, and what it says is merely true.     *)
(***************************************************************************)
EXTENDS Naturals, Sequences

CONSTANTS Clients, Commands, Servers, Backup, NULL

VARIABLES
    requests,   \* the commands each client has sent
    answers,    \* how many of them were answered
    routed,     \* the server each client was last sent to
    acked,      \* the creations that were confirmed: path and server
    entries,    \* the catalogue: path and server
    stored,     \* what was ever stored or reported: path and server
    loose,      \* additions to the catalogue have overlapped
    faulty      \* a fault has happened

catVars == <<requests, answers, routed, acked, entries, stored, loose, faulty>>

Last(c) == requests[c][Len(requests[c])]
Known(p) == \E s \in Servers : <<p, s>> \in entries

\* Some client has asked for p to be stored, directly or as a backup.
Wanted(p) ==
    \E c \in Clients : \E n \in 1 .. Len(requests[c]) :
        LET cmd == requests[c][n] IN
        \/ cmd.op \in {"WRITE", "CREATE"} /\ p = cmd.path
        \/ cmd.op = "CREATE" /\ \E k \in {1, 2} : p = Backup[k][cmd.path]

Init ==
    /\ requests = [c \in Clients |-> <<>>]
    /\ answers = [c \in Clients |-> 0]
    /\ routed = [c \in Clients |-> NULL]
    /\ acked = {}
    /\ entries \subseteq stored
    /\ ~loose
    /\ ~faulty

----------------------------------------------------------------------------
(* Commands and their answers *)

Ask(c, cmd) ==
    /\ answers[c] = Len(requests[c])
    /\ requests' = [requests EXCEPT ![c] = Append(@, cmd)]
    /\ UNCHANGED <<answers, routed, acked, entries, stored, loose, faulty>>

Answer(c) ==
    /\ answers[c] + 1 = Len(requests[c])
    /\ answers' = [answers EXCEPT ![c] = @ + 1]
    /\ UNCHANGED <<requests, entries, stored, loose, faulty>>

Route(c, s) ==
    /\ Last(c).op \in {"READ", "WRITE", "GETSIZE"}
    /\ <<Last(c).path, s>> \in entries
    /\ routed' = [routed EXCEPT ![c] = s]
    /\ UNCHANGED acked

Miss(c) ==
    /\ Last(c).op \in {"READ", "WRITE", "GETSIZE", "DELETE"}
    /\ ~Known(Last(c).path)
    /\ UNCHANGED <<routed, acked>>

\* The answer may be spoilt on its way, so that it confirms nothing.
Confirm(c, s) ==
    /\ Last(c).op = "CREATE"
    /\ <<Last(c).path, s>> \in stored
    /\ loose \/ <<Last(c).path, s>> \in entries
    /\ acked' \in {acked, acked \cup {<<Last(c).path, s>>}}
    /\ UNCHANGED routed

Fail(c) ==
    /\ Last(c).op = "CREATE" /\ faulty
    /\ UNCHANGED <<routed, acked>>

Relay(c) ==
    /\ Last(c).op = "DELETE"
    /\ loose \/ Known(Last(c).path)
    /\ UNCHANGED <<routed, acked>>

List(c) ==
    /\ Last(c).op = "LISTALL"
    /\ UNCHANGED <<routed, acked>>

\* An answer for one of these reasons.
Reply(c) ==
    /\ Answer(c)
    /\ \/ \E s \in Servers : Route(c, s) \/ Confirm(c, s)
       \/ Miss(c) \/ Fail(c) \/ Relay(c) \/ List(c)

----------------------------------------------------------------------------
(* What the servers hold and what is known of it *)

Store ==
    /\ \E ps \in stored' \ stored :
           Wanted(ps[1]) /\ stored' = stored \cup {ps}
    /\ UNCHANGED <<requests, answers, routed, acked, entries, loose, faulty>>

Enter ==
    /\ ~loose
    /\ \E ps \in entries' \ entries :
           (faulty \/ ps \in stored) /\ entries' = entries \cup {ps}
    /\ UNCHANGED <<requests, answers, routed, acked, stored, loose, faulty>>

\* Additions have overlapped: entries may be missing, now or later.
Loosen ==
    /\ loose'
    /\ UNCHANGED <<requests, answers, routed, acked, stored, faulty>>
    /\ faulty \/ entries' \subseteq stored

Fault ==
    /\ faulty'
    /\ UNCHANGED <<requests, answers, routed, acked, entries, stored, loose>>

Next ==
    \/ \E c \in Clients :
           \/ \E cmd \in Commands : Ask(c, cmd)
           \/ Reply(c)
    \/ Store \/ Enter \/ Loosen \/ Fault

Spec == Init /\ [][Next]_catVars

============================================================================
