------------------------------- MODULE Roster -------------------------------
(***************************************************************************)
(* What registration promises: servers join an ordered roster one at a     *)
(* time and never leave it or move in it; a server is turned away only     *)
(* when the roster is full.                                                *)
(***************************************************************************)
EXTENDS Naturals, Sequences

CONSTANTS Servers, Capacity, First

VARIABLES
    roster,   \* the admitted servers, in the order of their slots
    refused   \* the servers that were turned away

Members == {roster[i] : i \in 1 .. Len(roster)}

Init == roster = First /\ refused = {}

Admit(s) ==
    /\ s \notin Members \cup refused
    /\ Len(roster) < Capacity
    /\ roster' = Append(roster, s)
    /\ UNCHANGED refused

Refuse(s) ==
    /\ s \notin Members \cup refused
    /\ Len(roster) = Capacity
    /\ refused' = refused \cup {s}
    /\ UNCHANGED roster

Next == \E s \in Servers : Admit(s) \/ Refuse(s)

Spec == Init /\ [][Next]_<<roster, refused>>

============================================================================
