----------------------------- MODULE MCSession -----------------------------
(* Instances of Session: clients that start, type and leave in any order.    *)
EXTENDS Session, TLC

CONSTANTS c1, c2

TwoClients == {c1, c2}
AllKinds == {"lookup", "delete", "create", "known"}
OriginalAndCopy == {0, 1}
============================================================================
