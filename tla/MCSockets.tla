----------------------------- MODULE MCSockets -----------------------------
(* Sockets for model checking: the arguments an application passes.        *)
EXTENDS Sockets

OneThread == {1}
Both == BOOLEAN
Blocks == {FALSE}
Waits ==
  { [kinds |-> {"read"}, poll |-> FALSE, timeout |-> FALSE],
    [kinds |-> {"read", "write"}, poll |-> TRUE, timeout |-> TRUE] }
Lens == {1, 3}
PbufAndHalf == {3}
NotTxAlone == {{"RD"}, {"RD", "WR"}}
AllHows == {{"RD"}, {"WR"}, {"RD", "WR"}}
=============================================================================
