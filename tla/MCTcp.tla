------------------------------- MODULE MCTcp --------------------------------
(***************************************************************************)
(* Values for TLC.  The sequence numbers of A start three bytes before the *)
(* wrap of a 64-number space; a segment holds two bytes.                   *)
(***************************************************************************)
EXTENDS TcpConn

NoFails    == {{}}
AllocFails == {{}, {"seg"}}
AnyFail    == {{}, {"seg"}, {"ctl"}, {"ip"}, {"ip2"}, {"busy"}}

DataTimers    == {{"rto"}, {"ooseq"}}
PersistTimers == {{"rto"}, {"persist"}}
CloseTimers   == {{"rto"}, {"tmr", "keepdead", "poll"}}
OoseqTimers   == {{"ooseq"}, {"keep"}}
LiveTimers    == {{"rto"}, {"persist"}, {"tmr"}}
=============================================================================
