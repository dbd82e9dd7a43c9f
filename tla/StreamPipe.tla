----------------------------- MODULE StreamPipe -----------------------------
(***************************************************************************)
(* What a stream socket promises its reader, whatever mailboxes, lastdata  *)
(* and flags are between: the bytes handed over come out once, in order,   *)
(* and the end of file is reported after the last of them.                 *)
(***************************************************************************)
EXTENDS Naturals, Sequences

VARIABLES
  put,     \* bytes handed over so far
  finput,  \* the end of the stream was handed over
  taken,   \* the bytes the reader got
  eof      \* the reader was told of the end

pipe == <<put, finput, taken, eof>>

Init == put = 0 /\ ~finput /\ taken = <<>> /\ ~eof

\* More bytes, or the end, are handed over.
Put ==
  /\ ~finput
  /\ put' \in Nat /\ put' >= put /\ finput' \in BOOLEAN
  /\ UNCHANGED <<taken, eof>>

\* The reader gets the next bytes.
Take ==
  /\ Len(taken) < put
  /\ \E n \in 1 .. put - Len(taken) :
       taken' = taken \o [i \in 1 .. n |-> Len(taken) + i]
  /\ UNCHANGED <<put, finput, eof>>

\* The reader is told of the end when it has every byte.
Eof ==
  /\ finput /\ Len(taken) = put
  /\ eof' = TRUE
  /\ UNCHANGED <<put, finput, taken>>

\* The stream is closed; its place may serve another one.
Reset == put' = 0 /\ ~finput' /\ taken' = <<>> /\ ~eof'

Next == Put \/ Take \/ Eof \/ Reset

Spec == Init /\ [][Next]_pipe
=============================================================================
