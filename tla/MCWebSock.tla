----------------------------- MODULE MCWebSock -----------------------------
(* WebSock with the frames of each run.                                    *)
EXTENDS WebSock

Message(op, len) == [op |-> op, len |-> len, fin |-> TRUE]

(* Requests the peer waits for, and an empty message, after which it waits *)
(* too: the server frees what is behind an empty frame in its buffer.      *)
EchoPatient ==
  {Message("text", 2), Message("wsping", 1), Message("pong", 1), Message("binary", 0)}

(* Messages in one frame each, and frames that are out of place.           *)
EchoFrames ==
  EchoPatient \cup
  {Message("binary", 3), Message("ping", 0), Message("ping", 1), Message("close", 0),
   Message("close", 2), Message("away", 2), Message("bad", 0), Message("continue", 1)}

(* Commands of a page that does not wait for the answers.                  *)
PageFrames == {Message("text", 1), Message("text", 2)}
==============================================================================
