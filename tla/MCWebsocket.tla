---------------------------- MODULE MCWebsocket ----------------------------
(***************************************************************************)
(* A websocket for TLC: a peer that sends up to two frames of every kind,  *)
(* and a user who sends a message and a close frame, answers from inside   *)
(* the message handler or from another thread, and lets go at any time.    *)
(***************************************************************************)
EXTENDS WsConnection

Whole(kind) == [kind |-> kind, cut |-> "whole"]
Late(kind) == [kind |-> kind, cut |-> "late"]

MCReads ==
  {<<Whole(k)>> : k \in {"data", "close", "badHeader", "tooLong", "badCode", "badUtf", "badEnd"}}
    \cup {<<Late("data")>>, <<Late("close")>>, <<[kind |-> "badUtf", cut |-> "early"]>>}
    \cup {<<Whole(k), Whole(l)>> : k \in {"data", "badUtf"}, l \in {"data", "close"}}
MCActs == {<<>>, <<"send", "shutdown">>, <<"sendClose">>, <<"kill">>}
MCLater == {"activate", "send", "release"}
MCWsFaults == {"read", "write", "notificator"}
=============================================================================
