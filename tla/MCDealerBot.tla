---------------------------- MODULE MCDealerBot ----------------------------
(***************************************************************************)
(* Model-checking instance of DealerBot: two browsers, one known and one   *)
(* unset game, a player text that is unset or too long for the frame       *)
(* buffer, and one request for each way the server can end one.            *)
(***************************************************************************)
EXTENDS DealerBot

Req(m, p) == [method |-> m, path |-> p, field |-> "malformed", text |-> ""]
Post(f, t) == [method |-> "POST", path |-> "/" \o f, field |-> f, text |-> t]

MCGameTexts == {"", "Fisk"}
MCPlayerTexts == {"", "12"}
MCChars == [t \in MCPlayerTexts |-> IF t = "" THEN 0 ELSE 2]

MCRequests ==
  {Post("game", "Fisk"), Post("players", "12"), Req("POST", "/players"), Req("GET", "/"),
   Req("GET", "/startgame"), Req("PUT", "/api")}
=============================================================================
