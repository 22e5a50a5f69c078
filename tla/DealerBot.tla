----------------------------- MODULE DealerBot -----------------------------
(***************************************************************************)
(* The card dealer's web server: the route table and the handlers of       *)
(* selected_handler_t, the settings file kept by RPIdata, and the command  *)
(* frame PSoCcom sends to the PSoC over the serial line.                   *)
(*                                                                         *)
(* The server runs on one thread, so a handler is never interleaved with   *)
(* another.  What happens between handlers is up to the browsers; what can *)
(* happen inside one is a crash of the process: saveSelected truncates     *)
(* settings.txt when it opens it and writes it when it closes it, and that *)
(* point between the two is a state of its own.                            *)
(***************************************************************************)
EXTENDS Naturals, Sequences, FiniteSets

CONSTANTS
  Clients,       \* browsers
  Requests,      \* the HTTP requests they may send
  GameTexts,     \* texts the "game" field may hold
  PlayerTexts,   \* texts the "players" field may hold
  Chars,         \* the number of characters of a player text
  NoRequest,     \* the client waits for nothing
  NoClient       \* no save is under way

Methods == {"GET", "POST", "OPTIONS", "PUT"}
Fields == {"game", "players", "malformed"}

ASSUME DealerBotAssumption ==
  /\ "" \in GameTexts
  /\ "" \in PlayerTexts
  /\ Chars \in [PlayerTexts -> Nat]
  /\ NoRequest \notin Requests
  /\ NoClient \notin Clients
  /\ \A r \in Requests :
       /\ r.method \in Methods
       /\ r.field \in Fields
       /\ r.field = "game" => r.text \in GameTexts
       /\ r.field = "players" => r.text \in PlayerTexts

VARIABLES
  up,            \* the process runs
  m_selected,    \* the selection in memory
  settings,      \* the selection in settings.txt ...
  torn,          \* ... unless the file was truncated and not yet rewritten
  uart,          \* the last frame sent to the PSoC, <<>> if none was
  request,       \* what each client has asked and got no answer to
  saving,        \* the client whose POST handler has settings.txt open
  reply,         \* the status just answered, 0 if none was
  \* History, not part of the program:
  acked,         \* the last value of each field a client was told is saved
  clean          \* no crash, no disk fault, and a fresh settings file

vars == <<up, m_selected, settings, torn, uart, request, saving, reply, acked, clean>>

selected_t == [game : GameTexts, players : PlayerTexts]

\* A default-constructed selected_t; also the shipped settings.txt.
Empty == [game |-> "", players |-> ""]
-----------------------------------------------------------------------------
\* server_handler: the routes in the order they are added.
Routes == <<
  [methods |-> {"GET"}, path |-> "/", handler |-> "on_home"],
  [methods |-> {"GET"}, path |-> "/game", handler |-> "on_set_game"],
  [methods |-> {"GET"}, path |-> "/players", handler |-> "on_set_players"],
  [methods |-> {"GET"}, path |-> "/startgame", handler |-> "on_start_game"],
  [methods |-> {"GET"}, path |-> "/settings", handler |-> "on_settings"],
  [methods |-> {"POST"}, path |-> "/players", handler |-> "on_players_post"],
  [methods |-> {"POST"}, path |-> "/game", handler |-> "on_game_post"],
  [methods |-> {"OPTIONS"}, path |-> "/", handler |-> "options"],
  [methods |-> Methods \ {"GET", "POST"}, path |-> "/api", handler |-> "method_not_allowed"],
  [methods |-> Methods \ {"GET"}, path |-> "/author/:author", handler |-> "method_not_allowed"] >>

\* The express router takes the first route that matches.
Route(req) ==
  LET hits == {i \in DOMAIN Routes : req.method \in Routes[i].methods /\ req.path = Routes[i].path}
  IN  IF hits = {} THEN "not_handled"
      ELSE Routes[CHOOSE i \in hits : \A j \in hits : i <= j].handler

\* The handlers that neither read nor change the selection, and what the
\* client gets: a page, the raw settings file, the CORS answer, or a refusal
\* (which also closes the connection).
PlainStatus ==
  [on_set_game |-> 200, on_set_players |-> 200, on_settings |-> 200, options |-> 200,
   method_not_allowed |-> 405, not_handled |-> 501]
-----------------------------------------------------------------------------
\* Faulty variants of the definitions that follow them, used to show that the
\* properties notice such a mistake.
GameCodeFromZero(game) ==
  CASE game = "Fisk" -> "0"
    [] game = "500" -> "1"
    [] game = "Roevhul" -> "2"
    [] OTHER -> ""

\* startSpil: the code of the game, empty for a text it does not know.
GameCode(game) ==
  CASE game = "Fisk" -> "1"
    [] game = "500" -> "2"
    [] game = "Roevhul" -> "3"
    [] OTHER -> ""

\* "R" + code + players + "C".
Frame(sel) == [code |-> GameCode(sel.game), players |-> sel.players]
FrameLength(sel) == 2 + (IF GameCode(sel.game) = "" THEN 0 ELSE 1) + Chars[sel.players]

\* The frame and its terminating zero are copied into char message[5] and
\* then into char buf[5].
FitsBuffer(sel) == FrameLength(sel) + 1 <= 5
-----------------------------------------------------------------------------
Init ==
  /\ up = TRUE
  /\ m_selected = Empty
  /\ settings \in selected_t
  /\ torn = FALSE
  /\ uart = <<>>
  /\ request = [c \in Clients |-> NoRequest]
  /\ saving = NoClient
  /\ reply = 0
  /\ acked = settings
  /\ clean = (settings = Empty)

\* A browser sends a request.
Send(c, req) ==
  /\ up
  /\ request[c] = NoRequest
  /\ request' = [request EXCEPT ![c] = req]
  /\ reply' = 0
  /\ UNCHANGED <<up, m_selected, settings, torn, uart, saving, acked, clean>>

\* The server's thread is free to run the handler of c's request.
Serves(c, handler) ==
  /\ up
  /\ saving = NoClient
  /\ request[c] # NoRequest
  /\ Route(request[c]) = handler

\* resp.done().  A status of 0 stands for a connection closed without one.
Answer(c, status) ==
  /\ request' = [request EXCEPT ![c] = NoRequest]
  /\ reply' = status

PlainPage(c) ==
  \E h \in DOMAIN PlainStatus :
    /\ Serves(c, h)
    /\ Answer(c, PlainStatus[h])
    /\ UNCHANGED <<up, m_selected, settings, torn, uart, saving, acked, clean>>

\* retrieveSelected: from_json throws on an empty file, before the assignment.
retrieveSelected == m_selected' = IF torn THEN m_selected ELSE settings

on_home(c) ==
  /\ Serves(c, "on_home")
  /\ retrieveSelected
  /\ Answer(c, IF torn THEN 400 ELSE 200)
  /\ UNCHANGED <<up, settings, torn, uart, saving, acked, clean>>

\* retrieveSelected throws: the answer is a 400 and nothing is sent.
StartUnreadable(c) ==
  /\ Serves(c, "on_start_game")
  /\ torn
  /\ Answer(c, 400)
  /\ UNCHANGED <<up, m_selected, settings, torn, uart, saving, acked, clean>>

\* write_some takes the frame, or only its first bytes: its result is ignored.
\* With a frame longer than the buffer the copy is undefined; one outcome is
\* that the frame is sent all the same.
StartSent(c) ==
  /\ Serves(c, "on_start_game")
  /\ ~torn
  /\ retrieveSelected
  /\ \E whole \in BOOLEAN : uart' = <<[frame |-> Frame(m_selected'), whole |-> whole]>>
  /\ Answer(c, 200)
  /\ UNCHANGED <<up, settings, torn, saving, acked, clean>>

\* write_some throws: nothing was written, the answer is a 400.
StartLineFails(c) ==
  /\ Serves(c, "on_start_game")
  /\ ~torn
  /\ retrieveSelected
  /\ Answer(c, 400)
  /\ UNCHANGED <<up, settings, torn, uart, saving, acked, clean>>

on_start_game(c) == StartUnreadable(c) \/ StartSent(c) \/ StartLineFails(c)
-----------------------------------------------------------------------------
PostedField == [on_players_post |-> "players", on_game_post |-> "game"]

PostsTo(c, h) == Serves(c, h) /\ request[c].field = PostedField[h]

PostMalformedUnanswered(c) ==
  \E h \in DOMAIN PostedField :
    /\ Serves(c, h)
    /\ request[c].field # PostedField[h]
    /\ UNCHANGED vars

\* from_json throws, no handler catches it, and the connection is closed.
PostMalformed(c) ==
  \E h \in DOMAIN PostedField :
    /\ Serves(c, h)
    /\ request[c].field # PostedField[h]
    /\ Answer(c, 0)
    /\ UNCHANGED <<up, m_selected, settings, torn, uart, saving, acked, clean>>

\* The selection with the field of a POST request replaced.
Put(sel, req) ==
  IF req.field = "game" THEN [sel EXCEPT !.game = req.text]
                        ELSE [sel EXCEPT !.players = req.text]

\* The handler up to myFile.open("settings.txt"), which empties the file.
PostOpens(c) ==
  \E h \in DOMAIN PostedField :
    /\ PostsTo(c, h)
    /\ m_selected' = Put(m_selected, request[c])
    /\ torn' = TRUE
    /\ saving' = c
    /\ UNCHANGED <<up, settings, uart, request, reply, acked, clean>>

\* open() fails: the stream is bad, nothing is written, nobody looks.
PostOpenFails(c) ==
  \E h \in DOMAIN PostedField :
    /\ PostsTo(c, h)
    /\ m_selected' = Put(m_selected, request[c])
    /\ Answer(c, 200)
    /\ acked' = Put(acked, request[c])
    /\ clean' = FALSE
    /\ UNCHANGED <<up, settings, torn, uart, saving>>

PostClosesUnwritten(c) ==
  /\ saving = c
  /\ torn' = FALSE
  /\ saving' = NoClient
  /\ Answer(c, 200)
  /\ acked' = Put(acked, request[c])
  /\ UNCHANGED <<up, m_selected, settings, uart, clean>>

\* The rest of saveSelected: the document reaches the file on close().
PostCloses(c) ==
  /\ saving = c
  /\ settings' = m_selected
  /\ torn' = FALSE
  /\ saving' = NoClient
  /\ Answer(c, 200)
  /\ acked' = Put(acked, request[c])
  /\ UNCHANGED <<up, m_selected, uart, clean>>

\* The write fails (no space): the file stays cut short, nobody looks.
PostCloseFails(c) ==
  /\ saving = c
  /\ saving' = NoClient
  /\ Answer(c, 200)
  /\ acked' = Put(acked, request[c])
  /\ clean' = FALSE
  /\ UNCHANGED <<up, m_selected, settings, torn, uart>>
-----------------------------------------------------------------------------
\* The process dies; every connection is closed.
Dies ==
  /\ up' = FALSE
  /\ request' = [c \in Clients |-> NoRequest]
  /\ saving' = NoClient
  /\ reply' = 0
  /\ clean' = FALSE
  /\ UNCHANGED <<m_selected, settings, torn, uart, acked>>

Crash == up /\ Dies

\* The other outcome of copying an overlong frame.
StartOverflows(c) ==
  /\ Serves(c, "on_start_game")
  /\ ~torn
  /\ ~FitsBuffer(settings)
  /\ Dies

\* main(): selected is default-constructed; settings.txt is not read.
main ==
  /\ ~up
  /\ up' = TRUE
  /\ m_selected' = Empty
  /\ UNCHANGED <<settings, torn, uart, request, saving, reply, acked, clean>>

\* The server works for client c.
Handle(c) ==
  \/ PlainPage(c)
  \/ on_home(c)
  \/ on_start_game(c)
  \/ StartOverflows(c)
  \/ PostMalformed(c)
  \/ PostOpens(c) \/ PostOpenFails(c)
  \/ PostCloses(c) \/ PostCloseFails(c)

Next ==
  \/ \E c \in Clients : Handle(c)
  \/ \E c \in Clients, req \in Requests : Send(c, req)
  \/ Crash
  \/ main

Spec == Init /\ [][Next]_vars

\* The event loop takes ready sockets in turn: a request that finds the thread
\* busy with another browser's save again and again still gets its turn.
FairSpec == Spec /\ \A c \in Clients : SF_vars(Handle(c))
-----------------------------------------------------------------------------
TypeOK ==
  /\ up \in BOOLEAN
  /\ m_selected \in selected_t
  /\ settings \in selected_t
  /\ torn \in BOOLEAN
  /\ uart \in {<<>>} \cup {<<u>> : u \in [frame : [code : {"", "1", "2", "3"}, players : PlayerTexts],
                                        whole : BOOLEAN]}
  /\ request \in [Clients -> Requests \cup {NoRequest}]
  /\ saving \in Clients \cup {NoClient}
  /\ reply \in {0, 200, 400, 405, 501}
  /\ acked \in selected_t
  /\ clean \in BOOLEAN

\* No lost update: as long as nothing failed, settings.txt holds for each
\* field the value of the last POST a browser was told is saved, whichever
\* browsers posted in whichever order, and memory agrees with the file.
NoLostUpdate ==
  clean /\ saving = NoClient => ~torn /\ settings = acked /\ m_selected = acked

\* What the PSoC is told to deal is what the browsers last saved: a frame is
\* only sent when the file is readable, and it then carries the values last
\* acknowledged, as long as nothing failed.
FrameFollowsSaves ==
  [][uart' # uart => ~torn /\ (clean => uart'[1].frame = Frame(acked))]_vars

\* Whatever a browser asks is answered, or its connection closed.
RequestsEnd ==
  \A c \in Clients : request[c] # NoRequest ~> request[c] = NoRequest
=============================================================================
