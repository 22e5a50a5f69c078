-------------------------- MODULE DealerBotProofs --------------------------
(***************************************************************************)
(* For any set of browsers, requests and texts: as long as nothing fails,  *)
(* no browser's update is lost and the PSoC is told what was saved last.   *)
(***************************************************************************)
EXTENDS DealerBot, TLAPS

\* While settings.txt is open for writing it is empty, the request that is
\* being served is a well-formed POST, and memory is one field ahead of what
\* the browsers have been told.
SaveInProgress ==
  saving # NoClient =>
    /\ torn
    /\ request[saving] \in Requests
    /\ request[saving].field \in {"game", "players"}
    /\ clean => m_selected = Put(acked, request[saving])

\* The process stops only by dying, which ends the save under way.
DownIsFaulty == ~up => saving = NoClient /\ ~clean

\* The two halves of TypeOK: the flags, and the rest.
Flags == up \in BOOLEAN /\ torn \in BOOLEAN /\ clean \in BOOLEAN
Frames == [code : {"", "1", "2", "3"}, players : PlayerTexts]
Sent == {<<>>} \cup {<<u>> : u \in [frame : Frames, whole : BOOLEAN]}
Statuses == {0, 200, 400, 405, 501}
Asked == [Clients -> Requests \cup {NoRequest}]
Data ==
  /\ m_selected \in selected_t /\ settings \in selected_t /\ acked \in selected_t
  /\ uart \in Sent
  /\ request \in Asked
  /\ saving \in Clients \cup {NoClient}
  /\ reply \in Statuses

IInv == Flags /\ Data /\ NoLostUpdate /\ SaveInProgress /\ DownIsFaulty
-----------------------------------------------------------------------------
\* Replacing the field a well-formed POST names gives a selection again.
LEMMA PutType ==
  ASSUME NEW sel \in selected_t, NEW req \in Requests, req.field \in {"game", "players"}
  PROVE  Put(sel, req) \in selected_t
<1>1. CASE req.field = "game"
  <2>1. req.text \in GameTexts
    BY Zenon, <1>1, DealerBotAssumption
  <2> QED
    BY <1>1, <2>1 DEF Put, selected_t
<1>2. CASE req.field = "players"
  <2>1. req.text \in PlayerTexts
    BY Zenon, <1>2, DealerBotAssumption
  <2> QED
    BY <1>2, <2>1 DEF Put, selected_t
<1> QED
  BY <1>1, <1>2

\* A frame is made of a game code and a player text.
LEMMA FrameType ==
  ASSUME NEW sel \in selected_t
  PROVE  Frame(sel) \in Frames
BY DEF Frame, Frames, GameCode, selected_t

\* The selection main() starts with.
LEMMA EmptyType == Empty \in selected_t
BY Zenon, DealerBotAssumption DEF Empty, selected_t

\* An answer leaves requests and replies well-typed.
LEMMA AnswerType ==
  ASSUME request \in Asked, NEW c \in Clients, NEW status \in Statuses, Answer(c, status)
  PROVE  request' \in Asked /\ reply' \in Statuses
BY DEF Asked, Answer

\* What a POST handler knows of its request.
LEMMA PostRequest ==
  ASSUME request \in Asked, NEW c \in Clients, NEW h \in DOMAIN PostedField, PostsTo(c, h)
  PROVE  request[c] \in Requests /\ request[c].field \in {"game", "players"}
<1>1. request[c] # NoRequest /\ request[c].field = PostedField[h]
  BY Zenon DEF PostsTo, Serves
<1>2. PostedField[h] \in {"game", "players"}
  BY DEF PostedField
<1> QED
  BY <1>1, <1>2 DEF Asked

\* The program starts with the invariant.
LEMMA InitIInv == Init => IInv
<1> SUFFICES ASSUME Init PROVE IInv
  OBVIOUS
<1> USE DEF Init
<1>1. Flags
  BY Zenon DEF Flags
<1>2. Data
  <2>1. request \in Asked /\ reply \in Statuses /\ uart \in Sent
    BY DEF Asked, Statuses, Sent
  <2> QED
    BY <2>1, EmptyType, Zenon DEF Data
<1>3. NoLostUpdate /\ SaveInProgress /\ DownIsFaulty
  BY Zenon DEF NoLostUpdate, SaveInProgress, DownIsFaulty
<1> QED
  BY <1>1, <1>2, <1>3, Zenon DEF IInv
-----------------------------------------------------------------------------
\* A handler that leaves the file and the save alone, and at most rereads the
\* selection or sends a frame.
Quiet ==
  /\ up /\ saving = NoClient
  /\ request' \in Asked
  /\ reply' \in Statuses
  /\ up' = up /\ settings' = settings /\ torn' = torn /\ saving' = saving
  /\ acked' = acked /\ clean' = clean
  /\ m_selected' = m_selected \/ (~torn /\ m_selected' = settings)
  /\ uart' = uart \/ \E whole \in BOOLEAN : uart' = <<[frame |-> Frame(m_selected'), whole |-> whole]>>

\* Such a handler keeps the invariant.
LEMMA QuietStep ==
  ASSUME IInv, Quiet
  PROVE  IInv'
<1> USE DEF Quiet
<1>0. Flags /\ Data /\ NoLostUpdate
  BY Zenon DEF IInv
<1>1. m_selected' \in selected_t
  BY <1>0, Zenon DEF Data
<1>2. uart' \in Sent
  <2>1. CASE uart' = uart
    BY <2>1, <1>0, Zenon DEF Data
  <2>2. CASE \E whole \in BOOLEAN : uart' = <<[frame |-> Frame(m_selected'), whole |-> whole]>>
    <3>1. PICK whole \in BOOLEAN : uart' = <<[frame |-> Frame(m_selected'), whole |-> whole]>>
      BY <2>2
    <3> DEFINE u == [frame |-> Frame(m_selected'), whole |-> whole]
               R == [frame : Frames, whole : BOOLEAN]
    <3>2. u \in R
      BY <1>1, FrameType
    <3>3. uart' = <<u>>
      BY <3>1
    <3> HIDE DEF u, R
    <3>4. uart' \in {<<v>> : v \in R}
      BY <3>2, <3>3
    <3> QED
      BY <3>4, Zenon DEF R, Sent
  <2> QED
    BY <2>1, <2>2, Zenon
<1>3. Flags' /\ Data'
  BY <1>0, <1>1, <1>2, Zenon DEF Flags, Data
<1>4. NoLostUpdate'
  BY <1>0, Zenon DEF NoLostUpdate
<1>5. SaveInProgress' /\ DownIsFaulty'
  BY Zenon DEF SaveInProgress, DownIsFaulty
<1> QED
  BY <1>3, <1>4, <1>5, Zenon DEF IInv

\* A request arrives: the client had none, so it is not the one being saved.
LEMMA SendStep ==
  ASSUME IInv, NEW c \in Clients, NEW req \in Requests, Send(c, req)
  PROVE  IInv'
<1>0. Flags /\ Data /\ NoLostUpdate /\ SaveInProgress /\ DownIsFaulty
  BY Zenon DEF IInv
<1>1. /\ up' = up /\ m_selected' = m_selected /\ settings' = settings /\ torn' = torn /\ uart' = uart
      /\ saving' = saving /\ acked' = acked /\ clean' = clean
  BY Zenon DEF Send
<1>2. reply' = 0 /\ request' = [request EXCEPT ![c] = req] /\ request[c] = NoRequest
  BY Zenon DEF Send
<1>3. request \in Asked /\ saving \in Clients \cup {NoClient}
  BY <1>0, Zenon DEF Data
<1>4. request' \in Asked /\ reply' \in Statuses
  BY <1>2, <1>3 DEF Asked, Statuses
<1>5. Flags' /\ Data'
  BY <1>0, <1>1, <1>4, Zenon DEF Flags, Data
<1>6. NoLostUpdate' /\ DownIsFaulty'
  BY <1>0, <1>1, Zenon DEF NoLostUpdate, DownIsFaulty
<1>7. SaveInProgress'
  <2>1. saving # NoClient => saving # c
    BY <1>0, <1>2, DealerBotAssumption, Zenon DEF SaveInProgress
  <2>2. saving # NoClient => request'[saving] = request[saving]
    BY <1>2, <1>3, <2>1 DEF Asked
  <2> QED
    BY <1>0, <1>1, <2>2, Zenon DEF SaveInProgress
<1> QED
  BY <1>5, <1>6, <1>7, Zenon DEF IInv

\* The handlers that only read.
LEMMA ReadSteps ==
  ASSUME IInv, NEW c \in Clients, PlainPage(c) \/ on_home(c) \/ on_start_game(c) \/ PostMalformed(c)
  PROVE  IInv'
<1>0. request \in Asked
  BY Zenon DEF IInv, Data
<1>1. SUFFICES Quiet
  BY QuietStep
<1> DEFINE Typed == request' \in Asked /\ reply' \in Statuses
<1>a. {0, 200, 400} \subseteq Statuses
  BY DEF Statuses
<1>2. CASE PlainPage(c)
  <2>1. PICK h \in DOMAIN PlainStatus : /\ Serves(c, h)
                                        /\ Answer(c, PlainStatus[h])
                                        /\ UNCHANGED <<up, m_selected, settings, torn, uart, saving, acked, clean>>
    BY <1>2, Zenon DEF PlainPage
  <2>2. PlainStatus[h] \in Statuses
    BY DEF PlainStatus, Statuses
  <2>3. Typed
    BY <1>0, <2>1, <2>2, AnswerType
  <2> QED
    BY <2>1, <2>3, Zenon DEF Serves, Quiet
<1>3. CASE on_home(c)
  <2>1. Answer(c, 200) \/ Answer(c, 400)
    BY <1>3, Zenon DEF on_home
  <2>2. Typed
    BY <1>0, <1>a, <2>1, AnswerType
  <2> QED
    BY <1>3, <2>2, Zenon DEF on_home, retrieveSelected, Serves, Quiet
<1>4. CASE on_start_game(c)
  <2>1. Answer(c, 200) \/ Answer(c, 400)
    BY <1>4, Zenon DEF on_start_game, StartUnreadable, StartSent, StartLineFails
  <2>2. Typed
    BY <1>0, <1>a, <2>1, AnswerType
  <2>3. CASE StartUnreadable(c)
    BY <2>2, <2>3, Zenon DEF StartUnreadable, Serves, Quiet
  <2>4. CASE StartSent(c)
    BY <2>2, <2>4, Zenon DEF StartSent, retrieveSelected, Serves, Quiet
  <2>5. CASE StartLineFails(c)
    BY <2>2, <2>5, Zenon DEF StartLineFails, retrieveSelected, Serves, Quiet
  <2> QED
    BY <1>4, <2>3, <2>4, <2>5, Zenon DEF on_start_game
<1>5. CASE PostMalformed(c)
  <2>1. Answer(c, 0)
    BY <1>5, Zenon DEF PostMalformed
  <2>2. Typed
    BY <1>0, <1>a, <2>1, AnswerType
  <2> QED
    BY <1>5, <2>2, Zenon DEF PostMalformed, Serves, Quiet
<1> QED
  BY <1>2, <1>3, <1>4, <1>5, Zenon

\* A POST that opens settings.txt: memory moves one field ahead.
LEMMA PostOpensStep ==
  ASSUME IInv, NEW c \in Clients, PostOpens(c)
  PROVE  IInv'
<1>0. Flags /\ Data /\ NoLostUpdate /\ DownIsFaulty
  BY Zenon DEF IInv
<1>1. PICK h \in DOMAIN PostedField : PostsTo(c, h)
  BY Zenon DEF PostOpens
<1>2. /\ m_selected' = Put(m_selected, request[c]) /\ torn' = TRUE /\ saving' = c /\ up' = up
      /\ settings' = settings /\ uart' = uart /\ request' = request /\ reply' = reply
      /\ acked' = acked /\ clean' = clean
  BY Zenon DEF PostOpens
<1>3. request[c] \in Requests /\ request[c].field \in {"game", "players"}
  BY <1>0, <1>1, PostRequest, Zenon DEF Data
<1>4. saving = NoClient /\ up
  BY <1>1, Zenon DEF PostsTo, Serves
<1>5. m_selected' \in selected_t
  BY <1>0, <1>2, <1>3, PutType, Zenon DEF Data
<1>6. Flags' /\ Data'
  BY <1>0, <1>2, <1>5, Zenon DEF Flags, Data
<1>7. saving' # NoClient
  BY <1>2, DealerBotAssumption, Zenon
<1>8. NoLostUpdate' /\ DownIsFaulty'
  BY <1>2, <1>4, <1>7, Zenon DEF NoLostUpdate, DownIsFaulty
<1>9. SaveInProgress'
  <2>1. clean => m_selected' = Put(acked, request[c])
    BY <1>0, <1>2, <1>4, Zenon DEF NoLostUpdate
  <2> QED
    BY <1>2, <1>3, <2>1, Zenon DEF SaveInProgress
<1> QED
  BY <1>6, <1>8, <1>9, Zenon DEF IInv

\* A POST that cannot open it: acknowledged all the same, and no longer clean.
LEMMA PostOpenFailsStep ==
  ASSUME IInv, NEW c \in Clients, PostOpenFails(c)
  PROVE  IInv'
<1>0. Flags /\ Data
  BY Zenon DEF IInv
<1>1. PICK h \in DOMAIN PostedField : PostsTo(c, h)
  BY Zenon DEF PostOpenFails
<1>2. /\ m_selected' = Put(m_selected, request[c]) /\ acked' = Put(acked, request[c])
      /\ Answer(c, 200) /\ clean' = FALSE /\ up' = up /\ settings' = settings /\ torn' = torn
      /\ uart' = uart /\ saving' = saving
  BY Zenon DEF PostOpenFails
<1>3. request[c] \in Requests /\ request[c].field \in {"game", "players"}
  BY <1>0, <1>1, PostRequest, Zenon DEF Data
<1>4. saving = NoClient /\ up
  BY <1>1, Zenon DEF PostsTo, Serves
<1>5. m_selected' \in selected_t /\ acked' \in selected_t
  BY <1>0, <1>2, <1>3, PutType, Zenon DEF Data
<1>6. 200 \in Statuses
  BY DEF Statuses
<1>7. request' \in Asked /\ reply' \in Statuses
  BY <1>0, <1>2, <1>6, AnswerType, Zenon DEF Data
<1>8. Flags' /\ Data'
  BY <1>0, <1>2, <1>5, <1>7, Zenon DEF Flags, Data
<1>9. NoLostUpdate' /\ SaveInProgress' /\ DownIsFaulty'
  BY <1>2, <1>4, Zenon DEF NoLostUpdate, SaveInProgress, DownIsFaulty
<1> QED
  BY <1>8, <1>9, Zenon DEF IInv

\* The save ends, with the document in the file or without it.
LEMMA PostEndsStep ==
  ASSUME IInv, NEW c \in Clients, PostCloses(c) \/ PostCloseFails(c)
  PROVE  IInv'
<1>0. Flags /\ Data /\ SaveInProgress /\ DownIsFaulty
  BY Zenon DEF IInv
<1>1. /\ saving = c /\ saving' = NoClient /\ Answer(c, 200) /\ acked' = Put(acked, request[c])
      /\ up' = up /\ m_selected' = m_selected /\ uart' = uart
  BY Zenon DEF PostCloses, PostCloseFails
<1>2. \/ settings' = m_selected /\ torn' = FALSE /\ clean' = clean
      \/ settings' = settings /\ torn' = torn /\ clean' = FALSE
  BY Zenon DEF PostCloses, PostCloseFails
<1>3. saving # NoClient
  BY <1>1, DealerBotAssumption, Zenon
<1>4. request[c] \in Requests /\ request[c].field \in {"game", "players"} /\ up
  BY <1>0, <1>1, <1>3, Zenon DEF SaveInProgress, DownIsFaulty
<1>5. acked' \in selected_t
  BY <1>0, <1>1, <1>4, PutType, Zenon DEF Data
<1>6. 200 \in Statuses
  BY DEF Statuses
<1>7. request' \in Asked /\ reply' \in Statuses
  BY <1>0, <1>1, <1>6, AnswerType, Zenon DEF Data
<1>8. Flags' /\ settings' \in selected_t
  BY <1>0, <1>1, <1>2, Zenon DEF Flags, Data
<1>9. Data'
  BY <1>0, <1>1, <1>5, <1>7, <1>8, Zenon DEF Data
<1>10. clean => m_selected = acked'
  BY <1>0, <1>1, <1>3, Zenon DEF SaveInProgress
<1>11. NoLostUpdate'
  BY <1>1, <1>2, <1>10, Zenon DEF NoLostUpdate
<1>12. SaveInProgress' /\ DownIsFaulty'
  BY <1>1, <1>4, Zenon DEF SaveInProgress, DownIsFaulty
<1> QED
  BY <1>8, <1>9, <1>11, <1>12, Zenon DEF IInv

\* The process dies, or comes back.
LEMMA ProcessSteps ==
  ASSUME IInv, Dies \/ main
  PROVE  IInv'
<1>0. Flags /\ Data /\ DownIsFaulty
  BY Zenon DEF IInv
<1>1. CASE Dies
  <2>1. /\ up' = FALSE /\ saving' = NoClient /\ clean' = FALSE
        /\ m_selected' = m_selected /\ settings' = settings /\ torn' = torn /\ uart' = uart
        /\ acked' = acked
    BY <1>1, Zenon DEF Dies
  <2>2. reply' = 0 /\ request' = [c \in Clients |-> NoRequest]
    BY <1>1, Zenon DEF Dies
  <2>3. request' \in Asked /\ reply' \in Statuses
    BY <2>2 DEF Asked, Statuses
  <2>4. Flags' /\ Data'
    BY <1>0, <2>1, <2>3, Zenon DEF Flags, Data
  <2>5. NoLostUpdate' /\ SaveInProgress' /\ DownIsFaulty'
    BY <2>1, Zenon DEF NoLostUpdate, SaveInProgress, DownIsFaulty
  <2> QED
    BY <2>4, <2>5, Zenon DEF IInv
<1>2. CASE main
  <2>1. /\ ~up /\ up' = TRUE /\ m_selected' = Empty
        /\ settings' = settings /\ torn' = torn /\ uart' = uart /\ request' = request
        /\ saving' = saving /\ reply' = reply /\ acked' = acked /\ clean' = clean
    BY <1>2, Zenon DEF main
  <2>2. Flags' /\ Data'
    BY <1>0, <2>1, EmptyType, Zenon DEF Flags, Data
  <2>3. NoLostUpdate' /\ SaveInProgress' /\ DownIsFaulty'
    BY <1>0, <2>1, Zenon DEF NoLostUpdate, SaveInProgress, DownIsFaulty
  <2> QED
    BY <2>2, <2>3, Zenon DEF IInv
<1> QED
  BY <1>1, <1>2, Zenon
-----------------------------------------------------------------------------
\* Every step keeps the invariant.
LEMMA NextIInv == IInv /\ [Next]_vars => IInv'
<1> SUFFICES ASSUME IInv, [Next]_vars PROVE IInv'
  OBVIOUS
<1>1. CASE UNCHANGED vars
  BY <1>1, Zenon DEF vars, IInv, Flags, Data, NoLostUpdate, SaveInProgress, DownIsFaulty
<1>2. ASSUME NEW c \in Clients, Handle(c) PROVE IInv'
  <2>1. CASE PlainPage(c) \/ on_home(c) \/ on_start_game(c) \/ PostMalformed(c)
    BY <2>1, ReadSteps
  <2>2. CASE StartOverflows(c)
    BY <2>2, ProcessSteps, Zenon DEF StartOverflows
  <2>3. CASE PostOpens(c)
    BY <2>3, PostOpensStep
  <2>4. CASE PostOpenFails(c)
    BY <2>4, PostOpenFailsStep
  <2>5. CASE PostCloses(c) \/ PostCloseFails(c)
    BY <2>5, PostEndsStep
  <2> QED
    BY <1>2, <2>1, <2>2, <2>3, <2>4, <2>5, Zenon DEF Handle
<1>3. ASSUME NEW c \in Clients, NEW req \in Requests, Send(c, req) PROVE IInv'
  BY <1>3, SendStep
<1>4. CASE Crash \/ main
  BY <1>4, ProcessSteps, Zenon DEF Crash
<1> QED
  BY <1>1, <1>2, <1>3, <1>4, Zenon DEF Next

\* The inductive invariant holds in every reachable state.
LEMMA SpecIInv == Spec => []IInv
BY InitIInv, NextIInv, PTL DEF Spec

\* Type correctness: the handlers keep the selection a selection and every
\* frame sent a known game code followed by the stored player text.
THEOREM TypeCorrect == Spec => []TypeOK
<1>1. IInv => TypeOK
  BY ZenonT(30) DEF IInv, Flags, Data, TypeOK, Sent, Frames, Asked, Statuses
<1> QED
  BY <1>1, SpecIInv, PTL

\* on_players_post and on_game_post lose no update of any browser: until
\* something fails, settings.txt and memory hold the last acknowledged values.
THEOREM UpdatesKept == Spec => []NoLostUpdate
<1>1. IInv => NoLostUpdate
  BY Zenon DEF IInv
<1> QED
  BY <1>1, SpecIInv, PTL

\* A frame is sent by on_start_game alone, from a file it could read.
LEMMA FrameStep ==
  IInv /\ [Next]_vars => [uart' # uart => ~torn /\ (clean => uart'[1].frame = Frame(acked))]_vars
<1> SUFFICES ASSUME IInv, [Next]_vars, uart' # uart
             PROVE  ~torn /\ (clean => uart'[1].frame = Frame(acked))
  BY Zenon
<1>1. PICK c \in Clients : StartSent(c)
  <2>1. ~UNCHANGED vars
    BY Zenon DEF vars
  <2>2. ASSUME NEW c \in Clients, Handle(c) PROVE StartSent(c)
    BY <2>2, Zenon DEF Handle, PlainPage, on_home, on_start_game, StartUnreadable, StartLineFails,
       StartOverflows, PostMalformed, PostOpens, PostOpenFails, PostCloses, PostCloseFails, Dies
  <2>3. ASSUME NEW c \in Clients, NEW req \in Requests, Send(c, req) PROVE FALSE
    BY <2>3, Zenon DEF Send
  <2>4. ~Crash /\ ~main
    BY Zenon DEF Crash, Dies, main
  <2> QED
    BY <2>1, <2>2, <2>3, <2>4, Zenon DEF Next
<1>2. ~torn /\ saving = NoClient /\ m_selected' = settings
  BY <1>1, Zenon DEF StartSent, Serves, retrieveSelected
<1>3. uart'[1].frame = Frame(m_selected')
  <2>1. PICK whole \in BOOLEAN : uart' = <<[frame |-> Frame(m_selected'), whole |-> whole]>>
    BY <1>1, Zenon DEF StartSent
  <2> DEFINE f == Frame(m_selected')
  <2>2. uart' = <<[frame |-> f, whole |-> whole]>>
    BY <2>1
  <2> HIDE DEF f
  <2>3. uart'[1].frame = f
    BY <2>2
  <2> QED
    BY <2>3, Zenon DEF f
<1>4. clean => settings = acked
  BY <1>2, Zenon DEF IInv, NoLostUpdate
<1> QED
  BY <1>2, <1>3, <1>4, Zenon

\* What on_start_game tells the PSoC is what the browsers saved last.
THEOREM FrameCorrect == Spec => FrameFollowsSaves
BY SpecIInv, FrameStep, PTL DEF Spec, FrameFollowsSaves
=============================================================================
