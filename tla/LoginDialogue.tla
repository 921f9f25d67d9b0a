---------------------------- MODULE LoginDialogue -----------------------------
(***************************************************************************)
(* How an account gets from the login scene of a client to a seat in a     *)
(* room and back: LoginScene with the controls that are enabled, the       *)
(* threads that connect to a channel, the game server's database jobs for  *)
(* the account, and the login server with its tables (Accounts).           *)
(*                                                                         *)
(* connectTcp and the request to enter that follows it are one step, and a *)
(* User object serves one session only (Sessions tells those apart).       *)
(***************************************************************************)
EXTENDS Accounts

CONSTANTS
  MinBet, MaxBet,  \* chips a channel asks for
  MaxSessions,     \* bound: connections
  Changes,         \* what payments change the chips by
  MaxPayments,     \* bound: payments of one stay in a room
  MaxRequests      \* bound: HTTP requests of a client under way

ASSUME DialogueAssumption ==
  /\ MinBet \in Nat /\ MaxBet \in Nat
  /\ {MaxSessions, MaxPayments, MaxRequests} \subseteq Nat
  /\ Changes \subseteq Int \ {0}

VARIABLES
  scene,       \* the client's scene
  ui,          \* members of its LoginScene
  connecting,  \* a thread of the client is in connectTcp
  conn,        \* the session of its socket, 0: none
  sessions,    \* the game server's sessions, in order of their connection
  jobs         \* database jobs the user of a session still waits for

clientVars == <<scene, ui, connecting, conn>>
vars == <<accountVars, clientVars, sessions, jobs>>

\* A job is the change of a payment, or CLEAR_AUTH_TOKEN.
ClearToken == 0

\* A LoginScene that was just created; shown: the layer of channels.
NewLoginScene ==
  [loginMenu |-> TRUE, channelsMenu |-> TRUE, shown |-> FALSE,
   name |-> NoName, token |-> 0, chip |-> 0]

Init ==
  /\ AccountsInit
  /\ scene = [c \in Clients |-> "login"]
  /\ ui = [c \in Clients |-> NewLoginScene]
  /\ connecting = [c \in Clients |-> FALSE]
  /\ conn = [c \in Clients |-> 0]
  /\ sessions = <<>>
  /\ jobs = <<>>

-----------------------------------------------------------------------------
(* The login scene                                                         *)

\* replaceScene: what is under way for the old scene is stale.
Stale(requests) == [i \in DOMAIN requests |-> [requests[i] EXCEPT !.stale = TRUE]]

Replaced(c, next) ==
  /\ scene' = [scene EXCEPT ![c] = next]
  /\ ui' = [ui EXCEPT ![c] = NewLoginScene]
  /\ http' = [http EXCEPT ![c] = Stale(@)]

Quit(c) ==
  /\ Replaced(c, "login")
  /\ conn' = [conn EXCEPT ![c] = 0]
  /\ connecting' = [connecting EXCEPT ![c] = FALSE]

Sent(c, request) ==
  /\ Len(http[c]) < MaxRequests
  /\ http' = [http EXCEPT ![c] = Append(@, request)]
  /\ UNCHANGED <<user, tokens, server>>

\* The fields are enabled until the channels are shown: a name may be typed
\* over, or deleted, while the login of another one runs.
TypeName(c, name) ==
  /\ scene[c] = "login" /\ ~ ui[c].loginMenu /\ ~ ui[c].shown
  /\ ui[c].name # name
  /\ ui' = [ui EXCEPT ![c].name = name]
  /\ UNCHANGED <<accountVars, scene, connecting, conn, sessions, jobs>>

LoginButton(c, name, pw) ==
  /\ scene[c] = "login" /\ ui[c].loginMenu
  /\ Sent(c, Request("login", name, pw, 0))
  /\ ui' = [ui EXCEPT ![c].loginMenu = FALSE, ![c].name = name]
  /\ UNCHANGED <<events, scene, connecting, conn, sessions, jobs>>

PopDown(u) == [u EXCEPT !.channelsMenu = TRUE, !.shown = FALSE]

LogoutButton(c) ==
  /\ scene[c] = "login" /\ ui[c].shown
  /\ Sent(c, Request("logout", NoName, NoName, ui[c].token))
  /\ ui' = [ui EXCEPT ![c] = PopDown(@)]
  /\ UNCHANGED <<events, scene, connecting, conn, sessions, jobs>>

RechargeButton(c) ==
  /\ scene[c] = "login" /\ ui[c].shown
  /\ Event
  /\ Sent(c, Request("recharge", ui[c].name, NoName, 0))
  /\ UNCHANGED <<clientVars, sessions, jobs>>

PopUp(u) == [u EXCEPT !.shown = TRUE, !.loginMenu = FALSE]

\* Mutant: the login button stays disabled
StillDisabled(u) == u

LoginAgain(u) == [u EXCEPT !.loginMenu = TRUE]

\* parseChannelInfo stores the token whatever the result is.
Parsed(u, res) == [u EXCEPT !.token = res.token, !.chip = res.chip]

LoginResponse(c, res) ==
  ui' = [ui EXCEPT ![c] =
          CASE res.result = "EMPTY" -> LoginAgain(@)
            [] res.result \in {"NONE", "CREATE_SUCCESS"} -> PopUp(Parsed(@, res))
            [] res.result \in {"INVALID_PW", "AUTH_DUPLICATE"} -> LoginAgain(Parsed(@, res))]

LogoutResponse(c) == ui' = [ui EXCEPT ![c] = LoginAgain(@)]

\* An answer without the number leaves the chips as they are.
RechargeResponse(c, res) ==
  ui' = IF res.result = "NONE" THEN [ui EXCEPT ![c].chip = res.chip] ELSE ui

Response(c) ==
  LET res == Head(http[c]) IN
  /\ http[c] # <<>> /\ res.step = "reply" /\ ~ res.stale
  /\ ~ (res.kind = "login" /\ res.result = "EXCEPTION")
  /\ http' = [http EXCEPT ![c] = Tail(@)]
  /\ \/ res.kind = "login" /\ LoginResponse(c, res)
     \/ res.kind = "logout" /\ LogoutResponse(c)
     \/ res.kind = "recharge" /\ RechargeResponse(c, res)
  /\ UNCHANGED <<user, tokens, server, events, scene, connecting, conn, sessions, jobs>>

\* The page of an exception has no number "Result": jsoncpp throws and the
\* client ends.
BadResponse(c) ==
  /\ http[c] # <<>> /\ Head(http[c]).step = "reply" /\ ~ Head(http[c]).stale
  /\ Head(http[c]).kind = "login" /\ Head(http[c]).result = "EXCEPTION"
  /\ scene' = [scene EXCEPT ![c] = "login"]
  /\ ui' = [ui EXCEPT ![c] = NewLoginScene]
  /\ http' = [http EXCEPT ![c] = Stale(Tail(@))]
  /\ conn' = [conn EXCEPT ![c] = 0]
  /\ connecting' = [connecting EXCEPT ![c] = FALSE]
  /\ UNCHANGED <<user, tokens, server, events, sessions, jobs>>

\* The callback of an answer for a scene that has been replaced runs on a
\* deleted object: the client may end (LeaveScene) or not.
StaleResponse(c) ==
  /\ http[c] # <<>> /\ Head(http[c]).step = "reply" /\ Head(http[c]).stale
  /\ http' = [http EXCEPT ![c] = Tail(@)]
  /\ UNCHANGED <<user, tokens, server, events, clientVars, sessions, jobs>>

-----------------------------------------------------------------------------
(* Connecting to a channel                                                 *)

InRange(chip) == chip \in MinBet .. MaxBet

\* connectTcp closes the old socket first.  While it runs a second thread finds
\* its mutex taken, which counts as a failure to connect and changes nothing.
ChannelButton(c) ==
  /\ scene[c] = "login" /\ ui[c].shown /\ ui[c].channelsMenu
  /\ InRange(ui[c].chip)
  /\ ~ connecting[c]
  /\ connecting' = [connecting EXCEPT ![c] = TRUE]
  /\ conn' = [conn EXCEPT ![c] = 0]
  /\ ui' = [ui EXCEPT ![c].channelsMenu = FALSE]
  /\ UNCHANGED <<accountVars, scene, sessions, jobs>>

ConnectFails(c) ==
  /\ connecting[c]
  /\ connecting' = [connecting EXCEPT ![c] = FALSE]
  /\ ui' = [ui EXCEPT ![c].channelsMenu = TRUE]
  /\ UNCHANGED <<accountVars, scene, conn, sessions, jobs>>

\* The token of ROOM_ENTER_REQ is the one the scene holds by now.
Connected(c) ==
  /\ connecting[c]
  /\ Len(sessions) < MaxSessions
  /\ connecting' = [connecting EXCEPT ![c] = FALSE]
  /\ conn' = [conn EXCEPT ![c] = Len(sessions) + 1]
  /\ sessions' = Append(sessions, [client |-> c, token |-> ui[c].token, state |-> "asked",
                                   answer |-> "none", closed |-> FALSE,
                                   name |-> NoName, money |-> 0, paid |-> 0])
  /\ jobs' = Append(jobs, <<>>)
  /\ UNCHANGED <<accountVars, scene, ui>>

\* packetProcess_RoomEnterRes
RoomEnterRes(c) ==
  /\ scene[c] = "login" /\ conn[c] # 0
  /\ \/ sessions[conn[c]].answer = "INVALID_AUTH" /\ Replaced(c, "login")
     \/ sessions[conn[c]].answer = "NONE" /\ Replaced(c, "game")
  /\ sessions' = [sessions EXCEPT ![conn[c]].answer = "none"]
  /\ UNCHANGED <<user, tokens, server, events, connecting, conn, jobs>>

\* GameScene::logOut, or the client ends, from whatever scene, and is started
\* again
LeaveScene(c) ==
  /\ scene[c] = "game" \/ ui[c].shown \/ ~ ui[c].loginMenu
  /\ Quit(c)
  /\ UNCHANGED <<user, tokens, server, events, sessions, jobs>>

ClientStep(c) ==
  \/ \E name \in Names \cup {NoName} : TypeName(c, name)
  \/ \E name \in Names, pw \in Passwords : LoginButton(c, name, pw)
  \/ LogoutButton(c) \/ RechargeButton(c) \/ Response(c) \/ BadResponse(c) \/ StaleResponse(c)
  \/ ChannelButton(c) \/ ConnectFails(c) \/ Connected(c) \/ RoomEnterRes(c)
  \/ LeaveScene(c)

-----------------------------------------------------------------------------
(* The game server, as far as an account is concerned                      *)

Becoming(s, session) == sessions' = [sessions EXCEPT ![s] = session]

\* GetUserInfoByAuthToken.  sqlexec stores every row it fetches, and has room
\* for one: a second row is written over whatever follows (overrun).
ReadAccount(s) ==
  LET token == sessions[s].token
      rows == IF token \in DOMAIN tokens /\ tokens[token].state = "live"
              THEN SearchUser(tokens[token].name) ELSE {}
  IN
  /\ sessions[s].state = "asked"
  /\ \/ /\ rows = {}
        /\ Becoming(s, [sessions[s] EXCEPT !.state = "found"])
     \/ \E i \in rows :
          /\ rows = {i}
          /\ Becoming(s, [sessions[s] EXCEPT !.state = "found", !.name = user[i].name,
                                            !.money = user[i].chip])
     \/ /\ \E i, j \in rows : i # j
        /\ Becoming(s, [sessions[s] EXCEPT !.state = "overrun"])
  /\ UNCHANGED <<accountVars, clientVars, jobs>>

\* An answer to a session that is closed is lost.
Answer(s, answer) == IF sessions[s].closed THEN "none" ELSE answer

\* GetUserByAuthProcess, whether or not the session is still open
EnterRoom(s) ==
  /\ sessions[s].state = "found"
  /\ \/ /\ sessions[s].name = NoName
        /\ Becoming(s, [sessions[s] EXCEPT !.state = "over", !.answer = Answer(s, "INVALID_AUTH")])
     \/ /\ sessions[s].name # NoName
        /\ Becoming(s, [sessions[s] EXCEPT !.state = "room", !.answer = Answer(s, "NONE")])
     \/ /\ sessions[s].name # NoName  \* no room left: no answer
        /\ Becoming(s, [sessions[s] EXCEPT !.state = "over"])
  /\ UNCHANGED <<accountVars, clientVars, jobs>>

\* SubmitUserEarnMoney
Pay(s, delta) ==
  /\ sessions[s].state = "room" /\ sessions[s].paid < MaxPayments
  /\ sessions[s].money + delta >= 0
  /\ Becoming(s, [sessions[s] EXCEPT !.money = @ + delta, !.paid = @ + 1])
  /\ jobs' = [jobs EXCEPT ![s] = Append(@, delta)]
  /\ UNCHANGED <<accountVars, clientVars>>

\* Mutant: the token is removed before the payments
ClearedFirst(s) == <<ClearToken>> \o jobs[s]

ClearedLast(s) == Append(jobs[s], ClearToken)

\* Room::LeaveRoom
LeaveRoom(s, session) ==
  /\ Becoming(s, [session EXCEPT !.state = "over"])
  /\ jobs' = [jobs EXCEPT ![s] = ClearedLast(s)]

Kick(s) ==
  /\ sessions[s].state = "room" /\ ~ InRange(sessions[s].money)
  /\ LeaveRoom(s, sessions[s])
  /\ UNCHANGED <<accountVars, clientVars>>

\* NtfSysCloseSesson: nothing to leave for a user whose login still runs
CloseSession(s) ==
  /\ conn[sessions[s].client] # s /\ ~ sessions[s].closed
  /\ LET session == [sessions[s] EXCEPT !.closed = TRUE, !.answer = "none"] IN
     \/ session.state = "room" /\ LeaveRoom(s, session)
     \/ session.state # "room" /\ Becoming(s, session) /\ UNCHANGED jobs
  /\ UNCHANGED <<accountVars, clientVars>>

\* The database thread of the user takes its next job.
PerformJob(s) ==
  LET name == sessions[s].name IN
  /\ jobs[s] # <<>>
  /\ jobs' = [jobs EXCEPT ![s] = Tail(@)]
  /\ \/ Head(jobs[s]) = ClearToken /\ Remove_AuthToken(name) /\ UNCHANGED user
     \/ Head(jobs[s]) # ClearToken /\ Calc_user_money(name, Head(jobs[s])) /\ UNCHANGED tokens
  /\ UNCHANGED <<server, http, events, clientVars, sessions>>

Overrun == \E s \in DOMAIN sessions : sessions[s].state = "overrun"

GameServerStep(s) ==
  /\ ~ Overrun
  /\ \/ ReadAccount(s) \/ EnterRoom(s) \/ (\E delta \in Changes : Pay(s, delta))
     \/ Kick(s) \/ CloseSession(s) \/ PerformJob(s)

-----------------------------------------------------------------------------
Next ==
  \/ ServerStep /\ UNCHANGED <<clientVars, sessions, jobs>>
  \/ \E c \in Clients : ClientStep(c)
  \/ \E s \in DOMAIN sessions : GameServerStep(s)

\* Program.Main and its loop go on; nothing is assumed of clients, of the
\* network or of the game server.
Fairness ==
  WF_vars((ReadConfig \/ ClearAuthToken \/ ClearAuthTokenLoop)
          /\ UNCHANGED <<clientVars, sessions, jobs>>)

Spec == Init /\ [][Next]_vars /\ Fairness

-----------------------------------------------------------------------------
(* Properties                                                              *)

Row == [name : Names, pw : Passwords, chip : Int, recent : BOOLEAN, credits : Nat]

HttpRequest ==
  [kind : {"login", "logout", "recharge"}, step : {"sent", "create", "save", "mark", "reply"},
   name : Names \cup {NoName}, pw : Passwords \cup {NoName}, token : Nat,
   result : {"NONE", "CREATE_SUCCESS", "INVALID_PW", "AUTH_DUPLICATE", "EXCEPTION", "EMPTY"},
   chip : Int, stale : BOOLEAN]

Scene ==
  [loginMenu : BOOLEAN, channelsMenu : BOOLEAN, shown : BOOLEAN,
   name : Names \cup {NoName}, token : Nat, chip : Int]

Session ==
  [client : Clients, token : Nat, state : {"asked", "found", "room", "over", "overrun"},
   answer : {"none", "INVALID_AUTH", "NONE"}, closed : BOOLEAN,
   name : Names \cup {NoName}, money : Int, paid : Nat]

TypeOK ==
  /\ user \in Seq(Row)
  /\ tokens \in Seq([name : Names, state : TokenStates]) /\ Len(tokens) <= MaxTokens
  /\ server \in {"starting", "configured", "running"}
  /\ http \in [Clients -> Seq(HttpRequest)]
  /\ \A c \in Clients : Len(http[c]) <= MaxRequests
  /\ events \in 0 .. MaxEvents
  /\ scene \in [Clients -> {"login", "game"}]
  /\ ui \in [Clients -> Scene]
  /\ connecting \in [Clients -> BOOLEAN]
  /\ conn \in [Clients -> 0 .. Len(sessions)]
  /\ sessions \in Seq(Session) /\ Len(sessions) <= MaxSessions
  /\ jobs \in Seq(Seq(Int)) /\ Len(jobs) = Len(sessions)

\* A login that found the account in use got a token all the same
\* (LoginController.cs:60-66): no dialogue shows channels with such a token,
\* whose table row was never inserted.
ShownTokenWasSaved ==
  \A c \in Clients :
    scene[c] = "login" /\ ui[c].shown
      => ui[c].token \in DOMAIN tokens /\ tokens[ui[c].token].state # "refused"

\* However errors, restarts and answers come: a login scene whose login button
\* is disabled shows the channels, with its logout button, or waits for an
\* answer that will enable it.
DialogueNotStuck ==
  \A c \in Clients :
    scene[c] = "login" /\ ~ ui[c].loginMenu /\ ~ ui[c].shown
      => \E i \in DOMAIN http[c] :
           ~ http[c][i].stale /\ http[c][i].kind \in {"login", "logout"}

InGame(s) == sessions[s].state = "room"

\* Of the account's tokens that clients have sent to a channel, one was cleared
\* or logged out, or was sent over two connections.
TokenLost(name) ==
  \E s \in DOMAIN sessions :
    LET t == sessions[s].token IN
    /\ t \in DOMAIN tokens
    /\ tokens[t].name = name
    /\ \/ tokens[t].state \in {"cleared", "logout"}
       \/ \E r \in DOMAIN sessions \ {s} : sessions[r].token = t

\* "This account is already connected" (LoginScene.cpp:195): through any order
\* of logins, leaving, crashes of clients and delayed database jobs, an account
\* sits in two rooms only after one of its tokens was lost.
TwiceOnlyAfterLoss ==
  \A r, s \in DOMAIN sessions :
    r # s /\ InGame(r) /\ InGame(s) /\ sessions[r].name = sessions[s].name
      => TokenLost(sessions[s].name)

SumOf(numbers) ==
  LET sum[i \in 0 .. Len(numbers)] == IF i = 0 THEN 0 ELSE sum[i - 1] + numbers[i]
  IN  sum[Len(numbers)]

\* What the payments under way will change (CLEAR_AUTH_TOKEN counts as 0).
Pending(name) ==
  SumOf([s \in DOMAIN sessions |-> IF sessions[s].name = name THEN SumOf(jobs[s]) ELSE 0])

\* Payments and logins use different database threads (DBmanager.cpp:195,
\* UserManager.cpp:20-46): as long as no token is lost nobody plays with chips
\* that a payment under way has spent.
NeverRicherThanDatabase ==
  \A s \in DOMAIN sessions :
    LET name == sessions[s].name IN
    InGame(s) /\ ~ TokenLost(name)
      => sessions[s].money <= user[Min(SearchUser(name))].chip + Pending(name)

\* A login creates a row only when it finds none: however many logins, faults and
\* restarts there are, an account has no more rows than clients whose first
\* logins ran side by side (LoginController.cs:19-29).
RowsOnlyFromRaces ==
  \A name \in Names :
    Cardinality({i \in DOMAIN user : user[i].name = name}) <= Cardinality(Clients)

\* Nobody is locked out of an account for ever: every token that was saved is
\* deleted in the end, whatever becomes of the client and of the game server.
Live(t) == t \in DOMAIN tokens /\ tokens[t].state = "live"

TokensEnd == \A t \in Token : Live(t) ~> ~ Live(t)

\* "You can recharge only once in 10 minutes" (LoginScene.cpp:152).
OneRechargeInTenMinutes == \A i \in DOMAIN user : user[i].credits <= 1
=============================================================================
