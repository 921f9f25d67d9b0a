------------------------------- MODULE Accounts -------------------------------
(***************************************************************************)
(* The login server and the MySQL tables it shares with the game server:   *)
(* table user (accounts), table auth (who is logged in), and the requests  *)
(* Login, Logout and Recharge of LoginController, which awaits every       *)
(* statement, so that the statements of several requests interleave.       *)
(*                                                                         *)
(* A client's HTTP requests wait in http[c]; cocos2d's HttpClient has one  *)
(* thread, so only the first of them is with the server.                   *)
(***************************************************************************)
EXTENDS Integers, Sequences, FiniteSets, FiniteSetsExt

CONSTANTS
  Clients,
  Names,         \* accounts
  NoName,
  Passwords,     \* as the client sends them: their digests (MD5)
  StartMoney,    \* in LoginServerConfig.xml
  ShortMax,      \* 32767
  MaxTokens,     \* bound: logins that reach Save_AuthToken
  MaxEvents      \* bound: restarts, failing requests and recharges

ASSUME AccountsAssumption ==
  /\ IsFiniteSet(Clients)
  /\ NoName \notin Names
  /\ StartMoney \in Nat \ {0} /\ ShortMax \in Nat \ {0}
  /\ {MaxTokens, MaxEvents} \subseteq Nat

VARIABLES
  user,      \* table user: rows in the order of their id
  tokens,    \* every token handed out, in order; table auth holds the "live" ones
  server,    \* how far Program.Main has come
  http,      \* each client's HTTP requests
  events     \* restarts, failing requests and recharges so far

accountVars == <<user, tokens, server, http, events>>

TokenStates == {"live", "refused", "left", "logout", "cleared"}
Token == 1 .. MaxTokens

AccountsInit ==
  /\ user = <<>>
  /\ tokens = <<>>
  /\ server = "starting"
  /\ http = [c \in Clients |-> <<>>]
  /\ events = 0

-----------------------------------------------------------------------------
(* Tables and statements                                                   *)

\* recent: last_recharge is less than ten minutes ago; credits (auxiliary):
\* recharges in these ten minutes.
RowOf(name, pw, chip) ==
  [name |-> name, pw |-> pw, chip |-> chip, recent |-> FALSE, credits |-> 0]

\* Mutant: no account is ever found
FindsNone(name) == {}

\* The rows found, by their place in the order of ids.
SearchUser(name) == {i \in DOMAIN user : user[i].name = name}

\* No key keeps a name from being inserted twice.
CreateUser(name, pw, chip) == user' = Append(user, RowOf(name, pw, chip))

HasToken(name) ==
  \E t \in DOMAIN tokens : tokens[t].name = name /\ tokens[t].state = "live"

\* Mutant: INSERT without WHERE NOT EXISTS
AlwaysSaved(name) == "live"

\* Whether Save_AuthToken inserts a row.
Saved(name) == IF HasToken(name) THEN "refused" ELSE "live"

Deleted(S, why) ==
  tokens' = [t \in DOMAIN tokens |->
              IF t \in S /\ tokens[t].state = "live"
              THEN [tokens[t] EXCEPT !.state = why] ELSE tokens[t]]

Remove_AuthToken(name) == Deleted({t \in DOMAIN tokens : tokens[t].name = name}, "left")

Calc_user_money(name, delta) ==
  user' = [i \in DOMAIN user |->
            IF user[i].name = name THEN [user[i] EXCEPT !.chip = @ + delta] ELSE user[i]]

\* The rows Recharge_money's first statement credits ...
Poor(name, money) ==
  {i \in DOMAIN user : user[i].name = name /\ user[i].chip < money /\ ~ user[i].recent}

Recharged(name, money) ==
  user' = [i \in DOMAIN user |->
            IF i \in Poor(name, money) THEN [user[i] EXCEPT !.chip = @ + money, !.credits = @ + 1] ELSE user[i]]

\* ... and those its second one marks, which asks again for chip < money.
Marked(name, rowCount) ==
  user' = [i \in DOMAIN user |->
            IF rowCount = 1 /\ i \in Poor(name, StartMoney)
            THEN [user[i] EXCEPT !.recent = TRUE] ELSE user[i]]

\* (short) in C#
Short(n) == ((n + ShortMax + 1) % (2 * ShortMax + 2)) - (ShortMax + 1)

-----------------------------------------------------------------------------
(* Program.Main: the host accepts requests before its configuration is     *)
(* read and the old tokens are deleted                                     *)

\* Program.StartMoney
Money == IF server = "starting" THEN 0 ELSE StartMoney

ReadConfig ==
  /\ server = "starting"
  /\ server' = "configured"
  /\ UNCHANGED <<user, tokens, http, events>>

ClearAuthToken ==
  /\ server = "configured"
  /\ server' = "running"
  /\ Deleted(DOMAIN tokens, "cleared")
  /\ UNCHANGED <<user, http, events>>

\* Mutant: tokens never grow old
NoneOld(last) == {}

\* Tokens are dated when they are saved: the old ones are the first ones.
OldTokens(last) == {t \in DOMAIN tokens : t <= last}

ClearAuthTokenLoop ==
  /\ server = "running"
  /\ \E last \in DOMAIN tokens :
       /\ tokens[last].state = "live"
       /\ Deleted(OldTokens(last), "cleared")
  /\ UNCHANGED <<user, server, http, events>>

TenMinutesPass ==
  /\ \E i \in DOMAIN user : user[i].credits > 0
  /\ user' = [i \in DOMAIN user |-> [user[i] EXCEPT !.recent = FALSE, !.credits = 0]]
  /\ UNCHANGED <<tokens, server, http, events>>

-----------------------------------------------------------------------------
(* LoginController                                                         *)

Request(kind, name, pw, token) ==
  [kind |-> kind, step |-> "sent", name |-> name, pw |-> pw, token |-> token,
   result |-> "NONE", chip |-> 0, stale |-> FALSE]

At(c, kind, step) ==
  /\ http[c] # <<>>
  /\ Head(http[c]).kind = kind
  /\ Head(http[c]).step = step

Becomes(c, request) == http' = [http EXCEPT ![c][1] = request]

\* GetUser and the test of the password
LoginSearch(c) ==
  LET req == Head(http[c])
      rows == SearchUser(req.name)
  IN
  /\ At(c, "login", "sent")
  /\ \/ /\ rows = {}
        /\ Becomes(c, [req EXCEPT !.step = "create"])
     \/ /\ rows # {} /\ user[Min(rows)].pw # req.pw
        /\ Becomes(c, [req EXCEPT !.step = "reply", !.result = "INVALID_PW"])
     \/ /\ rows # {} /\ user[Min(rows)].pw = req.pw
        /\ Becomes(c, [req EXCEPT !.step = "save", !.chip = Short(user[Min(rows)].chip)])
  /\ UNCHANGED <<user, tokens, server, events>>

LoginCreate(c) ==
  LET req == Head(http[c]) IN
  /\ At(c, "login", "create")
  /\ CreateUser(req.name, req.pw, Money)
  /\ Becomes(c, [req EXCEPT !.step = "save", !.chip = Money, !.result = "CREATE_SUCCESS"])
  /\ UNCHANGED <<tokens, server, events>>

\* Mutant: a token that could not be saved is no error
DuplicateIgnored(result, state) == result

\* A duplicate changes the result; the token is handed out with it all the same.
LoginResult(result, state) == IF state = "refused" THEN "AUTH_DUPLICATE" ELSE result

LoginSave(c) ==
  LET req == Head(http[c])
      state == Saved(req.name)
  IN
  /\ At(c, "login", "save")
  /\ Len(tokens) < MaxTokens
  /\ tokens' = Append(tokens, [name |-> req.name, state |-> state])
  /\ Becomes(c, [req EXCEPT !.step = "reply", !.token = Len(tokens) + 1,
                            !.result = LoginResult(@, state)])
  /\ UNCHANGED <<user, server, events>>

Logout(c) ==
  LET req == Head(http[c]) IN
  /\ At(c, "logout", "sent")
  /\ Deleted({req.token}, "logout")
  /\ Becomes(c, [req EXCEPT !.step = "reply"])
  /\ UNCHANGED <<user, server, events>>

\* The statements of Recharge_money are no transaction: payments of the game
\* server may come between them.
RechargeAdd(c) ==
  LET req == Head(http[c]) IN
  /\ At(c, "recharge", "sent")
  /\ Recharged(req.name, Money)
  /\ Becomes(c, [req EXCEPT !.step = "mark", !.chip = Cardinality(Poor(req.name, Money))])
  /\ UNCHANGED <<tokens, server, events>>

RechargeMark(c) ==
  LET req == Head(http[c])
      rows == SearchUser(req.name)
  IN
  /\ At(c, "recharge", "mark")
  /\ Marked(req.name, req.chip)
  /\ Becomes(c, [req EXCEPT !.step = "reply",
                            !.chip = IF rows = {} THEN 0 ELSE user[Max(rows)].chip])
  /\ UNCHANGED <<tokens, server, events>>

Event == events < MaxEvents /\ events' = events + 1

\* The database or the request fails: what was done stays done, and the
\* answer is the page of an exception.
RequestFails(c) ==
  /\ http[c] # <<>> /\ Head(http[c]).step # "reply"
  /\ Event
  /\ Becomes(c, [Head(http[c]) EXCEPT !.step = "reply", !.result = "EXCEPTION"])
  /\ UNCHANGED <<user, tokens, server>>

\* The program ends and is started again; requests it was working on get an
\* empty answer.
Restart ==
  /\ Event
  /\ server' = "starting"
  /\ http' = [c \in Clients |->
               IF http[c] # <<>> /\ Head(http[c]).step # "reply"
               THEN [http[c] EXCEPT ![1].step = "reply", ![1].result = "EMPTY"]
               ELSE http[c]]
  /\ UNCHANGED <<user, tokens>>

ServerStep ==
  \/ ReadConfig \/ ClearAuthToken \/ ClearAuthTokenLoop \/ TenMinutesPass \/ Restart
  \/ \E c \in Clients : \/ LoginSearch(c) \/ LoginCreate(c) \/ LoginSave(c) \/ Logout(c)
                        \/ RechargeAdd(c) \/ RechargeMark(c) \/ RequestFails(c)
=============================================================================
