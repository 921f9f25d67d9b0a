----------------------------- MODULE MCGameRoom -----------------------------
(* GameRoom for TLC: the users as model values and what the runs share.    *)
EXTENDS GameRoom, TLC

CONSTANTS u1, u2

Symmetry == Permutations(Users)

\* Of a user without a session only what the next login keeps is looked at: the
\* login overwrites money, gameState and the states of the hands.
Remembered(u) ==
  IF u \in connected THEN user[u]
  ELSE LoggedIn(user[u], 0)

ViewNoStake == <<roomState, userList, userCount, dealt,
                 [u \in Users |-> Remembered(u)], chip, connected,
                 buttons, sent, fault>>
=============================================================================
