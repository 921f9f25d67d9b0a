------------------------------- MODULE MCLogin --------------------------------
(* LoginDialogue with one account that two clients share.                   *)
EXTENDS LoginDialogue, MD5, TLC

LoginSymmetry == Permutations(Clients) \cup Permutations(Passwords)

MinusOne == {-1}

\* What is left of a session that is over, with nothing to do for its user.
Ended(s) == sessions[s].state = "over" /\ sessions[s].closed /\ jobs[s] = <<>>

\* The password of a request counts until the account is found or created, an
\* answer until the scene that asked is replaced.
Seen(request) ==
  [request EXCEPT !.pw = IF request.step \in {"sent", "create"} THEN @ ELSE NoName,
                  !.result = IF request.stale THEN "NONE" ELSE @,
                  !.chip = IF request.stale /\ request.kind = "login" THEN 0 ELSE @,
                  !.token = IF request.stale /\ request.step = "reply" THEN 0 ELSE @,
                  !.name = IF request.step = "reply" THEN NoName ELSE @]

\* The name in the field of a client counts as long as there may be recharges,
\* its token and chips while the channels are shown or it connects.
Fields(c) ==
  [ui[c] EXCEPT !.name = IF events < MaxEvents THEN @ ELSE NoName,
                !.token = IF ui[c].shown \/ connecting[c] THEN @ ELSE 0,
                !.chip = IF ui[c].shown THEN @ ELSE 0]

View ==
  <<user, tokens, server, events, scene, [c \in Clients |-> Fields(c)], connecting, conn, jobs,
    [c \in Clients |-> [i \in DOMAIN http[c] |-> Seen(http[c][i])]],
    [s \in DOMAIN sessions |->
      IF Ended(s) THEN <<sessions[s].token, sessions[s].client>> ELSE <<sessions[s]>>]>>
=============================================================================
