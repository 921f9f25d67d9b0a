------------------------------ MODULE JobService ------------------------------
(***************************************************************************)
(* What the rest of the channel server expects of DBmanager: jobs put into *)
(* a worker's queue are performed one after the other, in the order they   *)
(* were put there, each of them once, and none waits for ever.             *)
(***************************************************************************)
EXTENDS Naturals, Sequences

CONSTANTS
  Workers,    \* the database threads
  Jobs,       \* jobs of the game: logins, payments, removals of tokens
  Beat        \* the job that reports the server's state every three seconds

VARIABLES
  pending,    \* jobs of each worker that are not performed yet, in order
  performed   \* how often each job of the game was performed

vars == <<pending, performed>>

Init ==
  /\ pending = [w \in Workers |-> <<>>]
  /\ performed = [j \in Jobs |-> 0]

Submit(w, item) ==
  /\ pending' = [pending EXCEPT ![w] = Append(@, item)]
  /\ UNCHANGED performed

Perform(w) ==
  /\ pending[w] # <<>>
  /\ pending' = [pending EXCEPT ![w] = Tail(@)]
  /\ performed' = [j \in Jobs |-> IF j = Head(pending[w]) THEN performed[j] + 1
                                  ELSE performed[j]]

Next == \E w \in Workers : Perform(w) \/ \E item \in Jobs \cup {Beat} : Submit(w, item)

Safety == Init /\ [][Next]_vars

Spec == Safety /\ \A w \in Workers : WF_vars(Perform(w))
=============================================================================
