------------------------------ MODULE PostQueue ------------------------------
(***************************************************************************)
(* What the scheduled posts of kachat-webserver promise their owners. A    *)
(* post waits until its time; then the scheduler may hold it, and only     *)
(* what it holds is sent. A post withdrawn while nobody holds it is never  *)
(* sent. A post is closed once: as submitted after it was sent, as failed  *)
(* only if the scheduler does not know it was sent (stray: sent, but the   *)
(* answer was lost or nobody could write it down), or as cancelled.        *)
(***************************************************************************)
EXTENDS Integers

CONSTANT Posts

VARIABLES
  promise,  \* [state, due] of every post
  held,     \* the posts the scheduler is about to send
  sent,     \* the posts the node has accepted
  stray,    \* those of them whose acceptance is unknown to the scheduler
  time

queue == <<promise, held, sent, stray, time>>

Waiting(p) == promise[p].state = "scheduled"
Close(p, state) == promise' = [promise EXCEPT ![p].state = state]

Init ==
  /\ promise = [p \in Posts |-> [state |-> "none", due |-> 0]]
  /\ held = {} /\ sent = {} /\ stray = {} /\ time = 0

\* A post that is not known to have been sent; a forgotten one may come again.
Accept(p) ==
  /\ promise[p].state = "none" /\ p \notin sent \ stray
  /\ promise' = [promise EXCEPT ![p] = [state |-> "scheduled", due |-> promise'[p].due]]
  /\ UNCHANGED <<held, sent, stray, time>>
Withdraw(p) == Waiting(p) /\ Close(p, "cancelled") /\ UNCHANGED <<held, sent, stray, time>>
Hold ==
  /\ held = {}
  /\ \A p \in held' : p \in Posts /\ Waiting(p) /\ promise[p].due <= time
  /\ UNCHANGED <<promise, sent, stray, time>>
Send(p) ==
  /\ p \in held \ sent
  /\ sent' = sent \cup {p}
  /\ stray' \in {stray, stray \cup {p}}
  /\ UNCHANGED <<promise, held, time>>
Confirm(p) ==
  /\ p \in (held \cap sent) \ stray /\ Waiting(p)
  /\ Close(p, "submitted")
  /\ held' = held \ {p}
  /\ UNCHANGED <<sent, stray, time>>
Fail(p) ==
  /\ p \in held \ (sent \ stray) /\ Waiting(p)
  /\ Close(p, "failed")
  /\ held' = held \ {p}
  /\ UNCHANGED <<sent, stray, time>>
\* The scheduler gives posts up for now: they were withdrawn, nobody answered,
\* the result could not be written down, or it died.
Release ==
  /\ held' \subseteq held
  /\ stray' = stray \cup ((held \ held') \cap sent)
  /\ UNCHANGED <<promise, sent, time>>
\* Closed posts are forgotten.
Forget ==
  /\ \A p \in Posts :
       promise'[p] # promise[p] =>
         promise[p].state \notin {"none", "scheduled"} /\ promise'[p] = [state |-> "none", due |-> 0]
  /\ promise' = [p \in Posts |-> promise'[p]]
  /\ stray' = stray \cup {p \in sent : promise[p].state = "submitted" /\ promise'[p].state = "none"}
  /\ UNCHANGED <<held, sent, time>>
Pass == time' > time /\ UNCHANGED <<promise, held, sent, stray>>

Next ==
  \/ \E p \in Posts : Accept(p) \/ Withdraw(p) \/ Send(p) \/ Confirm(p) \/ Fail(p)
  \/ Hold \/ Release \/ Forget \/ Pass

Safe == Init /\ [][Next]_queue

\* A post whose time has come does not wait for ever.
Settles == \A p \in Posts : (Waiting(p) /\ promise[p].due <= time) ~> ~Waiting(p)

Spec == Safe /\ Settles
==============================================================================
