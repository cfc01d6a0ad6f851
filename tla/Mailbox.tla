------------------------------ MODULE Mailbox -------------------------------
(***************************************************************************)
(* What the outbox promises the rest of the system: every task has a        *)
(* mailbox of letters for the remote.  Only the head of a mailbox takes     *)
(* effect (at least once, perhaps more) or is closed by the drainer; a      *)
(* letter may be withdrawn before that.  A closed letter stays closed.      *)
(***************************************************************************)
EXTENDS Integers

CONSTANTS
  Tasks,
  Stamps  \* timestamps a letter may carry

VARIABLES
  letters,  \* [1..last -> [task, at, state, effects]]
  last      \* number of letters posted

Posted == 1..last

(* A letter posted before f, and stamped no later, goes first.              *)
GoesFirst(e, f) ==
  letters[e].task = letters[f].task /\ e < f /\ letters[e].at <= letters[f].at

Head(e) == /\ letters[e].state = "open"
           /\ \A o \in Posted : GoesFirst(o, e) => letters[o].state = "closed"

Post(t, at) ==
  /\ last' = last + 1
  /\ letters' = [e \in 1..(last + 1) |->
       IF e \in Posted THEN letters[e]
       ELSE [task |-> t, at |-> at, state |-> "open", effects |-> 0]]

TakeEffect(e) ==
  /\ Head(e)
  /\ letters' = [letters EXCEPT ![e].effects = @ + 1]
  /\ last' = last

Close(e) ==
  /\ Head(e)
  /\ letters' = [letters EXCEPT ![e].state = "closed"]
  /\ last' = last

(* A detach takes some open letters of one task back.                       *)
Withdraw(t) ==
  /\ \E S \in SUBSET {e \in Posted : letters[e].task = t} :
       letters' = [e \in Posted |-> IF e \in S THEN [letters[e] EXCEPT !.state = "closed"]
                                               ELSE letters[e]]
  /\ last' = last

Init == last = 0 /\ letters = [e \in 1..0 |-> 0]

Next == \/ \E t \in Tasks, at \in Stamps : Post(t, at)
        \/ \E e \in Posted : TakeEffect(e) \/ Close(e)
        \/ \E t \in Tasks : Withdraw(t)

Spec == Init /\ [][Next]_<<letters, last>>
=============================================================================
