---------------------------- MODULE FifoChannel ----------------------------
(***************************************************************************)
(* What the queues of background_tasks.py promise, without the deque and   *)
(* the lock they are made of: a channel to which several writers send and  *)
(* from which one reader receives every item once, in the order in which   *)
(* the items were sent.  The reader is not allowed to ignore a channel     *)
(* that holds an item.                                                     *)
(***************************************************************************)
EXTENDS Naturals, Sequences

CONSTANT Item      \* everything that can be sent

VARIABLES
    channel,       \* the items sent and not yet received, oldest first
    received       \* the items received so far, oldest first

cvars == <<channel, received>>

Init ==
    /\ channel = <<>>
    /\ received = <<>>

Send(i) ==
    /\ channel' = Append(channel, i)
    /\ UNCHANGED received

Receive ==
    /\ channel # <<>>
    /\ received' = Append(received, Head(channel))
    /\ channel' = Tail(channel)

Next == Receive \/ \E i \in Item : Send(i)

Safety == Init /\ [][Next]_cvars

Spec == Safety /\ WF_cvars(Receive)
=============================================================================
