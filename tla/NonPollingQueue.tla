-------------------------- MODULE NonPollingQueue --------------------------
(***************************************************************************)
(* _NonPollingSingleReaderQueue of background_tasks.py: a deque, and a     *)
(* threading.Lock used the wrong way round, as a binary signal.  The lock  *)
(* is acquired when the queue is made; the reader waits for an item by     *)
(* acquiring it again, and whoever appends an item releases it.  Releasing *)
(* a lock that is already released raises ThreadError, which is ignored,   *)
(* so two signals may collapse into one.                                   *)
(*                                                                         *)
(* One reader calls Get for ever; each writer calls Put MaxPuts times.     *)
(* Every access to the deque or to the lock is a step of its own: that is  *)
(* the grain at which the interpreter may switch threads.                  *)
(***************************************************************************)
EXTENDS Naturals, Sequences

CONSTANTS
    Writer,        \* the threads that call Put
    MaxPuts        \* bound: how often each of them does

ASSUME MaxPutsAssumption == MaxPuts \in Nat

NoItem == <<>>                       \* the reader holds nothing
Item == Writer \X (1 .. MaxPuts)     \* <<w, n>>: the n-th item w puts

VARIABLES
    deque,         \* self._deque
    locked,        \* self._lock is held (no signal is pending)
    reader,        \* where the reader is in Get
    item,          \* the local variable of Get
    writer,        \* where each writer is in Put
    puts,          \* how many items each writer has appended
    got            \* what Get has returned so far

vars == <<deque, locked, reader, item, writer, puts, got>>

(* __init__: the lock is acquired at once. *)
Init ==
    /\ deque = <<>>
    /\ locked = TRUE
    /\ reader = "wait"
    /\ item = NoItem
    /\ writer = [w \in Writer |-> "idle"]
    /\ puts = [w \in Writer |-> 0]
    /\ got = <<>>

----------------------------------------------------------------------------
(* Wrong versions of some steps, to show that the properties notice them.  *)

(* Put adds at the reader's end (appendleft). *)
PutAppendLeft(w) ==
    /\ writer[w] = "idle"
    /\ puts[w] < MaxPuts
    /\ puts' = [puts EXCEPT ![w] = @ + 1]
    /\ deque' = <<<<w, puts[w] + 1>>>> \o deque
    /\ writer' = [writer EXCEPT ![w] = "signal"]
    /\ UNCHANGED <<locked, reader, item, got>>

(* Get does not signal again when it leaves items behind. *)
GetRecheckForgetful ==
    /\ reader = "recheck"
    /\ reader' = "return"
    /\ UNCHANGED <<deque, locked, item, writer, puts, got>>

----------------------------------------------------------------------------
(* Put *)

PutAppend(w) ==
    /\ writer[w] = "idle"
    /\ puts[w] < MaxPuts
    /\ puts' = [puts EXCEPT ![w] = @ + 1]
    /\ deque' = Append(deque, <<w, puts[w] + 1>>)
    /\ writer' = [writer EXCEPT ![w] = "signal"]
    /\ UNCHANGED <<locked, reader, item, got>>

(* _SignalAvailableItem: a release, or an ignored ThreadError. *)
PutSignal(w) ==
    /\ writer[w] = "signal"
    /\ locked' = FALSE
    /\ writer' = [writer EXCEPT ![w] = "idle"]
    /\ UNCHANGED <<deque, reader, item, puts, got>>

----------------------------------------------------------------------------
(* Get *)

WaitForItem ==
    /\ reader = "wait"
    /\ ~locked
    /\ locked' = TRUE
    /\ reader' = "check"
    /\ UNCHANGED <<deque, item, writer, puts, got>>

GetCheck ==
    /\ reader = "check"
    /\ reader' = IF deque = <<>> THEN "wait" ELSE "pop"
    /\ UNCHANGED <<deque, locked, item, writer, puts, got>>

GetPop ==
    /\ reader = "pop"
    /\ item' = Head(deque)
    /\ deque' = Tail(deque)
    /\ reader' = "recheck"
    /\ UNCHANGED <<locked, writer, puts, got>>

GetRecheck ==
    /\ reader = "recheck"
    /\ reader' = IF deque = <<>> THEN "return" ELSE "resignal"
    /\ UNCHANGED <<deque, locked, item, writer, puts, got>>

GetResignal ==
    /\ reader = "resignal"
    /\ locked' = FALSE
    /\ reader' = "return"
    /\ UNCHANGED <<deque, item, writer, puts, got>>

GetReturn ==
    /\ reader = "return"
    /\ got' = Append(got, item)
    /\ item' = NoItem
    /\ reader' = "wait"
    /\ UNCHANGED <<deque, locked, writer, puts>>

Get == WaitForItem \/ GetCheck \/ GetPop \/ GetRecheck \/ GetResignal \/ GetReturn

Next == Get \/ \E w \in Writer : PutAppend(w) \/ PutSignal(w)

(* A thread that can run is run: the reader loops for ever, and a writer    *)
(* that has appended goes on to signal.  Nothing forces a writer to Put.    *)
Fairness == WF_vars(Get) /\ \A w \in Writer : WF_vars(PutSignal(w))

Spec == Init /\ [][Next]_vars /\ Fairness

----------------------------------------------------------------------------
(* Types.  Nothing is said of the order of the items. *)
TypeOK ==
    /\ deque \in Seq(Item)
    /\ locked \in BOOLEAN
    /\ reader \in {"wait", "check", "pop", "recheck", "resignal", "return"}
    /\ item \in Item \cup {NoItem}
    /\ writer \in [Writer -> {"idle", "signal"}]
    /\ puts \in [Writer -> 0 .. MaxPuts]
    /\ got \in Seq(Item)

(* No wakeup is lost.  The signal holds one bit for any number of items and *)
(* extra releases are thrown away; still, the reader of Get never sleeps on *)
(* the lock while the deque holds an item and no Put is about to release.   *)
NoLostWakeup ==
    (reader = "wait" /\ locked /\ deque # <<>>)
        => \E w \in Writer : writer[w] = "signal"

(* Get pops only from a deque it saw holding an item: no other thread can   *)
(* empty it between the check and popleft, which would raise IndexError.    *)
PopSafe == reader = "pop" => deque # <<>>

(* The queue is a first-in first-out channel.  An item is sent when Put     *)
(* appends it and received when Get pops it; while Get still holds it, it   *)
(* counts as received.                                                      *)
Chan == INSTANCE FifoChannel WITH
            channel <- deque,
            received <- IF item = NoItem THEN got ELSE Append(got, item)

FifoDelivery == Chan!Spec
=============================================================================
