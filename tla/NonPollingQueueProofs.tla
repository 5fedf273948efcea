------------------------ MODULE NonPollingQueueProofs ------------------------
(***************************************************************************)
(* The reader of _NonPollingSingleReaderQueue loses no wakeup, for any     *)
(* number of writers and of items, and the queue implements FifoChannel.   *)
(***************************************************************************)
EXTENDS NonPollingQueue, TLAPS

(* NoLostWakeup is not inductive: it says nothing of a reader that has the  *)
(* signal and has not yet looked.  Awake covers every place the reader can  *)
(* be at: an item is in the deque only if a signal is pending, a Put is     *)
(* about to give one, or the reader has yet to look at the deque.           *)
Awake ==
    deque # <<>>
        => \/ ~locked
           \/ \E w \in Writer : writer[w] = "signal"
           \/ reader \in {"check", "pop", "recheck", "resignal"}

Holding == item # NoItem <=> reader \in {"recheck", "resignal", "return"}

IInv == TypeOK /\ Awake /\ PopSafe /\ Holding

LEMMA ItemIsNotNoItem == \A i \in Item : i # NoItem
BY DEF Item, NoItem

LEMMA Initially == Init => IInv
BY MaxPutsAssumption DEF Init, IInv, TypeOK, Awake, PopSafe, Holding, NoItem

LEMMA TypePreserved == TypeOK /\ PopSafe /\ Holding /\ [Next]_vars => TypeOK'
<1> SUFFICES ASSUME TypeOK, PopSafe, Holding, [Next]_vars
             PROVE  TypeOK'
  OBVIOUS
<1> USE MaxPutsAssumption
<1>1. ASSUME NEW w \in Writer, PutAppend(w)
      PROVE  TypeOK'
  <2>1. <<w, puts[w] + 1>> \in Item
    BY <1>1 DEF PutAppend, TypeOK, Item
  <2> QED
    BY <1>1, <2>1 DEF PutAppend, TypeOK
<1>2. ASSUME NEW w \in Writer, PutSignal(w)
      PROVE  TypeOK'
  BY <1>2 DEF PutSignal, TypeOK
<1>3. CASE WaitForItem
  BY <1>3 DEF WaitForItem, TypeOK
<1>4. CASE GetCheck
  BY <1>4 DEF GetCheck, TypeOK
<1>5. CASE GetPop
  <2>1. Head(deque) \in Item /\ Tail(deque) \in Seq(Item)
    BY <1>5 DEF GetPop, PopSafe, TypeOK
  <2> QED
    BY <1>5, <2>1 DEF GetPop, TypeOK
<1>6. CASE GetRecheck
  BY <1>6 DEF GetRecheck, TypeOK
<1>7. CASE GetResignal
  BY <1>7 DEF GetResignal, TypeOK
<1>8. CASE GetReturn
  <2>1. item \in Item
    BY <1>8 DEF GetReturn, Holding, TypeOK
  <2> QED
    BY <1>8, <2>1 DEF GetReturn, TypeOK
<1>9. CASE UNCHANGED vars
  BY <1>9 DEF vars, TypeOK
<1> QED
  BY <1>1, <1>2, <1>3, <1>4, <1>5, <1>6, <1>7, <1>8, <1>9 DEF Next, Get

LEMMA RestPreserved == IInv /\ [Next]_vars => Awake' /\ PopSafe' /\ Holding'
<1> SUFFICES ASSUME TypeOK, Awake, PopSafe, Holding, [Next]_vars
             PROVE  Awake' /\ PopSafe' /\ Holding'
  BY DEF IInv
<1> USE DEF Awake, PopSafe, Holding
<1>1. ASSUME NEW w \in Writer, PutAppend(w)
      PROVE  Awake' /\ PopSafe' /\ Holding'
  <2>1. writer'[w] = "signal"
    BY <1>1 DEF PutAppend, TypeOK
  <2>2. deque' # <<>>
    BY <1>1 DEF PutAppend, TypeOK
  <2> QED
    BY <1>1, <2>1, <2>2 DEF PutAppend
<1>2. ASSUME NEW w \in Writer, PutSignal(w)
      PROVE  Awake' /\ PopSafe' /\ Holding'
  BY <1>2 DEF PutSignal
<1>3. CASE WaitForItem
  BY <1>3 DEF WaitForItem
<1>4. CASE GetCheck
  BY <1>4 DEF GetCheck
<1>5. CASE GetPop
  <2>1. item' # NoItem
    BY <1>5, ItemIsNotNoItem DEF GetPop, TypeOK
  <2> QED
    BY <1>5, <2>1 DEF GetPop
<1>6. CASE GetRecheck
  BY <1>6 DEF GetRecheck
<1>7. CASE GetResignal
  BY <1>7 DEF GetResignal
<1>8. CASE GetReturn
  BY <1>8 DEF GetReturn
<1>9. CASE UNCHANGED vars
  BY <1>9 DEF vars
<1> QED
  BY <1>1, <1>2, <1>3, <1>4, <1>5, <1>6, <1>7, <1>8, <1>9 DEF Next, Get

LEMMA Inductive == Spec => []IInv
<1>1. IInv /\ [Next]_vars => IInv'
  BY TypePreserved, RestPreserved DEF IInv
<1> QED
  BY Initially, <1>1, PTL DEF Spec

(* Type correctness of the queue and of the two parties' local state. *)
THEOREM QueueTypes == Spec => []TypeOK
BY Inductive, PTL DEF IInv

(* For any number of writers and items, Get never sleeps on an available    *)
(* item: the one-bit signal made of a Lock loses no wakeup.                 *)
THEOREM WakeupsAreNotLost == Spec => []NoLostWakeup
<1>1. IInv => NoLostWakeup
  BY DEF IInv, Awake, NoLostWakeup
<1> QED
  BY Inductive, <1>1, PTL

(* popleft never meets an empty deque. *)
THEOREM PopsAreSafe == Spec => []PopSafe
BY Inductive, PTL DEF IInv

(* The safety part of FifoDelivery: every step on the deque and the lock is *)
(* a send, a receive of the oldest item, or nothing, to the channel.        *)
THEOREM QueueImplementsChannel == Spec => Chan!Safety
<1>1. Init => Chan!Init
  BY DEF Init, Chan!Init, NoItem
<1>2. IInv /\ [Next]_vars => [Chan!Next]_(Chan!cvars)
  <2> SUFFICES ASSUME IInv, [Next]_vars
               PROVE  Chan!Next \/ UNCHANGED Chan!cvars
    OBVIOUS
  <2> USE DEF IInv, Chan!cvars
  <2>1. ASSUME NEW w \in Writer, PutAppend(w)
        PROVE  Chan!Next
    <3>1. <<w, puts[w] + 1>> \in Item
      BY <2>1, MaxPutsAssumption DEF PutAppend, TypeOK, Item
    <3>2. Chan!Send(<<w, puts[w] + 1>>)
      BY <2>1 DEF PutAppend, Chan!Send
    <3> QED
      BY <3>1, <3>2 DEF Chan!Next
  <2>2. ASSUME NEW w \in Writer, PutSignal(w)
        PROVE  UNCHANGED Chan!cvars
    BY <2>2 DEF PutSignal
  <2>3. CASE GetPop
    <3>1. item = NoItem /\ item' = Head(deque) /\ item' # NoItem
      BY <2>3, ItemIsNotNoItem DEF GetPop, Holding, TypeOK, PopSafe
    <3> QED
      BY <2>3, <3>1 DEF GetPop, PopSafe, Chan!Receive, Chan!Next
  <2>4. CASE GetReturn
    BY <2>4 DEF GetReturn, Holding
  <2>5. CASE WaitForItem \/ GetCheck \/ GetRecheck \/ GetResignal
    BY <2>5 DEF WaitForItem, GetCheck, GetRecheck, GetResignal
  <2>6. CASE UNCHANGED vars
    BY <2>6 DEF vars
  <2> QED
    BY <2>1, <2>2, <2>3, <2>4, <2>5, <2>6 DEF Next, Get
<1> QED
  BY <1>1, <1>2, Inductive, PTL DEF Spec, Chan!Safety
=============================================================================
