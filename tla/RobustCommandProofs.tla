------------------------ MODULE RobustCommandProofs ------------------------
(***************************************************************************)
(* RobustRemoteCommand, for any number of ssh retries, failed connections  *)
(* and killed wrappers: commands run beside each other only where wrappers *)
(* were killed, and what a caller is told of its one command is true.      *)
(***************************************************************************)
EXTENDS RobustCommand, FiniteSetTheorems, TLAPS

Texts == {"empty"} \cup Codes
WaiterType ==
    [at : {"none", "look", "open", "lock", "read", "delete", "again", "refused", "finished",
           "ok", "failed"},
     fetch : BOOLEAN, file : Nat, read : {"none"} \cup Texts]

(* The file a waiter has opened is one of those there were. *)
Opened(r) == r.file <= Len(content) /\ (r.at \in {"lock", "read"} => r.file > 0)

(* The types, with the bounds on the files of the waiters apart. *)
Typed ==
    /\ pc \in {"start", "poll", "fetch", "done"} /\ ssh \in 0 .. (SshRetries - 1)
    /\ outcome \in {"none", "ok", "error"} /\ ((pc = "done") <=> (outcome # "none"))
    /\ wrapper \in [Wrappers -> {"none", "open", "lock", "locked", "started", "waiting",
                                 "write", "close", "dead"}]
    /\ command \in [Wrappers -> {"none", "running"} \cup Codes]
    /\ waiter \in [Waiters -> WaiterType]
    /\ content \in Seq(Texts) /\ Len(content) <= launches
    /\ status \in 0 .. Len(content) /\ file \in [Wrappers -> 0 .. Len(content)]
    /\ launches \in 0 .. SshRetries /\ drops \in 0 .. MaxDrops /\ crashes \in 0 .. MaxCrashes
    /\ \A w \in Waiters : Opened(waiter[w])
    /\ exclusive \in BOOLEAN /\ gaveUp \in BOOLEAN
    /\ lockErrors \in 0 .. MaxLockErrors /\ unread \in {"no", "alarm", "errno"}

(* The calls of the script that may still be made, and which of them have   *)
(* been: the caller leaves its first place when one has.                    *)
Launches ==
    /\ \A k \in Wrappers : k > launches => wrapper[k] = "none"
    /\ pc = "start" => launches <= ssh
    /\ pc \in {"poll", "fetch"} => launches > 0

(* Each wrapper makes at most one file, when it leaves its first place. *)
Openers == {k \in Wrappers : wrapper[k] = "open"}
FilesCounted == Len(content) + Cardinality(Openers) <= launches

(* What a wrapper's place says of its command, and that it has a file. *)
Stages ==
    \A k \in Wrappers :
        /\ wrapper[k] \in {"none", "open", "lock", "locked"} => command[k] = "none"
        /\ wrapper[k] \in {"started", "waiting"} => command[k] # "none"
        /\ wrapper[k] \in {"write", "close"} => command[k] \in Codes
        /\ wrapper[k] = "lock" \/ Holds(k) => file[k] > 0

(* The lock is exclusive, for each file. *)
Mutex == \A j, k \in Wrappers : Holds(j) /\ Holds(k) /\ file[j] = file[k] => j = k

(* A command runs on without its wrapper only if that was killed. *)
Orphans == {k \in Wrappers : command[k] = "running" /\ wrapper[k] = "dead"}
OrphansCounted == Cardinality(Orphans) <= crashes

(* Before a connection has started the wrapper there is nothing. *)
Untouched ==
    /\ command[1] = "none" /\ \A w \in Waiters : waiter[w] = Idle
    /\ status = 0 /\ content = <<>> /\ exclusive = FALSE /\ outcome # "ok"
    /\ unread = "no"

(* One wrapper, whose lock was announced in time: where it is when there    *)
(* is a file, when the lock was announced, and when a waiter got past it.   *)
Lone ==
    /\ wrapper[1] # "none"
    /\ wrapper[1] = "open" => content = <<>> /\ status = 0
    /\ exclusive => /\ wrapper[1] \in {"waiting", "write", "close", "dead"}
                    /\ file[1] = 1 /\ Len(content) = 1
    /\ crashes = 0 /\ wrapper[1] = "dead" => command[1] \in Codes
WaiterFits(r) ==
    /\ r.at \notin {"none", "look"} => exclusive = TRUE
    /\ r.at \in {"lock", "read"} => r.file = 1
    /\ r.at \in {"read", "delete", "finished", "ok"} => wrapper[1] = "dead"
    /\ r.fetch = TRUE => wrapper[1] = "dead" /\ r.at # "again"
Waited ==
    /\ \A w \in Waiters : WaiterFits(waiter[w])
    /\ pc = "fetch" => wrapper[1] = "dead" /\ (waiter[0].at # "none" => waiter[0].fetch = TRUE)
Told == unread # "alarm"

Quiet == launches = 1 /\ gaveUp = FALSE
Single == Lone /\ Waited /\ Told

IInv ==
    /\ Typed /\ Launches /\ FilesCounted /\ Stages /\ Mutex /\ OrphansCounted
    /\ launches = 0 => Untouched
    /\ Quiet => Single

USE SshRetriesAssumption, BoundsAssumption

LEMMA Initially == Init => IInv
<1> SUFFICES ASSUME Init PROVE IInv
  OBVIOUS
<1>1. Typed
  <2>1. Idle \in WaiterType /\ Idle.file = 0 /\ Idle.at = "none"
    BY DEF Idle, WaiterType
  <2>2. exclusive \in BOOLEAN /\ gaveUp \in BOOLEAN
    BY Zenon DEF Init
  <2>3. content \in Seq(Texts) /\ Len(content) = 0
    BY DEF Init
  <2> QED
    BY <2>1, <2>2, <2>3 DEF Init, Typed, Opened, Wrappers, Waiters
<1>2. Launches /\ Stages /\ Mutex
  BY DEF Init, Launches, Stages, Mutex, Holds, Wrappers
<1>3. OrphansCounted /\ FilesCounted
  <2>1. Orphans = {} /\ Openers = {} /\ Len(content) = 0
    BY DEF Init, Orphans, Openers
  <2> QED
    BY <2>1, FS_EmptySet DEF Init, OrphansCounted, FilesCounted
<1>4. Untouched /\ launches = 0
  BY DEF Init, Untouched, Wrappers
<1> QED
  BY <1>1, <1>2, <1>3, <1>4 DEF IInv, Quiet

LEMMA FiniteOrphans ==
    /\ IsFiniteSet(Orphans) /\ Cardinality(Orphans) \in Nat
    /\ IsFiniteSet(Openers) /\ Cardinality(Openers) \in Nat
<1>1. IsFiniteSet(Wrappers)
  BY FS_Interval DEF Wrappers
<1>2. Orphans \subseteq Wrappers /\ Openers \subseteq Wrappers
  BY DEF Orphans, Openers
<1> QED
  BY <1>1, <1>2, FS_Subset, FS_CardinalityType

LEMMA OrphansShrink ==
    ASSUME IInv, Orphans' \subseteq Orphans, crashes' = crashes
    PROVE  OrphansCounted'
<1>1. Cardinality(Orphans') <= Cardinality(Orphans) /\ Cardinality(Orphans') \in Nat
  BY FiniteOrphans, FS_Subset, FS_CardinalityType
<1> QED
  BY <1>1, FiniteOrphans DEF IInv, OrphansCounted, Typed

LEMMA OpenersShrink ==
    ASSUME IInv, Openers' \subseteq Openers, launches' = launches, Len(content') = Len(content)
    PROVE  FilesCounted'
<1>1. Cardinality(Openers') <= Cardinality(Openers) /\ Cardinality(Openers') \in Nat
  BY FiniteOrphans, FS_Subset, FS_CardinalityType
<1>2. Len(content) \in Nat /\ launches \in Nat
  BY DEF IInv, Typed
<1> QED
  BY <1>1, <1>2, FiniteOrphans DEF IInv, FilesCounted

(* Steps of the caller and of the waiters leave the wrappers alone. *)
LEMMA WrappersKept ==
    ASSUME IInv, UNCHANGED <<wrapper, command, file, crashes, launches, content>>
    PROVE  Stages' /\ Mutex' /\ OrphansCounted' /\ FilesCounted'
<1>1. Stages' /\ Mutex'
  BY DEF IInv, Stages, Mutex, Holds
<1>2. Orphans' = Orphans /\ Openers' = Openers
  BY DEF Orphans, Openers
<1> QED
  BY <1>1, <1>2, OrphansShrink, OpenersShrink

(* One record among the waiters is replaced. *)
LEMMA OneWaiter ==
    ASSUME IInv, NEW w \in Waiters, NEW r \in WaiterType, Opened(r),
           waiter' = [waiter EXCEPT ![w] = r]
    PROVE  /\ waiter' \in [Waiters -> WaiterType] /\ waiter'[w] = r
           /\ \A v \in Waiters : Opened(waiter'[v])
           /\ \A v \in Waiters \ {w} : waiter'[v] = waiter[v]
BY DEF IInv, Typed

(* A step of a waiter that a connection has started. *)
LEMMA WaiterMoves ==
    ASSUME IInv, NEW w \in Waiters, NEW r \in WaiterType, Opened(r),
           waiter[w].at # "none", waiter' = [waiter EXCEPT ![w] = r],
           status' \in {0, status}, gaveUp' \in {gaveUp, TRUE},
           UNCHANGED <<caller, wrapper, command, content, file, exclusive, launches, drops, crashes,
                       unread>>,
           lockErrors' = lockErrors \/ lockErrors' \in 0 .. MaxLockErrors,
           r.fetch = waiter[w].fetch, r.at # "none",
           Quiet /\ Single /\ gaveUp' = FALSE => WaiterFits(r)
    PROVE  IInv'
<1> USE DEF caller
<1>0. /\ waiter' \in [Waiters -> WaiterType] /\ waiter'[w] = r
      /\ \A v \in Waiters : Opened(waiter'[v])
      /\ \A v \in Waiters \ {w} : waiter'[v] = waiter[v]
  BY OneWaiter
<1>g. gaveUp' \in BOOLEAN /\ exclusive' \in BOOLEAN
  BY DEF IInv, Typed
<1>1. Typed' /\ Launches'
  BY <1>0, <1>g DEF IInv, Typed, Launches, Opened
<1>2. Stages' /\ Mutex' /\ OrphansCounted' /\ FilesCounted'
  BY WrappersKept
<1>3. launches # 0
  BY DEF IInv, Untouched, Idle
<1>4. ASSUME Quiet' PROVE Single'
  <2>1. Quiet /\ Single /\ WaiterFits(r) /\ gaveUp' = FALSE /\ gaveUp = FALSE
    BY <1>4 DEF IInv, Quiet, Typed
  <2>2. Lone' /\ Told'
    BY <2>1 DEF Single, Lone, Told, IInv, Typed
  <2>3. \A v \in Waiters : WaiterFits(waiter[v])'
    BY <2>1, <1>0 DEF Single, Waited, WaiterFits
  <2>4. 0 \in Waiters
    BY DEF Waiters
  <2>5. Waited'
    BY <2>1, <2>3, <2>4, <1>0 DEF Single, Waited
  <2> QED
    BY <2>2, <2>5 DEF Single
<1> QED
  BY <1>1, <1>2, <1>3, <1>4 DEF IInv

LEMMA LookStep == ASSUME IInv, NEW w \in Waiters, Look(w) PROVE IInv'
<1> USE DEF Look, Move, files
<1> DEFINE r == [waiter[w] EXCEPT !.at = "open"]
<1>t. waiter[w] \in WaiterType /\ waiter \in [Waiters -> WaiterType]
  BY DEF IInv, Typed
<1>1. /\ r \in WaiterType /\ r.at = "open" /\ r.fetch = waiter[w].fetch
      /\ r.file = waiter[w].file /\ r.read = waiter[w].read
      /\ waiter' = [waiter EXCEPT ![w] = r]
  BY <1>t DEF WaiterType
<1>2. Opened(waiter[w])
  BY DEF IInv, Typed
<1>3. gaveUp' = FALSE => exclusive = TRUE
  BY DEF IInv, Typed
<1>4. Quiet /\ Single /\ gaveUp' = FALSE => WaiterFits(r)
  <2> HIDE DEF r
  <2> QED
    BY <1>1, <1>3 DEF Single, Waited, WaiterFits
<1>5. Opened(r)
  BY <1>1, <1>2 DEF Opened
<1> HIDE DEF r
<1> QED
  BY <1>1, <1>5, <1>4, WaiterMoves

LEMMA OpenStep == ASSUME IInv, NEW w \in Waiters, Open(w) PROVE IInv'
<1> DEFINE place == IF status = 0 THEN "failed" ELSE "lock"
           r == [waiter[w] EXCEPT !.at = place, !.file = status]
<1>p. place \in {"failed", "lock"} /\ (place = "lock" => status # 0)
  OBVIOUS
<1>a. /\ waiter' = [waiter EXCEPT ![w].at = place, ![w].file = status]
      /\ waiter[w].at = "open"
      /\ UNCHANGED <<caller, wrapper, command, status, content, file, exclusive, launches,
                     drops, crashes, gaveUp, lockErrors, unread>>
  BY DEF Open, files, faults
<1> HIDE DEF place
<1>t. /\ waiter[w] \in WaiterType /\ waiter \in [Waiters -> WaiterType]
      /\ status \in 0 .. Len(content) /\ Len(content) \in Nat /\ Len(content) <= launches
  BY DEF IInv, Typed
<1>1. /\ r \in WaiterType /\ r.at \in {"failed", "lock"} /\ r.fetch = waiter[w].fetch
      /\ r.file = status /\ r.read = waiter[w].read
      /\ r.at = "lock" => status # 0
      /\ waiter' = [waiter EXCEPT ![w] = r]
  <2>1. status \in Nat
    BY <1>t
  <2>2. r \in WaiterType
    BY <2>1, <1>t, <1>p DEF WaiterType
  <2>3. waiter' = [waiter EXCEPT ![w] = r]
    BY <1>t, <1>a DEF WaiterType
  <2> QED
    BY <2>2, <2>3, <1>t, <1>p DEF WaiterType
<1>4. Quiet /\ Single /\ gaveUp' = FALSE => WaiterFits(r)
  <2> HIDE DEF r
  <2> QED
    BY <1>1, <1>t, <1>a DEF Quiet, Single, Waited, WaiterFits
<1>5. Opened(r)
  BY <1>t, <1>1 DEF Opened
<1> HIDE DEF r
<1> QED
  BY <1>a, <1>1, <1>5, <1>4, WaiterMoves

LEMMA SharedStep == ASSUME IInv, NEW w \in Waiters, Shared(w) PROVE IInv'
<1> USE DEF Shared, Move, files, faults
<1> DEFINE r == [waiter[w] EXCEPT !.at = "read"]
<1>t. waiter[w] \in WaiterType /\ waiter \in [Waiters -> WaiterType]
  BY DEF IInv, Typed
<1>1. /\ r \in WaiterType /\ r.at = "read" /\ r.fetch = waiter[w].fetch
      /\ r.file = waiter[w].file /\ r.read = waiter[w].read
      /\ waiter' = [waiter EXCEPT ![w] = r]
  BY <1>t DEF WaiterType
<1>2. Opened(waiter[w])
  BY DEF IInv, Typed
<1>4. Quiet /\ Single /\ gaveUp' = FALSE => WaiterFits(r)
  <2> HIDE DEF r
  <2> SUFFICES ASSUME Single PROVE WaiterFits(r)
    OBVIOUS
  <2>1. waiter[w].file = 1 /\ exclusive = TRUE /\ WaiterFits(waiter[w])
    BY DEF Single, Waited, WaiterFits
  <2>2. wrapper[1] = "dead"
    BY <2>1 DEF Single, Lone, Locked, Holds, Wrappers
  <2> QED
    BY <2>1, <2>2, <1>1 DEF WaiterFits
<1>5. Opened(r)
  BY <1>1, <1>2 DEF Opened
<1> HIDE DEF r
<1> QED
  BY <1>1, <1>5, <1>4, WaiterMoves

LEMMA AlarmStep == ASSUME IInv, NEW w \in Waiters, Alarm(w) PROVE IInv'
<1> USE DEF Alarm, Move, files
<1>t. waiter[w] \in WaiterType /\ waiter \in [Waiters -> WaiterType]
  BY DEF IInv, Typed
<1>0. PICK place \in {"again", "failed"} :
        /\ waiter' = [waiter EXCEPT ![w].at = place]
        /\ place = "again" => waiter[w].at = "lock" /\ Locked(waiter[w].file)
        /\ gaveUp' = FALSE => place = "again"
        /\ gaveUp' \in {gaveUp, TRUE} /\ waiter[w].at # "none"
  OBVIOUS
<1> DEFINE r == [waiter[w] EXCEPT !.at = place]
<1>1. /\ r \in WaiterType /\ r.at = place /\ r.fetch = waiter[w].fetch
      /\ r.file = waiter[w].file /\ r.read = waiter[w].read
      /\ waiter' = [waiter EXCEPT ![w] = r]
  BY <1>t, <1>0 DEF WaiterType
<1>2. Opened(waiter[w])
  BY DEF IInv, Typed
<1>4. Quiet /\ Single /\ gaveUp' = FALSE => WaiterFits(r)
  <2> HIDE DEF r
  <2> SUFFICES ASSUME Quiet, Single, gaveUp' = FALSE PROVE WaiterFits(r)
    OBVIOUS
  <2>1. waiter[w].at = "lock" /\ Locked(waiter[w].file) /\ place = "again"
    BY <1>0
  <2>2. /\ waiter[w].file = 1 /\ exclusive = TRUE /\ WaiterFits(waiter[w])
    BY <2>1 DEF Single, Waited, WaiterFits
  <2>3. wrapper[1] # "dead"
    <3>1. PICK k \in Wrappers : Holds(k)
      BY <2>1 DEF Locked
    <3>2. k = 1
      BY <3>1 DEF IInv, Launches, Quiet, Holds, Wrappers
    <3> QED
      BY <3>1, <3>2 DEF Holds
  <2> QED
    BY <2>1, <2>2, <2>3, <1>1 DEF WaiterFits
<1>5. Opened(r)
  BY <1>0, <1>1, <1>2 DEF Opened
<1> HIDE DEF r
<1> QED
  BY <1>0, <1>1, <1>5, <1>4, WaiterMoves

LEMMA LockFailsStep == ASSUME IInv, NEW w \in Waiters, LockFails(w) PROVE IInv'
<1> USE DEF LockFails, Move, files
<1>t. waiter[w] \in WaiterType /\ waiter \in [Waiters -> WaiterType]
  BY DEF IInv, Typed
<1>0. PICK place \in {"refused", "failed"} : waiter' = [waiter EXCEPT ![w].at = place]
  OBVIOUS
<1> DEFINE r == [waiter[w] EXCEPT !.at = place]
<1>1. /\ r \in WaiterType /\ r.at = place /\ r.fetch = waiter[w].fetch
      /\ r.file = waiter[w].file /\ r.read = waiter[w].read
      /\ waiter' = [waiter EXCEPT ![w] = r]
  BY <1>t, <1>0 DEF WaiterType
<1>2. Opened(waiter[w]) /\ lockErrors' \in 0 .. MaxLockErrors
  BY DEF IInv, Typed
<1>4. Quiet /\ Single /\ gaveUp' = FALSE => WaiterFits(r)
  <2> HIDE DEF r
  <2> QED
    BY <1>0, <1>1 DEF Single, Waited, WaiterFits
<1>5. Opened(r)
  BY <1>0, <1>1, <1>2 DEF Opened
<1> HIDE DEF r
<1> QED
  BY <1>0, <1>1, <1>2, <1>5, <1>4, WaiterMoves

LEMMA ReadStep == ASSUME IInv, NEW w \in Waiters, Read(w) PROVE IInv'
<1> USE DEF Read, files, faults
<1> DEFINE r == [waiter[w] EXCEPT !.at = IF waiter[w].fetch THEN "delete" ELSE "finished",
                                  !.read = content[waiter[w].file]]
<1>t. waiter[w] \in WaiterType /\ waiter \in [Waiters -> WaiterType]
  BY DEF IInv, Typed
<1>2. Opened(waiter[w])
  BY DEF IInv, Typed
<1>c. content[waiter[w].file] \in Texts
  BY <1>t, <1>2 DEF Opened, IInv, Typed, WaiterType
<1>1. /\ r \in WaiterType /\ r.at \in {"delete", "finished"} /\ r.fetch = waiter[w].fetch
      /\ r.file = waiter[w].file /\ r.read = content[waiter[w].file]
      /\ waiter' = [waiter EXCEPT ![w] = r]
  BY <1>t, <1>c DEF WaiterType
<1>4. Quiet /\ Single /\ gaveUp' = FALSE => WaiterFits(r)
  <2> HIDE DEF r
  <2> SUFFICES ASSUME Single PROVE WaiterFits(r)
    OBVIOUS
  <2>1. /\ waiter[w].file = 1 /\ exclusive = TRUE /\ WaiterFits(waiter[w])
        /\ wrapper[1] = "dead" /\ Len(content) = 1
    BY DEF Single, Waited, WaiterFits, Lone
  <2> QED
    BY <2>1, <1>1 DEF WaiterFits
<1>5. Opened(r)
  BY <1>1, <1>2 DEF Opened
<1> HIDE DEF r
<1> QED
  BY <1>1, <1>5, <1>4, WaiterMoves

LEMMA DeleteStep == ASSUME IInv, NEW w \in Waiters, Delete(w) PROVE IInv'
<1> USE DEF Delete, Move, faults
<1> DEFINE r == [waiter[w] EXCEPT !.at = IF status # 0 /\ waiter[w].read = "0" THEN "ok" ELSE "failed"]
<1>t. waiter[w] \in WaiterType /\ waiter \in [Waiters -> WaiterType]
  BY DEF IInv, Typed
<1>1. /\ r \in WaiterType /\ r.at \in {"ok", "failed"} /\ r.fetch = waiter[w].fetch
      /\ r.file = waiter[w].file /\ r.read = waiter[w].read
      /\ r.at = "ok" => r.read = "0"
      /\ waiter' = [waiter EXCEPT ![w] = r]
  BY <1>t DEF WaiterType
<1>2. Opened(waiter[w])
  BY DEF IInv, Typed
<1>4. Quiet /\ Single /\ gaveUp' = FALSE => WaiterFits(r)
  <2> HIDE DEF r
  <2> QED
    BY <1>1 DEF Single, Waited, WaiterFits
<1>5. Opened(r)
  BY <1>1, <1>2 DEF Opened
<1> HIDE DEF r
<1> QED
  BY <1>1, <1>5, <1>4, WaiterMoves

LEMMA IdleFields ==
    /\ Idle \in WaiterType /\ Idle.at = "none" /\ Idle.fetch = FALSE /\ Idle.file = 0
    /\ Idle.read = "none" /\ Idle.read \notin Codes
BY DEF Idle, WaiterType, Codes

LEMMA StartWaiterStep == ASSUME IInv, StartWaiter PROVE IInv'
<1>a. /\ pc \in {"poll", "fetch"}
      /\ UNCHANGED <<pc, ssh, outcome, wrapper, command, status, content, file, exclusive,
                     launches, drops, crashes, gaveUp, lockErrors, unread>>
  BY DEF StartWaiter, caller, files, faults
<1>1. PICK r \in WaiterType :
        /\ waiter' = [waiter EXCEPT ![0] = r]
        /\ r.at = "look" /\ r.file = 0 /\ r.read \notin Codes
        /\ (r.fetch = TRUE) <=> (pc = "fetch")
  <2> DEFINE q == [Idle EXCEPT !.at = "look", !.fetch = (pc = "fetch")]
  <2>1. (pc = "fetch") \in BOOLEAN
    OBVIOUS
  <2>2. /\ q \in WaiterType /\ q.at = "look" /\ q.file = 0 /\ q.read \notin Codes
        /\ (q.fetch = TRUE) <=> (pc = "fetch")
    BY <2>1, IdleFields DEF WaiterType, Idle, Codes
  <2>3. waiter' = [waiter EXCEPT ![0] = q]
    BY DEF StartWaiter
  <2> QED
    BY <2>2, <2>3
<1>2. 0 \in Waiters /\ Opened(r)
  BY <1>1 DEF Waiters, Opened, IInv, Typed
<1>3. /\ waiter' \in [Waiters -> WaiterType] /\ waiter'[0] = r
      /\ \A v \in Waiters : Opened(waiter'[v])
      /\ \A v \in Waiters \ {0} : waiter'[v] = waiter[v]
  BY <1>a, <1>1, <1>2, OneWaiter
<1>4. Typed' /\ Launches'
  BY <1>a, <1>3 DEF IInv, Typed, Launches, Opened
<1>5. Stages' /\ Mutex' /\ OrphansCounted' /\ FilesCounted'
  BY <1>a, WrappersKept
<1>6. launches # 0
  BY <1>a DEF IInv, Launches
<1>7. ASSUME Quiet' PROVE Single'
  <2>1. Quiet /\ Single
    BY <1>7, <1>a DEF IInv, Quiet
  <2>2. Lone' /\ Told'
    BY <2>1, <1>a DEF Single, Lone, Told
  <2>3. WaiterFits(r)'
    BY <2>1, <1>a, <1>1 DEF Single, Waited, WaiterFits
  <2>4. \A v \in Waiters : WaiterFits(waiter[v])'
    BY <2>1, <2>3, <1>a, <1>3 DEF Single, Waited, WaiterFits
  <2> QED
    BY <2>1, <2>2, <2>4, <1>a, <1>1, <1>3 DEF Single, Waited
<1> QED
  BY <1>a, <1>4, <1>5, <1>6, <1>7 DEF IInv

(* What a failed connection does to the caller. *)
LEMMA Retrying ==
    ASSUME IInv, Retry255, pc # "done"
    PROVE  /\ pc' \in {pc, "done"} /\ drops' \in 0 .. MaxDrops /\ drops' = drops + 1
           /\ drops + 1 \in Waiters
           /\ ssh' \in 0 .. (SshRetries - 1)
           /\ (pc' = pc /\ ssh' = ssh + 1 /\ outcome' = outcome) \/ (pc' = "done" /\ outcome' = "error")
           /\ outcome' \in {"none", "ok", "error"} /\ ((pc' = "done") <=> (outcome' # "none"))
BY DEF Retry255, Finish, IInv, Typed, Waiters

LEMMA DropWaiterStep == ASSUME IInv, DropWaiter PROVE IInv'
<1>a. /\ waiter' = [waiter EXCEPT ![drops + 1] = waiter[0], ![0] = Idle]
      /\ pc \in {"poll", "fetch"} /\ Retry255
      /\ UNCHANGED <<wrapper, command, status, content, file, exclusive, launches, crashes,
                     gaveUp, lockErrors, unread>>
  BY DEF DropWaiter, files
<1>r. /\ pc' \in {pc, "done"} /\ drops' \in 0 .. MaxDrops /\ drops + 1 \in Waiters
      /\ ssh' \in 0 .. (SshRetries - 1) /\ outcome' \in {outcome, "error"}
      /\ outcome' \in {"none", "ok", "error"} /\ ((pc' = "done") <=> (outcome' # "none"))
  BY <1>a, Retrying
<1>0. 0 \in Waiters /\ drops + 1 # 0
  BY DEF Waiters, IInv, Typed
<1>t. waiter \in [Waiters -> WaiterType] /\ \A v \in Waiters : Opened(waiter[v])
  BY DEF IInv, Typed
<1>3. /\ waiter' \in [Waiters -> WaiterType]
      /\ \A v \in Waiters : waiter'[v] = IF v = 0 THEN Idle ELSE IF v = drops + 1 THEN waiter[0] ELSE waiter[v]
  BY <1>a, <1>r, <1>0, <1>t, IdleFields
<1>4. \A v \in Waiters : Opened(waiter'[v])
  BY <1>3, <1>t, <1>0, IdleFields DEF Opened, IInv, Typed
<1>5. Typed' /\ Launches'
  BY <1>a, <1>r, <1>3, <1>4 DEF IInv, Typed, Launches, Opened
<1>6. Stages' /\ Mutex' /\ OrphansCounted' /\ FilesCounted'
  BY <1>a, WrappersKept
<1>7. launches # 0
  BY <1>a DEF IInv, Launches
<1>8. ASSUME Quiet' PROVE Single'
  <2>1. Quiet /\ Single
    BY <1>8, <1>a DEF IInv, Quiet
  <2>2. Lone' /\ Told'
    BY <2>1, <1>a, <1>r DEF Single, Lone, Told
  <2>3. \A v \in Waiters : WaiterFits(waiter[v])'
    BY <2>1, <1>a, <1>0, <1>3, IdleFields DEF Single, Waited, WaiterFits
  <2>4. waiter'[0] = Idle
    BY <1>3, <1>0
  <2> QED
    BY <2>1, <2>2, <2>3, <2>4, <1>a, <1>r, IdleFields DEF Single, Waited
<1> QED
  BY <1>a, <1>5, <1>6, <1>7, <1>8 DEF IInv

LEMMA WaiterReturnsStep == ASSUME IInv, WaiterReturns PROVE IInv'
<1>a. /\ waiter' = [waiter EXCEPT ![0] = Idle] /\ pc \in {"poll", "fetch"}
      /\ \/ pc' \in {"poll", "fetch"} /\ ssh' = 0 /\ outcome' = outcome
         \/ pc' = "done" /\ outcome' \in {"ok", "error"} /\ ssh' = ssh
      /\ pc' = "fetch" => waiter[0].at = "finished"
      /\ unread' = "alarm" => unread = "alarm" \/ (pc = "fetch" /\ waiter[0].at = "again")
      /\ unread' \in {unread, "alarm", "errno"}
      /\ UNCHANGED <<wrapper, command, status, content, file, exclusive,
                     launches, drops, crashes, gaveUp, lockErrors>>
  BY DEF WaiterReturns, Goto, Finish, files, faults
<1>2. 0 \in Waiters /\ Opened(Idle)
  BY IdleFields DEF Waiters, Opened, IInv, Typed
<1>3. /\ waiter' \in [Waiters -> WaiterType] /\ waiter'[0] = Idle
      /\ \A v \in Waiters : Opened(waiter'[v])
      /\ \A v \in Waiters \ {0} : waiter'[v] = waiter[v]
  BY <1>a, <1>2, IdleFields, OneWaiter
<1>4. Typed' /\ Launches'
  <2>1. outcome = "none"
    BY <1>a DEF IInv, Typed
  <2> QED
    BY <2>1, <1>a, <1>3 DEF IInv, Typed, Launches, Opened
<1>5. Stages' /\ Mutex' /\ OrphansCounted' /\ FilesCounted'
  BY <1>a, WrappersKept
<1>6. launches # 0
  BY <1>a DEF IInv, Launches
<1>7. ASSUME Quiet' PROVE Single'
  <2>1. Quiet /\ Single /\ WaiterFits(waiter[0])
    BY <1>7, <1>2, <1>a DEF IInv, Quiet, Single, Waited
  <2>2. Lone'
    BY <2>1, <1>a DEF Single, Lone
  <2>3. Told'
    <3>1. pc = "fetch" => waiter[0].at # "again"
      BY <2>1 DEF Single, Waited, WaiterFits
    <3> QED
      BY <2>1, <3>1, <1>a DEF Single, Told
  <2>4. \A v \in Waiters : WaiterFits(waiter[v])'
    BY <2>1, <1>a, <1>3, IdleFields DEF Single, Waited, WaiterFits
  <2>5. pc' = "fetch" => wrapper[1] = "dead"
    BY <2>1, <1>a DEF WaiterFits
  <2> QED
    BY <2>2, <2>3, <2>4, <2>5, <1>a, <1>3, IdleFields DEF Single, Waited
<1> QED
  BY <1>a, <1>4, <1>5, <1>6, <1>7 DEF IInv

LEMMA StartStep == ASSUME IInv, Start PROVE IInv'
<1>a. /\ pc = "start" /\ (Launch \/ UNCHANGED <<wrapper, launches>>)
      /\ \/ Launch /\ pc' = "poll" /\ ssh' = 0 /\ UNCHANGED <<outcome, drops>>
         \/ Retry255
      /\ UNCHANGED <<command, waiter, status, content, file, exclusive, crashes, gaveUp,
                     lockErrors, unread>>
  BY DEF Start, Goto, files
<1>r. /\ pc' \in {"start", "poll", "done"} /\ (pc' = "poll" => Launch)
      /\ drops' \in 0 .. MaxDrops /\ ssh' \in 0 .. (SshRetries - 1)
      /\ outcome' \in {"none", "error"} /\ ((pc' = "done") <=> (outcome' # "none"))
      /\ pc' = "start" => ssh' = ssh + 1
  <2>1. outcome = "none" /\ pc # "done" /\ drops \in 0 .. MaxDrops
    BY <1>a DEF IInv, Typed
  <2>2. CASE Retry255
    BY <2>1, <2>2, <1>a, Retrying
  <2>3. CASE Launch /\ pc' = "poll" /\ ssh' = 0 /\ UNCHANGED <<outcome, drops>>
    BY <2>1, <2>3
  <2> QED
    BY <1>a, <2>2, <2>3
<1>l. launches + 1 \in Wrappers /\ launches \in Nat /\ launches <= ssh /\ 1 \in Wrappers
  BY <1>a DEF IInv, Typed, Launches, Wrappers
<1>o. \A w \in Waiters : Opened(waiter'[w])
  BY <1>a DEF IInv, Typed
<1>1. CASE Launch
  <2>1. /\ wrapper' = [wrapper EXCEPT ![launches + 1] = "open"] /\ launches' = launches + 1
        /\ wrapper[launches + 1] = "none"
    BY <1>1, <1>l DEF Launch, IInv, Launches
  <2>2. Typed'
    <3>1. launches' \in 0 .. SshRetries /\ Len(content) <= launches' /\ pc' \in {"start", "poll", "done"}
      BY <2>1, <1>l, <1>r DEF IInv, Typed, Wrappers
    <3>2. wrapper' \in [Wrappers -> {"none", "open", "lock", "locked", "started", "waiting",
                                     "write", "close", "dead"}]
      BY <2>1, <1>l DEF IInv, Typed
    <3>3. \A w \in Waiters : Opened(waiter[w])'
      BY <1>a, <1>o DEF Opened
    <3> QED
      BY <3>1, <3>2, <3>3, <1>a, <1>r DEF IInv, Typed
  <2>3. Launches'
    BY <2>1, <1>l, <1>r DEF IInv, Launches, Typed, Wrappers
  <2>4. Stages' /\ Mutex'
    BY <2>1, <1>a, <1>l DEF IInv, Stages, Mutex, Holds, Typed
  <2>5. Orphans' \subseteq Orphans
    BY <2>1, <1>a, <1>l DEF IInv, Orphans, Typed
  <2>6. FilesCounted'
    <3>1. Openers' = Openers \cup {launches + 1} /\ launches + 1 \notin Openers
      BY <2>1, <1>l DEF IInv, Openers, Typed
    <3>2. Cardinality(Openers') = Cardinality(Openers) + 1
      BY <3>1, FiniteOrphans, FS_AddElement
    <3>3. Len(content) \in Nat
      BY DEF IInv, Typed
    <3> QED
      BY <2>1, <3>2, <3>3, <1>l, <1>a, FiniteOrphans DEF IInv, FilesCounted
  <2>7. ASSUME Quiet' PROVE Single'
    <3>1. launches = 0 /\ Untouched
      BY <2>7, <2>1, <1>l DEF Quiet, IInv
    <3>2. wrapper'[1] = "open"
      BY <2>1, <3>1, <1>l DEF IInv, Typed
    <3>3. Lone' /\ Told'
      BY <3>1, <3>2, <1>a, <1>r DEF Lone, Told, Untouched
    <3>4. Waited'
      BY <3>1, <1>a, <1>r, IdleFields DEF Waited, WaiterFits, Untouched
    <3> QED
      BY <3>3, <3>4 DEF Single
  <2> QED
    BY <2>1, <2>2, <2>3, <2>4, <2>5, <2>6, <2>7, <1>a, <1>l, OrphansShrink DEF IInv
<1>2. CASE UNCHANGED <<wrapper, launches>>
  <2>1. Typed'
    BY <1>2, <1>a, <1>r, <1>o DEF IInv, Typed, Opened
  <2>2. Launches'
    <3>1. pc' # "poll"
      BY <1>2, <1>r, <1>l DEF Launch
    <3> QED
      BY <3>1, <1>2, <1>l, <1>r DEF IInv, Launches, Typed
  <2>3. Stages' /\ Mutex' /\ OrphansCounted' /\ FilesCounted'
    BY <1>2, <1>a, WrappersKept
  <2>4. launches' = 0 => Untouched'
    BY <1>2, <1>a, <1>r DEF IInv, Untouched
  <2>5. ASSUME Quiet' PROVE Single'
    <3>1. Single
      BY <2>5, <1>2, <1>a DEF Quiet, IInv
    <3>2. Lone' /\ Told'
      BY <3>1, <1>2, <1>a, <1>r DEF Single, Lone, Told
    <3>3. \A v \in Waiters : WaiterFits(waiter[v])'
      BY <3>1, <1>2, <1>a DEF Single, Waited, WaiterFits
    <3> QED
      BY <3>2, <3>3, <1>r DEF Single, Waited
  <2> QED
    BY <2>1, <2>2, <2>3, <2>4, <2>5 DEF IInv
<1> QED
  BY <1>1, <1>2, <1>a

WrapperPlaces == {"none", "open", "lock", "locked", "started", "waiting", "write", "close", "dead"}

(* A step of wrapper k that leaves the caller and the waiters alone. *)
Alone(k, p) ==
    /\ wrapper[k] # "none" /\ p \in WrapperPlaces \ {"none", "open"}
    /\ wrapper' = [wrapper EXCEPT ![k] = p]
    /\ UNCHANGED <<pc, ssh, outcome, waiter, launches, drops, gaveUp, lockErrors, unread>>

LEMMA OneWrapper ==
    ASSUME IInv, NEW k \in Wrappers, NEW p, Alone(k, p)
    PROVE  /\ wrapper' \in [Wrappers -> WrapperPlaces] /\ wrapper'[k] = p
           /\ \A j \in Wrappers \ {k} : wrapper'[j] = wrapper[j]
           /\ Launches' /\ launches # 0 /\ (Quiet' => k = 1)
           /\ Len(content') = Len(content) => FilesCounted'
<1>1. /\ wrapper' \in [Wrappers -> WrapperPlaces] /\ wrapper'[k] = p
      /\ \A j \in Wrappers \ {k} : wrapper'[j] = wrapper[j]
  BY DEF IInv, Typed, Alone, WrapperPlaces
<1>2. Launches' /\ launches # 0 /\ (Quiet' => k = 1)
  BY <1>1 DEF IInv, Typed, Launches, Quiet, Wrappers, Alone
<1>3. Openers' \subseteq Openers
  BY <1>1 DEF Openers, Alone
<1> QED
  BY <1>1, <1>2, <1>3, OpenersShrink DEF Alone

(* The file is opened; for a wrapper alone it is the first. *)
LEMMA OpenStatusStep == ASSUME IInv, NEW k \in Wrappers, OpenStatus(k) PROVE IInv'
<1>a. /\ Alone(k, "lock") /\ wrapper[k] = "open" /\ UNCHANGED <<command, exclusive, crashes>>
      /\ file' = [file EXCEPT ![k] = status']
  BY DEF OpenStatus, To, Alone, WrapperPlaces, caller, faults
<1>w. /\ wrapper' \in [Wrappers -> WrapperPlaces] /\ wrapper'[k] = "lock"
      /\ \A j \in Wrappers \ {k} : wrapper'[j] = wrapper[j]
      /\ Launches' /\ launches # 0 /\ (Quiet' => k = 1)
  BY <1>a, OneWrapper
<1>t. /\ content \in Seq(Texts) /\ status \in 0 .. Len(content) /\ Len(content) \in Nat
      /\ "empty" \in Texts /\ launches \in Nat
  BY DEF IInv, Typed, Texts
<1>c. /\ content' \in Seq(Texts) /\ Len(content') \in {Len(content), Len(content) + 1}
      /\ status' \in 1 .. Len(content')
      /\ status = 0 => Len(content') = Len(content) + 1 /\ status' = Len(content) + 1 /\ content'[Len(content) + 1] = "empty"
  <2>1. CASE status = 0
    <3>1. content' = Append(content, "empty") /\ status' = Len(content) + 1
      BY <2>1 DEF OpenStatus
    <3> QED
      BY <3>1, <1>t
  <2>2. CASE status # 0
    <3>1. content' = [content EXCEPT ![status] = "empty"] /\ status' = status
      BY <2>2 DEF OpenStatus
    <3> QED
      BY <3>1, <2>2, <1>t
  <2> QED
    BY <2>1, <2>2
<1>n. FilesCounted'
  <2>1. Openers' = Openers \ {k} /\ k \in Openers
    BY <1>a, <1>w DEF Openers
  <2>2. Cardinality(Openers') = Cardinality(Openers) - 1
    BY <2>1, FiniteOrphans, FS_RemoveElement
  <2> QED
    BY <2>2, <1>a, <1>c, <1>t, FiniteOrphans DEF IInv, FilesCounted, Alone
<1>1. Typed'
  <2>1. Len(content') <= launches
    <3>1. Cardinality(Openers') \in Nat
      <4>1. Openers' \subseteq Openers
        BY <1>w DEF Openers
      <4> QED
        BY <4>1, FiniteOrphans, FS_Subset, FS_CardinalityType
    <3> QED
      BY <3>1, <1>n, <1>a, <1>c, <1>t DEF FilesCounted, Alone
  <2>2. \A w \in Waiters : Opened(waiter[w])'
    BY <1>a, <1>c, <1>t DEF IInv, Typed, Opened, Alone, WaiterType
  <2>3. file' \in [Wrappers -> 0 .. Len(content')]
    BY <1>a, <1>c, <1>t DEF IInv, Typed
  <2> QED
    BY <2>1, <2>2, <2>3, <1>a, <1>w, <1>c, <1>t DEF IInv, Typed, Alone, WrapperPlaces
<1>2. Stages' /\ Mutex'
  BY <1>a, <1>w, <1>c, <1>t DEF IInv, Stages, Mutex, Holds, Typed
<1>3. Orphans' \subseteq Orphans
  BY <1>a, <1>w DEF Orphans
<1>4. ASSUME Quiet' PROVE Single'
  <2>1. Quiet /\ Single /\ k = 1
    BY <1>4, <1>a, <1>w DEF Quiet, IInv, Alone
  <2>2. status = 0 /\ Len(content) = 0 /\ exclusive = FALSE
    BY <2>1, <1>a DEF Single, Lone, IInv, Typed
  <2>3. wrapper'[1] = "lock" /\ content'[1] = "empty" /\ Len(content') = 1
    BY <2>1, <2>2, <1>w, <1>c
  <2>4. Lone' /\ Told'
    BY <2>1, <2>2, <2>3, <1>a, <1>c DEF Single, Lone, Told, Alone
  <2>5. pc' # "fetch" /\ \A v \in Waiters : WaiterFits(waiter[v])'
    BY <2>1, <2>2, <2>3, <1>a DEF Single, Waited, WaiterFits, Alone
  <2> QED
    BY <2>4, <2>5 DEF Single, Waited
<1> QED
  BY <1>1, <1>2, <1>3, <1>4, <1>a, <1>n, <1>w, OrphansShrink DEF IInv, Alone

(* The steps after that, and what each asks of the lock and of the command. *)
LEMMA WrapperGoes ==
    ASSUME IInv, NEW k \in Wrappers, NEW p, Alone(k, p), p # "lock", wrapper[k] # "open" \/ p = "dead",
           UNCHANGED <<status, file>>, content' \in Seq(Texts), Len(content') = Len(content),
           exclusive' \in BOOLEAN, crashes' \in {crashes, crashes + 1}, crashes' <= MaxCrashes,
           command' \in [Wrappers -> {"none", "running"} \cup Codes],
           \A j \in Wrappers \ {k} : command'[j] = command[j],
           p = "locked" => command'[k] = "none" /\ wrapper[k] = "lock" /\ ~Locked(file[k]),
           p \in {"started", "waiting"} => command'[k] # "none",
           p \in {"write", "close"} => command'[k] \in Codes,
           p # "locked" /\ p # "dead" => Holds(k),
           p = "dead" /\ command'[k] = "running" => crashes' = crashes + 1,
           Quiet /\ Single /\ k = 1 => Single'
    PROVE  IInv'
<1> USE DEF Alone
<1>w. /\ wrapper' \in [Wrappers -> WrapperPlaces] /\ wrapper'[k] = p
      /\ \A j \in Wrappers \ {k} : wrapper'[j] = wrapper[j]
      /\ Launches' /\ launches # 0 /\ (Quiet' => k = 1) /\ FilesCounted'
  BY OneWrapper
<1>1. Typed'
  <2>1. \A w \in Waiters : Opened(waiter[w])'
    BY DEF IInv, Typed, Opened
  <2>2. crashes' \in 0 .. MaxCrashes
    BY DEF IInv, Typed
  <2> QED
    BY <2>1, <2>2, <1>w DEF IInv, Typed, WrapperPlaces
<1>2. Stages'
  BY <1>w DEF IInv, Stages, Holds, WrapperPlaces
<1>3. Mutex'
  BY <1>w DEF IInv, Mutex, Holds, Locked
<1>4. OrphansCounted'
  <2>1. CASE crashes' = crashes + 1
    <3>1. Orphans' \subseteq Orphans \cup {k}
      BY <1>w DEF Orphans
    <3>2. /\ IsFiniteSet(Orphans \cup {k})
          /\ Cardinality(Orphans \cup {k}) \in {Cardinality(Orphans), Cardinality(Orphans) + 1}
      BY FiniteOrphans, FS_AddElement
    <3>3. Cardinality(Orphans') <= Cardinality(Orphans \cup {k}) /\ Cardinality(Orphans') \in Nat
      BY <3>1, <3>2, FS_Subset, FS_CardinalityType
    <3> QED
      BY <2>1, <3>2, <3>3, FiniteOrphans DEF IInv, OrphansCounted, Typed
  <2>2. CASE crashes' # crashes + 1
    <3>1. Orphans' \subseteq Orphans
      BY <2>2, <1>w DEF Orphans
    <3> QED
      BY <2>2, <3>1, OrphansShrink
  <2> QED
    BY <2>1, <2>2
<1>5. Quiet' => Single'
  BY <1>w DEF IInv, Quiet
<1> QED
  BY <1>1, <1>2, <1>3, <1>4, <1>5, <1>w DEF IInv

(* A lone wrapper does not take back what the waiters have been told. *)
LEMMA ToldStays ==
    ASSUME Single, UNCHANGED <<pc, unread, waiter>>, exclusive' \in {exclusive, TRUE},
           wrapper[1] = "dead" => wrapper'[1] = "dead",
           command[1] \in Codes => command'[1] = command[1]
    PROVE  Waited' /\ Told'
<1>1. \A v \in Waiters : WaiterFits(waiter[v])'
  BY DEF Single, Waited, WaiterFits
<1> QED
  BY <1>1 DEF Single, Waited, Told, Codes

LEMMA LockStep == ASSUME IInv, NEW k \in Wrappers, Lock(k) PROVE IInv'
<1>0. PICK p \in {"dead", "locked"} :
        /\ wrapper' = [wrapper EXCEPT ![k] = p]
        /\ p = "dead" => Reading(file[k]) \/ Locked(file[k])
        /\ p = "locked" => ~Locked(file[k])
  BY DEF Lock, To
<1>a. /\ Alone(k, p) /\ wrapper[k] = "lock"
      /\ UNCHANGED <<status, file, content, exclusive, crashes, command>>
  BY <1>0 DEF Lock, To, Alone, WrapperPlaces, caller, files, faults
<1>1. command[k] = "none"
  BY <1>a DEF IInv, Stages
<1>2. ASSUME Quiet, Single, k = 1 PROVE Single'
  <2>1. exclusive = FALSE
    BY <1>2, <1>a DEF Single, Lone, IInv, Typed
  <2>2. ~Reading(file[1])
    BY <1>2, <2>1 DEF Reading, Single, Waited, WaiterFits
  <2>3. ~Locked(file[1])
    BY <1>2, <1>a DEF Locked, Holds, IInv, Launches, Quiet, Wrappers
  <2>4. wrapper'[1] = "locked"
    BY <1>2, <2>2, <2>3, <1>0, <1>a DEF IInv, Typed
  <2>5. Lone'
    BY <1>2, <2>1, <2>4, <1>a DEF Single, Lone
  <2>6. Waited' /\ Told'
    BY <1>2, <1>a, ToldStays DEF Alone
  <2> QED
    BY <2>5, <2>6 DEF Single
<1>t. /\ content' \in Seq(Texts) /\ exclusive' \in BOOLEAN /\ crashes' <= MaxCrashes
      /\ command' \in [Wrappers -> {"none", "running"} \cup Codes]
  BY <1>a DEF IInv, Typed
<1> QED
  BY <1>t, <1>0, <1>a, <1>1, <1>2, WrapperGoes

LEMMA PopenStep == ASSUME IInv, NEW k \in Wrappers, Popen(k) PROVE IInv'
<1>a. /\ Alone(k, "started") /\ wrapper[k] = "locked"
      /\ UNCHANGED <<status, file, content, exclusive, crashes>>
      /\ command' = [command EXCEPT ![k] = "running"]
  BY DEF Popen, To, Alone, WrapperPlaces, caller, files, faults
<1>1. /\ command[k] = "none" /\ command' \in [Wrappers -> {"none", "running"} \cup Codes]
      /\ command'[k] = "running" /\ \A j \in Wrappers \ {k} : command'[j] = command[j]
  BY <1>a DEF IInv, Stages, Typed
<1>2. ASSUME Quiet, Single, k = 1 PROVE Single'
  <2>1. wrapper'[1] = "started"
    BY <1>2, <1>a DEF IInv, Typed, Alone
  <2>2. Len(content) > 0 => content[1] \in Texts
    BY DEF IInv, Typed
  <2>3. Lone'
    BY <1>2, <2>1, <2>2, <1>a, <1>1 DEF Single, Lone, Texts, Codes
  <2>4. Waited' /\ Told'
    BY <1>2, <1>a, <1>1, ToldStays DEF Alone, Codes
  <2> QED
    BY <2>3, <2>4 DEF Single
<1>3. Holds(k)
  BY <1>a DEF Holds
<1>4. content' \in Seq(Texts) /\ exclusive' \in BOOLEAN /\ crashes' <= MaxCrashes
  BY <1>a DEF IInv, Typed
<1> QED
  BY <1>a, <1>1, <1>2, <1>3, <1>4, WrapperGoes

LEMMA AnnounceStep == ASSUME IInv, NEW k \in Wrappers, Announce(k) PROVE IInv'
<1>a. /\ Alone(k, "waiting") /\ wrapper[k] = "started" /\ exclusive' = TRUE
      /\ UNCHANGED <<status, file, content, command, crashes>>
  BY DEF Announce, To, Alone, WrapperPlaces, caller, faults
<1>1. command[k] # "none" /\ Holds(k)
  BY <1>a DEF IInv, Stages, Holds
<1>2. ASSUME Quiet, Single, k = 1 PROVE Single'
  <2>1. wrapper'[1] = "waiting"
    BY <1>2, <1>a DEF IInv, Typed, Alone
  <2>2. file[1] = 1 /\ Len(content) = 1
    <3>1. file[1] \in Nat /\ file[1] > 0 /\ file[1] <= Len(content)
      BY <1>2, <1>1 DEF IInv, Typed, Stages
    <3>2. Len(content) \in Nat /\ Len(content) <= launches /\ launches = 1
      BY <1>2 DEF IInv, Typed, Quiet
    <3>3. \A f, n \in Nat : f > 0 /\ f <= n /\ n <= 1 => f = 1 /\ n = 1
      OBVIOUS
    <3> QED
      BY <3>1, <3>2, <3>3
  <2>3. Lone'
    BY <1>2, <2>1, <2>2, <1>a DEF Single, Lone
  <2>4. Waited' /\ Told'
    BY <1>2, <1>a, ToldStays DEF Alone
  <2> QED
    BY <2>3, <2>4 DEF Single
<1>t. /\ content' \in Seq(Texts) /\ exclusive' \in BOOLEAN /\ crashes' <= MaxCrashes
      /\ command' \in [Wrappers -> {"none", "running"} \cup Codes]
  BY <1>a DEF IInv, Typed
<1> QED
  BY <1>t, <1>a, <1>1, <1>2, WrapperGoes

LEMMA CommandEndsStep == ASSUME IInv, NEW k \in Wrappers, CommandEnds(k) PROVE IInv'
<1>0. PICK c \in Codes : command' = [command EXCEPT ![k] = c]
  BY DEF CommandEnds
<1>1. PICK p \in WrapperPlaces : wrapper[k] = p
  BY DEF IInv, Typed, WrapperPlaces
<1>2. p \in {"started", "waiting", "dead"} /\ command[k] = "running"
  BY <1>1 DEF IInv, Stages, CommandEnds, WrapperPlaces, Codes
<1>a. /\ Alone(k, p)
      /\ UNCHANGED <<wrapper, status, file, content, exclusive, crashes>>
  BY <1>1, <1>2 DEF CommandEnds, Alone, WrapperPlaces, caller, files, faults, IInv, Typed
<1>3. /\ command' \in [Wrappers -> {"none", "running"} \cup Codes] /\ c \notin {"none", "running"}
      /\ command'[k] = c /\ \A j \in Wrappers \ {k} : command'[j] = command[j]
  BY <1>0 DEF IInv, Typed, Codes
<1>4. ASSUME Quiet, Single, k = 1 PROVE Single'
  <2>1. Len(content) > 0 => content[1] \in Texts
    BY DEF IInv, Typed
  <2>2. Lone'
    BY <1>4, <2>1, <1>a, <1>2, <1>3 DEF Single, Lone, Texts, Codes
  <2>3. Waited' /\ Told'
    BY <1>4, <1>a, <1>2, ToldStays DEF Alone, Codes
  <2> QED
    BY <2>2, <2>3 DEF Single
<1>5. p # "dead" => Holds(k)
  BY <1>1, <1>2 DEF Holds
<1>t. /\ content' \in Seq(Texts) /\ exclusive' \in BOOLEAN /\ crashes' <= MaxCrashes
      /\ command' \in [Wrappers -> {"none", "running"} \cup Codes]
  BY <1>a, <1>3 DEF IInv, Typed
<1> QED
  BY <1>t, <1>a, <1>1, <1>2, <1>3, <1>4, <1>5, WrapperGoes

LEMMA ReapStep == ASSUME IInv, NEW k \in Wrappers, Reap(k) PROVE IInv'
<1>a. /\ Alone(k, "write") /\ wrapper[k] = "waiting" /\ command[k] \in Codes
      /\ UNCHANGED <<status, file, content, exclusive, command, crashes>>
  BY DEF Reap, To, Alone, WrapperPlaces, caller, files, faults
<1>1. Holds(k)
  BY <1>a DEF Holds
<1>2. ASSUME Quiet, Single, k = 1 PROVE Single'
  <2>1. wrapper'[1] = "write"
    BY <1>2, <1>a DEF IInv, Typed, Alone
  <2>2. Lone'
    BY <1>2, <2>1, <1>a DEF Single, Lone
  <2>3. Waited' /\ Told'
    BY <1>2, <1>a, ToldStays DEF Alone
  <2> QED
    BY <2>2, <2>3 DEF Single
<1>t. /\ content' \in Seq(Texts) /\ exclusive' \in BOOLEAN /\ crashes' <= MaxCrashes
      /\ command' \in [Wrappers -> {"none", "running"} \cup Codes]
  BY <1>a DEF IInv, Typed
<1> QED
  BY <1>t, <1>a, <1>1, <1>2, WrapperGoes

LEMMA WriteStep == ASSUME IInv, NEW k \in Wrappers, Write(k) PROVE IInv'
<1>a. /\ Alone(k, "close") /\ wrapper[k] = "write"
      /\ UNCHANGED <<status, file, exclusive, command, crashes>>
      /\ content' = [content EXCEPT ![file[k]] = command[k]]
  BY DEF Write, To, Alone, WrapperPlaces, caller, faults
<1>1. Holds(k) /\ command[k] \in Codes /\ file[k] > 0 /\ file[k] \in 0 .. Len(content)
  BY <1>a DEF Holds, IInv, Stages, Typed
<1>2. content' \in Seq(Texts) /\ Len(content') = Len(content) /\ content'[file[k]] = command[k]
  BY <1>a, <1>1 DEF IInv, Typed, Texts
<1>3. ASSUME Quiet, Single, k = 1 PROVE Single'
  <2>1. wrapper'[1] = "close"
    BY <1>3, <1>a DEF IInv, Typed, Alone
  <2>2. file[1] = 1
    BY <1>3, <1>1 DEF IInv, Typed, Quiet
  <2>3. Lone'
    BY <1>3, <2>1, <2>2, <1>a, <1>2 DEF Single, Lone
  <2>4. Waited' /\ Told'
    BY <1>3, <1>a, ToldStays DEF Alone
  <2> QED
    BY <2>3, <2>4 DEF Single
<1>4. exclusive' \in BOOLEAN /\ crashes' <= MaxCrashes
  BY <1>a DEF IInv, Typed
<1>5. command' \in [Wrappers -> {"none", "running"} \cup Codes]
  BY <1>a DEF IInv, Typed
<1> QED
  BY <1>a, <1>1, <1>2, <1>3, <1>4, <1>5, WrapperGoes

LEMMA CloseStep == ASSUME IInv, NEW k \in Wrappers, Close(k) PROVE IInv'
<1>a. /\ Alone(k, "dead") /\ wrapper[k] = "close"
      /\ UNCHANGED <<status, file, content, exclusive, command, crashes>>
  BY DEF Close, To, Alone, WrapperPlaces, caller, files, faults
<1>1. command[k] \in Codes /\ "running" \notin Codes
  BY <1>a DEF IInv, Stages, Codes
<1>2. ASSUME Quiet, Single, k = 1 PROVE Single'
  <2>1. wrapper'[1] = "dead"
    BY <1>2, <1>a DEF IInv, Typed, Alone
  <2>2. Lone'
    BY <1>2, <2>1, <1>a, <1>1 DEF Single, Lone
  <2>3. Waited' /\ Told'
    BY <1>2, <2>1, <1>a, ToldStays DEF Alone
  <2> QED
    BY <2>2, <2>3 DEF Single
<1>t. /\ content' \in Seq(Texts) /\ exclusive' \in BOOLEAN /\ crashes' <= MaxCrashes
      /\ command' \in [Wrappers -> {"none", "running"} \cup Codes]
  BY <1>a DEF IInv, Typed
<1> QED
  BY <1>t, <1>a, <1>1, <1>2, WrapperGoes

LEMMA CrashStep == ASSUME IInv, NEW k \in Wrappers, Crash(k) PROVE IInv'
<1>a. /\ Alone(k, "dead") /\ crashes' = crashes + 1 /\ crashes < MaxCrashes /\ crashes \in Nat
      /\ UNCHANGED <<status, file, content, exclusive, command>>
  BY DEF Crash, To, Alone, WrapperPlaces, caller, files, IInv, Typed
<1>2. ASSUME Quiet, Single, k = 1 PROVE Single'
  <2>1. wrapper'[1] = "dead"
    BY <1>2, <1>a DEF IInv, Typed, Alone
  <2>2. Lone'
    BY <1>2, <2>1, <1>a DEF Single, Lone
  <2>3. Waited' /\ Told'
    BY <1>2, <2>1, <1>a, ToldStays DEF Alone
  <2> QED
    BY <2>2, <2>3 DEF Single
<1>t. /\ content' \in Seq(Texts) /\ exclusive' \in BOOLEAN /\ crashes' <= MaxCrashes
      /\ command' \in [Wrappers -> {"none", "running"} \cup Codes]
  BY <1>a DEF IInv, Typed
<1> QED
  BY <1>t, <1>a, <1>2, WrapperGoes

LEMMA Inductive == IInv /\ [Next]_vars => IInv'
<1> SUFFICES ASSUME IInv, [Next]_vars PROVE IInv'
  OBVIOUS
<1>1. CASE Caller \/ DropWaiter
  BY <1>1, StartStep, StartWaiterStep, WaiterReturnsStep, DropWaiterStep DEF Caller
<1>2. CASE \E k \in Wrappers : WrapperStep(k) \/ CommandEnds(k) \/ Crash(k)
  BY <1>2, OpenStatusStep, LockStep, PopenStep, AnnounceStep, ReapStep, WriteStep, CloseStep,
     CommandEndsStep, CrashStep DEF WrapperStep
<1>3. CASE \E w \in Waiters : WaiterStep(w) \/ Alarm(w) \/ LockFails(w)
  BY <1>3, LookStep, OpenStep, SharedStep, ReadStep, DeleteStep, AlarmStep, LockFailsStep
     DEF WaiterStep
<1>4. CASE UNCHANGED vars
  <2>a. UNCHANGED <<pc, ssh, outcome, wrapper, command, waiter, status, content, file,
                    exclusive, launches, drops, crashes, gaveUp, lockErrors, unread>>
    BY <1>4 DEF vars, caller, files, faults
  <2>1. Typed' /\ Launches' /\ (Untouched => Untouched')
    BY <2>a DEF IInv, Typed, Opened, Launches, Untouched
  <2>2. Stages' /\ Mutex' /\ OrphansCounted' /\ FilesCounted'
    BY <2>a, WrappersKept
  <2>3. Single => Single'
    BY <2>a, ToldStays DEF Single, Lone
  <2> QED
    BY <2>a, <2>1, <2>2, <2>3 DEF IInv, Quiet
<1> QED
  BY <1>1, <1>2, <1>3, <1>4 DEF Next

LEMMA Always == Spec => []IInv
BY Initially, Inductive, PTL DEF Spec

(* The values are in range for any ssh_retries: in particular the script is *)
(* started no more often than connections are made, and makes no more       *)
(* status files than that.                                                  *)
THEOREM RobustTypes == Spec => []TypeOK
<1>1. ASSUME IInv PROVE TypeOK
  <2> DEFINE Bounded == [at : {"none", "look", "open", "lock", "read", "delete", "again",
                               "refused", "finished", "ok", "failed"},
                         fetch : BOOLEAN, file : 0 .. Len(content),
                         read : {"none", "empty"} \cup Codes]
  <2>1. waiter \in [Waiters -> Bounded]
    <3>1. ASSUME NEW w \in Waiters PROVE waiter[w] \in Bounded
      <4>1. waiter[w] \in WaiterType /\ waiter[w].file <= Len(content) /\ Len(content) \in Nat
        BY <1>1 DEF IInv, Typed, Opened
      <4>2. waiter[w].file \in 0 .. Len(content)
        BY <4>1 DEF WaiterType
      <4> QED
        BY <4>1, <4>2 DEF WaiterType, Texts
    <3> QED
      BY <3>1, <1>1 DEF IInv, Typed
  <2> HIDE DEF Bounded
  <2>2. waiter \in [Waiters -> [at : {"none", "look", "open", "lock", "read", "delete", "again",
                                     "refused", "finished", "ok", "failed"},
                               fetch : BOOLEAN, file : 0 .. Len(content),
                               read : {"none", "empty"} \cup Codes]]
    BY <2>1 DEF Bounded
  <2> QED
    BY <1>1, <2>2 DEF IInv, Typed, Launches, TypeOK, Texts
<1> QED
  BY <1>1, Always, PTL

(* A status of 0, wherever it is kept or read, is that of a command that    *)
(* ended with it.                                                           *)
Zero == \E k \in Wrappers : command[k] = "0"
Blank ==
    /\ \A i \in 1 .. Len(content) : content[i] # "0"
    /\ \A w \in Waiters : waiter[w].read # "0" /\ waiter[w].at # "ok"
    /\ ~(outcome = "ok" /\ unread = "no")
Truth == Zero \/ Blank

(* The code of a command is final. *)
LEMMA ZeroStays == ASSUME IInv, [Next]_vars, Zero PROVE Zero'
<1>1. PICK k \in Wrappers : command[k] = "0"
  BY DEF Zero
<1>2. command'[k] = "0"
  <2>1. CASE UNCHANGED command
    BY <2>1, <1>1
  <2>2. ASSUME NEW j \in Wrappers, Popen(j) PROVE command'[k] = "0"
    BY <2>2, <1>1 DEF Popen, IInv, Stages, Typed
  <2>3. ASSUME NEW j \in Wrappers, CommandEnds(j) PROVE command'[k] = "0"
    BY <2>3, <1>1 DEF CommandEnds, IInv, Typed
  <2>4. CASE UNCHANGED vars
    BY <2>4, <2>1 DEF vars
  <2>5. CASE Caller \/ DropWaiter
    BY <2>5, <2>1 DEF Caller, Start, StartWaiter, WaiterReturns, DropWaiter
  <2>6. CASE \E w \in Waiters : WaiterStep(w) \/ Alarm(w) \/ LockFails(w)
    BY <2>6, <2>1 DEF WaiterStep, Alarm, LockFails, Look, Open, Shared, Read, Delete
  <2>7. CASE \E j \in Wrappers : WrapperStep(j) \/ CommandEnds(j) \/ Crash(j)
    BY <2>7, <2>1, <2>2, <2>3 DEF WrapperStep, OpenStatus, Lock, Announce, Reap, Write, Close,
       Crash
  <2> QED
    BY <2>4, <2>5, <2>6, <2>7 DEF Next
<1> QED
  BY <1>1, <1>2 DEF Zero

LEMMA BlankWrapper ==
    ASSUME IInv, Blank, NEW k \in Wrappers, WrapperStep(k) \/ CommandEnds(k) \/ Crash(k)
    PROVE  Zero \/ Blank'
<1>a. UNCHANGED <<outcome, waiter, unread>>
  BY DEF WrapperStep, OpenStatus, Lock, Popen, Announce, Reap, Write, Close, CommandEnds, Crash,
     caller, faults
<1>t. content \in Seq(Texts) /\ status \in 0 .. Len(content) /\ file[k] \in 0 .. Len(content)
  BY DEF IInv, Typed
<1>1. CASE UNCHANGED content
  BY <1>1, <1>a DEF Blank
<1>2. CASE OpenStatus(k)
  <2>1. CASE status = 0
    <3>1. content' = Append(content, "empty")
      BY <1>2, <2>1 DEF OpenStatus
    <3>2. \A i \in 1 .. Len(content') : content'[i] # "0"
      BY <3>1, <1>t DEF Blank
    <3> QED
      BY <3>2, <1>a DEF Blank
  <2>2. CASE status # 0
    <3>1. content' = [content EXCEPT ![status] = "empty"]
      BY <1>2, <2>2 DEF OpenStatus
    <3>2. \A i \in 1 .. Len(content') : content'[i] # "0"
      BY <3>1, <1>t DEF Blank
    <3> QED
      BY <3>2, <1>a DEF Blank
  <2> QED
    BY <2>1, <2>2
<1>3. CASE Write(k)
  <2>1. content' = [content EXCEPT ![file[k]] = command[k]]
    BY <1>3 DEF Write
  <2>2. ASSUME command[k] # "0" PROVE \A i \in 1 .. Len(content') : content'[i] # "0"
    BY <2>1, <2>2, <1>t DEF Blank
  <2> QED
    BY <2>2, <1>a DEF Blank, Zero
<1> QED
  BY <1>1, <1>2, <1>3 DEF WrapperStep, Lock, Popen, Announce, Reap, Close, CommandEnds, Crash, files

LEMMA BlankWaiter ==
    ASSUME IInv, Blank, NEW w \in Waiters, WaiterStep(w) \/ Alarm(w) \/ LockFails(w)
    PROVE  Blank'
<1>a. UNCHANGED <<outcome, content, unread>>
  BY DEF WaiterStep, Look, Open, Shared, Read, Delete, Alarm, LockFails, caller, files, faults
<1>t. waiter \in [Waiters -> WaiterType] /\ Opened(waiter[w])
  BY DEF IInv, Typed
<1>1. ASSUME NEW v \in Waiters PROVE waiter'[v].read # "0" /\ waiter'[v].at # "ok"
  <2>0. waiter[v].read # "0" /\ waiter[v].at # "ok" /\ waiter[w].read # "0"
    BY <1>1 DEF Blank
  <2>1. CASE Look(w) \/ Shared(w) \/ Alarm(w) \/ LockFails(w)
    BY <2>0, <2>1, <1>t DEF Look, Shared, Alarm, LockFails, Move, WaiterType
  <2>2. CASE Open(w)
    BY <2>0, <2>2, <1>t DEF Open, WaiterType
  <2>3. CASE Read(w)
    <3>1. content[waiter[w].file] # "0"
      BY <2>3, <1>t DEF Read, Blank, Opened, WaiterType
    <3> QED
      BY <2>0, <2>3, <3>1, <1>t DEF Read, WaiterType
  <2>4. CASE Delete(w)
    BY <2>0, <2>4, <1>t DEF Delete, Move, WaiterType
  <2> QED
    BY <2>1, <2>2, <2>3, <2>4 DEF WaiterStep
<1> QED
  BY <1>1, <1>a DEF Blank

LEMMA BlankCaller == ASSUME IInv, Blank, Caller \/ DropWaiter PROVE Blank'
<1>t. waiter \in [Waiters -> WaiterType] /\ 0 \in Waiters
  BY DEF IInv, Typed, Waiters
<1>a. UNCHANGED content
  BY DEF Caller, Start, StartWaiter, WaiterReturns, DropWaiter, files
<1>i. Idle.read # "0" /\ Idle.at # "ok"
  BY DEF Idle
<1>1. CASE Start
  BY <1>1, <1>a DEF Blank, Start, Goto, Retry255, Finish
<1>2. CASE StartWaiter
  <2>1. \A v \in Waiters : waiter'[v].read # "0" /\ waiter'[v].at # "ok"
    BY <1>2, <1>t, <1>i DEF StartWaiter, Blank, Idle
  <2> QED
    BY <1>2, <2>1, <1>a DEF Blank, StartWaiter, caller, faults
<1>3. CASE DropWaiter
  <2>1. \A v \in Waiters : waiter'[v] \in {Idle, waiter[0], waiter[v]}
    BY <1>3, <1>t DEF DropWaiter
  <2> QED
    BY <1>3, <2>1, <1>a, <1>i, <1>t DEF Blank, DropWaiter, Retry255, Finish
<1>4. CASE WaiterReturns
  <2>1. \A v \in Waiters : waiter'[v] \in {Idle, waiter[v]}
    BY <1>4, <1>t DEF WaiterReturns
  <2>2. ~(outcome' = "ok" /\ unread' = "no")
    BY <1>4, <1>t DEF Blank, WaiterReturns, Goto, Finish
  <2> QED
    BY <2>1, <2>2, <1>a, <1>i DEF Blank
<1> QED
  BY <1>1, <1>2, <1>3, <1>4 DEF Caller

LEMMA AlwaysTruth == Spec => []Truth
<1>1. Init => Truth
  BY DEF Init, Truth, Blank, Idle
<1>2. IInv /\ Truth /\ [Next]_vars => Truth'
  <2> SUFFICES ASSUME IInv, Truth, [Next]_vars PROVE Truth'
    OBVIOUS
  <2>1. CASE Zero
    BY <2>1, ZeroStays DEF Truth
  <2>2. CASE Blank
    <3>1. CASE UNCHANGED vars
      BY <2>2, <3>1 DEF Truth, Blank, vars, caller, files, faults
    <3>2. Next => Zero \/ Blank'
      BY <2>2, BlankWrapper, BlankWaiter, BlankCaller DEF Next
    <3> QED
      BY <3>1, <3>2, ZeroStays DEF Truth
  <2> QED
    BY <2>1, <2>2 DEF Truth
<1> QED
  BY <1>1, <1>2, Always, PTL DEF Spec

(* What RobustRemoteCommand returns is true: a success that was read is     *)
(* that of a command that ended with 0, for any number of connections,      *)
(* launches, killed wrappers and errors of lockf.  The alarm does not cut   *)
(* the last call short and 'Command finished.' is said of a command that    *)
(* has ended, as long as one wrapper was started and its lock announced in  *)
(* time.                                                                    *)
THEOREM TrueAnswers == Spec => []AnswersAreTrue
<1>1. IInv /\ Truth => AnswersAreTrue
  <2> SUFFICES ASSUME IInv, Truth PROVE AnswersAreTrue
    OBVIOUS
  <2>1. outcome = "ok" /\ unread = "no" => \E k \in Wrappers : command[k] = "0"
    BY DEF Truth, Zero, Blank
  <2>2. launches = 1 /\ ~gaveUp => Single
    BY DEF IInv, Quiet, Typed
  <2> QED
    BY <2>1, <2>2 DEF AnswersAreTrue, Single, Lone, Waited, Told
<1> QED
  BY <1>1, Always, AlwaysTruth, PTL

(* With one status file, a command runs beside another only for a wrapper   *)
(* that was killed: the lock lets one wrapper in at a time.                 *)
THEOREM OverlapIsBounded == Spec => []NoOverlap
<1>1. ASSUME IInv, Len(content) <= 1
      PROVE  Cardinality({k \in Wrappers : command[k] = "running"}) <= 1 + crashes
  <2> DEFINE Running == {k \in Wrappers : command[k] = "running"}
  <2>1. \A k \in Running : k \in Orphans \/ Holds(k)
    BY <1>1 DEF IInv, Typed, Stages, Orphans, Holds, Codes
  <2>2. \A j, k \in Wrappers : Holds(j) /\ Holds(k) => j = k
    BY <1>1 DEF IInv, Typed, Stages, Mutex
  <2>3. PICK h : Running \subseteq Orphans \cup {h}
    BY <2>1, <2>2
  <2>4. /\ IsFiniteSet(Orphans \cup {h})
        /\ Cardinality(Orphans \cup {h}) \in {Cardinality(Orphans), Cardinality(Orphans) + 1}
    BY FiniteOrphans, FS_AddElement
  <2>5. Cardinality(Running) <= Cardinality(Orphans \cup {h}) /\ Cardinality(Running) \in Nat
    BY <2>3, <2>4, FS_Subset, FS_CardinalityType
  <2> QED
    BY <2>4, <2>5, <1>1, FiniteOrphans DEF IInv, OrphansCounted, Typed
<1>2. IInv => NoOverlap
  BY <1>1 DEF NoOverlap
<1> QED
  BY <1>2, Always, PTL
=============================================================================
