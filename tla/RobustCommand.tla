---------------------------- MODULE RobustCommand ----------------------------
(***************************************************************************)
(* RobustRemoteCommand of linux_virtual_machine.py and the two scripts it  *)
(* runs on the VM.  execute_command.py runs the command in the background, *)
(* holding an exclusive lock on a status file; wait_for_command.py waits   *)
(* for a shared lock on that file.  The caller starts the first once and   *)
(* the second as often as it takes, through ssh, which may fail at any     *)
(* moment: then nobody knows whether the remote side was started, and it   *)
(* goes on if it was.                                                      *)
(*                                                                         *)
(* A lock belongs to the file and not to its name: who has opened a file   *)
(* that was unlinked since locks the old one.  The stdout and stderr files *)
(* come and go with the status file and are not followed apart from it.    *)
(* Time is left out: what waits for so many seconds may have waited long   *)
(* enough at any moment.                                                   *)
(***************************************************************************)
EXTENDS Naturals, Sequences, FiniteSets

CONSTANTS
    SshRetries,   \* FLAGS.ssh_retries
    MaxDrops,     \* bound: how many ssh connections fail
    MaxCrashes,   \* bound: how many wrapper scripts are killed
    MaxLockErrors \* bound: how many lockf calls fail with an errno

ASSUME SshRetriesAssumption == SshRetries \in Nat \ {0}
ASSUME BoundsAssumption == {MaxDrops, MaxCrashes, MaxLockErrors} \subseteq Nat

Codes == {"0", "1", "255"}            \* of the command; a killed one has "1"
Wrappers == 1 .. SshRetries           \* the runs of execute_command.py
Waiters == 0 .. MaxDrops              \* those of wait_for_command.py; ours is 0

VARIABLES
    pc,         \* where the caller is
    ssh,        \* connections this RemoteCommand has made
    outcome,    \* what RobustRemoteCommand does in the end
    wrapper,    \* where each execute_command.py is
    command,    \* command[k]: what wrapper k started, running or its code
    waiter,     \* each wait_for_command.py: where, what for, what it read
    status,     \* the file that has the name of the status file, or 0
    content,    \* what is in each file that ever had it
    file,       \* the file wrapper k has opened
    exclusive,  \* the exclusive file exists
    launches, drops, crashes, lockErrors,
    gaveUp,     \* a waiter waited in vain for the files, or its alarm came late
    unread      \* history: why the last call returned 0 with nothing read

caller == <<pc, ssh, outcome>>
files == <<status, content, file, exclusive>>
faults == <<launches, drops, crashes, lockErrors, gaveUp, unread>>
vars == <<caller, wrapper, command, waiter, files, faults>>

Idle == [at |-> "none", fetch |-> FALSE, file |-> 0, read |-> "none"]

Init ==
    /\ pc = "start" /\ ssh = 0 /\ outcome = "none"
    /\ wrapper = [k \in Wrappers |-> "none"]
    /\ command = [k \in Wrappers |-> "none"]
    /\ waiter = [w \in Waiters |-> Idle]
    /\ status = 0 /\ content = <<>> /\ file = [k \in Wrappers |-> 0] /\ exclusive = FALSE
    /\ launches = 0 /\ drops = 0 /\ crashes = 0 /\ lockErrors = 0
    /\ gaveUp = FALSE /\ unread = "no"

----------------------------------------------------------------------------
(* execute_command.py *)
Holds(k) == wrapper[k] \in {"locked", "started", "waiting", "write", "close"}
Locked(f) == \E k \in Wrappers : Holds(k) /\ file[k] = f
Reading(f) == \E w \in Waiters : waiter[w].at = "read" /\ waiter[w].file = f

To(k, place) == wrapper' = [wrapper EXCEPT ![k] = place]

(* Wrong versions of the next steps: the lock is not asked for; the file    *)
(* that announces the lock is made without it.                              *)
LockNothing(k) ==
    /\ wrapper[k] = "lock"
    /\ To(k, "locked")
    /\ UNCHANGED <<caller, command, waiter, files, faults>>

OpenAndAnnounce(k) ==
    /\ wrapper[k] = "open"
    /\ IF status = 0
       THEN content' = Append(content, "empty") /\ status' = Len(content) + 1
       ELSE content' = [content EXCEPT ![status] = "empty"] /\ UNCHANGED status
    /\ file' = [file EXCEPT ![k] = status']
    /\ exclusive' = TRUE
    /\ To(k, "lock")
    /\ UNCHANGED <<caller, command, waiter, faults>>

(* open(status, 'w+') empties the file, whoever has the lock, or makes one. *)
OpenStatus(k) ==
    /\ wrapper[k] = "open"
    /\ IF status = 0
       THEN content' = Append(content, "empty") /\ status' = Len(content) + 1
       ELSE content' = [content EXCEPT ![status] = "empty"] /\ UNCHANGED status
    /\ file' = [file EXCEPT ![k] = status']
    /\ To(k, "lock")
    /\ UNCHANGED <<caller, command, waiter, exclusive, faults>>

(* The lock, which is taken or ends the wrapper. *)
Lock(k) ==
    /\ wrapper[k] = "lock"
    /\ To(k, IF Reading(file[k]) \/ Locked(file[k]) THEN "dead" ELSE "locked")
    /\ UNCHANGED <<caller, command, waiter, files, faults>>

Popen(k) ==
    /\ wrapper[k] = "locked"
    /\ command' = [command EXCEPT ![k] = "running"]
    /\ To(k, "started")
    /\ UNCHANGED <<caller, waiter, files, faults>>

Announce(k) ==
    /\ wrapper[k] = "started"
    /\ exclusive' = TRUE
    /\ To(k, "waiting")
    /\ UNCHANGED <<caller, command, waiter, status, content, file, faults>>

(* The command ends, by itself or because the timer kills it. *)
CommandEnds(k) ==
    /\ command[k] = "running"
    /\ \E c \in Codes : command' = [command EXCEPT ![k] = c]
    /\ UNCHANGED <<caller, wrapper, waiter, files, faults>>

Reap(k) ==
    /\ wrapper[k] = "waiting"
    /\ command[k] \in Codes
    /\ To(k, "write")
    /\ UNCHANGED <<caller, command, waiter, files, faults>>

(* A wrong version of one of the next steps: the lock is never given up. *)
CloseForgotten(k) ==
    /\ wrapper[k] = "close"
    /\ UNCHANGED vars

(* The code is written, and the lock goes when the file is closed. *)
Write(k) ==
    /\ wrapper[k] = "write"
    /\ content' = [content EXCEPT ![file[k]] = command[k]]
    /\ To(k, "close")
    /\ UNCHANGED <<caller, command, waiter, status, file, exclusive, faults>>

Close(k) ==
    /\ wrapper[k] = "close"
    /\ To(k, "dead")
    /\ UNCHANGED <<caller, command, waiter, files, faults>>

(* The wrapper is killed: its lock goes, and the command runs on. *)
Crash(k) ==
    /\ wrapper[k] \notin {"none", "dead"}
    /\ crashes < MaxCrashes
    /\ crashes' = crashes + 1
    /\ To(k, "dead")
    /\ UNCHANGED <<caller, command, waiter, files, launches, drops, lockErrors, gaveUp,
                   unread>>

----------------------------------------------------------------------------
(* wait_for_command.py *)
Move(w, place) == waiter' = [waiter EXCEPT ![w].at = place]

(* Both files are there, or were not in WAIT_TIMEOUT_IN_SEC. *)
Look(w) ==
    /\ waiter[w].at = "look"
    /\ \/ exclusive /\ status # 0 /\ UNCHANGED gaveUp
       \/ ~(exclusive /\ status # 0) /\ gaveUp' = TRUE
    /\ Move(w, "open")
    /\ UNCHANGED <<caller, wrapper, command, files, launches, drops, crashes,
                   lockErrors, unread>>

Open(w) ==
    /\ waiter[w].at = "open"
    /\ waiter' = [waiter EXCEPT ![w].at = IF status = 0 THEN "failed" ELSE "lock",
                                ![w].file = status]
    /\ UNCHANGED <<caller, wrapper, command, files, faults>>

Shared(w) ==
    /\ waiter[w].at = "lock"
    /\ ~Locked(waiter[w].file)
    /\ Move(w, "read")
    /\ UNCHANGED <<caller, wrapper, command, files, faults>>

(* The alarm comes while it waits for the lock, and it returns 0; or it     *)
(* comes with the lock just taken, outside the try, and it dies.            *)
Alarm(w) ==
    /\ \/ /\ waiter[w].at = "lock"
          /\ Locked(waiter[w].file)
          /\ Move(w, "again")
          /\ UNCHANGED gaveUp
       \/ waiter[w].at = "read" /\ Move(w, "failed") /\ gaveUp' = TRUE
    /\ UNCHANGED <<caller, wrapper, command, files, launches, drops, crashes,
                   lockErrors, unread>>

(* lockf fails, whoever has the lock: with ECONNREFUSED, EAGAIN or EACCES   *)
(* it returns 0 as after the alarm, with any other errno it dies.           *)
LockFails(w) ==
    /\ waiter[w].at = "lock"
    /\ lockErrors < MaxLockErrors
    /\ lockErrors' = lockErrors + 1
    /\ Move(w, "refused") \/ Move(w, "failed")
    /\ UNCHANGED <<caller, wrapper, command, files, launches, drops, crashes, gaveUp, unread>>

(* What it read becomes its own return code, 255 becomes 1, and the files   *)
(* are deleted.                                                             *)
Read(w) ==
    /\ waiter[w].at = "read"
    /\ waiter' = [waiter EXCEPT ![w].at = IF waiter[w].fetch THEN "delete" ELSE "finished",
                                ![w].read = content[waiter[w].file]]
    /\ UNCHANGED <<caller, wrapper, command, files, faults>>

Delete(w) ==
    /\ waiter[w].at = "delete"
    /\ status' = 0
    /\ Move(w, IF status # 0 /\ waiter[w].read = "0" THEN "ok" ELSE "failed")
    /\ UNCHANGED <<caller, wrapper, command, content, file, exclusive, faults>>

----------------------------------------------------------------------------
(* RobustRemoteCommand: each place is a RemoteCommand. *)
Goto(place) == pc' = place /\ ssh' = 0 /\ UNCHANGED outcome
Finish(result) == pc' = "done" /\ outcome' = result /\ UNCHANGED ssh

Launch == /\ wrapper' = [wrapper EXCEPT ![launches + 1] = "open"]
          /\ launches' = launches + 1

(* A connection that fails is tried again, up to ssh_retries times in all. *)
Retry255 ==
    /\ drops < MaxDrops
    /\ drops' = drops + 1
    /\ IF ssh + 1 < SshRetries
       THEN ssh' = ssh + 1 /\ UNCHANGED <<pc, outcome>>
       ELSE Finish("error")

Start ==
    /\ pc = "start"
    /\ \/ Launch /\ Goto("poll") /\ UNCHANGED drops
       \/ Launch /\ Retry255
       \/ Retry255 /\ UNCHANGED <<wrapper, launches>>
    /\ UNCHANGED <<command, waiter, files, crashes, lockErrors, gaveUp, unread>>

StartWaiter ==
    /\ pc \in {"poll", "fetch"}
    /\ waiter[0].at = "none"
    /\ waiter' = [waiter EXCEPT ![0] = [Idle EXCEPT !.at = "look", !.fetch = (pc = "fetch")]]
    /\ UNCHANGED <<caller, wrapper, command, files, faults>>

(* The connection fails before or after the waiter was started, which then  *)
(* goes on by itself.                                                       *)
DropWaiter ==
    /\ pc \in {"poll", "fetch"}
    /\ Retry255
    /\ waiter' = [waiter EXCEPT ![drops + 1] = waiter[0], ![0] = Idle]
    /\ UNCHANGED <<wrapper, command, files, launches, crashes, lockErrors, gaveUp, unread>>

(* The waiter has ended: 'Command finished.' ends the loop, another 0 does  *)
(* not.  The last call is not repeated: its 0 is success, whether it is the *)
(* command's or that of a waiter that never had the lock.                   *)
WaiterReturns ==
    /\ pc \in {"poll", "fetch"}
    /\ waiter' = [waiter EXCEPT ![0] = Idle]
    /\ \/ pc = "poll" /\ waiter[0].at \in {"again", "refused"} /\ Goto("poll") /\ UNCHANGED unread
       \/ pc = "poll" /\ waiter[0].at = "finished" /\ Goto("fetch") /\ UNCHANGED unread
       \/ pc = "fetch" /\ waiter[0].at = "ok" /\ Finish("ok") /\ UNCHANGED unread
       \/ pc = "fetch" /\ waiter[0].at = "again" /\ Finish("ok") /\ unread' = "alarm"
       \/ pc = "fetch" /\ waiter[0].at = "refused" /\ Finish("ok") /\ unread' = "errno"
       \/ waiter[0].at = "failed" /\ Finish("error") /\ UNCHANGED unread
    /\ UNCHANGED <<wrapper, command, files, launches, drops, crashes, lockErrors, gaveUp>>

----------------------------------------------------------------------------
WrapperStep(k) ==
    \/ OpenStatus(k) \/ Lock(k) \/ Popen(k) \/ Announce(k) \/ Reap(k) \/ Write(k) \/ Close(k)
WaiterStep(w) == Look(w) \/ Open(w) \/ Shared(w) \/ Read(w) \/ Delete(w)
Caller == Start \/ StartWaiter \/ WaiterReturns

Next ==
    \/ Caller \/ DropWaiter
    \/ \E k \in Wrappers : WrapperStep(k) \/ CommandEnds(k) \/ Crash(k)
    \/ \E w \in Waiters : WaiterStep(w) \/ Alarm(w) \/ LockFails(w)

(* Scripts and calls go on, and the command ends.  Alarms and errors of the *)
(* lock are not assumed.                                                    *)
Fairness ==
    /\ WF_vars(Caller)
    /\ \A k \in Wrappers : WF_vars(WrapperStep(k)) /\ WF_vars(CommandEnds(k))
    /\ \A w \in Waiters : WF_vars(WaiterStep(w))

Spec == Init /\ [][Next]_vars /\ Fairness

----------------------------------------------------------------------------
(* The values are in range: no more wrappers than connections, no more      *)
(* strangers among the waiters than connections that failed.                *)
TypeOK ==
    /\ pc \in {"start", "poll", "fetch", "done"} /\ ssh \in 0 .. (SshRetries - 1)
    /\ outcome \in {"none", "ok", "error"} /\ (pc = "done") <=> (outcome # "none")
    /\ wrapper \in [Wrappers -> {"none", "open", "lock", "locked", "started", "waiting",
                                 "write", "close", "dead"}]
    /\ command \in [Wrappers -> {"none", "running"} \cup Codes]
    /\ waiter \in [Waiters -> [at : {"none", "look", "open", "lock", "read", "delete", "again",
                                     "refused", "finished", "ok", "failed"},
                               fetch : BOOLEAN, file : 0 .. Len(content),
                               read : {"none", "empty"} \cup Codes]]
    /\ content \in Seq({"empty"} \cup Codes) /\ Len(content) <= launches
    /\ status \in 0 .. Len(content) /\ file \in [Wrappers -> 0 .. Len(content)]
    /\ exclusive \in BOOLEAN
    /\ launches \in 0 .. SshRetries /\ drops \in 0 .. MaxDrops /\ crashes \in 0 .. MaxCrashes
    /\ lockErrors \in 0 .. MaxLockErrors
    /\ gaveUp \in BOOLEAN /\ unread \in {"no", "alarm", "errno"}
    /\ \A k \in Wrappers : k > launches => wrapper[k] = "none"

(* What the caller is told is true.  A call that succeeds after reading a   *)
(* status is of a command that ended with 0, however often it was started,  *)
(* whatever waiters nobody listens to have fetched or deleted, and whoever  *)
(* was killed.  As long as only one was started and its lock announced in   *)
(* time, the last call is not cut short by its alarm, so that only an error *)
(* of lockf can make it succeed unread; and 'Command finished.' is said of  *)
(* a command that has ended, unless its wrapper was killed.                 *)
AnswersAreTrue ==
    /\ outcome = "ok" /\ unread = "no" => \E k \in Wrappers : command[k] = "0"
    /\ launches = 1 /\ ~gaveUp =>
          /\ unread # "alarm"
          /\ pc = "fetch" /\ crashes = 0 => command[1] \in Codes

(* A command that a failed connection started twice does not run beside     *)
(* itself: only the death of a wrapper lets the next one in, or the end of  *)
(* the whole call, whose --delete leaves the next one a file of its own.    *)
NoOverlap ==
    Len(content) <= 1 => Cardinality({k \in Wrappers : command[k] = "running"}) <= 1 + crashes

(* RobustRemoteCommand comes to an end when the command does.               *)
Answered == <>(outcome # "none")
=============================================================================
