---------------------------- MODULE IssueCommand ----------------------------
(***************************************************************************)
(* IssueCommand of vm_util.py, alone or tried again by the Retry decorator *)
(* of IssueRetryableCommand.  Three actors meet in it: the caller, who     *)
(* waits for the process; the process, which may hang; and the timer       *)
(* thread, which kills it and which cancel() stops only while it still     *)
(* waits.  Every try has boxes, a process and a timer of its own.          *)
(*                                                                         *)
(* The command's output is left out: suppress_failure, which reads it, may *)
(* answer either way.  Time is left out too: a timer or a deadline may run *)
(* out at any moment.                                                      *)
(***************************************************************************)
EXTENDS Integers, FiniteSets

CONSTANTS
    MaxTries,     \* bound: tries before the deadline of Retry has passed
    Killed        \* the return code of a killed process

ASSUME MaxTriesAssumption == MaxTries \in Nat \ {0}
ASSUME KilledAssumption == Killed \notin {0, 1}

Tries == 1..MaxTries
Options == [retry : BOOLEAN,            \* called through IssueRetryableCommand
            maxRetries : {-1} \cup Nat, \* of Retry; -1 is no limit
            timed : BOOLEAN,            \* timeout is not None
            raiseOnFailure : BOOLEAN, raiseOnTimeout : BOOLEAN,
            suppress : BOOLEAN]         \* suppress_failure is given

VARIABLES
    opts,         \* the arguments
    pc,           \* where the caller is
    tries,        \* tries of Retry; the current call
    call,         \* process and timer of each try
    outcome       \* what the caller gets

vars == <<opts, pc, tries, call, outcome>>

NewCall == [proc |-> "none", code |-> 0, effect |-> FALSE, timer |-> "off"]

Init ==
    /\ opts \in [retry : BOOLEAN, maxRetries : {-1, 0, 1}, timed : BOOLEAN,
                 raiseOnFailure : BOOLEAN, raiseOnTimeout : BOOLEAN, suppress : BOOLEAN]
    /\ opts.retry => ~opts.raiseOnFailure      \* IssueRetryableCommand passes False
    /\ pc = "popen" /\ tries = 1
    /\ call = [k \in Tries |-> NewCall]
    /\ outcome = "none"

----------------------------------------------------------------------------
(* The process. *)

(* What it is for, at some moment of its life: a resource made, a line run. *)
TakeEffect(k) ==
    /\ call[k].proc = "running" /\ ~call[k].effect
    /\ call' = [call EXCEPT ![k].effect = TRUE]
    /\ UNCHANGED <<opts, pc, tries, outcome>>

(* It ends by itself, with 0 only when it has done its work. *)
Exit(k) ==
    /\ call[k].proc = "running"
    /\ \E code \in IF call[k].effect THEN {0, 1} ELSE {1} :
          call' = [call EXCEPT ![k].proc = "ended", ![k].code = code]
    /\ UNCHANGED <<opts, pc, tries, outcome>>

----------------------------------------------------------------------------
(* The timer thread: the interval is over and finished is not set; then     *)
(* _KillProcess, which marks the timeout before it kills.  Popen.kill does  *)
(* nothing to a process that was waited for.                                *)
TimerFires(k) ==
    /\ call[k].timer = "armed" /\ opts.timed
    /\ call' = [call EXCEPT ![k].timer = "fired"]
    /\ UNCHANGED <<opts, pc, tries, outcome>>

MarkTimeout(k) ==
    /\ call[k].timer = "fired"
    /\ call' = [call EXCEPT ![k].timer = "marked"]
    /\ UNCHANGED <<opts, pc, tries, outcome>>

(* A wrong version of the next one: the process may ignore it. *)
TerminatePolitely(k) ==
    /\ call[k].timer = "marked"
    /\ call' = [call EXCEPT ![k].timer = "killed"]
    /\ UNCHANGED <<opts, pc, tries, outcome>>

KillProcess(k) ==
    /\ call[k].timer = "marked"
    /\ call' = IF call[k].proc = "running"
               THEN [call EXCEPT ![k].timer = "killed", ![k].proc = "ended",
                                 ![k].code = Killed]
               ELSE [call EXCEPT ![k].timer = "killed"]
    /\ UNCHANGED <<opts, pc, tries, outcome>>

DidTimeout(k) == call[k].timer \in {"marked", "killed"}

----------------------------------------------------------------------------
(* The caller. *)

(* An exception leaves IssueCommand: Retry catches it, or the caller gets it. *)
Raise(what) ==
    IF opts.retry THEN pc' = "retry" /\ outcome' = what
                  ELSE pc' = "done" /\ outcome' = what
Return(what) == pc' = "done" /\ outcome' = what

Popen ==
    /\ pc = "popen"
    /\ call' = [call EXCEPT ![tries].proc = "running"]
    /\ pc' = "arm"
    /\ UNCHANGED <<opts, tries, outcome>>

PopenRaises ==
    /\ pc = "popen"
    /\ Raise("error")
    /\ UNCHANGED <<opts, tries, call>>

StartTimer ==
    /\ pc = "arm"
    /\ call' = [call EXCEPT ![tries].timer = "armed"]
    /\ pc' = "wait"
    /\ UNCHANGED <<opts, tries, outcome>>

Cancelled == IF call[tries].timer = "armed"
             THEN [call EXCEPT ![tries].timer = "cancelled"] ELSE call

(* A wrong version of the next one: the wait ends with the timeout. *)
WaitOrTimeout ==
    /\ pc = "wait"
    /\ call[tries].proc = "ended" \/ DidTimeout(tries)
    /\ call' = Cancelled
    /\ pc' = "judge"
    /\ UNCHANGED <<opts, tries, outcome>>

(* process.wait() returns; the finally clause cancels the timer. *)
Wait ==
    /\ pc = "wait"
    /\ call[tries].proc = "ended"
    /\ call' = Cancelled
    /\ pc' = "judge"
    /\ UNCHANGED <<opts, tries, outcome>>

(* A KeyboardInterrupt in wait(): the timer is cancelled, the process stays, *)
(* and Retry, which catches exceptions only, does not hold it up.            *)
WaitInterrupted ==
    /\ pc = "wait"
    /\ call' = Cancelled
    /\ pc' = "done" /\ outcome' = "interrupted"
    /\ UNCHANGED <<opts, tries>>

Failure(code) == IF opts.retry /\ code # 0 THEN Raise("failure") ELSE
                 Return(IF code = 0 THEN "ok" ELSE "code")

(* A wrong version of the next one: did_timeout is not read. *)
JudgeNoTimeout ==
    /\ pc = "judge"
    /\ \/ call[tries].code # 0 /\ (opts.raiseOnFailure \/ opts.suppress)
          /\ \/ opts.suppress /\ Return("suppressed")
             \/ Raise("failure")
       \/ ~(call[tries].code # 0 /\ (opts.raiseOnFailure \/ opts.suppress))
          /\ Return(IF call[tries].code = 0 THEN "ok" ELSE "code")
    /\ UNCHANGED <<opts, tries, call>>

(* The end of IssueCommand and, under Retry, of IssueRetryableCommand, for   *)
(* which any code but 0 is an exception.                                     *)
Judge ==
    /\ pc = "judge"
    /\ LET code == call[tries].code
           failed == code # 0 /\ (opts.raiseOnFailure \/ opts.suppress)
       IN  \/ DidTimeout(tries) /\ opts.raiseOnTimeout /\ Raise("timeout")
           \/ /\ ~(DidTimeout(tries) /\ opts.raiseOnTimeout)
              /\ \/ failed /\ opts.suppress /\ Return("suppressed")
                 \/ failed /\ Raise("failure")
                 \/ ~failed /\ Failure(code)
    /\ UNCHANGED <<opts, tries, call>>

----------------------------------------------------------------------------
(* Retry: the deadline first, then the number of tries, then once more. *)
RetriesExceeded == opts.maxRetries >= 0 /\ tries > opts.maxRetries

Retry ==
    /\ pc = "retry"
    /\ \/ pc' = "done" /\ outcome' = "timeoutExceeded" /\ UNCHANGED tries
       \/ /\ RetriesExceeded
          /\ pc' = "done" /\ outcome' = "retriesExceeded" /\ UNCHANGED tries
       \/ /\ ~RetriesExceeded
          /\ tries < MaxTries
          /\ tries' = tries + 1 /\ pc' = "popen" /\ outcome' = "none"
    /\ UNCHANGED <<opts, call>>

Process(k) == TakeEffect(k) \/ Exit(k)
Timer(k) == TimerFires(k) \/ MarkTimeout(k) \/ KillProcess(k)
Caller == Popen \/ PopenRaises \/ StartTimer \/ Wait \/ Judge \/ Retry

Next == Caller \/ WaitInterrupted \/ \E k \in Tries : Process(k) \/ Timer(k)

(* The scheduler runs the caller and the timer threads; nothing is assumed  *)
(* of the process, which may hang, and no interrupt need ever come.         *)
Spec == /\ Init /\ [][Next]_vars
        /\ WF_vars(Caller) /\ \A k \in Tries : WF_vars(Timer(k))

----------------------------------------------------------------------------
TypeOK ==
    /\ opts \in Options
    /\ pc \in {"popen", "arm", "wait", "judge", "retry", "done"}
    /\ tries \in Tries
    /\ call \in [Tries -> [proc : {"none", "running", "ended"}, code : {0, 1, Killed},
                           effect : BOOLEAN,
                           timer : {"off", "armed", "fired", "marked", "killed", "cancelled"}]]
    /\ outcome \in {"none", "ok", "code", "suppressed", "failure", "timeout", "error",
                    "interrupted", "timeoutExceeded", "retriesExceeded"}

(* No try runs beside another, and nothing runs on when the caller has its   *)
(* answer, unless a KeyboardInterrupt cut the wait short.                    *)
OneProcessAtATime ==
    \A k \in Tries :
        call[k].proc = "running" =>
            k = tries /\ (pc \in {"arm", "wait"} \/ outcome = "interrupted")

(* "ok" is never said of a command that was killed or did not do its work,   *)
(* whatever the timer did around the end of the process; with                *)
(* raise_on_timeout, nothing at all is returned once the kill was sent.      *)
OkIsEarned ==
    /\ outcome = "ok" => call[tries].code = 0 /\ call[tries].effect
    /\ outcome \in {"ok", "code", "suppressed"} /\ opts.raiseOnTimeout =>
          call[tries].code # Killed

(* With a timeout the caller gets an answer even if the command hangs.       *)
TimedCallsEnd == opts.timed => <>(pc = "done")
=============================================================================
