------------------------- MODULE IssueCommandProofs -------------------------
(***************************************************************************)
(* IssueCommand under Retry, for any number of tries: whatever the timer   *)
(* does around the end of the process, there is one process at a time, its *)
(* code is final, "ok" is earned and a command is repeated only for cause. *)
(***************************************************************************)
EXTENDS IssueCommand, TLAPS

(* A try that has not begun has neither process nor timer, and one that has *)
(* not armed it has no timer.                                               *)
Fresh ==
    /\ \A k \in Tries : k > tries \/ (k = tries /\ pc = "popen") => call[k] = NewCall
    /\ pc = "arm" => call[tries].timer = "off"

(* The caller judges only a process that has ended, and an answer is about  *)
(* such a process.                                                          *)
Answering ==
    /\ pc = "judge" \/ outcome \in {"ok", "code", "suppressed"} => call[tries].proc = "ended"
    /\ pc \in {"popen", "arm", "wait", "judge"} => outcome = "none"
    /\ pc = "retry" => outcome \in {"error", "failure", "timeout"}

(* What a code tells of a process: 0 that it did its work, Killed that the  *)
(* timer has come to its end.                                               *)
CodesTell ==
    \A k \in Tries :
        /\ call[k].proc = "ended" /\ call[k].code = 0 => call[k].effect
        /\ call[k].code = Killed => call[k].timer = "killed"

(* Which failures are worth another try, at the moment Retry looks at them. *)
Due(k) == call[k].proc = "none" \/ call[k].code # 0 \/ DidTimeout(k)

(* A command is run again only if it could not start, failed, or its timer  *)
(* had run out; and no more often than the limit.                           *)
RerunsAreDue ==
    /\ \A k \in 1..(tries - 1) : Due(k)
    /\ opts.maxRetries >= 0 => tries <= opts.maxRetries + 1

(* The processes of past tries have ended, or never were. *)
Past ==
    /\ pc = "retry" => Due(tries) /\ call[tries].proc # "running"
    /\ \A k \in Tries : k < tries => call[k].proc # "running"

IInv == TypeOK /\ Fresh /\ OneProcessAtATime /\ Answering /\ CodesTell /\ OkIsEarned
        /\ Past /\ RerunsAreDue

USE MaxTriesAssumption, KilledAssumption

LEMMA Initially == Init => IInv
BY DEF Init, IInv, TypeOK, Options, NewCall, Tries, Fresh, OneProcessAtATime, Answering,
       CodesTell, OkIsEarned, Past, RerunsAreDue

Call == [proc : {"none", "running", "ended"}, code : {0, 1, Killed}, effect : BOOLEAN,
         timer : {"off", "armed", "fired", "marked", "killed", "cancelled"}]

(* What the process and the timer may make of the record c of their try:    *)
(* they do nothing before it began, they touch code and effect only while   *)
(* the process runs, and a timeout that was marked stays.                   *)
Advances(c, r) ==
    /\ c # NewCall
    /\ r.proc = c.proc \/ (c.proc = "running" /\ r.proc = "ended")
    /\ c.proc = "running" \/ (r.code = c.code /\ r.effect = c.effect)
    /\ r.proc = "ended" /\ r.code = 0 => r.effect = TRUE
    /\ r.code = Killed => r.timer = "killed"
    /\ c.timer \in {"marked", "killed"} => r.timer \in {"marked", "killed"}
    /\ c.timer = "off" => r.timer = "off"

LEMMA ActorsAdvance ==
    ASSUME IInv, NEW k \in Tries, Process(k) \/ Timer(k)
    PROVE  \E r \in Call : call' = [call EXCEPT ![k] = r] /\ Advances(call[k], r)
<1>0. call \in [Tries -> Call] /\ call[k] \in Call
  BY DEF IInv, TypeOK, Call
<1>c. /\ call[k].proc = "ended" /\ call[k].code = 0 => call[k].effect = TRUE
      /\ call[k].code = Killed => call[k].timer = "killed"
  BY <1>0 DEF IInv, CodesTell, Call
<1>1. CASE TakeEffect(k)
  <2> DEFINE r == [call[k] EXCEPT !.effect = TRUE]
  <2>1. call' = [call EXCEPT ![k] = r] /\ r \in Call
    BY <1>0, <1>1 DEF TakeEffect, Call
  <2>2. Advances(call[k], r)
    BY <1>0, <1>1, <1>c DEF TakeEffect, Call, Advances, NewCall
  <2> QED
    BY <2>1, <2>2
<1>2. CASE Exit(k)
  <2>1. PICK code \in IF call[k].effect THEN {0, 1} ELSE {1} :
               call' = [call EXCEPT ![k].proc = "ended", ![k].code = code]
    BY <1>2 DEF Exit
  <2> DEFINE r == [call[k] EXCEPT !.proc = "ended", !.code = code]
  <2>2. code \in {0, 1} /\ (code = 0 => call[k].effect = TRUE)
    BY <1>0, <2>1 DEF Call
  <2>3. call' = [call EXCEPT ![k] = r] /\ r \in Call
    BY <1>0, <2>1, <2>2 DEF Call
  <2>4. Advances(call[k], r)
    BY <1>0, <1>2, <1>c, <2>2 DEF Exit, Call, Advances, NewCall
  <2> QED
    BY <2>3, <2>4
<1>3. CASE TimerFires(k)
  <2> DEFINE r == [call[k] EXCEPT !.timer = "fired"]
  <2>1. call' = [call EXCEPT ![k] = r] /\ r \in Call
    BY <1>0, <1>3 DEF TimerFires, Call
  <2>2. Advances(call[k], r)
    BY <1>0, <1>3, <1>c DEF TimerFires, Call, Advances, NewCall
  <2> QED
    BY <2>1, <2>2
<1>4. CASE MarkTimeout(k)
  <2> DEFINE r == [call[k] EXCEPT !.timer = "marked"]
  <2>1. call' = [call EXCEPT ![k] = r] /\ r \in Call
    BY <1>0, <1>4 DEF MarkTimeout, Call
  <2>2. Advances(call[k], r)
    BY <1>0, <1>4, <1>c DEF MarkTimeout, Call, Advances, NewCall
  <2> QED
    BY <2>1, <2>2
<1>5. CASE KillProcess(k)
  <2> DEFINE r == IF call[k].proc = "running"
                  THEN [call[k] EXCEPT !.timer = "killed", !.proc = "ended", !.code = Killed]
                  ELSE [call[k] EXCEPT !.timer = "killed"]
  <2>1. call' = [call EXCEPT ![k] = r] /\ r \in Call
    BY <1>0, <1>5 DEF KillProcess, Call
  <2>2. Advances(call[k], r)
    BY <1>0, <1>5, <1>c DEF KillProcess, Call, Advances, NewCall
  <2> QED
    BY <2>1, <2>2
<1> QED
  BY <1>1, <1>2, <1>3, <1>4, <1>5 DEF Process, Timer

LEMMA ActorsPreserve ==
    ASSUME IInv, NEW k \in Tries, Process(k) \/ Timer(k)
    PROVE  IInv'
<1>1. PICK r \in Call : call' = [call EXCEPT ![k] = r] /\ Advances(call[k], r)
  BY ActorsAdvance
<1>2. UNCHANGED <<opts, pc, tries, outcome>>
  BY DEF Process, Timer, TakeEffect, Exit, TimerFires, MarkTimeout, KillProcess
<1>3. call \in [Tries -> Call]
  BY DEF IInv, TypeOK, Call
<1>4. /\ call' \in [Tries -> Call] /\ call'[k] = r
      /\ \A j \in Tries \ {k} : call'[j] = call[j]
  BY <1>1, <1>3
<1> USE <1>1, <1>2, <1>3, <1>4 DEF Advances
<1>5. TypeOK'
  BY DEF IInv, TypeOK, Call
<1>6. Fresh'
  BY DEF IInv, Fresh, TypeOK
<1>7. OneProcessAtATime' /\ Answering'
  BY DEF IInv, OneProcessAtATime, Answering, TypeOK
<1>8. CodesTell'
  BY DEF IInv, CodesTell
<1>9. OkIsEarned'
  BY DEF IInv, OkIsEarned, Answering, TypeOK
<1>10. Past'
  BY DEF IInv, Past, Due, DidTimeout, TypeOK
<1>11. RerunsAreDue'
  <2>1. ASSUME NEW j \in 1..(tries - 1) PROVE Due(j)'
    BY <2>1 DEF IInv, RerunsAreDue, Past, Due, DidTimeout, TypeOK, Tries
  <2> QED
    BY <2>1 DEF IInv, RerunsAreDue
<1> QED
  BY <1>5, <1>6, <1>7, <1>8, <1>9, <1>10, <1>11 DEF IInv

(* The caller's steps on the record of the current try: begin, arm, cancel. *)
LEMMA CallerTypes ==
    ASSUME IInv, Popen \/ StartTimer \/ Wait \/ WaitInterrupted
    PROVE  \E r \in Call :
              /\ call' = [call EXCEPT ![tries] = r]
              /\ r.code = call[tries].code /\ r.effect = call[tries].effect
              /\ Popen => r.proc = "running" /\ r.timer = "off"
              /\ ~Popen => r.proc = call[tries].proc
              /\ call[tries].timer \in {"marked", "killed"} => r.timer = call[tries].timer
<1>0. call \in [Tries -> Call] /\ tries \in Tries /\ call[tries] \in Call
  BY DEF IInv, TypeOK, Call
<1>1. CASE Popen
  <2> DEFINE r == [call[tries] EXCEPT !.proc = "running"]
  <2>1. call' = [call EXCEPT ![tries] = r] /\ r \in Call
    BY <1>0, <1>1 DEF Popen, Call
  <2>2. call[tries].timer = "off"
    BY <1>0, <1>1 DEF Popen, IInv, Fresh, NewCall
  <2> QED
    BY <1>0, <1>1, <2>1, <2>2 DEF Call
<1>2. CASE StartTimer
  <2> DEFINE r == [call[tries] EXCEPT !.timer = "armed"]
  <2>1. call' = [call EXCEPT ![tries] = r] /\ r \in Call
    BY <1>0, <1>2 DEF StartTimer, Call
  <2> QED
    BY <1>0, <1>2, <2>1 DEF Call, StartTimer, Popen, IInv, Fresh
<1>3. CASE Wait \/ WaitInterrupted
  <2> DEFINE r == IF call[tries].timer = "armed"
                  THEN [call[tries] EXCEPT !.timer = "cancelled"] ELSE call[tries]
  <2>1. call' = [call EXCEPT ![tries] = r] /\ r \in Call
    BY <1>0, <1>3 DEF Wait, WaitInterrupted, Cancelled, Call
  <2> QED
    BY <1>0, <1>3, <2>1 DEF Call, Wait, WaitInterrupted, Popen
<1> QED
  BY <1>1, <1>2, <1>3

LEMMA CallerPreserves ==
    ASSUME IInv, Caller \/ WaitInterrupted
    PROVE  IInv'
<1>1. CASE Popen \/ StartTimer \/ Wait \/ WaitInterrupted
  <2>1. PICK r \in Call :
              /\ call' = [call EXCEPT ![tries] = r]
              /\ r.code = call[tries].code /\ r.effect = call[tries].effect
              /\ Popen => r.proc = "running" /\ r.timer = "off"
              /\ ~Popen => r.proc = call[tries].proc
              /\ call[tries].timer \in {"marked", "killed"} => r.timer = call[tries].timer
    BY <1>1, CallerTypes
  <2>2. call \in [Tries -> Call] /\ tries \in Tries
    BY DEF IInv, TypeOK, Call
  <2>3. /\ call' \in [Tries -> Call] /\ call'[tries] = r
        /\ \A j \in Tries \ {tries} : call'[j] = call[j]
    BY <2>1, <2>2
  <2>4. /\ UNCHANGED <<opts, tries>> /\ outcome = "none"
        /\ \/ Popen /\ pc = "popen" /\ pc' = "arm" /\ outcome' = "none"
           \/ ~Popen /\ pc = "arm" /\ pc' = "wait" /\ outcome' = "none"
           \/ /\ ~Popen /\ pc = "wait" /\ pc' = "judge" /\ outcome' = "none"
              /\ call[tries].proc = "ended"
           \/ ~Popen /\ pc = "wait" /\ pc' = "done" /\ outcome' = "interrupted"
    BY <1>1 DEF Popen, StartTimer, Wait, WaitInterrupted, IInv, Answering
  <2>5. Popen => call[tries].proc = "none" /\ call[tries].timer = "off"
    BY <2>2 DEF Popen, IInv, Fresh, NewCall
  <2> USE <2>1, <2>2, <2>3, <2>4, <2>5
  <2>6. TypeOK'
    BY DEF IInv, TypeOK, Call
  <2>7. Fresh'
    BY DEF IInv, Fresh, Tries
  <2>8. OneProcessAtATime' /\ Answering'
    BY DEF IInv, OneProcessAtATime, Answering
  <2>9. CodesTell' /\ OkIsEarned'
    <3>1. CodesTell'
      BY DEF IInv, CodesTell, Fresh, NewCall
    <3> QED
      BY <3>1 DEF OkIsEarned
  <2>10. Past'
    BY DEF IInv, Past, Tries
  <2>11. RerunsAreDue'
    <3>1. ASSUME NEW j \in 1..(tries - 1) PROVE Due(j)'
      BY <3>1 DEF IInv, RerunsAreDue, Due, DidTimeout, Tries
    <3> QED
      BY <3>1 DEF IInv, RerunsAreDue
  <2> QED
    BY <2>6, <2>7, <2>8, <2>9, <2>10, <2>11 DEF IInv
<1>2. CASE PopenRaises
  <2> USE <1>2 DEF PopenRaises, Raise, IInv, TypeOK
  <2>1. call[tries] = NewCall
    BY DEF Fresh
  <2>2. TypeOK' /\ Fresh' /\ CodesTell'
    BY <2>1 DEF Fresh, CodesTell, Tries, NewCall
  <2>3. OneProcessAtATime' /\ Answering' /\ OkIsEarned'
    BY <2>1 DEF OneProcessAtATime, Answering, OkIsEarned, NewCall
  <2>4. Past' /\ RerunsAreDue'
    BY <2>1 DEF Past, RerunsAreDue, Due, DidTimeout, NewCall
  <2> QED
    BY <2>2, <2>3, <2>4
<1>3. CASE Judge
  <2>1. call[tries].proc = "ended"
    BY <1>3 DEF Judge, IInv, Answering
  <2> USE <1>3, <2>1 DEF Judge, Raise, Return, Failure, IInv, TypeOK
  <2>2. TypeOK' /\ Fresh' /\ CodesTell'
    BY DEF Fresh, CodesTell, Tries
  <2>3. OneProcessAtATime' /\ Answering'
    BY DEF OneProcessAtATime, Answering
  <2>4. OkIsEarned'
    BY DEF OkIsEarned, CodesTell, DidTimeout
  <2>5. Past' /\ RerunsAreDue'
    BY DEF Past, RerunsAreDue, Due, DidTimeout
  <2> QED
    BY <2>2, <2>3, <2>4, <2>5
<1>4. CASE Retry
  <2> USE <1>4 DEF Retry, RetriesExceeded, IInv, TypeOK, Tries
  <2>1. TypeOK' /\ Fresh' /\ CodesTell'
    BY DEF Fresh, CodesTell, Options
  <2>2. OneProcessAtATime' /\ Answering' /\ OkIsEarned'
    BY DEF OneProcessAtATime, Answering, OkIsEarned, Past
  <2>3. Past'
    BY DEF Past
  <2>4. RerunsAreDue'
    BY DEF Past, RerunsAreDue, Due, DidTimeout, Options
  <2> QED
    BY <2>1, <2>2, <2>3, <2>4
<1> QED
  BY <1>1, <1>2, <1>3, <1>4 DEF Caller

LEMMA Inductive == Spec => []IInv
<1>1. IInv /\ [Next]_vars => IInv'
  <2> SUFFICES ASSUME IInv, [Next]_vars PROVE IInv'
    OBVIOUS
  <2>1. CASE UNCHANGED vars
    BY <2>1 DEF vars, IInv, TypeOK, Fresh, OneProcessAtATime, Answering, CodesTell,
                OkIsEarned, Past, RerunsAreDue, Due, DidTimeout
  <2> QED
    BY <2>1, ActorsPreserve, CallerPreserves DEF Next
<1> QED
  BY Initially, <1>1, PTL DEF Spec

(* Type correctness of IssueCommand, its processes and its timers. *)
THEOREM CommandTypes == Spec => []TypeOK
BY Inductive, PTL DEF IInv

(* For any number of tries: no command runs beside an earlier try of itself, *)
(* and none runs on after IssueCommand has answered, unless interrupted.     *)
THEOREM OneAtATime == Spec => []OneProcessAtATime
BY Inductive, PTL DEF IInv

(* For any number of tries and whatever the timer does around the end of    *)
(* the process: success is said only of a command that did its work, and    *)
(* with raise_on_timeout a killed command is never returned from.           *)
THEOREM OkIsTrue == Spec => []OkIsEarned
BY Inductive, PTL DEF IInv

(* A command is run again only if it could not start, failed or timed out,  *)
(* and at most max_retries times.                                           *)
THEOREM RerunsHaveCause == Spec => []RerunsAreDue
BY Inductive, PTL DEF IInv

(* The return code of a process that has ended never changes: a timer that  *)
(* cancel() came too late for finds nothing to kill.                        *)
CodesAreFinal ==
    \A k \in Tries : call[k].proc = "ended" => call'[k].code = call[k].code

THEOREM CodesStay == Spec => [][CodesAreFinal]_vars
<1>1. IInv /\ [Next]_vars => [CodesAreFinal]_vars
  <2> SUFFICES ASSUME IInv, Next PROVE CodesAreFinal
    OBVIOUS
  <2>0. call \in [Tries -> Call] /\ tries \in Tries
    BY DEF IInv, TypeOK, Call
  <2>1. ASSUME NEW k \in Tries, Process(k) \/ Timer(k) PROVE CodesAreFinal
    BY <2>0, <2>1, ActorsAdvance DEF Advances, CodesAreFinal
  <2>2. CASE Popen \/ StartTimer \/ Wait \/ WaitInterrupted
    BY <2>0, <2>2, CallerTypes DEF CodesAreFinal
  <2>3. CASE PopenRaises \/ Judge \/ Retry
    BY <2>3 DEF PopenRaises, Judge, Retry, CodesAreFinal
  <2> QED
    BY <2>1, <2>2, <2>3 DEF Next, Caller
<1> QED
  BY <1>1, Inductive, PTL DEF Spec
=============================================================================
