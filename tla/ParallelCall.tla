---------------------------- MODULE ParallelCall ----------------------------
(***************************************************************************)
(* What a caller of RunParallelThreads may rely on, without the threads    *)
(* and queues: each call is made at most once, at most Limit are being     *)
(* made at a time, and the caller gets its answer only when none of them   *)
(* is still being made.  It gets the results if every call returned, the   *)
(* combined exception if every call ended and some raised, and a           *)
(* KeyboardInterrupt only if it was interrupted, which may cut calls off.  *)
(***************************************************************************)
EXTENDS Naturals, FiniteSets

CONSTANTS Task, Limit

VARIABLES
    call,          \* what has become of each call
    outcome,       \* what the caller got
    interrupted    \* a KeyboardInterrupt has reached the caller's thread

pvars == <<call, outcome, interrupted>>

Running == {t \in Task : call[t] = "running"}

Init ==
    /\ call = [t \in Task |-> "new"]
    /\ outcome = "none"
    /\ interrupted = FALSE

Begin(t) ==
    /\ outcome = "none"
    /\ call[t] = "new"
    /\ Cardinality(Running) < Limit
    /\ call' = [call EXCEPT ![t] = "running"]
    /\ UNCHANGED <<outcome, interrupted>>

End(t) ==
    /\ call[t] = "running"
    /\ \E r \in {"ok", "failed"} : call' = [call EXCEPT ![t] = r]
    /\ UNCHANGED <<outcome, interrupted>>

Cut(t) ==
    /\ interrupted
    /\ call[t] = "running"
    /\ call' = [call EXCEPT ![t] = "cut"]
    /\ UNCHANGED <<outcome, interrupted>>

Interrupt ==
    /\ outcome = "none"
    /\ ~interrupted
    /\ interrupted' = TRUE
    /\ UNCHANGED <<call, outcome>>

(* A KeyboardInterrupt nobody handles is the answer. *)
InterruptAnswer ==
    /\ outcome = "none"
    /\ Running = {}
    /\ interrupted' = TRUE
    /\ outcome' = "interrupt"
    /\ UNCHANGED call

Answer ==
    /\ outcome = "none"
    /\ Running = {}
    /\ \/ ~interrupted /\ (\A t \in Task : call[t] = "ok") /\ outcome' = "results"
       \/ /\ ~interrupted
          /\ \A t \in Task : call[t] \in {"ok", "failed"}
          /\ \E t \in Task : call[t] = "failed"
          /\ outcome' = "exception"
       \/ interrupted /\ outcome' = "interrupt"
    /\ UNCHANGED <<call, interrupted>>

Next ==
    Interrupt \/ InterruptAnswer \/ Answer \/ \E t \in Task : Begin(t) \/ End(t) \/ Cut(t)

Spec == Init /\ [][Next]_pvars
=============================================================================
