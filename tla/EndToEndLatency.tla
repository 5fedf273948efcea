--------------------------- MODULE EndToEndLatency ---------------------------
(***************************************************************************)
(* The end-to-end latency runner of the messaging service benchmark: a     *)
(* main process, a publisher and a receiver that talk over pipes, and the  *)
(* service between them.  Each message is a round: the receiver is told to *)
(* wait for it, the publisher to send it, and both answers are awaited,    *)
(* each with a timeout.                                                    *)
(*                                                                         *)
(* Of a timestamp only its presence is kept, and of a message its sequence *)
(* number.  The service may deliver late and more than once.  Time is left *)
(* out: a timeout or a deadline may pass whenever nothing has come.        *)
(***************************************************************************)
EXTENDS Naturals, Sequences

CONSTANTS
    NumberOfMessages,   \* number_of_messages
    MaxDeaths           \* bound: how many workers die of an exception

ASSUME NumberOfMessagesAssumption == NumberOfMessages \in Nat
ASSUME MaxDeathsAssumption == MaxDeaths \in Nat

Seqs == 0 .. (NumberOfMessages - 1)
Workers == {"publisher", "receiver"}

(* The classes of protocol.py; an answer that reports an error is a class   *)
(* of its own here, and belongs to the same one in the code.                *)
Types == {"Ready", "Publish", "AckPublish", "PublishError", "Consume", "AckConsume",
          "Report", "ReceiveError", "Purge", "PurgeAck"}
Msg(type, seq) == [type |-> type, seq |-> seq]

VARIABLES
    pc, seq,        \* the main process and its round
    published, received,   \* the messages that have those timestamps
    in, out,        \* the pipes to and from each worker
    ready,          \* the workers that have greeted
    at,             \* the state of each worker
    job,            \* the sequence number each worker is at
    report,         \* the message the receiver has pulled
    receivedSeqs,   \* received_seqs of the receiver
    notify,         \* notify_to_main_process
    flight, service,   \* external: messages sent, and those that can be pulled
    publishFailed, timedOut, deaths,
    aborted         \* an exception ended the loop of the main process

main == <<pc, seq, published, received, ready, timedOut, aborted>>
workers == <<at, job, report, receivedSeqs, notify, publishFailed, deaths>>
world == <<flight, service>>
vars == <<main, in, out, workers, world>>

Init ==
    /\ pc = "start" /\ seq = 0 /\ published = {} /\ received = {} /\ ready = {}
    /\ in = [w \in Workers |-> <<>>] /\ out = [w \in Workers |-> <<>>]
    /\ at = [w \in Workers |-> "booting"] /\ job = [w \in Workers |-> 0]
    /\ report = 0 /\ receivedSeqs = {} /\ notify = FALSE
    /\ flight = {} /\ service = {}
    /\ publishFailed = FALSE /\ timedOut = FALSE /\ deaths = 0 /\ aborted = FALSE

Send(pipe, w, m) == [pipe EXCEPT ![w] = Append(@, m)]
Rest(pipe, w) == [pipe EXCEPT ![w] = Tail(@)]
State(w, s) == at' = [at EXCEPT ![w] = s]

----------------------------------------------------------------------------
(* The publisher, and the first step of both. *)
Greet(w) ==
    /\ at[w] = "booting"
    /\ out' = Send(out, w, Msg("Ready", 0))
    /\ State(w, "ready")
    /\ UNCHANGED <<main, in, job, report, receivedSeqs, notify, publishFailed, deaths, world>>

AwaitPublish ==
    /\ at["publisher"] = "ready"
    /\ in["publisher"] # <<>>
    /\ job' = [job EXCEPT !["publisher"] = Head(in["publisher"]).seq]
    /\ in' = Rest(in, "publisher")
    /\ State("publisher", "publishing")
    /\ UNCHANGED <<main, out, report, receivedSeqs, notify, publishFailed, deaths, world>>

PublishMessage ==
    /\ at["publisher"] = "publishing"
    /\ flight' = flight \cup {job["publisher"]}
    /\ out' = Send(out, "publisher", Msg("AckPublish", job["publisher"]))
    /\ State("publisher", "ready")
    /\ UNCHANGED <<main, in, job, report, receivedSeqs, notify, publishFailed, deaths, service>>

(* publish_message raises, with the message sent or not. *)
PublishMessageRaises ==
    /\ at["publisher"] = "publishing"
    /\ publishFailed' = TRUE
    /\ flight' \in {flight, flight \cup {job["publisher"]}}
    /\ out' = Send(out, "publisher", Msg("PublishError", 0))
    /\ State("publisher", "ready")
    /\ UNCHANGED <<main, in, job, report, receivedSeqs, notify, deaths, service>>

(* External: the service has a message to give. *)
Deliver ==
    /\ \E s \in flight : service' = service \cup {s} /\ flight' = flight \ {s}
    /\ UNCHANGED <<main, in, out, workers>>

(* A worker dies of an exception: a client that cannot be made or purged. *)
Die(w) ==
    /\ at[w] \in {"booting", "publishing", "purging"}
    /\ deaths < MaxDeaths
    /\ deaths' = deaths + 1
    /\ State(w, "dead")
    /\ UNCHANGED <<main, in, out, job, report, receivedSeqs, notify, publishFailed, world>>

----------------------------------------------------------------------------
(* The receiver's states. *)

(* ReadyState: anything but a Consume is an exception, which ends it. *)
ReadyState ==
    /\ at["receiver"] = "ready"
    /\ in["receiver"] # <<>>
    /\ in' = Rest(in, "receiver")
    /\ IF Head(in["receiver"]).type = "Consume"
       THEN /\ job' = [job EXCEPT !["receiver"] = Head(in["receiver"]).seq]
            /\ out' = Send(out, "receiver", Msg("AckConsume", 0))
            /\ State("receiver", "pulling")
       ELSE State("receiver", "dead") /\ UNCHANGED <<job, out>>
    /\ UNCHANGED <<main, report, receivedSeqs, notify, publishFailed, deaths, world>>

(* PullingState: a message, which the service may deliver again; an error   *)
(* of the client's; or the deadline.                                        *)
Pull ==
    /\ at["receiver"] = "pulling"
    /\ \E s \in service :
         /\ report' = s
         /\ service' \in {service, service \ {s}}
    /\ State("receiver", "success")
    /\ UNCHANGED <<main, in, out, job, receivedSeqs, notify, publishFailed, deaths, flight>>

PullRaises ==
    /\ at["receiver"] = "pulling"
    /\ State("receiver", "error")
    /\ UNCHANGED <<main, in, out, job, report, receivedSeqs, notify, publishFailed, deaths, world>>

(* A wrong version of the next step: whatever was pulled is reported. *)
PullSuccessAny ==
    /\ at["receiver"] = "success"
    /\ in["receiver"] = <<>>
    /\ receivedSeqs' = receivedSeqs \cup {report}
    /\ out' = Send(out, "receiver", Msg("Report", report))
    /\ State("receiver", "ready")
    /\ UNCHANGED <<main, in, job, report, notify, publishFailed, deaths, world>>

(* PullSuccessState: a Purge comes first; then the message is reported if   *)
(* it fulfils the command.                                                  *)
PullSuccessState ==
    /\ at["receiver"] = "success"
    /\ IF in["receiver"] # <<>> /\ Head(in["receiver"]).type = "Purge"
       THEN /\ in' = Rest(in, "receiver")
            /\ notify' = TRUE
            /\ State("receiver", "purging")
            /\ UNCHANGED <<receivedSeqs, out>>
       ELSE /\ receivedSeqs' = receivedSeqs \cup {report}
            /\ IF job["receiver"] \in receivedSeqs'
               THEN /\ out' = Send(out, "receiver", Msg("Report", report))
                    /\ State("receiver", "ready")
               ELSE State("receiver", "pulling") /\ UNCHANGED out
            /\ UNCHANGED <<in, notify>>
    /\ UNCHANGED <<main, job, report, publishFailed, deaths, world>>

(* PullErrorState *)
PullErrorState ==
    /\ at["receiver"] = "error"
    /\ out' = Send(out, "receiver", Msg("ReceiveError", 0))
    /\ notify' = FALSE
    /\ State("receiver", "purging")
    /\ UNCHANGED <<main, in, job, report, receivedSeqs, publishFailed, deaths, world>>

(* PurgingState *)
PurgingState ==
    /\ at["receiver"] = "purging"
    /\ service' = {}
    /\ out' = IF notify THEN Send(out, "receiver", Msg("PurgeAck", 0)) ELSE out
    /\ State("receiver", "ready")
    /\ UNCHANGED <<main, in, job, report, receivedSeqs, notify, publishFailed, deaths, flight>>

----------------------------------------------------------------------------
(* The main process. *)

(* What it waits for: of whom, and the types the awaited class stands for. *)
Awaits ==
    [consume |-> [of |-> "receiver", types |-> {"AckConsume"}],
     publish |-> [of |-> "publisher", types |-> {"AckPublish", "PublishError"}],
     receive |-> [of |-> "receiver", types |-> {"Report", "ReceiveError"}],
     purge |-> [of |-> "receiver", types |-> {"PurgeAck"}]]
Waits == pc \in DOMAIN Awaits
Answer == Head(out[Awaits[pc].of])
Answered(type) ==
    /\ Waits
    /\ out[Awaits[pc].of] # <<>>
    /\ Answer.type = type /\ type \in Awaits[pc].types
    /\ out' = Rest(out, Awaits[pc].of)

(* An exception other than the two that are expected ends the loop. *)
Abort == pc' = "stop" /\ aborted' = TRUE

Started(w) ==
    /\ pc = "start"
    /\ out[w] # <<>> /\ w \notin ready
    /\ out' = Rest(out, w)
    /\ ready' = ready \cup {w}
    /\ pc' = IF ready' = Workers THEN "round" ELSE pc
    /\ UNCHANGED <<seq, published, received, timedOut, aborted, in, workers, world>>

BeginRound ==
    /\ pc = "round"
    /\ IF seq < NumberOfMessages
       THEN in' = Send(in, "receiver", Msg("Consume", seq)) /\ pc' = "consume"
       ELSE pc' = "stop" /\ UNCHANGED in
    /\ UNCHANGED <<seq, published, received, ready, timedOut, aborted, out, workers, world>>

ConsumptionStarted ==
    /\ Answered("AckConsume")
    /\ in' = Send(in, "publisher", Msg("Publish", seq))
    /\ pc' = "publish"
    /\ UNCHANGED <<seq, published, received, ready, timedOut, aborted, workers, world>>

RecordPublished ==
    /\ Answered("AckPublish")
    /\ published' = published \cup {Answer.seq}
    /\ pc' = "receive"
    /\ UNCHANGED <<seq, received, ready, timedOut, aborted, in, workers, world>>

(* A wrong version of the next step: the receiver is left as it is. *)
PublishFailedNoPurge ==
    /\ Answered("PublishError")
    /\ pc' = "round" /\ seq' = seq + 1
    /\ UNCHANGED <<published, received, ready, timedOut, aborted, in, workers, world>>

PublisherFailed ==
    /\ Answered("PublishError")
    /\ in' = Send(in, "receiver", Msg("Purge", 0))
    /\ pc' = "purge"
    /\ UNCHANGED <<seq, published, received, ready, timedOut, aborted, workers, world>>

Purged ==
    /\ Answered("PurgeAck")
    /\ pc' = "round" /\ seq' = seq + 1
    /\ UNCHANGED <<published, received, ready, timedOut, aborted, in, workers, world>>

(* _wait_until_received *)
RecordReception ==
    /\ Answered("Report")
    /\ received' = received \cup {Answer.seq}
    /\ IF Answer.seq = seq
       THEN pc' = "round" /\ seq' = seq + 1
       ELSE UNCHANGED <<pc, seq>>
    /\ UNCHANGED <<published, ready, timedOut, aborted, in, workers, world>>

(* A wrong version of the next step: the error is one of the unexpected. *)
ReceiverFailedAborts ==
    /\ Answered("ReceiveError")
    /\ Abort
    /\ UNCHANGED <<seq, published, received, ready, timedOut, in, workers, world>>

ReceiverFailed ==
    /\ Answered("ReceiveError")
    /\ pc' = "sleep"
    /\ UNCHANGED <<seq, published, received, ready, timedOut, aborted, in, workers, world>>

(* asyncio.sleep(PURGE_TIMEOUT) *)
WakeUp ==
    /\ pc = "sleep"
    /\ pc' = "round" /\ seq' = seq + 1
    /\ UNCHANGED <<published, received, ready, timedOut, aborted, in, out, workers, world>>

(* ReceivedUnexpectedObjectError *)
Unexpected ==
    /\ Waits
    /\ out[Awaits[pc].of] # <<>>
    /\ Answer.type \notin Awaits[pc].types
    /\ out' = Rest(out, Awaits[pc].of)
    /\ Abort
    /\ UNCHANGED <<seq, published, received, ready, timedOut, in, workers, world>>

(* SubprocessTimeoutError, of a call or of start. *)
TimesOut ==
    /\ \/ Waits /\ out[Awaits[pc].of] = <<>>
       \/ pc = "start" /\ \E w \in Workers \ ready : out[w] = <<>>
    /\ timedOut' = TRUE
    /\ Abort
    /\ UNCHANGED <<seq, published, received, ready, in, out, workers, world>>

(* A wrong version of Kill: the worker that did not obey is left. *)
GiveUp ==
    /\ pc = "kill"
    /\ pc' = "done"
    /\ UNCHANGED <<seq, published, received, ready, timedOut, aborted, in, out, workers, world>>

(* stop: terminate, which a worker may not obey in time, and kill.          *)
Terminate ==
    /\ pc = "stop"
    /\ \E obey \in SUBSET Workers :
         /\ at' = [w \in Workers |-> IF w \in obey THEN "dead" ELSE at[w]]
         /\ pc' = IF \A w \in Workers : at'[w] = "dead" THEN "done" ELSE "kill"
    /\ UNCHANGED <<seq, published, received, ready, timedOut, aborted, in, out, job, report,
                   receivedSeqs, notify, publishFailed, deaths, world>>

Kill ==
    /\ pc = "kill"
    /\ at' = [w \in Workers |-> "dead"]
    /\ pc' = "done"
    /\ UNCHANGED <<seq, published, received, ready, timedOut, aborted, in, out, job, report,
                   receivedSeqs, notify, publishFailed, deaths, world>>

----------------------------------------------------------------------------
Main ==
    \/ \E w \in Workers : Started(w)
    \/ BeginRound \/ ConsumptionStarted \/ RecordPublished \/ PublisherFailed \/ Purged
    \/ RecordReception \/ ReceiverFailed \/ WakeUp \/ Unexpected \/ TimesOut
    \/ Terminate \/ Kill

Publisher ==
    Greet("publisher") \/ AwaitPublish \/ PublishMessage \/ PublishMessageRaises

Receiver ==
    \/ Greet("receiver") \/ ReadyState \/ Pull \/ PullRaises \/ PullSuccessState
    \/ PullErrorState \/ PurgingState

Next == Main \/ Publisher \/ Receiver \/ Deliver \/ \E w \in Workers : Die(w)

(* The processes run; a wait ends by an answer or by its timeout. *)
Fairness == WF_vars(Main) /\ WF_vars(Publisher) /\ WF_vars(Receiver)

Spec == Init /\ [][Next]_vars /\ Fairness

----------------------------------------------------------------------------
(* The pipes hold messages of the protocol, the receiver is in one of its   *)
(* states, and a round is one of number_of_messages.                        *)
TypeOK ==
    /\ pc \in DOMAIN Awaits \cup {"start", "round", "sleep", "stop", "kill", "done"}
    /\ seq \in 0 .. NumberOfMessages
    /\ Waits => seq \in Seqs
    /\ published \subseteq Seqs /\ received \subseteq Seqs /\ ready \subseteq Workers
    /\ \A w \in Workers :
         in[w] \in Seq([type : Types, seq : Nat]) /\ out[w] \in Seq([type : Types, seq : Nat])
    /\ at \in [Workers -> {"booting", "ready", "publishing", "pulling", "success", "error",
                           "purging", "dead"}]
    /\ job \in [Workers -> Nat] /\ report \in Nat /\ receivedSeqs \subseteq Seqs
    /\ flight \subseteq Seqs /\ service \subseteq Seqs
    /\ deaths \in 0 .. MaxDeaths
    /\ {notify, publishFailed, timedOut, aborted} \subseteq BOOLEAN

(* A round begins with nothing left over from the one before: no answer is  *)
(* under way that could be taken for one of this round's, no command waits, *)
(* and the receiver is not pulling for an earlier message.                  *)
RoundsStartClean ==
    pc = "round" =>
        /\ \A w \in Workers : in[w] = <<>> /\ out[w] = <<>>
        /\ at["receiver"] \in {"ready", "purging", "dead"}
        /\ at["publisher"] \in {"ready", "dead"}

(* A reception report is of the message of the round, though the service    *)
(* delivers those of earlier rounds late or again.                          *)
ReportsMatch ==
    \A i \in 1 .. Len(out["receiver"]) :
        out["receiver"][i].type = "Report" => out["receiver"][i].seq = seq

(* The loop is cut short only by a timeout, the death of a worker or a      *)
(* publication that failed; an error of the receiver's costs one message.   *)
AbortHasCause == aborted => timedOut \/ deaths > 0 \/ publishFailed

(* The run comes to its end, with both workers gone.                        *)
RunEnds == <>(pc = "done" /\ \A w \in Workers : at[w] = "dead")
=============================================================================
