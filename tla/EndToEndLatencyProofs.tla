------------------------ MODULE EndToEndLatencyProofs ------------------------
(***************************************************************************)
(* The protocol of the main process, the publisher and the receiver, for   *)
(* any number of messages: at every wait of the main process, what may be  *)
(* in the pipes and where the workers may be.                              *)
(***************************************************************************)
EXTENDS EndToEndLatency, SequenceTheorems, TLAPS

Message == [type : Types, seq : Nat]

Places == {"start", "round", "consume", "publish", "receive", "purge", "sleep", "stop", "kill",
           "done"}
States == {"booting", "ready", "publishing", "pulling", "success", "error", "purging", "dead"}

(* The types, as the proof uses them: the pipes are functions, and what     *)
(* NotAhead says of the sets of messages is left to it.                     *)
Typed ==
    /\ pc \in Places /\ seq \in 0 .. NumberOfMessages
    /\ pc \in {"consume", "publish", "receive", "purge", "sleep"} => seq \in Seqs
    /\ published \subseteq Seqs /\ received \subseteq Seqs /\ ready \subseteq Workers
    /\ in \in [Workers -> Seq(Message)] /\ out \in [Workers -> Seq(Message)]
    /\ at \in [Workers -> States]
    /\ job \in [Workers -> Nat] /\ report \in Nat
    /\ deaths \in 0 .. MaxDeaths
Flags ==
    notify \in BOOLEAN /\ publishFailed \in BOOLEAN /\ timedOut \in BOOLEAN /\ aborted \in BOOLEAN

(* The receiver is at work on a command; or it is done with it, perhaps but *)
(* for the purge after an error of its own.                                 *)
Busy == at["receiver"] \in {"pulling", "success", "error"}
Settled ==
    \/ at["receiver"] \in {"ready", "dead"}
    \/ at["receiver"] = "purging" /\ notify = FALSE

(* The answer to a Consume, after its acknowledgement. *)
Result(answers) ==
    \/ answers = <<>> /\ Busy
    \/ answers = <<Msg("ReceiveError", 0)>> /\ Settled
    \/ answers = <<Msg("Report", seq)>> /\ at["receiver"] = "ready"

(* The pipes and the workers, for each place of the main process. *)
Starting ==
    /\ ready # Workers
    /\ \A w \in Workers :
         /\ in[w] = <<>>
         /\ w \in ready => at[w] = "ready" /\ out[w] = <<>>
         /\ w \notin ready =>
              \/ at[w] \in {"booting", "dead"} /\ out[w] = <<>>
              \/ at[w] = "ready" /\ out[w] = <<Msg("Ready", 0)>>

PublisherIdle == in["publisher"] = <<>> /\ out["publisher"] = <<>> /\ at["publisher"] = "ready"
Between == PublisherIdle /\ in["receiver"] = <<>> /\ out["receiver"] = <<>> /\ Settled

Consuming ==
    /\ PublisherIdle
    /\ \/ in["receiver"] = <<Msg("Consume", seq)>> /\ out["receiver"] = <<>> /\ Settled
       \/ /\ in["receiver"] = <<>>
          /\ \/ out["receiver"] = <<Msg("AckConsume", 0)>> /\ Busy
             \/ /\ out["receiver"] = <<Msg("AckConsume", 0), Msg("ReceiveError", 0)>>
                /\ Settled
             \/ /\ out["receiver"] = <<Msg("AckConsume", 0), Msg("Report", seq)>>
                /\ at["receiver"] = "ready"

Publishing ==
    /\ in["receiver"] = <<>> /\ Result(out["receiver"])
    /\ \/ /\ in["publisher"] = <<Msg("Publish", seq)>> /\ out["publisher"] = <<>>
          /\ at["publisher"] = "ready"
       \/ /\ in["publisher"] = <<>> /\ out["publisher"] = <<>>
          /\ at["publisher"] \in {"publishing", "dead"}
       \/ /\ in["publisher"] = <<>> /\ out["publisher"] = <<Msg("AckPublish", seq)>>
          /\ at["publisher"] = "ready"
       \/ /\ in["publisher"] = <<>> /\ out["publisher"] = <<Msg("PublishError", 0)>>
          /\ at["publisher"] = "ready" /\ publishFailed = TRUE

Receiving == PublisherIdle /\ in["receiver"] = <<>> /\ Result(out["receiver"])

Purging ==
    /\ PublisherIdle /\ publishFailed = TRUE
    /\ \/ in["receiver"] = <<Msg("Purge", 0)>> /\ Result(out["receiver"])
       \/ /\ in["receiver"] = <<>>
          /\ \/ at["receiver"] = "purging" /\ notify = TRUE /\ out["receiver"] = <<>>
             \/ at["receiver"] = "ready" /\ out["receiver"] = <<Msg("PurgeAck", 0)>>
             \/ /\ at["receiver"] = "dead"
                /\ \/ out["receiver"] = <<>>
                   \/ out["receiver"] = <<Msg("ReceiveError", 0)>>
                   \/ out["receiver"] = <<Msg("Report", seq)>>

Phases ==
    /\ pc = "start" => Starting
    /\ pc \in {"round", "sleep"} => Between
    /\ pc = "consume" => Consuming
    /\ pc = "publish" => Publishing
    /\ pc = "receive" => Receiving
    /\ pc = "purge" => Purging

(* What is in a pipe of commands is for this round, wherever the main       *)
(* process is: it may have given up.                                        *)
Commands ==
    /\ \/ in["receiver"] = <<>>
       \/ in["receiver"] = <<Msg("Purge", 0)>>
       \/ in["receiver"] = <<Msg("Consume", seq)>> /\ ~Busy /\ seq \notin receivedSeqs
    /\ Busy => job["receiver"] = seq /\ seq \notin receivedSeqs
    /\ in["publisher"] = <<>> \/ (in["publisher"] = <<Msg("Publish", seq)>> /\ seq \in Seqs)
    /\ at["publisher"] = "publishing" => job["publisher"] = seq /\ seq \in Seqs

(* No message is ahead of the round, and none of the round is about before  *)
(* it begins.                                                               *)
NotAhead ==
    /\ flight \cup service \cup receivedSeqs \subseteq Seqs \cap 0 .. seq
    /\ at["receiver"] = "success" => report \in Seqs /\ report <= seq
    /\ pc \in {"start", "round"} => seq \notin flight \cup service \cup receivedSeqs

IInv == Typed /\ Flags /\ Phases /\ Commands /\ NotAhead /\ ReportsMatch /\ AbortHasCause

USE NumberOfMessagesAssumption, MaxDeathsAssumption

LEMMA Waiting ==
    /\ DOMAIN Awaits = {"consume", "publish", "receive", "purge"}
    /\ Awaits["consume"] = [of |-> "receiver", types |-> {"AckConsume"}]
    /\ Awaits["publish"] = [of |-> "publisher", types |-> {"AckPublish", "PublishError"}]
    /\ Awaits["receive"] = [of |-> "receiver", types |-> {"Report", "ReceiveError"}]
    /\ Awaits["purge"] = [of |-> "receiver", types |-> {"PurgeAck"}]
BY DEF Awaits

LEMMA Initially == Init => IInv
<1> SUFFICES ASSUME Init PROVE IInv
  OBVIOUS
<1>0. Flags
  BY Zenon DEF Init, Flags
<1>1. Typed
  <2>1. <<>> \in Seq(Message)
    OBVIOUS
  <2> QED
    BY <2>1 DEF Init, Typed, Places, States, Workers, Seqs
<1>2. Phases
  BY DEF Init, Phases, Starting, Workers
<1>3. Commands /\ NotAhead /\ ReportsMatch /\ AbortHasCause
  BY DEF Init, Commands, Busy, NotAhead, ReportsMatch, AbortHasCause, Workers, Seqs
<1> QED
  BY <1>0, <1>1, <1>2, <1>3 DEF IInv

LEMMA InvariantTypes == IInv => TypeOK
<1> SUFFICES ASSUME IInv PROVE TypeOK
  OBVIOUS
<1>1. {notify, publishFailed, timedOut, aborted} \subseteq BOOLEAN
  BY Zenon DEF IInv, Flags
<1>2. \A w \in Workers : in[w] \in Seq(Message) /\ out[w] \in Seq(Message)
  BY DEF IInv, Typed
<1>3. flight \subseteq Seqs /\ service \subseteq Seqs /\ receivedSeqs \subseteq Seqs
  BY DEF IInv, NotAhead
<1> QED
  BY <1>1, <1>2, <1>3, Waiting
  DEF IInv, Typed, TypeOK, Waits, Places, States, Message

(* What the operators on pipes do to the short sequences that occur. *)
LEMMA ShortPipes ==
    ASSUME NEW m \in Message, NEW n \in Message
    PROVE  /\ Append(<<>>, m) = <<m>> /\ Append(<<m>>, n) = <<m, n>>
           /\ Head(<<m>>) = m /\ Tail(<<m>>) = <<>>
           /\ Head(<<m, n>>) = m /\ Tail(<<m, n>>) = <<n>>
           /\ <<m>> # <<>> /\ <<m, n>> # <<>> /\ <<m>> # <<m, n>>
<1>1. Append(<<m>>, n) = <<m, n>>
  <2>1. <<m>> \in Seq(Message) /\ <<m, n>> \in Seq(Message)
    OBVIOUS
  <2>2. /\ Len(Append(<<m>>, n)) = 2 /\ Append(<<m>>, n)[1] = m /\ Append(<<m>>, n)[2] = n
        /\ Append(<<m>>, n) \in Seq(Message)
    BY <2>1
  <2>3. \A i \in 1 .. Len(<<m, n>>) : Append(<<m>>, n)[i] = <<m, n>>[i]
    BY <2>2
  <2>4. Len(<<m, n>>) = 2
    OBVIOUS
  <2> QED
    BY <2>1, <2>2, <2>3, <2>4, SeqEqual
<1> QED
  BY <1>1

LEMMA OneMessage ==
    ASSUME NEW t \in Types, NEW s \in Nat
    PROVE  /\ Msg(t, s) \in Message /\ Msg(t, s).type = t /\ Msg(t, s).seq = s
           /\ Append(<<>>, Msg(t, s)) = <<Msg(t, s)>> /\ <<Msg(t, s)>> # <<>>
           /\ Head(<<Msg(t, s)>>) = Msg(t, s) /\ Tail(<<Msg(t, s)>>) = <<>>
<1>1. Msg(t, s) \in Message /\ Msg(t, s).type = t /\ Msg(t, s).seq = s
  BY DEF Msg, Message
<1> QED
  BY <1>1, ShortPipes

LEMMA AwaitPublishStep == ASSUME IInv, AwaitPublish PROVE IInv'
<1> USE DEF AwaitPublish, main, world, State
<1> DEFINE m == Msg("Publish", seq)
<1>0. /\ m \in Message /\ m.seq = seq /\ <<m>> # <<>> /\ Head(<<m>>) = m /\ Tail(<<m>>) = <<>>
  BY OneMessage DEF IInv, Typed, Types
<1>a. in["publisher"] = <<m>> /\ seq \in Seqs
  BY DEF IInv, Commands
<1> HIDE DEF m
<1>1. /\ in' \in [Workers -> Seq(Message)]
      /\ in'["publisher"] = <<>> /\ in'["receiver"] = in["receiver"]
      /\ job' \in [Workers -> Nat] /\ at' \in [Workers -> States]
      /\ job'["publisher"] = seq /\ job'["receiver"] = job["receiver"]
      /\ at'["publisher"] = "publishing" /\ at'["receiver"] = at["receiver"]
  BY <1>0, <1>a DEF IInv, Typed, Rest, Workers, States, Seqs
<1>2. Typed' /\ Flags'
  BY <1>1 DEF IInv, Typed, Flags
<1>3. Phases'
  <2>1. pc \in {"publish", "stop", "kill", "done"}
    BY <1>a, <1>1, <1>0 DEF IInv, Typed, Phases, Starting, Between, PublisherIdle, Consuming,
       Receiving, Purging, Places, Workers
  <2>2. CASE pc = "publish"
    BY <2>2, <1>a, <1>1, <1>0 DEF IInv, Phases, Publishing, Result, Busy, Settled
  <2> QED
    BY <2>1, <2>2 DEF Phases
<1>4. Commands' /\ NotAhead' /\ ReportsMatch' /\ AbortHasCause'
  BY <1>a, <1>1 DEF IInv, Commands, Busy, NotAhead, ReportsMatch, AbortHasCause
<1> QED
  BY <1>2, <1>3, <1>4 DEF IInv
(* ReportsMatch, when a message is added to the receiver's answers, or taken. *)
LEMMA ReportsGrow ==
    ASSUME IInv, NEW m \in Message, m.type = "Report" => m.seq = seq, seq' = seq,
           out'["receiver"] = Append(out["receiver"], m)
    PROVE  ReportsMatch'
<1>1. out["receiver"] \in Seq(Message)
  BY DEF IInv, Typed, Workers
<1> QED
  BY <1>1 DEF IInv, ReportsMatch

LEMMA ReportsShrink ==
    ASSUME IInv, out["receiver"] # <<>>, out'["receiver"] = Tail(out["receiver"]), seq' = seq
    PROVE  ReportsMatch'
<1>1. out["receiver"] \in Seq(Message)
  BY DEF IInv, Typed, Workers
<1> QED
  BY <1>1 DEF IInv, ReportsMatch

LEMMA GreetStep == ASSUME IInv, NEW w \in Workers, Greet(w) PROVE IInv'
<1> USE DEF Greet, main, world, State
<1> DEFINE m == Msg("Ready", 0)
<1>0. m \in Message /\ m.type = "Ready" /\ Append(<<>>, m) = <<m>>
  BY OneMessage DEF Types
<1>p. pc \in {"start", "stop", "kill", "done"}
  BY DEF IInv, Typed, Workers, Places, Phases, Starting, Between, PublisherIdle, Consuming,
     Publishing, Receiving, Purging, Result, Busy, Settled
<1>s. pc = "start" => out'[w] = <<m>>
  BY <1>0 DEF IInv, Typed, Workers, Phases, Starting, Send
<1> HIDE DEF m
<1>1. /\ out' \in [Workers -> Seq(Message)] /\ out'[w] = Append(out[w], m)
      /\ \A v \in Workers \ {w} : out'[v] = out[v] /\ at'[v] = at[v]
      /\ at' \in [Workers -> States] /\ at'[w] = "ready"
  BY <1>0 DEF IInv, Typed, States, Send, m
<1>2. Typed' /\ Flags'
  BY <1>1 DEF IInv, Typed, Flags
<1>3. Phases'
  BY <1>p, <1>s, <1>1 DEF IInv, Phases, Starting, m
<1>4. ReportsMatch'
  <2>1. CASE w = "receiver"
    BY <2>1, <1>0, <1>1, ReportsGrow
  <2>2. CASE w = "publisher"
    BY <2>2, <1>1 DEF IInv, ReportsMatch, Workers
  <2> QED
    BY <2>1, <2>2 DEF Workers
<1>5. Commands' /\ NotAhead' /\ AbortHasCause'
  BY <1>1 DEF IInv, Commands, Busy, NotAhead, AbortHasCause, Workers
<1> QED
  BY <1>2, <1>3, <1>4, <1>5 DEF IInv

LEMMA PublishStep == ASSUME IInv, PublishMessage \/ PublishMessageRaises PROVE IInv'
<1> USE DEF PublishMessage, PublishMessageRaises, main, world, State
<1>0. PICK m \in {Msg("AckPublish", seq), Msg("PublishError", 0)} :
         /\ out' = Send(out, "publisher", m)
         /\ m = Msg("PublishError", 0) => publishFailed' = TRUE
         /\ m = Msg("AckPublish", seq) => publishFailed' = publishFailed
  <2>1. Msg("AckPublish", seq) # Msg("PublishError", 0)
    BY OneMessage DEF IInv, Typed, Types
  <2> QED
    BY <2>1 DEF IInv, Commands
<1>m. m \in Message /\ Append(<<>>, m) = <<m>>
  BY OneMessage DEF IInv, Typed, Types
<1>p. pc \in {"publish", "stop", "kill", "done"}
  BY DEF IInv, Typed, Workers, Places, Phases, Starting, Between, PublisherIdle, Consuming,
     Publishing, Receiving, Purging, Result, Busy, Settled
<1>s. pc = "publish" => out'["publisher"] = <<m>>
  BY <1>0, <1>m DEF IInv, Typed, Workers, Phases, Publishing, Send
<1>j. job["publisher"] = seq /\ seq \in Seqs
  BY DEF IInv, Commands
<1>1. /\ out' \in [Workers -> Seq(Message)] /\ out'["receiver"] = out["receiver"]
      /\ at' \in [Workers -> States] /\ at'["publisher"] = "ready"
      /\ at'["receiver"] = at["receiver"]
      /\ in' = in /\ notify' = notify /\ job' = job /\ seq' = seq /\ pc' = pc
      /\ receivedSeqs' = receivedSeqs /\ report' = report /\ service' = service
      /\ flight' \subseteq flight \cup {seq}
  BY <1>0, <1>m, <1>j DEF IInv, Typed, States, Send, Workers
<1>2. Typed'
  BY <1>1 DEF IInv, Typed
<1>f. publishFailed' \in BOOLEAN /\ (publishFailed => publishFailed') /\ Flags'
  BY Zenon DEF IInv, Flags
<1>3. Phases'
  <2>1. CASE pc = "publish"
    <3>1. Publishing'
      <4>1. in["receiver"] = <<>> /\ Result(out["receiver"])' /\ in["publisher"] = <<>>
        BY <2>1, <1>1, OneMessage DEF IInv, Typed, Types, Phases, Publishing, Result, Busy,
           Settled
      <4> QED
        BY <4>1, <2>1, <1>0, <1>1, <1>s DEF Publishing, Result
    <3> QED
      BY <2>1, <3>1, <1>1 DEF Phases
  <2> QED
    BY <2>1, <1>p, <1>1 DEF Phases
<1>4. Commands' /\ NotAhead' /\ ReportsMatch'
  BY <1>p, <1>j, <1>1 DEF IInv, Commands, Busy, NotAhead, ReportsMatch, Typed, Seqs
<1>5. AbortHasCause'
  BY Zenon, <1>f DEF IInv, AbortHasCause
<1> QED
  BY <1>2, <1>f, <1>3, <1>4, <1>5 DEF IInv

LEMMA DeliverStep == ASSUME IInv, Deliver PROVE IInv'
<1> USE DEF Deliver, main, workers
<1>1. Typed' /\ Flags' /\ Commands' /\ ReportsMatch' /\ AbortHasCause'
  BY DEF IInv, Typed, Flags, Commands, Busy, ReportsMatch, AbortHasCause
<1>2. Phases'
  BY DEF IInv, Phases, Starting, Between, PublisherIdle, Consuming, Publishing, Receiving,
     Purging, Result, Busy, Settled
<1>3. NotAhead'
  BY DEF IInv, NotAhead
<1> QED
  BY <1>1, <1>2, <1>3 DEF IInv

LEMMA DieStep == ASSUME IInv, NEW w \in Workers, Die(w) PROVE IInv'
<1> USE DEF Die, main, world, State
<1>1. /\ at' \in [Workers -> States] /\ at'[w] = "dead"
      /\ \A v \in Workers \ {w} : at'[v] = at[v]
  BY DEF IInv, Typed, States
<1>2. Typed' /\ Flags'
  BY <1>1 DEF IInv, Typed, Flags
<1>3. Phases'
  <2>1. CASE w = "publisher"
    BY <2>1, <1>1 DEF IInv, Workers, Phases, Starting, Between, PublisherIdle, Consuming,
       Publishing, Receiving, Purging, Result, Busy, Settled
  <2>2. CASE w = "receiver"
    BY <2>2, <1>1 DEF IInv, Workers, Phases, Starting, Between, PublisherIdle, Consuming,
       Publishing, Receiving, Purging, Result, Busy, Settled
  <2> QED
    BY <2>1, <2>2 DEF Workers
<1>4. Commands' /\ NotAhead' /\ ReportsMatch'
  BY <1>1 DEF IInv, Commands, Busy, NotAhead, ReportsMatch, Workers
<1>5. AbortHasCause'
  BY DEF IInv, AbortHasCause, Typed
<1> QED
  BY <1>2, <1>3, <1>4, <1>5 DEF IInv

LEMMA ReadyStateStep == ASSUME IInv, ReadyState PROVE IInv'
<1> USE DEF ReadyState, main, world, State
<1> DEFINE c == Msg("Consume", seq)
           p == Msg("Purge", 0)
           a == Msg("AckConsume", 0)
<1>m. /\ c \in Message /\ c.type = "Consume" /\ c.seq = seq
      /\ <<c>> # <<>> /\ Head(<<c>>) = c /\ Tail(<<c>>) = <<>>
      /\ p \in Message /\ p.type = "Purge"
      /\ <<p>> # <<>> /\ Head(<<p>>) = p /\ Tail(<<p>>) = <<>>
      /\ a \in Message /\ a.type = "AckConsume" /\ Append(<<>>, a) = <<a>>
  BY OneMessage DEF IInv, Typed, Types
<1>i. (in["receiver"] = <<c>> /\ seq \notin receivedSeqs) \/ in["receiver"] = <<p>>
  BY DEF IInv, Commands
<1>p. /\ in["receiver"] = <<c>> => pc \in {"consume", "stop", "kill", "done"}
      /\ in["receiver"] = <<p>> => pc \in {"purge", "stop", "kill", "done"}
      /\ pc = "consume" => out["receiver"] = <<>>
  BY <1>m, <1>i DEF IInv, Typed, Workers, Places, Phases, Starting, Between, PublisherIdle,
     Consuming, Publishing, Receiving, Purging, Result, Busy, Settled
<1> HIDE DEF c, p, a
<1>1. CASE in["receiver"] = <<c>>
  <2>1. /\ in' \in [Workers -> Seq(Message)] /\ in'["receiver"] = <<>>
        /\ in'["publisher"] = in["publisher"]
        /\ out' \in [Workers -> Seq(Message)]
        /\ out'["receiver"] = Append(out["receiver"], a) /\ out'["publisher"] = out["publisher"]
        /\ job' \in [Workers -> Nat] /\ job'["receiver"] = seq
        /\ job'["publisher"] = job["publisher"]
        /\ at' \in [Workers -> States] /\ at'["receiver"] = "pulling"
        /\ at'["publisher"] = at["publisher"]
    <3>1. /\ in' = Rest(in, "receiver") /\ out' = Send(out, "receiver", a)
          /\ job' = [job EXCEPT !["receiver"] = seq]
          /\ at' = [at EXCEPT !["receiver"] = "pulling"]
      BY <1>1, <1>m DEF a
    <3> QED
      BY <3>1, <1>1, <1>m DEF IInv, Typed, States, Send, Rest, Workers
  <2>2. Typed' /\ Flags'
    BY <2>1 DEF IInv, Typed, Flags
  <2>3. pc = "consume" => out'["receiver"] = <<a>>
    BY <1>m, <1>p, <2>1
  <2>4. Phases'
    BY <1>1, <1>p, <2>1, <2>3 DEF IInv, Phases, Consuming, PublisherIdle, Busy, a
  <2>5. Commands' /\ NotAhead' /\ AbortHasCause'
    BY <2>1, <1>1, <1>i, <1>m DEF IInv, Commands, Busy, NotAhead, AbortHasCause, c, p
  <2>6. ReportsMatch'
    BY <2>1, <1>m, ReportsGrow
  <2> QED
    BY <2>2, <2>4, <2>5, <2>6 DEF IInv
<1>2. CASE in["receiver"] = <<p>>
  <2>1. /\ in' \in [Workers -> Seq(Message)] /\ in'["receiver"] = <<>>
        /\ in'["publisher"] = in["publisher"]
        /\ out' = out /\ job' = job
        /\ at' \in [Workers -> States] /\ at'["receiver"] = "dead"
        /\ at'["publisher"] = at["publisher"]
    BY <1>2, <1>m DEF IInv, Typed, States, Rest, Workers
  <2>2. Typed' /\ Flags'
    BY <2>1 DEF IInv, Typed, Flags
  <2>3. Phases'
    BY <1>2, <1>p, <1>m, <2>1 DEF IInv, Phases, Purging, PublisherIdle, Result, Busy, Settled, p
  <2>4. Commands' /\ NotAhead' /\ ReportsMatch' /\ AbortHasCause'
    BY <2>1 DEF IInv, Commands, Busy, NotAhead, AbortHasCause, ReportsMatch
  <2> QED
    BY <2>2, <2>3, <2>4 DEF IInv
<1> QED
  BY <1>1, <1>2, <1>i

LEMMA PullStep == ASSUME IInv, Pull \/ PullRaises PROVE IInv'
<1> USE DEF Pull, PullRaises, main, world, State
<1>1. /\ at' \in [Workers -> States] /\ at'["receiver"] \in {"success", "error"}
      /\ at'["publisher"] = at["publisher"]
      /\ service' \subseteq service /\ report' \in Nat
      /\ at'["receiver"] = "success" => report' \in service
      /\ UNCHANGED <<pc, seq, published, received, ready, timedOut, aborted, in, out, job,
                     receivedSeqs, notify, publishFailed, deaths, flight>>
  BY DEF IInv, Typed, States, Workers, NotAhead, Seqs
<1>2. Typed' /\ Flags'
  BY <1>1 DEF IInv, Typed, Flags
<1>3. Phases'
  BY <1>1 DEF IInv, Workers, Phases, Starting, Between, PublisherIdle, Consuming, Publishing,
     Receiving, Purging, Result, Busy, Settled
<1>4. NotAhead'
  BY <1>1 DEF IInv, NotAhead, Typed, Seqs
<1>5. Commands' /\ ReportsMatch' /\ AbortHasCause'
  BY <1>1 DEF IInv, Commands, Busy, ReportsMatch, AbortHasCause
<1> QED
  BY <1>2, <1>3, <1>4, <1>5 DEF IInv

LEMMA PullSuccessStep == ASSUME IInv, PullSuccessState PROVE IInv'
<1> USE DEF PullSuccessState, main, world, State
<1> DEFINE p == Msg("Purge", 0)
           r == Msg("Report", seq)
<1>m. /\ p \in Message /\ p.type = "Purge"
      /\ <<p>> # <<>> /\ Head(<<p>>) = p /\ Tail(<<p>>) = <<>>
      /\ r \in Message /\ r.seq = seq /\ Append(<<>>, r) = <<r>>
  BY OneMessage DEF IInv, Typed, Types
<1>k. Append(<<Msg("AckConsume", 0)>>, r) = <<Msg("AckConsume", 0), r>>
  <2>1. Msg("AckConsume", 0) \in Message
    BY OneMessage DEF Types
  <2> QED
    BY <2>1, <1>m, ShortPipes
<1>b. job["receiver"] = seq /\ seq \notin receivedSeqs
  BY DEF IInv, Commands, Busy
<1>i. in["receiver"] = <<p>> \/ in["receiver"] = <<>>
  BY DEF IInv, Commands, Busy
<1>p. /\ pc \in {"consume", "publish", "receive", "purge", "stop", "kill", "done"}
      /\ pc = "consume" => out["receiver"] = <<Msg("AckConsume", 0)>> /\ in["receiver"] = <<>>
      /\ pc \in {"publish", "receive"} => out["receiver"] = <<>> /\ in["receiver"] = <<>>
      /\ pc = "purge" => out["receiver"] = <<>> /\ in["receiver"] = <<p>>
  BY DEF IInv, Typed, Workers, Places, Phases, Starting, Between, PublisherIdle, Consuming,
     Publishing, Receiving, Purging, Result, Busy, Settled
<1> HIDE DEF p
<1>1. CASE in["receiver"] = <<p>>
  <2>1. /\ in' \in [Workers -> Seq(Message)] /\ in'["receiver"] = <<>>
        /\ in'["publisher"] = in["publisher"]
        /\ at' \in [Workers -> States] /\ at'["receiver"] = "purging"
        /\ at'["publisher"] = at["publisher"] /\ notify' = TRUE
        /\ UNCHANGED <<out, receivedSeqs>>
    <3>1. /\ in' = Rest(in, "receiver") /\ notify' = TRUE /\ UNCHANGED <<receivedSeqs, out>>
          /\ at' = [at EXCEPT !["receiver"] = "purging"]
      BY <1>1, <1>m
    <3> QED
      BY <3>1, <1>1, <1>m DEF IInv, Typed, States, Rest, Workers
  <2>2. Typed' /\ Flags'
    BY <2>1 DEF IInv, Typed, Flags
  <2>3. Phases'
    BY <1>1, <1>p, <1>m, <2>1 DEF IInv, Phases, Purging, PublisherIdle
  <2>4. Commands' /\ NotAhead' /\ ReportsMatch' /\ AbortHasCause'
    BY <2>1 DEF IInv, Commands, Busy, NotAhead, AbortHasCause, ReportsMatch
  <2> QED
    BY <2>2, <2>3, <2>4 DEF IInv
<1>2. CASE in["receiver"] = <<>> /\ report = seq
  <2>1. /\ out' \in [Workers -> Seq(Message)]
        /\ out'["receiver"] = Append(out["receiver"], r) /\ out'["publisher"] = out["publisher"]
        /\ at' \in [Workers -> States] /\ at'["receiver"] = "ready"
        /\ at'["publisher"] = at["publisher"]
        /\ receivedSeqs' = receivedSeqs \cup {seq} /\ UNCHANGED <<in, notify>>
    <3>1. /\ out' = Send(out, "receiver", r) /\ at' = [at EXCEPT !["receiver"] = "ready"]
          /\ receivedSeqs' = receivedSeqs \cup {seq} /\ UNCHANGED <<in, notify>>
      BY <1>2, <1>b
    <3> QED
      BY <3>1, <1>m DEF IInv, Typed, States, Send, Workers
  <2>2. Typed' /\ Flags'
    BY <2>1 DEF IInv, Typed, Flags
  <2>3. /\ pc = "consume" => out'["receiver"] = <<Msg("AckConsume", 0), r>>
        /\ pc \in {"publish", "receive"} => out'["receiver"] = <<r>>
        /\ pc # "purge"
    BY <1>p, <1>m, <1>k, <1>2, <2>1
  <2>4. Phases'
    BY <1>2, <1>p, <2>1, <2>3
    DEF IInv, Phases, Consuming, Publishing, Receiving, PublisherIdle, Result
  <2>5. Commands'
    BY <1>2, <1>p, <2>1 DEF IInv, Commands, Busy, Typed
  <2>6. NotAhead'
    <3>1. at["receiver"] = "success"
      BY <1>b
    <3>2. seq \in Seqs \cap 0 .. seq
      BY <3>1, <1>2 DEF IInv, NotAhead, Typed
    <3>3. /\ flight \cup service \cup receivedSeqs \subseteq Seqs \cap 0 .. seq
          /\ pc \notin {"start", "round"} /\ UNCHANGED <<flight, service, seq, pc>>
      BY <1>p, <1>b DEF IInv, NotAhead
    <3> QED
      BY <3>2, <3>3, <2>1 DEF NotAhead
  <2>7. AbortHasCause'
    BY <1>2, <1>p, <2>1 DEF IInv, AbortHasCause, Typed
  <2>8. ReportsMatch'
    BY <2>1, <1>m, ReportsGrow
  <2> QED
    BY <2>2, <2>4, <2>5, <2>6, <2>7, <2>8 DEF IInv
<1>3. CASE in["receiver"] = <<>> /\ report # seq
  <2>1. /\ at' \in [Workers -> States] /\ at'["receiver"] = "pulling"
        /\ at'["publisher"] = at["publisher"]
        /\ receivedSeqs' = receivedSeqs \cup {report} /\ UNCHANGED <<in, out, notify>>
    BY <1>3, <1>b DEF IInv, Typed, States, Workers
  <2>2. Typed' /\ Flags'
    BY <2>1 DEF IInv, Typed, Flags
  <2>3. Phases'
    BY <2>1, <1>p DEF IInv, Phases, Starting, Between, PublisherIdle, Consuming, Publishing,
       Receiving, Purging, Result, Busy, Settled
  <2>4. Commands' /\ NotAhead' /\ ReportsMatch' /\ AbortHasCause'
    BY <1>3, <1>p, <1>b, <2>1 DEF IInv, Commands, Busy, NotAhead, AbortHasCause, ReportsMatch,
       Typed
  <2> QED
    BY <2>2, <2>3, <2>4 DEF IInv
<1> QED
  BY <1>1, <1>2, <1>3, <1>i

LEMMA PullErrorStep == ASSUME IInv, PullErrorState PROVE IInv'
<1> USE DEF PullErrorState, main, world, State
<1> DEFINE r == Msg("ReceiveError", 0)
<1>m. /\ r \in Message /\ r.type = "ReceiveError" /\ Append(<<>>, r) = <<r>>
  BY OneMessage DEF Types
<1>k. Append(<<Msg("AckConsume", 0)>>, r) = <<Msg("AckConsume", 0), r>>
  <2>1. Msg("AckConsume", 0) \in Message
    BY OneMessage DEF Types
  <2> QED
    BY <2>1, <1>m, ShortPipes
<1>p. /\ pc \in {"consume", "publish", "receive", "purge", "stop", "kill", "done"}
      /\ pc = "consume" => out["receiver"] = <<Msg("AckConsume", 0)>> /\ in["receiver"] = <<>>
      /\ pc \in {"publish", "receive", "purge"} => out["receiver"] = <<>>
      /\ pc = "purge" => in["receiver"] = <<Msg("Purge", 0)>>
  BY DEF IInv, Typed, Workers, Places, Phases, Starting, Between, PublisherIdle, Consuming,
     Publishing, Receiving, Purging, Result, Busy, Settled
<1>1. /\ out' \in [Workers -> Seq(Message)]
      /\ out'["receiver"] = Append(out["receiver"], r) /\ out'["publisher"] = out["publisher"]
      /\ at' \in [Workers -> States] /\ at'["receiver"] = "purging" /\ notify' = FALSE
      /\ at'["publisher"] = at["publisher"]
  BY <1>m DEF IInv, Typed, States, Send, Workers
<1>2. Typed' /\ Flags'
  BY <1>1 DEF IInv, Typed, Flags
<1>3. /\ pc = "consume" => out'["receiver"] = <<Msg("AckConsume", 0), r>>
      /\ pc \in {"publish", "receive", "purge"} => out'["receiver"] = <<r>>
  BY <1>p, <1>m, <1>k, <1>1
<1>4. Phases'
  BY <1>p, <1>1, <1>3
  DEF IInv, Phases, Consuming, Publishing, Receiving, Purging, PublisherIdle, Result, Settled
<1>5. Commands' /\ NotAhead' /\ AbortHasCause'
  BY <1>1 DEF IInv, Commands, Busy, NotAhead, AbortHasCause
<1>6. ReportsMatch'
  BY <1>1, <1>m, ReportsGrow
<1> QED
  BY <1>2, <1>4, <1>5, <1>6 DEF IInv

LEMMA PurgingStep == ASSUME IInv, PurgingState PROVE IInv'
<1> USE DEF PurgingState, main, world, State
<1> DEFINE a == Msg("PurgeAck", 0)
<1>m. a \in Message /\ a.type = "PurgeAck" /\ Append(<<>>, a) = <<a>>
  BY OneMessage DEF Types
<1>1. /\ out' \in [Workers -> Seq(Message)] /\ out'["publisher"] = out["publisher"]
      /\ out'["receiver"] = IF notify THEN Append(out["receiver"], a) ELSE out["receiver"]
      /\ at' \in [Workers -> States] /\ at'["receiver"] = "ready"
      /\ at'["publisher"] = at["publisher"]
  BY <1>m DEF IInv, Typed, States, Send, Workers
<1>2. Typed' /\ Flags'
  BY <1>1 DEF IInv, Typed, Flags
<1>3. Phases'
  <2>1. CASE notify = TRUE
    <3>1. pc \in {"purge", "stop", "kill", "done"}
      BY <2>1 DEF IInv, Typed, Workers, Places, Phases, Starting, Between, PublisherIdle,
         Consuming, Publishing, Receiving, Purging, Result, Busy, Settled
    <3>2. pc = "purge" => /\ in["receiver"] = <<>> /\ out["receiver"] = <<>>
                          /\ PublisherIdle /\ publishFailed = TRUE
      BY <2>1 DEF IInv, Phases, Purging, Result, Busy, Settled
    <3>3. pc = "purge" => out'["receiver"] = <<a>>
      BY <2>1, <1>m, <1>1, <3>2
    <3> QED
      BY <3>1, <3>2, <3>3, <1>1 DEF Phases, Purging, PublisherIdle
  <2>2. CASE notify = FALSE
    <3>1. out'["receiver"] = out["receiver"]
      BY <2>2, <1>1
    <3> QED
      BY <2>2, <3>1, <1>1 DEF IInv, Workers, Phases, Starting, Between, PublisherIdle,
         Consuming, Publishing, Receiving, Purging, Result, Busy, Settled
  <2> QED
    BY <2>1, <2>2 DEF IInv, Flags
<1>4. Commands' /\ NotAhead' /\ AbortHasCause'
  BY <1>1 DEF IInv, Commands, Busy, NotAhead, AbortHasCause
<1>5. ReportsMatch'
  <2>1. CASE notify
    BY <2>1, <1>1, <1>m, ReportsGrow
  <2>2. CASE ~notify
    BY <2>2, <1>1 DEF IInv, ReportsMatch
  <2> QED
    BY <2>1, <2>2
<1> QED
  BY <1>2, <1>3, <1>4, <1>5 DEF IInv

(* Where the main process is when it gets an answer of a type, and from whom. *)
Got(w, type) ==
    /\ out[w] # <<>> /\ Head(out[w]).type = type
    /\ out' = Rest(out, w)
LEMMA AnsweredAt ==
    /\ Answered("AckConsume") => pc = "consume" /\ Got("receiver", "AckConsume")
    /\ Answered("AckPublish") => pc = "publish" /\ Got("publisher", "AckPublish")
    /\ Answered("PublishError") => pc = "publish" /\ Got("publisher", "PublishError")
    /\ Answered("Report") => pc = "receive" /\ Got("receiver", "Report")
    /\ Answered("ReceiveError") => pc = "receive" /\ Got("receiver", "ReceiveError")
    /\ Answered("PurgeAck") => pc = "purge" /\ Got("receiver", "PurgeAck")
BY Waiting DEF Answered, Waits, Answer, Got

(* The pipes after an answer has been taken. *)
LEMMA Taken ==
    ASSUME IInv, NEW w \in Workers, out[w] # <<>>, out' = Rest(out, w)
    PROVE  /\ out' \in [Workers -> Seq(Message)] /\ out'[w] = Tail(out[w])
           /\ \A v \in Workers \ {w} : out'[v] = out[v]
BY DEF IInv, Typed, Rest

LEMMA StartedStep == ASSUME IInv, NEW w \in Workers, Started(w) PROVE IInv'
<1> USE DEF Started, workers, world
<1>m. Tail(<<Msg("Ready", 0)>>) = <<>>
  BY OneMessage DEF Types
<1>0. at[w] = "ready" /\ out[w] = <<Msg("Ready", 0)>> /\ Starting
  BY DEF IInv, Phases, Starting
<1>1. /\ out' \in [Workers -> Seq(Message)] /\ out'[w] = <<>>
      /\ \A v \in Workers \ {w} : out'[v] = out[v]
  BY <1>0, <1>m, Taken
<1>2. Typed' /\ Flags'
  BY <1>1 DEF IInv, Typed, Flags, Places
<1>3. Phases'
  <2>1. CASE ready' = Workers
    <3>1. \A v \in Workers : in[v] = <<>> /\ out'[v] = <<>> /\ at[v] = "ready"
      BY <2>1, <1>0, <1>1 DEF Starting, Workers
    <3> QED
      BY <2>1, <3>1 DEF Phases, Between, PublisherIdle, Settled, Workers
  <2>2. CASE ready' # Workers
    BY <2>2, <1>0, <1>1 DEF IInv, Phases, Starting
  <2> QED
    BY <2>1, <2>2
<1>4. Commands' /\ NotAhead' /\ AbortHasCause'
  BY <1>1 DEF IInv, Commands, Busy, NotAhead, AbortHasCause
<1>5. ReportsMatch'
  <2>1. CASE w = "receiver"
    BY <2>1, <1>1 DEF ReportsMatch
  <2>2. CASE w = "publisher"
    BY <2>2, <1>1 DEF IInv, ReportsMatch, Workers
  <2> QED
    BY <2>1, <2>2 DEF Workers
<1> QED
  BY <1>2, <1>3, <1>4, <1>5 DEF IInv

LEMMA BeginRoundStep == ASSUME IInv, BeginRound PROVE IInv'
<1> USE DEF BeginRound, workers, world
<1> DEFINE c == Msg("Consume", seq)
<1>m. c \in Message /\ Append(<<>>, c) = <<c>>
  BY OneMessage DEF IInv, Typed, Types
<1>b. Between /\ seq \notin receivedSeqs
  BY DEF IInv, Phases, NotAhead
<1>1. CASE seq < NumberOfMessages
  <2>1. /\ in' \in [Workers -> Seq(Message)] /\ in'["receiver"] = <<c>>
        /\ in'["publisher"] = in["publisher"] /\ seq \in Seqs /\ pc' = "consume"
    <3> HIDE DEF c
    <3>1. in' = Send(in, "receiver", c) /\ pc' = "consume"
      BY <1>1 DEF c
    <3> QED
      BY <1>1, <1>m, <1>b, <3>1 DEF IInv, Typed, Between, Send, Seqs, Workers
  <2>2. Typed' /\ Flags'
    BY <2>1 DEF IInv, Typed, Flags, Places
  <2>3. Phases'
    BY <2>1, <1>b DEF Phases, Between, Consuming, PublisherIdle, Settled
  <2>4. Commands' /\ NotAhead' /\ AbortHasCause' /\ ReportsMatch'
    BY <2>1, <1>b
    DEF IInv, Commands, Busy, NotAhead, AbortHasCause, ReportsMatch, Between, Settled
  <2> QED
    BY <2>2, <2>3, <2>4 DEF IInv
<1>2. CASE ~(seq < NumberOfMessages)
  <2>1. pc' = "stop" /\ in' = in
    BY <1>2
  <2>2. Typed' /\ Flags' /\ Phases'
    BY <2>1 DEF IInv, Typed, Flags, Places, Phases
  <2>3. Commands' /\ NotAhead' /\ AbortHasCause' /\ ReportsMatch'
    BY <2>1 DEF IInv, Commands, Busy, NotAhead, AbortHasCause, ReportsMatch
  <2> QED
    BY <2>2, <2>3 DEF IInv
<1> QED
  BY <1>1, <1>2

LEMMA ConsumptionStep == ASSUME IInv, ConsumptionStarted PROVE IInv'
<1> USE DEF ConsumptionStarted, workers, world
<1> DEFINE a == Msg("AckConsume", 0)
           p == Msg("Publish", seq)
<1>g. pc = "consume" /\ Got("receiver", "AckConsume")
  BY AnsweredAt
<1>m. /\ p \in Message /\ Append(<<>>, p) = <<p>> /\ Tail(<<a>>) = <<>>
      /\ a \in Message /\ Msg("ReceiveError", 0) \in Message /\ Msg("Report", seq) \in Message
  BY OneMessage DEF IInv, Typed, Types
<1>t. /\ Tail(<<a, Msg("ReceiveError", 0)>>) = <<Msg("ReceiveError", 0)>>
      /\ Tail(<<a, Msg("Report", seq)>>) = <<Msg("Report", seq)>>
  BY <1>m, ShortPipes
<1>0. in["receiver"] = <<>> /\ PublisherIdle /\ Result(Tail(out["receiver"])) /\ seq \in Seqs
  BY <1>g, <1>m, <1>t DEF IInv, Typed, Phases, Consuming, Result, Got
<1>1. /\ out' \in [Workers -> Seq(Message)] /\ out'["receiver"] = Tail(out["receiver"])
      /\ out'["publisher"] = out["publisher"]
  BY <1>g, Taken DEF Got, Workers
<1>2. /\ in' \in [Workers -> Seq(Message)] /\ in'["receiver"] = in["receiver"]
      /\ in'["publisher"] = <<p>>
  <2> HIDE DEF p
  <2>1. in' = Send(in, "publisher", p)
    BY DEF p
  <2> QED
    BY <2>1, <1>0, <1>m DEF IInv, Typed, Send, PublisherIdle, Workers
<1>3. Typed' /\ Flags'
  BY <1>g, <1>1, <1>2 DEF IInv, Typed, Flags, Places
<1>4. Phases'
  BY <1>0, <1>1, <1>2 DEF Phases, Publishing, PublisherIdle, Result, Busy, Settled
<1>5. Commands' /\ NotAhead' /\ AbortHasCause'
  BY <1>0, <1>2 DEF IInv, Commands, Busy, NotAhead, AbortHasCause
<1>6. ReportsMatch'
  BY <1>g, <1>1, ReportsShrink DEF Got
<1> QED
  BY <1>3, <1>4, <1>5, <1>6 DEF IInv

LEMMA RecordPublishedStep == ASSUME IInv, RecordPublished PROVE IInv'
<1> USE DEF RecordPublished, workers, world
<1>g. pc = "publish" /\ Got("publisher", "AckPublish") /\ Answer = Head(out["publisher"])
  BY AnsweredAt, Waiting DEF Answer
<1>m. /\ Msg("AckPublish", seq).seq = seq
      /\ Head(<<Msg("AckPublish", seq)>>) = Msg("AckPublish", seq)
      /\ Tail(<<Msg("AckPublish", seq)>>) = <<>>
      /\ Head(<<Msg("PublishError", 0)>>) = Msg("PublishError", 0)
      /\ Msg("PublishError", 0).type = "PublishError"
  BY OneMessage DEF IInv, Typed, Types
<1>0. /\ out["publisher"] = <<Msg("AckPublish", seq)>> /\ seq \in Seqs
      /\ in["publisher"] = <<>> /\ at["publisher"] = "ready"
      /\ in["receiver"] = <<>> /\ Result(out["receiver"])
  BY <1>g, <1>m DEF IInv, Typed, Phases, Publishing, Got
<1>1. /\ out' \in [Workers -> Seq(Message)] /\ out'["receiver"] = out["receiver"]
      /\ out'["publisher"] = <<>> /\ published' = published \cup {seq}
  BY <1>g, <1>0, <1>m, Taken DEF Got, Workers
<1>2. Typed' /\ Flags'
  BY <1>0, <1>1 DEF IInv, Typed, Flags, Places
<1>3. Phases'
  BY <1>0, <1>1 DEF Phases, Receiving, PublisherIdle, Result, Busy, Settled
<1>4. Commands' /\ NotAhead' /\ AbortHasCause' /\ ReportsMatch'
  BY <1>1 DEF IInv, Commands, Busy, NotAhead, AbortHasCause, ReportsMatch
<1> QED
  BY <1>2, <1>3, <1>4 DEF IInv

LEMMA PublisherFailedStep == ASSUME IInv, PublisherFailed PROVE IInv'
<1> USE DEF PublisherFailed, workers, world
<1> DEFINE p == Msg("Purge", 0)
<1>g. pc = "publish" /\ Got("publisher", "PublishError")
  BY AnsweredAt
<1>m. /\ p \in Message /\ Append(<<>>, p) = <<p>>
      /\ Head(<<Msg("AckPublish", seq)>>) = Msg("AckPublish", seq)
      /\ Msg("AckPublish", seq).type = "AckPublish"
      /\ Tail(<<Msg("PublishError", 0)>>) = <<>>
  BY OneMessage DEF IInv, Typed, Types
<1>0. /\ out["publisher"] = <<Msg("PublishError", 0)>> /\ seq \in Seqs
      /\ in["publisher"] = <<>> /\ at["publisher"] = "ready" /\ publishFailed = TRUE
      /\ in["receiver"] = <<>> /\ Result(out["receiver"])
  BY <1>g, <1>m DEF IInv, Typed, Phases, Publishing, Got
<1>1. /\ out' \in [Workers -> Seq(Message)] /\ out'["receiver"] = out["receiver"]
      /\ out'["publisher"] = <<>>
  BY <1>g, <1>0, <1>m, Taken DEF Got, Workers
<1>2. /\ in' \in [Workers -> Seq(Message)] /\ in'["receiver"] = <<p>>
      /\ in'["publisher"] = <<>>
  <2> HIDE DEF p
  <2>1. in' = Send(in, "receiver", p)
    BY DEF p
  <2> QED
    BY <2>1, <1>0, <1>m DEF IInv, Typed, Send, Workers
<1>3. Typed' /\ Flags'
  BY <1>0, <1>1, <1>2 DEF IInv, Typed, Flags, Places
<1>4. Phases'
  BY <1>0, <1>1, <1>2 DEF Phases, Purging, PublisherIdle, Result, Busy, Settled
<1>5. Commands' /\ NotAhead' /\ AbortHasCause' /\ ReportsMatch'
  BY <1>1, <1>2 DEF IInv, Commands, Busy, NotAhead, AbortHasCause, ReportsMatch
<1> QED
  BY <1>3, <1>4, <1>5 DEF IInv

(* The end of a round, with nothing left of it: a message of the next one   *)
(* is not about yet.                                                        *)
LEMMA NextRound ==
    ASSUME IInv, seq \in Seqs, pc' = "round", seq' = seq + 1, PublisherIdle, Settled,
           UNCHANGED <<in, workers, world, published, ready, timedOut, aborted>>,
           received' \subseteq Seqs, out' \in [Workers -> Seq(Message)],
           in["receiver"] = <<>>, out'["receiver"] = <<>>, out'["publisher"] = <<>>
    PROVE  IInv'
<1> USE DEF workers, world
<1>1. Typed' /\ Flags'
  BY DEF IInv, Typed, Flags, Places, Seqs
<1>2. Phases'
  BY DEF Phases, Between, PublisherIdle, Settled
<1>3. Commands' /\ AbortHasCause' /\ ReportsMatch'
  BY DEF IInv, Commands, PublisherIdle, Settled, Busy, AbortHasCause, ReportsMatch
<1>4. NotAhead'
  BY DEF IInv, NotAhead, Settled, Seqs, Typed
<1> QED
  BY <1>1, <1>2, <1>3, <1>4 DEF IInv

LEMMA PurgedStep == ASSUME IInv, Purged PROVE IInv'
<1> USE DEF Purged
<1>g. pc = "purge" /\ Got("receiver", "PurgeAck")
  BY AnsweredAt
<1>m. /\ Head(<<Msg("ReceiveError", 0)>>).type = "ReceiveError"
      /\ Head(<<Msg("Report", seq)>>).type = "Report"
      /\ Tail(<<Msg("PurgeAck", 0)>>) = <<>>
  BY OneMessage DEF IInv, Typed, Types
<1>0. /\ out["receiver"] = <<Msg("PurgeAck", 0)>> /\ at["receiver"] = "ready"
      /\ in["receiver"] = <<>> /\ PublisherIdle /\ seq \in Seqs
  BY <1>g, <1>m DEF IInv, Typed, Phases, Purging, Result, Got
<1>1. /\ out' \in [Workers -> Seq(Message)] /\ out'["receiver"] = <<>>
      /\ out'["publisher"] = <<>>
  BY <1>g, <1>0, <1>m, Taken DEF Got, Workers, PublisherIdle
<1> QED
  BY <1>0, <1>1, NextRound DEF Settled, IInv, Typed

LEMMA RecordReceptionStep == ASSUME IInv, RecordReception PROVE IInv'
<1> USE DEF RecordReception
<1>g. pc = "receive" /\ Got("receiver", "Report") /\ Answer = Head(out["receiver"])
  BY AnsweredAt, Waiting DEF Answer
<1>m. /\ Head(<<Msg("ReceiveError", 0)>>).type = "ReceiveError"
      /\ Head(<<Msg("Report", seq)>>).seq = seq
      /\ Tail(<<Msg("Report", seq)>>) = <<>>
  BY OneMessage DEF IInv, Typed, Types
<1>0. /\ out["receiver"] = <<Msg("Report", seq)>> /\ at["receiver"] = "ready"
      /\ in["receiver"] = <<>> /\ PublisherIdle /\ seq \in Seqs
  BY <1>g, <1>m DEF IInv, Typed, Phases, Receiving, Result, Got
<1>1. /\ out' \in [Workers -> Seq(Message)] /\ out'["receiver"] = <<>>
      /\ out'["publisher"] = <<>>
  BY <1>g, <1>0, <1>m, Taken DEF Got, Workers, PublisherIdle
<1>2. pc' = "round" /\ seq' = seq + 1 /\ received' \subseteq Seqs
  BY <1>g, <1>0, <1>m DEF IInv, Typed
<1> QED
  BY <1>0, <1>1, <1>2, NextRound DEF Settled

LEMMA ReceiverFailedStep == ASSUME IInv, ReceiverFailed PROVE IInv'
<1> USE DEF ReceiverFailed, workers, world
<1>g. pc = "receive" /\ Got("receiver", "ReceiveError")
  BY AnsweredAt
<1>m. /\ Head(<<Msg("Report", seq)>>).type = "Report"
      /\ Tail(<<Msg("ReceiveError", 0)>>) = <<>>
  BY OneMessage DEF IInv, Typed, Types
<1>0. /\ out["receiver"] = <<Msg("ReceiveError", 0)>> /\ Settled
      /\ in["receiver"] = <<>> /\ PublisherIdle /\ seq \in Seqs
  BY <1>g, <1>m DEF IInv, Typed, Phases, Receiving, Result, Got
<1>1. /\ out' \in [Workers -> Seq(Message)] /\ out'["receiver"] = <<>>
      /\ out'["publisher"] = <<>>
  BY <1>g, <1>0, <1>m, Taken DEF Got, Workers, PublisherIdle
<1>2. Typed' /\ Flags'
  BY <1>0, <1>1 DEF IInv, Typed, Flags, Places
<1>3. Phases'
  BY <1>0, <1>1 DEF Phases, Between, PublisherIdle, Settled
<1>4. Commands' /\ NotAhead' /\ AbortHasCause' /\ ReportsMatch'
  BY <1>1 DEF IInv, Commands, Busy, NotAhead, AbortHasCause, ReportsMatch
<1> QED
  BY <1>2, <1>3, <1>4 DEF IInv

LEMMA WakeUpStep == ASSUME IInv, WakeUp PROVE IInv'
<1> USE DEF WakeUp
<1>1. Between /\ seq \in Seqs
  BY DEF IInv, Phases, Typed
<1> QED
  BY <1>1, NextRound DEF Between, PublisherIdle, IInv, Typed

(* Wherever the main process gives up, the workers may go on with what they *)
(* were told.                                                               *)
LEMMA GivesUp ==
    ASSUME IInv, pc' \in {"stop", "kill", "done"}, Flags', AbortHasCause',
           UNCHANGED <<seq, published, received, ready, in, world, job, report, receivedSeqs,
                       deaths>>,
           out' \in [Workers -> Seq(Message)], ReportsMatch',
           at' \in [Workers -> States],
           at'["receiver"] \in {at["receiver"], "dead"},
           at'["publisher"] \in {at["publisher"], "dead"}
    PROVE  IInv'
<1> USE DEF world
<1>1. Typed' /\ Phases'
  BY DEF IInv, Typed, Places, Phases
<1>2. Commands'
  BY DEF IInv, Commands, Busy
<1>3. NotAhead'
  BY DEF IInv, NotAhead
<1> QED
  BY <1>1, <1>2, <1>3 DEF IInv

LEMMA UnexpectedStep == ASSUME IInv, Unexpected PROVE IInv'
<1> USE DEF Unexpected, Abort, workers
<1>1. pc \in {"consume", "publish", "receive", "purge"}
  BY Waiting DEF Waits
<1>a. \A t \in Types, n \in {0, seq} :
        Msg(t, n) \in Message /\ Msg(t, n).type = t /\ Head(<<Msg(t, n)>>) = Msg(t, n)
  BY OneMessage DEF IInv, Typed
<1>m. /\ Head(<<Msg("AckConsume", 0)>>).type = "AckConsume"
      /\ Head(<<Msg("AckPublish", seq)>>).type = "AckPublish"
      /\ Head(<<Msg("PublishError", 0)>>).type = "PublishError"
      /\ Head(<<Msg("ReceiveError", 0)>>).type = "ReceiveError"
      /\ Head(<<Msg("Report", seq)>>).type = "Report"
      /\ Msg("AckConsume", 0) \in Message /\ Msg("AckConsume", 0).type = "AckConsume"
      /\ Msg("ReceiveError", 0) \in Message /\ Msg("Report", seq) \in Message
  BY <1>a DEF Types
<1>h. /\ Head(<<Msg("AckConsume", 0), Msg("ReceiveError", 0)>>) = Msg("AckConsume", 0)
      /\ Head(<<Msg("AckConsume", 0), Msg("Report", seq)>>) = Msg("AckConsume", 0)
  BY <1>m, ShortPipes
<1>2. pc = "purge"
  <2>1. pc # "consume"
    BY <1>m, <1>h, Waiting DEF Answer, IInv, Phases, Consuming
  <2>2. pc # "publish"
    BY <1>m, Waiting DEF Answer, IInv, Phases, Publishing
  <2>3. pc # "receive"
    BY <1>m, Waiting DEF Answer, IInv, Phases, Receiving, Result
  <2> QED
    BY <1>1, <2>1, <2>2, <2>3
<1>3. publishFailed = TRUE
  BY <1>2 DEF IInv, Phases, Purging
<1>4. out["receiver"] # <<>> /\ out' = Rest(out, "receiver")
  BY <1>2, Waiting
<1>5. /\ out' \in [Workers -> Seq(Message)] /\ out'["receiver"] = Tail(out["receiver"])
      /\ out'["publisher"] = out["publisher"]
  BY <1>4, Taken DEF Workers
<1>6. ReportsMatch'
  BY <1>4, <1>5, ReportsShrink
<1>7. Flags' /\ AbortHasCause'
  BY <1>3 DEF IInv, Flags, AbortHasCause
<1> QED
  BY <1>5, <1>6, <1>7, GivesUp DEF IInv, Typed

LEMMA TimesOutStep == ASSUME IInv, TimesOut PROVE IInv'
<1> USE DEF TimesOut, Abort, workers
<1>1. Flags' /\ AbortHasCause' /\ ReportsMatch'
  BY DEF IInv, Flags, AbortHasCause, ReportsMatch
<1> QED
  BY <1>1, GivesUp DEF IInv, Typed

LEMMA StopStep == ASSUME IInv, Terminate \/ Kill PROVE IInv'
<1> USE DEF Terminate, Kill
<1>1. Flags' /\ AbortHasCause' /\ ReportsMatch'
  BY DEF IInv, Flags, AbortHasCause, ReportsMatch
<1>2. /\ at' \in [Workers -> States] /\ pc' \in {"kill", "done"}
      /\ at'["receiver"] \in {at["receiver"], "dead"}
      /\ at'["publisher"] \in {at["publisher"], "dead"}
  BY DEF IInv, Typed, States, Workers
<1> QED
  BY <1>1, <1>2, GivesUp DEF IInv, Typed

LEMMA Inductive == IInv /\ [Next]_vars => IInv'
<1> SUFFICES ASSUME IInv, [Next]_vars PROVE IInv'
  OBVIOUS
<1>1. CASE Main
  BY <1>1, StartedStep, BeginRoundStep, ConsumptionStep, RecordPublishedStep,
     PublisherFailedStep, PurgedStep, RecordReceptionStep, ReceiverFailedStep, WakeUpStep,
     UnexpectedStep, TimesOutStep, StopStep DEF Main
<1>2. CASE Publisher
  BY <1>2, GreetStep, AwaitPublishStep, PublishStep DEF Publisher, Workers
<1>3. CASE Receiver
  BY <1>3, GreetStep, ReadyStateStep, PullStep, PullSuccessStep, PullErrorStep, PurgingStep
  DEF Receiver, Workers
<1>4. CASE Deliver \/ \E w \in Workers : Die(w)
  BY <1>4, DeliverStep, DieStep
<1>5. CASE UNCHANGED vars
  <2> USE <1>5 DEF vars, main, workers, world
  <2>1. Typed' /\ Flags' /\ Commands' /\ NotAhead' /\ ReportsMatch' /\ AbortHasCause'
    BY DEF IInv, Typed, Flags, Commands, Busy, NotAhead, ReportsMatch, AbortHasCause
  <2>2. Phases'
    BY DEF IInv, Phases, Starting, Between, PublisherIdle, Consuming, Publishing, Receiving,
       Purging, Result, Busy, Settled
  <2> QED
    BY <2>1, <2>2 DEF IInv
<1> QED
  BY <1>1, <1>2, <1>3, <1>4, <1>5 DEF Next

LEMMA Always == Spec => []IInv
BY Initially, Inductive, PTL DEF Spec

(* The pipes hold messages of the protocol and the workers and the main     *)
(* process are where the code can be, for any number of messages.           *)
THEOREM LatencyTypes == Spec => []TypeOK
BY Always, InvariantTypes, PTL

(* Every round of measure_latency begins with empty pipes, an idle          *)
(* publisher and a receiver that is not pulling for an earlier message.     *)
THEOREM CleanRounds == Spec => []RoundsStartClean
<1>1. IInv => RoundsStartClean
  BY DEF IInv, Phases, Between, PublisherIdle, Settled, RoundsStartClean, Workers
<1> QED
  BY <1>1, Always, PTL

(* A ReceptionReport in the pipe is of the message of the round, however    *)
(* late or often the service delivers the others.                           *)
THEOREM MatchingReports == Spec => []ReportsMatch
<1>1. IInv => ReportsMatch
  BY DEF IInv
<1> QED
  BY <1>1, Always, PTL

(* Only a timeout, a dead worker or a failed publication ends the loop of   *)
(* the main process: ReceivedUnexpectedObjectError is raised only after a   *)
(* publication that failed.                                                 *)
THEOREM CausedAborts == Spec => []AbortHasCause
<1>1. IInv => AbortHasCause
  BY DEF IInv
<1> QED
  BY <1>1, Always, PTL
=============================================================================
