---------------------------- MODULE NwwsRuntime ----------------------------
(***************************************************************************)
(* NWWSRuntimeService of app/nwws_runtime.py: one connection loop, one     *)
(* consumer and the bounded inbox between them.                            *)
(*                                                                         *)
(* The transport and the server are the environment: a session ends in any *)
(* way at any time, and stanzas arrive in any order and repeated.  Left    *)
(* out: the health record, the length of a backoff, the class's lease, for *)
(* which the one service of the application has no rival, and the entry    *)
(* for transports with a thread of their own, since SlixmppTransport calls *)
(* back on the event loop.                                                 *)
(***************************************************************************)
EXTENDS SequenceTracker, FiniteSets

CONSTANTS
  MaxSeq,      \* numbers a process gives its products
  QueueSize,   \* config.queue_size
  MaxOffers    \* stanzas that arrive

ASSUME RuntimeAssumption == {MaxSeq, QueueSize, MaxOffers} \subseteq Nat \ {0}

\* A stanza is a product of a configured office, or noise that the consumer
\* discards (another room or office, a history item, garbled); what is too
\* large for the inbox does not arrive.
Products == [kind : {"product"}, process : Processes, seq : 1..MaxSeq]
Stanzas  == Products \cup [kind : {"noise"}]

VARIABLES
  connection,  \* where _connection_loop is
  consumer,    \* where _consume is
  stopping,    \* _stopping: stop has cancelled both
  inbox,       \* _queue
  tracker,     \* _tracker
  offered,     \* stanzas the transport handed over
  passed       \* history: the products given to on_product

nwwsTasks == <<connection, consumer, stopping>>
nwwsVars  == <<nwwsTasks, inbox, tracker, offered, passed>>

NwwsInit ==
  /\ connection = "none" /\ consumer = "none" /\ stopping = FALSE
  /\ inbox = <<>> /\ tracker = Untracked
  /\ offered = 0 /\ passed = <<>>
----------------------------------------------------------------------------
(* Start and stop.                                                         *)

\* start; the credentials may be unusable.
NwwsStart ==
  /\ \/ connection' = "running" /\ consumer' = "waiting"
     \/ UNCHANGED <<connection, consumer>>
  /\ UNCHANGED <<stopping, inbox, tracker, offered, passed>>

\* stop, up to the cancellation of both tasks.
NwwsStop ==
  /\ stopping' = TRUE
  /\ UNCHANGED <<connection, consumer, inbox, tracker, offered, passed>>

\* The consumer is cancelled, in on_product perhaps: that product is lost.
ConsumerEnds ==
  /\ stopping /\ consumer # "none" /\ consumer' = "none"
  /\ UNCHANGED <<connection, stopping, inbox, tracker, offered, passed>>

\* asyncio.gather over the cancelled tasks; stop forgets the inbox after it.
NwwsStopped == consumer = "none" /\ connection = "none"
----------------------------------------------------------------------------
(* The connection loop.                                                    *)

\* transport.run returns, raises or is cancelled; close follows.
SessionEnds ==
  /\ connection = "running" /\ connection' = "closing"
  /\ UNCHANGED <<consumer, stopping, inbox, tracker, offered, passed>>

\* Mutant of AfterClose: a failed session ends the loop.
AfterCloseOnce == "none"

\* The loop goes on unless the service stops.
AfterClose == IF stopping THEN "none" ELSE "backoff"

CloseTransport ==
  /\ connection = "closing" /\ connection' = AfterClose
  /\ UNCHANGED <<consumer, stopping, inbox, tracker, offered, passed>>

\* The backoff is over, or stop cancels it.
BackoffEnds ==
  /\ connection = "backoff"
  /\ connection' = IF stopping THEN "none" ELSE "running"
  /\ UNCHANGED <<consumer, stopping, inbox, tracker, offered, passed>>
----------------------------------------------------------------------------
(* The inbox.                                                              *)

\* _receive and _enqueue: a full inbox drops the stanza.
Receive(s) ==
  /\ connection \in {"running", "closing"} /\ ~stopping
  /\ offered < MaxOffers /\ offered' = offered + 1
  /\ inbox' = IF Len(inbox) = QueueSize THEN inbox ELSE Append(inbox, s)
  /\ UNCHANGED <<nwwsTasks, tracker, passed>>
----------------------------------------------------------------------------
(* The consumer.                                                           *)

Taken(kind) ==
  /\ consumer = "waiting" /\ ~stopping /\ inbox # <<>>
  /\ Head(inbox).kind = kind /\ inbox' = Tail(inbox)

Discard ==
  /\ Taken("noise")
  /\ UNCHANGED <<nwwsTasks, tracker, offered, passed>>

\* The tracker decides and remembers, then on_product is called.
Consume ==
  /\ Taken("product")
  /\ LET p == Head(inbox).process  n == Head(inbox).seq
     IN  IF Replayed(tracker, p, n) THEN UNCHANGED <<tracker, consumer, passed>>
         ELSE /\ tracker' = Observed(tracker, p, n) /\ consumer' = "callback"
              /\ passed' = Append(passed, Head(inbox))
  /\ UNCHANGED <<connection, stopping, offered>>

\* on_product returns or raises, which is contained.
CallbackEnds ==
  /\ consumer = "callback" /\ ~stopping /\ consumer' = "waiting"
  /\ UNCHANGED <<connection, stopping, inbox, tracker, offered, passed>>
----------------------------------------------------------------------------
\* What the tasks do under their own steam; a session may last for ever.
NwwsStep ==
  \/ stopping /\ SessionEnds
  \/ CloseTransport \/ BackoffEnds \/ ConsumerEnds \/ Discard \/ Consume \/ CallbackEnds

NwwsEnvironment ==
  \/ ~stopping /\ SessionEnds
  \/ \E s \in Stanzas : Receive(s)
----------------------------------------------------------------------------
\* Processes that took over after product i was passed on and before j.
Between(i, j) == {passed[k].process : k \in i..j} \ {passed[i].process}

\* A product is passed on once and in the order of its process, across
\* reconnects, replays and failovers, unless more processes took over in
\* between than the tracker remembers (SequenceTracker.observe).
NoReplay ==
  \A i, j \in DOMAIN passed :
    i < j /\ passed[i].process = passed[j].process =>
      \/ passed[i].seq < passed[j].seq
      \/ Cardinality(Between(i, j)) > MaxRetired
=============================================================================
