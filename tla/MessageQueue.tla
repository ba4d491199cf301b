---------------------------- MODULE MessageQueue ----------------------------
(***************************************************************************)
(* The notification queue: config/queue.js, queueService.js and the worker *)
(* process notificationWorker.js over RabbitMQ (external).  The broker     *)
(* keeps a copy it delivered until it is acknowledged or rejected on the   *)
(* channel it was delivered on, and queues it again when that channel      *)
(* dies.  amqplib throws on a channel that is closed; an acknowledgment    *)
(* sent on a later channel makes the broker close that channel, and the    *)
(* error event nobody listens to ends the process, as does an exception    *)
(* thrown in a timer.  Mail that cannot be sent is no error: sendEmail     *)
(* returns FALSE.  So a handler throws for a malformed message only.       *)
(* "Variant" definitions are no part of the specification.                 *)
(***************************************************************************)
EXTENDS Integers, Bags, BagsExt

CONSTANTS
  Messages,     \* published notifications
  Malformed,    \* those the handler throws on
  MaxFaults     \* bound: faults of the connection, the broker and the worker

VARIABLES
  queue,      \* bag of the copies that wait at the broker
  tasks,      \* bag of the copies the worker has: delivered and not yet settled
  link,       \* the worker's channel: see Links
  dead,       \* bag of the copies in the dead letter queue
  published,  \* messages published so far
  handled,    \* how often the handler ended on each message, counted to RetryCount + 1
  lost,       \* messages a copy of which vanished with the broker
  faults

vars == <<queue, tasks, link, dead, published, handled, lost, faults>>

\* retries is the header x-retry-count.
RetryCount == 3
Copies == [id : Messages, retries : 0 .. RetryCount]

\* A delivered copy: the handler runs, or it threw and its timer runs.  own
\* says that the channel it was delivered on is still the current one.
Tasks == [copy : Copies, stage : {"handling", "waiting"}, own : BOOLEAN]

\* "up": consuming.  "closed": lost, reconnecting in 5 s.  "deaf": connected
\* again, with no consumer.  "silent": the one reconnection failed.  "down": no process.
Links == {"up", "closed", "deaf", "silent", "down"}

QueueAssumption == MaxFaults \in Nat

NoCopies == [c \in {} |-> 0]

Fault == faults < MaxFaults /\ faults' = faults + 1

\* The copies the broker holds back for the current channel.
Unacknowledged == {t \in DOMAIN tasks : t.own}
Copied(ts) == [c \in {t.copy : t \in ts} |->
                 BagCardinality([t \in {u \in ts : u.copy = c} |-> tasks[t]])]

\* The union of two bags, as a prefix operator.
Joined(B, C) ==
  LET count(c, D) == IF c \in DOMAIN D THEN D[c] ELSE 0
  IN  [c \in DOMAIN B \cup DOMAIN C |-> count(c, B) + count(c, C)]

\* The channel dies: the broker queues its copies again.
\* Variant: the copies are taken as acknowledged when they are delivered.
AutoAcknowledged == UNCHANGED queue
Requeued == queue' = Joined(queue, Copied(Unacknowledged))

\* The worker's memory after its channel died: its tasks go on.
Orphans ==
  LET orphan(t) == [t EXCEPT !.own = FALSE]
  IN  [o \in {orphan(t) : t \in DOMAIN tasks} |->
         BagCardinality([t \in {u \in DOMAIN tasks : orphan(u) = o} |-> tasks[t]])]

\* The process ends, and the broker notices.
Crash == link' = "down" /\ tasks' = NoCopies /\ Requeued

\* start(): connect and consume.  Nothing restarts the process by itself.
Start ==
  /\ link = "down" /\ link' = "up"
  /\ UNCHANGED <<queue, tasks, dead, published, handled, lost, faults>>

\* publishNotification by some other process.  A publish that finds no channel
\* returns FALSE and changes nothing.
Publish(m) ==
  /\ m \notin published /\ published' = published \cup {m}
  /\ queue' = BagAdd(queue, [id |-> m, retries |-> 0])
  /\ UNCHANGED <<tasks, link, dead, handled, lost, faults>>

\* Variant: a retry goes to one of the queues that nothing consumes.
DeliverFirst(c) ==
  /\ link = "up" /\ c \in DOMAIN queue /\ c.retries = 0
  /\ queue' = BagRemove(queue, c)
  /\ tasks' = BagAdd(tasks, [copy |-> c, stage |-> "handling", own |-> TRUE])
  /\ UNCHANGED <<link, dead, published, handled, lost, faults>>
Deliver(c) ==
  /\ link = "up" /\ c \in DOMAIN queue
  /\ queue' = BagRemove(queue, c)
  /\ tasks' = BagAdd(tasks, [copy |-> c, stage |-> "handling", own |-> TRUE])
  /\ UNCHANGED <<link, dead, published, handled, lost, faults>>

Handled(m) == handled' = [handled EXCEPT ![m] = IF @ > RetryCount THEN @ ELSE @ + 1]

CanWrite == link \in {"up", "deaf"}

\* The handler returned: the copy is acknowledged on the current channel.
Acknowledge(t) ==
  /\ t.stage = "handling" /\ t.copy.id \notin Malformed /\ CanWrite
  /\ IF t.own
       THEN tasks' = BagRemove(tasks, t) /\ UNCHANGED <<queue, link>>
       ELSE Crash
  /\ Handled(t.copy.id)
  /\ UNCHANGED <<dead, published, lost, faults>>

NextCount(copy) == [copy EXCEPT !.retries = @ + 1]

\* The handler threw, or the acknowledgment did on a closed channel.  The
\* fourth time the copy is rejected, which throws too when the channel is
\* not the one it came on.
Caught(t) ==
  /\ t.stage = "handling"
  /\ t.copy.id \in Malformed \/ ~CanWrite
  /\ IF t.copy.retries < RetryCount
       THEN /\ tasks' = BagAdd(BagRemove(tasks, t), [t EXCEPT !.stage = "waiting"])
            /\ UNCHANGED <<queue, link, dead>>
       ELSE IF t.own /\ CanWrite
         THEN /\ tasks' = BagRemove(tasks, t) /\ dead' = BagAdd(dead, t.copy)
              /\ UNCHANGED <<queue, link>>
         ELSE Crash /\ UNCHANGED dead
  /\ Handled(t.copy.id)
  /\ UNCHANGED <<published, lost, faults>>

\* The timer publishes the copy again and acknowledges the old one.
Retry(t) ==
  /\ t.stage = "waiting"
  /\ IF t.own /\ CanWrite
       THEN /\ queue' = BagAdd(queue, NextCount(t.copy))
            /\ tasks' = BagRemove(tasks, t) /\ UNCHANGED link
       ELSE /\ link' = "down" /\ tasks' = NoCopies
            /\ queue' = Joined(IF CanWrite THEN BagAdd(queue, NextCount(t.copy)) ELSE queue,
                               Copied(Unacknowledged))
  /\ UNCHANGED <<dead, published, handled, lost, faults>>

\* The connection dies, perhaps after a retry was published and before it was
\* acknowledged.
Disconnect ==
  /\ Fault /\ CanWrite /\ link' = "closed"
  /\ tasks' = Orphans
  /\ \/ Requeued
     \/ \E t \in Unacknowledged :
          /\ t.stage = "waiting"
          /\ queue' = BagAdd(Joined(queue, Copied(Unacknowledged)), NextCount(t.copy))
  /\ UNCHANGED <<dead, published, handled, lost>>

\* The broker restarts: a retry is published without `persistent` and is lost, at
\* the worker's queue or dead-lettered.
BrokerRestart ==
  /\ Fault
  /\ link' = IF CanWrite THEN "closed" ELSE link
  /\ tasks' = Orphans
  /\ LET all == Joined(queue, Copied(Unacknowledged))
         kept == {c \in DOMAIN all : c.retries = 0}
         keptDead == {c \in DOMAIN dead : c.retries = 0}
     IN  /\ queue' = [c \in kept |-> all[c]]
         /\ dead' = [c \in keptDead |-> dead[c]]
         /\ lost' = lost \cup {c.id : c \in (DOMAIN all \ kept) \cup (DOMAIN dead \ keptDead)}
  /\ UNCHANGED <<published, handled>>

WorkerCrash ==
  /\ Fault /\ link # "down" /\ Crash
  /\ UNCHANGED <<dead, published, handled, lost>>

\* The timer of the close event; a failure is only logged.
Reconnect ==
  /\ link = "closed" /\ link' \in {"deaf", "silent"}
  /\ UNCHANGED <<queue, tasks, dead, published, handled, lost, faults>>

Init ==
  /\ queue = NoCopies /\ tasks = NoCopies /\ dead = NoCopies
  /\ link = "down" /\ published = {} /\ lost = {} /\ faults = 0
  /\ handled = [m \in Messages |-> 0]

Work ==
  \/ \E c \in Copies : Deliver(c)
  \/ \E t \in DOMAIN tasks : Acknowledge(t) \/ Caught(t) \/ Retry(t)

Next ==
  \/ Work
  \/ \E m \in Messages : Publish(m)
  \/ Start \/ Disconnect \/ BrokerRestart \/ WorkerCrash \/ Reconnect

\* The event loop runs callbacks and due timers; the broker delivers.
Fairness == WF_vars(Work)

Spec == Init /\ [][Next]_vars /\ Fairness

-----------------------------------------------------------------------------
\* Type invariant.
TypeOK ==
  /\ DOMAIN queue \cup DOMAIN dead \subseteq Copies /\ DOMAIN tasks \subseteq Tasks
  /\ link \in Links /\ published \subseteq Messages /\ lost \subseteq Messages
  /\ handled \in [Messages -> 0 .. RetryCount + 1] /\ faults \in 0 .. MaxFaults

\* A published message on which the handler has not ended yet waits at the
\* broker or is held back by it, whatever connections, workers and brokers fail.
NoMessageLost ==
  \A m \in published :
    \/ handled[m] > 0
    \/ \E c \in DOMAIN queue \cup {t.copy : t \in Unacknowledged} : c.id = m

\* Only a message that was handled at least four times is dead-lettered, and
\* never a well-formed one.
OnlyHopelessDeadLettered ==
  \A c \in DOMAIN dead : c.id \in Malformed /\ handled[c.id] > RetryCount

Settled(m) ==
  \A c \in DOMAIN queue \cup {t.copy : t \in DOMAIN tasks} : c.id # m

\* Every published message is eventually acknowledged or dead-lettered and no
\* copy of it is left, unless the worker stops consuming: no retry runs for ever.
SettledOrSilent ==
  \A m \in Messages : (m \in published) ~> (Settled(m) \/ link # "up")
=============================================================================
