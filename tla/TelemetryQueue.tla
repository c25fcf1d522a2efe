---------------------------- MODULE TelemetryQueue ----------------------------
(***************************************************************************)
(* The agent's telemetry path (agent/silentguard_agent/telemetry.py and    *)
(* the spool of config.py): a bounded in-memory buffer mirrored to a spool *)
(* file, flushed in whole-buffer batches to POST /api/agent/telemetry of   *)
(* the server (server/app/routers/agents.py), over a network that loses    *)
(* and delays requests and loses replies, by a process that may die at any *)
(* point and is restarted by its service manager.                          *)
(*                                                                         *)
(* An event is its rank in the order of capture.  The agent is one thread, *)
(* so nothing is emitted while a request is outstanding.                   *)
(*                                                                         *)
(* Definitions marked "Fault:" are not part of the model: each is a        *)
(* plausible mistake in the definition that follows it.                    *)
(***************************************************************************)
EXTENDS Naturals, Sequences, FiniteSets, SequencesExt

CONSTANTS
    MaxBuffer,   \* MAX_BUFFER: capacity of the deque
    MaxBody,     \* how many events fit in a request body the server accepts
    DiskFaults,  \* can a write of the spool fail with an OSError?
    Garbled,     \* events naming a URL that urlsplit() rejects ("http://[")
    MaxEvents,   \* bound: events captured
    MaxFailures, \* bound: flushes that time out, are lost or answered by a 5xx
    MaxCrashes   \* bound: deaths of the process

ASSUME QueueAssumption ==
    /\ MaxBuffer \in Nat \ {0}
    /\ MaxBody \in Nat
    /\ DiskFaults \in BOOLEAN
    /\ Garbled \subseteq Nat
    /\ MaxEvents \in Nat
    /\ MaxFailures \in Nat
    /\ MaxCrashes \in Nat

VARIABLES
    pc,        \* where the agent's thread is
    buffer,    \* TelemetryClient.buffer
    batch,     \* the local `batch` of flush()
    spool,     \* what load_queue() would return now
    net,       \* telemetry requests under way to the server
    reply,     \* the answer to the outstanding request
    stored,    \* the server's ThreatEvent rows, in the order of their commits
    epoch,     \* failed attempts; identifies the outstanding request
    stuck,     \* every turn of run() raises before it comes to flush()
    crashes,
    (* history *)
    captured,  \* number of events emitted
    evicted,   \* events dropped by the full deque
    wiped,     \* events that were in memory when the process died, not on disk
    dirty      \* the last write of the spool failed

agentVars == <<pc, buffer, batch, spool>>
historyVars == <<captured, evicted, wiped, dirty>>
vars == <<agentVars, net, reply, stored, epoch, stuck, crashes, historyVars>>

Event == 1..MaxEvents
Request == [epoch : Nat, batch : Seq(Event)]

\* Down: no process.  Idle: between calls.  Open and write: save_queue() before
\* and after its truncating open.  Posting: flush() awaits the answer.
PC == {"down", "idle", "open", "write", "posting"}

Init ==
    /\ pc = "idle"
    /\ buffer = <<>>
    /\ batch = <<>>
    /\ spool = <<>>
    /\ net = {}
    /\ reply = "none"
    /\ stored = <<>>
    /\ epoch = 0
    /\ stuck = FALSE
    /\ crashes = 0
    /\ captured = 0
    /\ evicted = {}
    /\ wiped = {}
    /\ dirty = FALSE

-------------------------------------------------------------------------------
(* The agent.                                                              *)

\* Fault: a full deque refuses the new event.
KeepOldest(q) == IF Len(q) > MaxBuffer THEN SubSeq(q, 1, MaxBuffer) ELSE q

\* A deque with a maxlen keeps its newest elements.
KeepNewest(q) ==
    IF Len(q) > MaxBuffer THEN SubSeq(q, Len(q) - MaxBuffer + 1, Len(q)) ELSE q

\* Fault: appendleft().
PushFront(e) == KeepNewest(<<e>> \o buffer)

Push(e) == KeepNewest(Append(buffer, e))

\* Fault: the change of the buffer is not persisted.
SkipPersist == "idle"

\* _persist_locked() follows every change of the buffer.
Persist == "open"

\* emit(): append, evicting the oldest event of a full deque, then persist.
Emit ==
    /\ pc = "idle"
    /\ captured < MaxEvents
    /\ captured' = captured + 1
    /\ buffer' = Push(captured + 1)
    /\ evicted' = evicted \cup (ToSet(buffer) \ ToSet(buffer'))
    /\ pc' = Persist
    /\ UNCHANGED <<batch, spool, net, reply, stored, epoch, stuck, crashes, wiped, dirty>>

\* save_queue(): write_text() opens the file for writing, which empties it ...
SpoolOpen ==
    /\ pc = "open"
    /\ spool' = <<>>
    /\ pc' = "write"
    /\ UNCHANGED <<buffer, batch, net, reply, stored, epoch, stuck, crashes, historyVars>>

\* ... then writes the new content.
SpoolWrite ==
    /\ pc = "write"
    /\ spool' = buffer
    /\ dirty' = FALSE
    /\ pc' = "idle"
    /\ UNCHANGED <<buffer, batch, net, reply, stored, epoch, stuck, crashes,
                   captured, evicted, wiped>>

\* An OSError of the open or of the write is swallowed.
SpoolFail ==
    /\ DiskFaults
    /\ pc \in {"open", "write"}
    /\ dirty' = TRUE
    /\ pc' = "idle"
    /\ UNCHANGED <<buffer, batch, spool, net, reply, stored, epoch, stuck, crashes,
                   captured, evicted, wiped>>

\* run() comes to be given what each of its turns raises on before flush(), or is rid of
\* it: a domain that sync() cannot parse, a drop directory that is none, a hosts file
\* that cannot be decoded.  Only the process that dies forgets the first two.
Jam ==
    /\ stuck' = ~ stuck
    /\ UNCHANGED <<agentVars, net, reply, stored, epoch, crashes, historyVars>>

\* flush(): snapshot the buffer and post it.  If each turn raises, there is only the last
\* flush of run(), outside its loop, after which the process exits (Crash).
FlushStart ==
    /\ pc = "idle"
    /\ stuck => crashes < MaxCrashes
    /\ buffer # <<>>
    /\ batch' = buffer
    /\ net' = net \cup {[epoch |-> epoch, batch |-> buffer]}
    /\ reply' = "none"
    /\ pc' = "posting"
    /\ UNCHANGED <<buffer, spool, stored, epoch, stuck, crashes, historyVars>>

\* What is left when as many events have been popped as were sent.
Unsent == SubSeq(buffer, Len(batch) + 1, Len(buffer))

\* flush(), 200: pop what was sent, then persist.
FlushAcked ==
    /\ pc = "posting"
    /\ reply = "ok"
    /\ buffer' = Unsent
    /\ batch' = <<>>
    /\ reply' = "none"
    /\ pc' = Persist
    /\ UNCHANGED <<spool, net, stored, epoch, stuck, crashes, historyVars>>

\* Fault: a request without a timeout.
NoTimeout == FALSE

\* flush(), RequestException of a timeout, a lost reply or a 5xx: keep everything.
FlushFailed ==
    /\ pc = "posting"
    /\ epoch < MaxFailures
    /\ epoch' = epoch + 1
    /\ batch' = <<>>
    /\ reply' = "none"
    /\ pc' = "idle"
    /\ UNCHANGED <<buffer, spool, net, stored, stuck, crashes, historyVars>>

\* flush(), RequestException of an answer that a retry meets again: keep everything.
FlushRefused ==
    /\ pc = "posting"
    /\ reply = "refused"
    /\ batch' = <<>>
    /\ reply' = "none"
    /\ pc' = "idle"
    /\ UNCHANGED <<buffer, spool, net, stored, epoch, stuck, crashes, historyVars>>

\* The process dies (kill, reboot, or the exit at the end of run()).
Crash ==
    /\ pc # "down"
    /\ crashes < MaxCrashes
    /\ crashes' = crashes + 1
    /\ epoch' = IF pc = "posting" THEN epoch + 1 ELSE epoch
    /\ wiped' = wiped \cup (ToSet(buffer) \ ToSet(spool))
    /\ buffer' = <<>>
    /\ batch' = <<>>
    /\ reply' = "none"
    /\ pc' = "down"
    /\ UNCHANGED <<spool, net, stored, stuck, captured, evicted, dirty>>

\* load_queue(), bounded like the deque.
Recovered == KeepNewest(spool)

\* TelemetryClient.__init__(): recover the spool.
Restart ==
    /\ pc = "down"
    /\ buffer' = Recovered
    /\ dirty' = FALSE
    /\ pc' = "idle"
    /\ UNCHANGED <<batch, spool, net, reply, stored, epoch, stuck, crashes,
                   captured, evicted, wiped>>

-------------------------------------------------------------------------------
(* The network and the server.                                             *)

Outstanding(r) == pc = "posting" /\ r.epoch = epoch

\* A fault that the outstanding request may only meet while failures are allowed.
MayFail(r) == Outstanding(r) => epoch < MaxFailures

\* extract_host() raises on an event of the batch.
Raises(r) == ToSet(r.batch) \cap Garbled # {}

\* telemetry(): the events are committed and the request is answered.
ServerStore(r) ==
    /\ Len(r.batch) =< MaxBody
    /\ ~ Raises(r)
    /\ stored' = stored \o r.batch
    /\ reply' = IF Outstanding(r) THEN "ok" ELSE reply
    /\ net' = net \ {r}
    /\ UNCHANGED <<agentVars, epoch, stuck, crashes, historyVars>>

\* telemetry(): the events are committed, then the blocklist check of the detection
\* engine raises and the answer is a 500.  The agent sends the batch again for
\* ever: rows of events that are all stored already are not added (a bound).
ServerStoreThenRaise(r) ==
    /\ Len(r.batch) =< MaxBody
    /\ Raises(r)
    /\ stored' = IF ToSet(r.batch) \subseteq ToSet(stored) THEN stored ELSE stored \o r.batch
    /\ reply' = IF Outstanding(r) THEN "refused" ELSE reply
    /\ net' = net \ {r}
    /\ UNCHANGED <<agentVars, epoch, stuck, crashes, historyVars>>

\* telemetry() fails after its first commit (detections, alerts, integrations).
ServerStoreThenError(r) ==
    /\ Len(r.batch) =< MaxBody
    /\ ~ Raises(r)
    /\ MayFail(r)
    /\ stored' = stored \o r.batch
    /\ net' = net \ {r}
    /\ UNCHANGED <<agentVars, reply, epoch, stuck, crashes, historyVars>>

\* The body-size middleware answers 413 before the endpoint runs.
ServerRefuse(r) ==
    /\ Len(r.batch) > MaxBody
    /\ reply' = IF Outstanding(r) THEN "refused" ELSE reply
    /\ net' = net \ {r}
    /\ UNCHANGED <<agentVars, stored, epoch, stuck, crashes, historyVars>>

\* The request is lost, or answered by an error before the first commit.
LoseRequest(r) ==
    /\ MayFail(r)
    /\ net' = net \ {r}
    /\ UNCHANGED <<agentVars, reply, stored, epoch, stuck, crashes, historyVars>>

-------------------------------------------------------------------------------
Agent ==
    \/ Emit \/ SpoolOpen \/ SpoolWrite \/ SpoolFail
    \/ FlushStart \/ FlushAcked \/ FlushFailed \/ FlushRefused

Server(r) ==
    \/ ServerStore(r) \/ ServerStoreThenRaise(r) \/ ServerStoreThenError(r)
    \/ ServerRefuse(r) \/ LoseRequest(r)

Next == Agent \/ Jam \/ Crash \/ Restart \/ \E r \in net : Server(r)

Spec == Init /\ [][Next]_vars

\* The loop of run() flushes on every turn that does not raise before, requests carry a
\* timeout, the service manager restarts the agent, and the server answers what reaches
\* it.  Nothing is assumed of captures, crashes and faults, nor of what turns raise on.
Fairness ==
    /\ WF_vars(SpoolOpen \/ SpoolWrite)
    /\ WF_vars(~ stuck /\ FlushStart)
    /\ WF_vars(FlushAcked \/ FlushFailed \/ FlushRefused)
    /\ WF_vars(Restart)
    /\ WF_vars(\E r \in net : ServerStore(r) \/ ServerStoreThenRaise(r) \/ ServerRefuse(r))

FairSpec == Spec /\ Fairness

-------------------------------------------------------------------------------
(* Properties.                                                             *)

\* Every variable holds a value of its kind; buffer and spool respect MAX_BUFFER.
TypeOK ==
    /\ pc \in PC
    /\ captured \in 0..MaxEvents
    /\ buffer \in Seq(Event) /\ Len(buffer) =< MaxBuffer
    /\ batch \in Seq(Event)
    /\ spool \in Seq(Event) /\ Len(spool) =< MaxBuffer
    /\ net \subseteq Request
    /\ reply \in {"none", "ok", "refused"}
    /\ stored \in Seq(Event)
    /\ epoch \in Nat
    /\ stuck \in BOOLEAN
    /\ crashes \in 0..MaxCrashes
    /\ evicted \subseteq Event
    /\ wiped \subseteq Event
    /\ dirty \in BOOLEAN

\* The events the agent answers for: its buffer, or the spool while it is down.
Custody == IF pc = "down" THEN spool ELSE buffer

\* No event vanishes: one that has left the agent's custody was stored by the
\* server, evicted by the full deque, or lost with the memory of a dying process
\* (emit, flush and the recovery of the spool, against crashes and lost replies).
NoEventVanishes ==
    \A e \in 1..captured : e \in ToSet(Custody) \cup ToSet(stored) \cup evicted \cup wiped

\* Every event older than one in s comes before it in s or is in D.
InOrder(s, D) ==
    \A j \in 1..Len(s) : \A e \in 1..(s[j] - 1) :
        e \in D \/ \E i \in 1..(j - 1) : s[i] = e

\* The server first hears of events in the order of their capture, whatever
\* requests are retried, delayed or overtaken: a row is preceded by a row of every
\* earlier event, except the events the agent had to drop.
ArrivalInOrder == InOrder(stored, evicted \cup wiped)

\* A death of the agent costs events only inside save_queue() or after a failed
\* write: at any other time all of the buffer is on disk.
CrashLosesOnlyUnspooled ==
    [][wiped' # wiped => pc \in {"open", "write"} \/ dirty]_vars

\* flush() sends the whole buffer at once: past this size it is refused for ever.
TooLarge == Len(Custody) > MaxBody

\* The turns of run() come to their flush() in the end, and go on to.
TurnsFlush == <>[](~ stuck)

\* Every captured event reaches the server, is evicted or is lost in a crash, if the
\* turns of run() come to their flush() and as long as the backlog fits in a request the
\* server accepts.
EveryEventArrives ==
    TurnsFlush =>
      \A e \in Event :
        captured >= e ~> TooLarge \/ e \in ToSet(stored) \cup evicted \cup wiped

\* The backlog drains, if the turns come to their flush(): an event leaves the agent for
\* good, unless the backlog has outgrown a request or holds an event on which the server
\* raises after storing it (one such event stops the whole queue, flush() sends all of it
\* or nothing).
BacklogDrains ==
    TurnsFlush =>
      \A e \in Event :
        captured >= e ~> \/ e \notin ToSet(Custody)
                         \/ TooLarge
                         \/ ToSet(Custody) \cap Garbled # {}

\* The abstract log of events this pipeline implements.
Log == INSTANCE EventCustody WITH
    Capacity  <- MaxBuffer,
    seen      <- captured,
    custody   <- ToSet(Custody),
    delivered <- ToSet(stored),
    dropped   <- evicted \cup wiped

\* Every step of the pipeline is a step of the abstract log or leaves it alone:
\* in particular only a full buffer gives up an event, and the oldest one.
ImplementsLog == Log!CSpec
-------------------------------------------------------------------------------
(* The inductive invariant from which the safety properties are proved.    *)

\* Events that have reached the server or have been dropped.
Gone == ToSet(stored) \cup evicted \cup wiped

Ordered(q) == \A i, j \in 1..Len(q) : i < j => q[i] < q[j]

\* A queue of events of 1..n is ordered, and lacks no event older than one it
\* holds but for those in G.
Sound(q, n, G) ==
    /\ Ordered(q)
    /\ ToSet(q) \subseteq 1..n
    /\ \A f \in ToSet(q) : \A e \in 1..f : e \in ToSet(q) \cup G

\* The queues of events: in memory, on disk and in the requests under way.
Queues == {buffer, spool} \cup {r.batch : r \in net}

QueuesSound == \A q \in Queues : Sound(q, captured, Gone)

HistorySound == Gone \subseteq 1..captured

\* At most one request is outstanding, it carries the snapshot of flush(), and an
\* answer "ok" means that the server holds that snapshot.
OneOutstanding ==
    /\ \A r \in net : /\ r.epoch =< epoch
                      /\ r.epoch = epoch => pc = "posting" /\ reply = "none" /\ r.batch = batch
    /\ pc = "posting" => batch = buffer
    /\ reply = "ok" => ToSet(batch) \subseteq ToSet(stored)

\* Outside save_queue() the spool mirrors the buffer, unless the last write failed.
Mirrored == pc \in {"idle", "posting"} /\ ~dirty => spool = buffer

IInv ==
    /\ TypeOK
    /\ QueuesSound
    /\ HistorySound
    /\ OneOutstanding
    /\ Mirrored
    /\ NoEventVanishes
    /\ ArrivalInOrder
===============================================================================
