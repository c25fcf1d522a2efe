---------------------------- MODULE CommandChannel ----------------------------
(***************************************************************************)
(* How commands reach one device and how their results come back: the      *)
(* JSON column Device.pending_commands, read and rewritten without a lock  *)
(* by responders (services/response.py, in a thread pool), administrators  *)
(* (routers/admin.py), automatic isolation (detection/engine.py) and the   *)
(* agent's check-in (routers/agents.py); the agent's loop, which handles   *)
(* the commands of a reply one by one (agent main.py); and the results,    *)
(* which travel with the telemetry and settle a ResponseAction.            *)
(*                                                                         *)
(* A handler that loads the device row before its own body runs, or beside *)
(* other threads, works on a copy: it is two steps here.                   *)
(*                                                                         *)
(* What each turn of the agent does beside this is reduced to whether it   *)
(* raises: before the check-in, or when the answer is merged.              *)
(*                                                                         *)
(* Definitions marked "Fault:" are not part of the model: each is a        *)
(* plausible mistake in the definition that follows it.                    *)
(***************************************************************************)
EXTENDS Naturals, Sequences, FiniteSets, SequencesExt

CONSTANTS
    Kinds,        \* the kinds of agent action responders dispatch
    MaxActions,   \* bound: response actions
    MaxRequests,  \* bound: actions, and isolations by administrators and detections
    MaxFaults     \* bound: check-ins that time out, exceptions, deaths of the agent

ASSUME ChannelAssumption ==
    /\ Kinds \subseteq {"task", "isolate"}
    /\ {MaxActions, MaxRequests, MaxFaults} \subseteq Nat

VARIABLES
    (* the server's rows *)
    pending,    \* Device.pending_commands
    isolated,   \* Device.isolated
    kind,       \* ResponseAction.action_type
    status,     \* ResponseAction.status
    (* handlers at work on the server, each with the row it loaded *)
    responds,   \* respond() by action
    detection,  \* telemetry() between its commit and dispatch_responses()
    setting,    \* _set_isolation() between its load and its commit
    checkins,   \* check-ins under way, to and from the server
    (* the agent *)
    pc,         \* where the agent's thread is
    epoch,      \* check-ins given up; identifies the outstanding one
    todo,       \* commands of the reply still to be handled
    level,      \* `isolated` of that reply
    obeyed,     \* what isolation the agent was last told to have
    outbox,     \* results captured and not yet known to be delivered
    turn,       \* what becomes of a turn of run()
    (* bounds and history *)
    orders, faults,
    executed,   \* how often the agent has executed an action
    reported,   \* the results the agent has reported for an action
    revived,    \* how often a commit brought back a command already handed out
    lost        \* actions a lost reply, an exception, a death or a commit has cost

server == <<pending, isolated, kind, status>>
handlers == <<responds, detection, setting>>
agent == <<pc, epoch, todo, level, obeyed, outbox, turn>>
bounds == <<orders, faults>>
history == <<executed, reported, revived, lost>>
vars == <<server, handlers, checkins, agent, bounds, history>>

Action == 1..MaxActions

\* A command without action_id: isolate or release, queued next to the column
\* Device.isolated.  handle_command() has no branch for it.
Note == 0
Command == Action \cup {Note}

Closed == [open |-> FALSE, cmds |-> <<>>, isolated |-> FALSE]
Loaded == [open |-> TRUE, cmds |-> pending, isolated |-> isolated]
Copy == [open : BOOLEAN, cmds : Seq(Command), isolated : BOOLEAN]

Stages == {"sent", "loaded", "answered"}

\* Each turn gets through; or the merge of the answer raises; or each turn raises before
\* it comes to its check-in.
Turns == {"sound", "unmerged", "stuck"}
Result == [action : Action, status : {"ok", "failed"}]

Init ==
    /\ pending = <<>>
    /\ isolated = FALSE
    /\ kind = [a \in Action |-> "none"]
    /\ status = [a \in Action |-> "none"]
    /\ responds = [a \in Action |-> Closed]
    /\ detection = Closed /\ setting = Closed
    /\ checkins = {}
    /\ pc = "idle"
    /\ epoch = 0
    /\ todo = <<>>
    /\ level = FALSE
    /\ obeyed = FALSE
    /\ outbox = <<>>
    /\ turn = "sound"
    /\ orders = 0 /\ faults = 0
    /\ executed = [a \in Action |-> 0]
    /\ reported = [a \in Action |-> {}]
    /\ revived = [a \in Action |-> 0]
    /\ lost = {}

-------------------------------------------------------------------------------
(* Writing back a copy of the pending commands.                            *)

Tasks(cmds) == ToSet(cmds) \cap Action

\* What a handler that loaded seen cannot know of: it wipes out the commands
\* queued since, and brings back those handed out since.
Overwritten(seen) == Tasks(pending) \ ToSet(seen)
Revived(seen) == Tasks(seen) \ ToSet(pending)

\* Fault: the new command replaces the queued ones.
Replace(cmds, c) == <<c>>

\* _queue_command() and its copies in the other handlers.
Queue(cmds, c) == Append(cmds, c)

RewriteQueued(seen, c) ==
    /\ pending' = Queue(seen, c)
    /\ lost' = lost \cup Overwritten(seen)
    /\ revived' = [a \in Action |->
                     IF a \in Revived(seen) THEN revived[a] + 1 ELSE revived[a]]

-------------------------------------------------------------------------------
(* Responders, administrators and detections.                              *)

\* The server's handlers of the event loop wait for one that has not come to an await;
\* respond() and require_agent() have threads of their own.
LoopFree == ~ setting.open

Requests == orders + Cardinality({a \in Action : kind[a] # "none"})

\* respond(): the device row is loaded ...
RespondLoad(a, k) ==
    /\ Requests < MaxRequests
    /\ kind[a] = "none"
    /\ \A b \in 1..(a - 1) : kind[b] # "none"
    /\ kind' = [kind EXCEPT ![a] = k]
    /\ responds' = [responds EXCEPT ![a] = Loaded]
    /\ UNCHANGED <<pending, isolated, status, detection, setting, checkins, agent,
                   bounds, history>>

\* ... and dispatch() records the action, queues its command and commits.
Dispatch(a) ==
    /\ responds[a].open
    /\ status' = [status EXCEPT ![a] = "queued"]
    /\ RewriteQueued(responds[a].cmds, a)
    /\ responds' = [responds EXCEPT ![a] = Closed]
    /\ UNCHANGED <<isolated, kind, detection, setting, checkins, agent, bounds,
                   executed, reported>>

\* _set_isolation() loads the device row ...
IsolationLoad(v) ==
    /\ LoopFree
    /\ Requests < MaxRequests
    /\ orders' = orders + 1
    /\ setting' = [Loaded EXCEPT !.isolated = v]
    /\ UNCHANGED <<server, responds, detection, checkins, agent, faults, history>>

\* ... and commits the level and the command, with no await in between: only threads
\* come between the two.
SetIsolation ==
    /\ setting.open
    /\ isolated' = setting.isolated
    /\ RewriteQueued(setting.cmds, Note)
    /\ setting' = Closed
    /\ UNCHANGED <<kind, status, responds, detection, checkins, agent, bounds,
                   executed, reported>>

\* telemetry() of a batch with a critical detection: the row it works on was
\* loaded before the alerts it awaits ...
Detect ==
    /\ LoopFree
    /\ Requests < MaxRequests
    /\ ~ detection.open
    /\ orders' = orders + 1
    /\ detection' = Loaded
    /\ UNCHANGED <<server, responds, setting, checkins, agent, faults, history>>

\* ... and dispatch_responses() isolates unless that row says it is done.
AutoIsolate ==
    /\ LoopFree
    /\ detection.open
    /\ IF detection.isolated
       THEN UNCHANGED <<pending, isolated, lost, revived>>
       ELSE isolated' = TRUE /\ RewriteQueued(detection.cmds, Note)
    /\ detection' = Closed
    /\ UNCHANGED <<kind, status, responds, setting, checkins, agent, bounds,
                   executed, reported>>

-------------------------------------------------------------------------------
(* Check-in.                                                               *)

\* checkin() of the agent: the agent's thread waits for the answer.
CheckinSend ==
    /\ pc = "idle" /\ turn # "stuck"
    /\ checkins' = checkins \cup
         {[epoch |-> epoch, stage |-> "sent", cmds |-> <<>>, isolated |-> FALSE]}
    /\ pc' = "waiting"
    /\ UNCHANGED <<server, handlers, epoch, todo, level, obeyed, outbox, turn,
                   bounds, history>>

Becomes(r, s) == checkins' = (checkins \ {r}) \cup {s}

\* require_agent(): the dependency loads the device row.
CheckinLoad(r) ==
    /\ r.stage = "sent"
    /\ Becomes(r, [r EXCEPT !.stage = "loaded", !.cmds = pending, !.isolated = isolated])
    /\ UNCHANGED <<server, handlers, agent, bounds, history>>

\* Fault: the commands stay queued.
Kept == pending

Emptied == <<>>

Reply(r) == [r EXCEPT !.stage = "answered"]

\* checkin() of the server: hand out the loaded commands and clear the column,
\* which is written only if that changes what was loaded.  A reply nobody waits
\* for is lost with its commands.
Checkin(r) ==
    /\ LoopFree
    /\ r.stage = "loaded"
    /\ pending' = IF r.cmds = <<>> THEN pending ELSE Emptied
    /\ lost' = lost \cup (IF r.cmds = <<>> THEN {} ELSE Overwritten(r.cmds))
                    \cup (IF r.epoch = epoch THEN {} ELSE Tasks(r.cmds))
    /\ IF r.epoch = epoch THEN Becomes(r, Reply(r)) ELSE checkins' = checkins \ {r}
    /\ UNCHANGED <<isolated, kind, status, handlers, agent, bounds,
                   executed, reported, revived>>

\* Fault: the isolation changes only with a command that says so.
CommandedLevel(r) == IF Note \in ToSet(r.cmds) THEN r.isolated ELSE level

RepliedLevel(r) == r.isolated

\* checkin() of the agent returns the reply it waits for.
CheckinReceive(r) ==
    /\ pc = "waiting"
    /\ r.stage = "answered" /\ r.epoch = epoch
    /\ todo' = r.cmds
    /\ level' = RepliedLevel(r)
    /\ pc' = "handling"
    /\ checkins' = checkins \ {r}
    /\ UNCHANGED <<server, handlers, epoch, obeyed, outbox, turn, bounds, history>>

Unread == {r \in checkins : r.stage = "answered"}

\* A turn of run() ends with flush(), which has nothing to do without results.
Flushing == IF outbox = <<>> THEN "idle" ELSE "flushing"

Fail ==
    /\ faults < MaxFaults
    /\ faults' = faults + 1

\* The agent waits no longer for its check-in: a reply on its way is lost.
GiveUp ==
    /\ Fail
    /\ epoch' = epoch + 1
    /\ checkins' = checkins \ Unread

\* checkin() of the agent: no answer in time, an error, or a lost reply.
CheckinTimeout ==
    /\ pc = "waiting"
    /\ GiveUp
    /\ pc' = Flushing
    /\ lost' = lost \cup UNION {Tasks(r.cmds) : r \in Unread}
    /\ UNCHANGED <<server, handlers, todo, level, obeyed, outbox, turn,
                   orders, executed, reported, revived>>

\* A check-in nobody waits for never reaches the server.
CheckinLost(r) ==
    /\ r.stage = "sent" /\ r.epoch # epoch
    /\ checkins' = checkins \ {r}
    /\ UNCHANGED <<server, handlers, agent, bounds, history>>

-------------------------------------------------------------------------------
(* The agent's loop.                                                       *)

IsTask(c) == c \in Action /\ kind[c] = "task"

\* handle_command() does nothing with isolate and release, whoever sent them.
HandleIgnored ==
    /\ pc = "handling" /\ todo # <<>>
    /\ ~ IsTask(Head(todo))
    /\ todo' = Tail(todo)
    /\ UNCHANGED <<server, handlers, checkins, pc, epoch, level, obeyed, outbox, turn,
                   bounds, history>>

\* handle_command(): the handler acts on the host ...
HandleTask ==
    /\ pc = "handling" /\ todo # <<>>
    /\ IsTask(Head(todo))
    /\ executed' = [executed EXCEPT ![Head(todo)] = @ + 1]
    /\ pc' = "reporting"
    /\ UNCHANGED <<server, handlers, checkins, epoch, todo, level, obeyed, outbox, turn,
                   bounds, reported, revived, lost>>

\* ... and reports how it went.
Report(s) ==
    /\ pc = "reporting"
    /\ outbox' = Append(outbox, [action |-> Head(todo), status |-> s])
    /\ reported' = [reported EXCEPT ![Head(todo)] = @ \cup {s}]
    /\ todo' = Tail(todo)
    /\ pc' = "handling"
    /\ UNCHANGED <<server, handlers, checkins, epoch, level, obeyed, turn, bounds,
                   executed, revived, lost>>

\* An exception in a handler: run() catches it and starts its next turn, without
\* the other commands, the isolation and the flush of this one.
Raise ==
    /\ pc = "reporting"
    /\ Fail
    /\ lost' = lost \cup Tasks(todo)
    /\ todo' = <<>>
    /\ pc' = "idle"
    /\ UNCHANGED <<server, handlers, checkins, epoch, level, obeyed, outbox, turn,
                   orders, executed, reported, revived>>

\* After the commands the blocklist and the policy are merged, and run() brings the
\* isolation to what the reply says.
ObeyIsolation ==
    /\ pc = "handling" /\ todo = <<>>
    /\ turn # "unmerged"
    /\ obeyed' = level
    /\ pc' = Flushing
    /\ UNCHANGED <<server, handlers, checkins, epoch, todo, level, outbox, turn,
                   bounds, history>>

\* apply_policy() raises on a setting it cannot iterate over: neither the level nor the
\* flush is come to.
MergeRaises ==
    /\ pc = "handling" /\ todo = <<>>
    /\ turn = "unmerged"
    /\ pc' = "idle"
    /\ UNCHANGED <<server, handlers, checkins, epoch, todo, level, obeyed, outbox, turn,
                   bounds, history>>

\* A turn between two check-ins has the results of an earlier one to flush.
FlushTurn ==
    /\ pc = "idle" /\ turn # "stuck"
    /\ outbox # <<>>
    /\ pc' = "flushing"
    /\ UNCHANGED <<server, handlers, checkins, epoch, todo, level, obeyed, outbox, turn,
                   bounds, history>>

\* What the turns meet is another policy or blocklist (PolicyDelivery), or the host's
\* files have changed.
TurnsMeet(t) ==
    /\ t # turn
    /\ IF t = "sound" THEN UNCHANGED faults ELSE Fail
    /\ turn' = t
    /\ UNCHANGED <<server, handlers, checkins, pc, epoch, todo, level, obeyed, outbox,
                   orders, history>>

\* The process dies and is started again.  Results not yet on disk are lost.
Crash(n) ==
    /\ GiveUp
    /\ lost' = lost \cup Tasks(todo)
                    \cup (UNION {Tasks(r.cmds) : r \in Unread})
                    \cup {outbox[i].action : i \in (n + 1)..Len(outbox)}
    /\ outbox' = SubSeq(outbox, 1, n)
    /\ todo' = <<>>
    /\ pc' = "idle"
    /\ level' = FALSE /\ obeyed' = FALSE
    /\ UNCHANGED <<server, handlers, turn, orders,
                   executed, reported, revived>>

-------------------------------------------------------------------------------
(* Results.  They travel with the telemetry, which arrives in order and at *)
(* least once (EventCustody): the server records them, and the agent       *)
(* forgets them, or sends them again after a flush that failed.            *)

\* Fault: a record may be settled again.
Reopened(a) == status[a] # "none"

Open(a) == status[a] = "queued"

Outcome(s) == IF s = "ok" THEN "completed" ELSE "failed"

\* record_result() for each of the results of a batch.
RecordResults(results) ==
    LET First(a) == {i \in DOMAIN results : /\ results[i].action = a
                                            /\ \A j \in 1..(i - 1) : results[j].action # a}
    IN  status' = [a \in Action |->
                     IF Open(a) /\ First(a) # {}
                     THEN Outcome(results[CHOOSE i \in First(a) : TRUE].status)
                     ELSE status[a]]

\* flush() and telemetry(): the batch is committed and acknowledged ...
Deliver ==
    /\ LoopFree
    /\ pc = "flushing"
    /\ RecordResults(outbox)
    /\ outbox' = <<>>
    /\ pc' = "idle"
    /\ UNCHANGED <<pending, isolated, kind, handlers, checkins, epoch, todo,
                   level, obeyed, turn, bounds, history>>

\* ... or the flush fails, before or after the commit.
DeliverFailed(committed) ==
    /\ pc = "flushing"
    /\ Fail
    /\ IF committed THEN LoopFree /\ RecordResults(outbox) ELSE UNCHANGED status
    /\ pc' = "idle"
    /\ UNCHANGED <<pending, isolated, kind, handlers, checkins, epoch, todo,
                   level, obeyed, outbox, turn, orders, history>>

-------------------------------------------------------------------------------
Respond == \E a \in Action : Dispatch(a) \/ \E k \in Kinds : RespondLoad(a, k)

CheckinServer == \E r \in checkins : CheckinLoad(r) \/ Checkin(r)

AgentReceive == CheckinTimeout \/ \E r \in checkins : CheckinReceive(r)

AgentLoop ==
    \/ HandleIgnored \/ HandleTask \/ ObeyIsolation \/ MergeRaises
    \/ \E s \in {"ok", "failed"} : Report(s)

Next ==
    \/ Respond
    \/ SetIsolation \/ \E v \in BOOLEAN : IsolationLoad(v)
    \/ Detect \/ AutoIsolate
    \/ CheckinServer
    \/ \E r \in checkins : CheckinLost(r)
    \/ CheckinSend \/ AgentReceive \/ AgentLoop \/ Raise \/ FlushTurn
    \/ \E t \in Turns : TurnsMeet(t)
    \/ \E n \in 0..Len(outbox) : Crash(n)
    \/ Deliver \/ \E c \in BOOLEAN : DeliverFailed(c)

Spec == Init /\ [][Next]_vars

\* Requests are handled to their end, run() checks in again and again while its turns come
\* to that, a request to the server times out, and telemetry is delivered in the end.
Fairness ==
    /\ WF_vars(\E a \in Action : Dispatch(a))
    /\ WF_vars(AutoIsolate)
    /\ WF_vars(SetIsolation)
    /\ WF_vars(CheckinServer)
    /\ WF_vars(CheckinSend)
    /\ WF_vars(AgentReceive)
    /\ WF_vars(AgentLoop)
    /\ WF_vars(Deliver)

FairSpec == Spec /\ Fairness

-------------------------------------------------------------------------------
(* Properties.                                                             *)

TypeOK ==
    /\ pending \in Seq(Command)
    /\ isolated \in BOOLEAN
    /\ kind \in [Action -> Kinds \cup {"none"}]
    /\ status \in [Action -> {"none", "queued", "completed", "failed"}]
    /\ responds \in [Action -> Copy]
    /\ detection \in Copy /\ setting \in Copy
    /\ checkins \subseteq [epoch : Nat, stage : Stages, cmds : Seq(Command), isolated : BOOLEAN]
    /\ pc \in {"idle", "waiting", "handling", "reporting", "flushing"}
    /\ epoch \in Nat
    /\ todo \in Seq(Command)
    /\ level \in BOOLEAN /\ obeyed \in BOOLEAN
    /\ outbox \in Seq(Result)
    /\ turn \in Turns
    /\ orders \in 0..MaxRequests /\ faults \in 0..MaxFaults
    /\ executed \in [Action -> Nat]
    /\ reported \in [Action -> SUBSET {"ok", "failed"}]
    /\ revived \in [Action -> Nat]
    /\ lost \subseteq Action

\* An action is executed once, and once more for each commit of a stale copy that
\* brought its command back: no timeout, retry or restart repeats a command.  Its
\* record is settled only as an execution of it reported (dispatch, check-in, the
\* handlers and record_result).
ExecutedAsRecorded ==
    \A a \in Action :
        /\ executed[a] =< 1 + revived[a]
        /\ status[a] = "completed" => "ok" \in reported[a]
        /\ status[a] = "failed" => "failed" \in reported[a]

\* The abstract ledger of actions this channel keeps: an order is granted one execution,
\* and each commit that brings a command back one more.
Granted == [a \in Action |-> revived[a] + IF status[a] = "none" THEN 0 ELSE 1]
Ledger == INSTANCE ActionLedger WITH record <- status, granted <- Granted

\* Whatever is lost, repeated or overwritten, the channel does to an action only what the
\* ledger allows: an execution that was granted, one result of each execution, and one
\* settling of its record, by a result reported of it.
ImplementsLedger == Ledger!LedgerSpec

\* In the end no turn of run() raises any more but for the commands it handles.
TurnsPass == <>[](turn = "sound")

\* If the turns pass in the end, a queued task is settled in the end, unless a lost reply,
\* an exception, a death of the agent or a stale commit cost its command or its result.
TasksSettle ==
    TurnsPass =>
      \A a \in Action :
        status[a] = "queued" /\ kind[a] = "task" ~> status[a] # "queued" \/ a \in lost

\* If the turns pass in the end, the agent ends up isolated as the server last decided,
\* though the commands isolate and release may be lost: every reply carries the level.
IsolationFollows ==
    TurnsPass => \A v \in BOOLEAN : <>[](isolated = v) => <>[](obeyed = v)

-------------------------------------------------------------------------------
(* The inductive invariant of ExecutedAsRecorded: where the command of an action may be, *)
(* and how often it may yet be executed.                                                 *)

Current == {r \in checkins : r.epoch = epoch}

\* The agent waits for one check-in at a time, and an answer is one it waits for.
OneCheckin ==
    /\ \A r \in checkins : r.epoch =< epoch /\ (r.stage = "answered" => r.epoch = epoch)
    /\ \A r, s \in Current : r = s
    /\ Current # {} => pc = "waiting"

HoldsTask == pc = "reporting" => todo # <<>> /\ Head(todo) \in Action

\* What is still to be executed of the commands handed out.
Left == IF pc = "reporting" THEN Tail(todo) ELSE todo

\* A command is queued by dispatch(), once.
QueuedOnce ==
    \A a \in Action :
        /\ kind[a] = "none" => ~ responds[a].open /\ status[a] = "none"
        /\ responds[a].open => status[a] = "none"

\* Every list of commands there is: in the column, loaded from it, or handed out.
Lists ==
    {pending, detection.cmds, setting.cmds, todo} \cup {responds[a].cmds : a \in Action}
        \cup {r.cmds : r \in checkins}

\* No list holds a task twice, or one that is not dispatched yet.
ListsSound ==
    \A cmds \in Lists :
        /\ \A i, j \in DOMAIN cmds : cmds[i] = cmds[j] => i = j \/ cmds[i] = Note
        /\ \A a \in Tasks(cmds) : status[a] # "none"

\* The agent may get the command of an action with its next answer, or has got it.
Awaits(a) ==
    a \in Tasks(pending) \/ \E r \in Current : r.stage = "loaded" /\ a \in Tasks(r.cmds)
Has(a) ==
    a \in Tasks(Left) \/ \E r \in Current : r.stage = "answered" /\ a \in Tasks(r.cmds)

Count(condition) == IF condition THEN 1 ELSE 0

\* Each dispatch and each revival accounts for one execution, past or to come.
ExecutionsCounted ==
    \A a \in Action :
        executed[a] + Count(Awaits(a)) + Count(Has(a)) =< Count(status[a] # "none") + revived[a]

ReportsAreReal ==
    \A i \in DOMAIN outbox : outbox[i].status \in reported[outbox[i].action]

SettledAsReported ==
    \A a \in Action :
        /\ status[a] = "completed" => "ok" \in reported[a]
        /\ status[a] = "failed" => "failed" \in reported[a]

ChannelInv ==
    /\ TypeOK
    /\ OneCheckin
    /\ HoldsTask
    /\ QueuedOnce
    /\ ListsSound
    /\ ExecutionsCounted
    /\ ReportsAreReal
    /\ SettledAsReported

\* What the refinement needs besides: each result reported is of another execution, but
\* for that of the execution under way.
ReportsCounted ==
    \A a \in Action :
        Cardinality(reported[a]) + Count(pc = "reporting" /\ Head(todo) = a) =< executed[a]

===============================================================================
