------------------------------ MODULE DeviceLife ------------------------------
(***************************************************************************)
(* One host of the fleet as the server sees it live and die: the agent's   *)
(* runs, its identity and update floor in the state file (agent main.py,   *)
(* telemetry.py, config.py, response_handlers.py), the device rows its     *)
(* requests keep alive (routers/agents.py), and the sweep that reports a   *)
(* device that has gone silent (monitor.py).                               *)
(*                                                                         *)
(* A request is served in two steps: require_agent() loads the row in a    *)
(* thread of the pool, and the handler's body, on the event loop up to its *)
(* commit, writes the columns it has changed from what was loaded.  The    *)
(* sweep is one step of the event loop.  Time is abstracted: a row has     *)
(* been silent for longer than the threshold, or not.                      *)
(*                                                                         *)
(* Definitions marked "Fault:" are not part of the model: each is a        *)
(* plausible mistake in the definition that follows it.                    *)
(***************************************************************************)
EXTENDS Naturals, Sequences, SequencesExt

CONSTANTS
    MaxDevices,   \* the plan's limit of devices
    MaxVersion,   \* bound: versions an update may have
    MaxLives,     \* bound: runs of the agent
    MaxFaults     \* bound: requests given up, answers lost, outages, evictions, renamings

ASSUME LifeAssumption ==
    /\ MaxDevices \in Nat \ {0}
    /\ {MaxVersion, MaxLives, MaxFaults} \subseteq Nat

VARIABLES
    (* the server *)
    rows,      \* Device rows, in the order of enrolment
    requests,  \* requests under way, each with the columns loaded for it
    (* the agent *)
    pc,        \* where run() is
    me,        \* the device the agent runs as, or last ran as (0: none)
    buffer,    \* agent/started and agent/stopped events not known to be delivered
    file,      \* the state file
    update,    \* the state that set_update_floor() is about to write
    hostkey,   \* the key of the state file's MAC, derived from the host's name
    (* bounds and history *)
    lives, faults,
    ended,     \* how the last run that came online ended
    alerts,    \* device_unresponsive events of a device since it was last heard
    late,      \* devices marked by telemetry that the agent had given up, or not marked
               \* since the buffer has evicted their start
    crossed,   \* devices last heard in a request that a report has overtaken
    best       \* the highest version accepted since the state file was created

server == <<rows, requests>>
agent == <<pc, me, buffer, file, update, hostkey>>
bounds == <<lives, faults>>
history == <<ended, alerts, late, crossed, best>>
lifeVars == <<server, agent, bounds, history>>

Device == 1..MaxDevices
Version == 0..MaxVersion    \* 0: a target like "latest", or no floor
Event == {"started", "stopped"}
Key == {"old", "new"}

Row == [silent : BOOLEAN, stopped : BOOLEAN, alerted : BOOLEAN]
NewRow == [silent |-> FALSE, stopped |-> FALSE, alerted |-> FALSE]

\* A request carries events, or none (a check-in, an inventory); it is open as long
\* as the agent waits for its answer.
Request == [device : Device, events : Seq(Event), stage : {"sent", "loaded", "done"},
            open : BOOLEAN, stopped : BOOLEAN, alerted : BOOLEAN]

Torn == [device |-> 0, floor |-> 0, key |-> "old"]
File == [device : 0..MaxDevices, floor : Version, key : Key]

Offline == {"down", "enrolling", "saving"}
Waiting == {"contacting", "flushing", "last"}

LifeInit ==
    /\ rows = <<>> /\ requests = {}
    /\ pc = "down" /\ me = 0 /\ buffer = <<>>
    /\ file = Torn /\ update = Torn /\ hostkey = "old"
    /\ lives = 0 /\ faults = 0
    /\ ended = "clean" /\ best = 0 /\ late = {} /\ crossed = {}
    /\ alerts = [d \in Device |-> 0]

Fail ==
    /\ faults < MaxFaults
    /\ faults' = faults + 1

-------------------------------------------------------------------------------
(* Identity.                                                               *)

Start ==
    /\ pc = "down"
    /\ lives < MaxLives
    /\ lives' = lives + 1
    /\ pc' = "enrolling"
    /\ UNCHANGED <<server, me, buffer, file, update, hostkey, faults, history>>

\* has_credentials() and is_authentic().
Recognised == file.device # 0 /\ file.key = hostkey

\* run() emits agent/started once ensure_enrolled() has returned.
ComeOnline ==
    /\ buffer' = Append(buffer, "started")
    /\ pc' = "turn"
    /\ ended' = "running"

\* ensure_enrolled() with the credentials of the state file ...
Resume ==
    /\ pc = "enrolling"
    /\ Recognised
    /\ me' = file.device
    /\ ComeOnline
    /\ UNCHANGED <<server, file, update, hostkey, bounds, alerts, late, crossed, best>>

\* entitlements_for() and enroll(): the limit.
WithinLimit == Len(rows) < MaxDevices

\* ... or with new ones from enroll(); save_state() truncates the file first.  A row
\* whose answer is lost stays behind, and the agent tries again.
Enrol(answered) ==
    /\ pc = "enrolling"
    /\ ~ Recognised
    /\ WithinLimit
    /\ rows' = Append(rows, NewRow)
    /\ IF answered
       THEN me' = Len(rows) + 1 /\ file' = Torn /\ pc' = "saving" /\ UNCHANGED faults
       ELSE Fail /\ UNCHANGED <<me, file, pc>>
    /\ UNCHANGED <<requests, buffer, update, hostkey, lives, history>>

\* save_state(): nothing of the old file is carried over.
SaveState ==
    /\ pc = "saving"
    /\ file' = [device |-> me, floor |-> 0, key |-> hostkey]
    /\ best' = 0
    /\ ComeOnline
    /\ UNCHANGED <<server, me, update, hostkey, bounds, alerts, late, crossed>>

\* The host is renamed: without SG_TAMPER_KEY the MAC's key changes with it.
Rename ==
    /\ hostkey = "old"
    /\ Fail
    /\ hostkey' = "new"
    /\ UNCHANGED <<server, pc, me, buffer, file, update, lives, history>>

-------------------------------------------------------------------------------
(* Requests of the agent.                                                  *)

Send(evs) ==
    requests' = requests \cup
      {[device |-> me, events |-> evs, stage |-> "sent", open |-> TRUE,
        stopped |-> FALSE, alerted |-> FALSE]}

Open == {r \in requests : r.open}
Abandoned == {[r EXCEPT !.open = FALSE] : r \in {q \in Open : q.stage # "done"}}

\* A turn of run() reports the inventory or checks in, when it is time ...
Contact ==
    /\ pc = "turn"
    /\ Send(<<>>)
    /\ pc' = "contacting"
    /\ UNCHANGED <<rows, me, buffer, file, update, hostkey, bounds, history>>

Obeyed ==
    /\ pc \in {"turn", "obeying"}
    /\ pc' = "flush"
    /\ UNCHANGED <<server, me, buffer, file, update, hostkey, bounds, history>>

\* ... and ends with flush(), which sends the whole buffer.
Flush ==
    /\ pc = "flush"
    /\ IF buffer = <<>>
       THEN pc' = "turn" /\ UNCHANGED requests
       ELSE pc' = "flushing" /\ Send(buffer)
    /\ UNCHANGED <<rows, me, buffer, file, update, hostkey, bounds, history>>

\* MAX_BUFFER newer events, which the model leaves out, push the oldest of these out.
Evict ==
    /\ pc \in {"turn", "obeying"}
    /\ buffer # <<>>
    /\ Fail
    /\ buffer' = Tail(buffer)
    /\ late' = IF Head(buffer) = "started" THEN late \cup {me} ELSE late
    /\ UNCHANGED <<server, pc, me, file, update, hostkey, lives, ended, alerts, crossed, best>>

\* SIGTERM between two turns: agent/stopped is emitted, flushed once, and run() exits.
Stop ==
    /\ pc = "turn"
    /\ buffer' = Append(buffer, "stopped")
    /\ Send(Append(buffer, "stopped"))
    /\ pc' = "last"
    /\ UNCHANGED <<rows, me, file, update, hostkey, bounds, history>>

\* What follows an answer, or its absence; run() ends after its last flush.
Then(answered) ==
    CASE pc = "contacting" -> IF answered THEN "obeying" ELSE "flush"
      [] pc = "flushing" -> "turn"
      [] pc = "last" -> "down"

Exit == ended' = IF pc = "last" THEN "clean" ELSE ended

\* The answer arrives: a flush forgets what it has delivered.
Answer ==
    /\ pc \in Waiting
    /\ \E r \in Open :
         /\ r.stage = "done"
         /\ requests' = requests \ {r}
         /\ buffer' = IF r.events = <<>> THEN buffer ELSE <<>>
    /\ pc' = Then(TRUE)
    /\ Exit
    /\ UNCHANGED <<rows, me, file, update, hostkey, bounds, alerts, late, crossed, best>>

\* No answer in time: the request may still reach the server, or not.
GiveUp(reaches) ==
    /\ pc \in Waiting
    /\ Fail
    /\ requests' = (requests \ Open) \cup (IF reaches THEN Abandoned ELSE {})
    /\ pc' = Then(FALSE)
    /\ Exit
    /\ UNCHANGED <<rows, me, buffer, file, update, hostkey, lives, alerts, late, crossed, best>>

\* The agent is killed, or the host goes down.
Kill ==
    /\ pc # "down"
    /\ pc' = "down"
    /\ requests' = (requests \ Open) \cup Abandoned
    /\ ended' = IF pc \in Offline THEN ended ELSE IF pc = "last" THEN "clean" ELSE "killed"
    /\ update' = Torn
    /\ UNCHANGED <<rows, me, buffer, file, hostkey, bounds, alerts, late, crossed, best>>

-------------------------------------------------------------------------------
(* The update floor.                                                       *)

\* Fault: the floor follows every target.
Differs(v, floor) == v # floor

\* version_gt(), with no floor below any version.
Advances(v, floor) == v > floor

\* remote_update() of a verified manifest: a rollback below the floor is refused
\* unless the manifest allows it; a target without a number is not compared.
Accepts(v, rollback) == v = 0 \/ v >= file.floor \/ rollback

\* The verdict; set_update_floor() reads the file and truncates it ...
Update(v, rollback) ==
    /\ pc = "obeying"
    /\ Accepts(v, rollback)
    /\ IF v # 0 /\ Advances(v, file.floor)
       THEN update' = [file EXCEPT !.floor = v] /\ file' = Torn /\ pc' = "floor"
            /\ UNCHANGED best
       ELSE best' = (IF v > best THEN v ELSE best) /\ UNCHANGED <<update, file, pc>>
    /\ UNCHANGED <<server, me, buffer, hostkey, bounds, ended, alerts, late, crossed>>

\* ... writes it anew, signed, and the update is acknowledged.
SetFloor ==
    /\ pc = "floor"
    /\ file' = [update EXCEPT !.key = hostkey]
    /\ best' = IF update.floor > best THEN update.floor ELSE best
    /\ update' = Torn
    /\ pc' = "obeying"
    /\ UNCHANGED <<server, me, buffer, hostkey, bounds, ended, alerts, late, crossed>>

-------------------------------------------------------------------------------
(* The server.                                                             *)

Becomes(r, s) == requests' = (requests \ {r}) \cup s

\* require_agent().
RequireAgent(r) ==
    /\ r.stage = "sent"
    /\ Becomes(r, {[r EXCEPT !.stage = "loaded", !.stopped = rows[r.device].stopped,
                            !.alerted = rows[r.device].alerted]})
    /\ UNCHANGED <<rows, agent, bounds, history>>

\* A column is written if the handler changed it from what it loaded.
WriteColumn(loaded, new, now) == IF new = loaded THEN now ELSE new

\* telemetry() follows the events of the batch, one after the other.
StoppedAfter(r) == IF r.events = <<>> THEN r.stopped ELSE Last(r.events) = "stopped"

\* Fault: only telemetry clears the flag.
ClearedByEvents(r) == IF r.events = <<>> THEN r.alerted ELSE FALSE

Cleared(r) == FALSE

\* telemetry(), checkin() and report_inventory().
Commit(r) ==
    /\ r.stage = "loaded"
    /\ rows' = [rows EXCEPT ![r.device] =
         [silent  |-> FALSE,
          stopped |-> WriteColumn(r.stopped, StoppedAfter(r), @.stopped),
          alerted |-> WriteColumn(r.alerted, Cleared(r), @.alerted)]]
    /\ Becomes(r, IF r.open THEN {[r EXCEPT !.stage = "done"]} ELSE {})
    /\ alerts' = [alerts EXCEPT ![r.device] = 0]
    /\ late' = late \cup (IF r.open \/ r.events = <<>> THEN {} ELSE {r.device})
    /\ crossed' = IF ~ r.alerted /\ rows[r.device].alerted
                  THEN crossed \cup {r.device} ELSE crossed \ {r.device}
    /\ UNCHANGED <<agent, bounds, ended, best>>

\* last_seen falls behind the threshold: nobody speaks for the device, or the network
\* is out.
Silence(d) ==
    /\ ~ rows[d].silent
    /\ IF pc \in Offline \/ me # d THEN UNCHANGED faults ELSE Fail
    /\ rows' = [rows EXCEPT ![d].silent = TRUE]
    /\ UNCHANGED <<requests, agent, lives, history>>

\* Fault: a report is not remembered.
Unflagged(row) == row

Flagged(row) == [row EXCEPT !.alerted = TRUE]

\* check_once() on one device: silent, not stopped and not yet reported.
Sweep(d) ==
    /\ rows[d].silent /\ ~ rows[d].stopped /\ ~ rows[d].alerted
    /\ rows' = [rows EXCEPT ![d] = Flagged(@)]
    /\ alerts' = [alerts EXCEPT ![d] = @ + 1]
    /\ UNCHANGED <<requests, agent, bounds, ended, late, crossed, best>>

-------------------------------------------------------------------------------
LifeNext ==
    \/ Start \/ Resume \/ SaveState \/ Rename
    \/ Contact \/ Obeyed \/ Flush \/ Evict \/ Stop \/ Answer \/ Kill \/ SetFloor
    \/ \E b \in BOOLEAN : Enrol(b) \/ GiveUp(b)
    \/ \E v \in Version, b \in BOOLEAN : Update(v, b)
    \/ \E r \in requests : RequireAgent(r) \/ Commit(r)
    \/ \E d \in DOMAIN rows : Silence(d) \/ Sweep(d)

LifeSpec == LifeInit /\ [][LifeNext]_lifeVars

\* run_monitor_loop() sweeps for ever; a device nobody speaks for goes silent.
Fairness ==
    \A d \in Device :
        /\ WF_lifeVars(d \in DOMAIN rows /\ Sweep(d))
        /\ WF_lifeVars(d \in DOMAIN rows /\ pc = "down" /\ Silence(d))

FairSpec == LifeSpec /\ Fairness

-------------------------------------------------------------------------------
(* Properties.                                                             *)

\* The row of a device says stopped although its agent was online when it died: the
\* start was not delivered, or evicted, or a stop came late.
Misled(d) == d \in DOMAIN rows /\ rows[d].stopped /\ ("started" \in ToSet(buffer) \/ d \in late)

\* It says reported although nothing was since it was last heard: the report came
\* between the load and the commit of a request.
Masked(d) == d \in DOMAIN rows /\ rows[d].alerted /\ d \in crossed

\* An agent that was killed and does not come back is reported, unless its row is
\* misled or masked (run, telemetry and check_once).
KillsSurface ==
    \A d \in Device :
        pc = "down" /\ ended = "killed" /\ me = d
          ~> pc # "down" \/ alerts[d] > 0 \/ Misled(d) \/ Masked(d)

\* The abstract watch over the devices.
Watch == INSTANCE SilenceWatch WITH
    silent  <- {d \in DOMAIN rows : rows[d].silent},
    reports <- alerts,
    masked  <- crossed

\* A silent device is reported once until it is heard again, whatever requests cross the
\* sweep; the only report that is missed is of a device whose last one came between the
\* load and the commit of the request it was last heard in.
ImplementsWatch == Watch!WatchSpec

\* No update can be accepted that is older than one accepted before, unless its
\* manifest allows it or the state file was created anew since (remote_update,
\* set_update_floor, ensure_enrolled).
NoRollback ==
    pc = "obeying" => \A v \in Version \ {0} : Accepts(v, FALSE) => v >= best

-------------------------------------------------------------------------------
(* The inductive invariant from which NoRollback is proved.                *)

LifeTypeOK ==
    /\ rows \in Seq(Row) /\ Len(rows) <= MaxDevices
    /\ requests \subseteq Request
    /\ pc \in Offline \cup Waiting \cup {"turn", "obeying", "floor", "flush"}
    /\ me \in 0..MaxDevices
    /\ buffer \in Seq(Event)
    /\ file \in File /\ update \in File /\ hostkey \in Key
    /\ lives \in 0..MaxLives /\ faults \in 0..MaxFaults
    /\ ended \in {"clean", "running", "killed"}
    /\ alerts \in [Device -> Nat]
    /\ late \subseteq Device /\ crossed \subseteq Device
    /\ best \in Version

\* The agent and its requests speak for devices that have a row.
Identified ==
    /\ {file.device, update.device} \subseteq 0..Len(rows)
    /\ pc \notin {"down", "enrolling"} => me \in DOMAIN rows
    /\ \A r \in requests : r.device \in DOMAIN rows

\* A state file that names a device holds the highest version accepted under it, and
\* while the agent is online there is one, or set_update_floor() is writing it.
FloorHolds ==
    /\ file.device # 0 => file.floor >= best
    /\ pc \notin Offline \cup {"floor"} => file.device # 0
    /\ pc = "floor" => update.device # 0 /\ update.floor >= best

LifeInv == LifeTypeOK /\ Identified /\ FloorHolds

\* What the refinement needs besides: a row is flagged exactly if its device was reported
\* since it was last heard, or heard in a request that a report has crossed.
FlagIsReport ==
    \A d \in Device :
        /\ alerts[d] \in {0, 1}
        /\ alerts[d] = 1 \/ d \in crossed <=> d \in DOMAIN rows /\ rows[d].alerted

===============================================================================
