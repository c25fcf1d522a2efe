---------------------------- MODULE QuarantineStore ----------------------------
(***************************************************************************)
(* Quarantine, from the host to the dashboard: files are moved into the    *)
(* agent's store and listed in its manifest, a JSON file rewritten on each *)
(* change (agent quarantine.py); the drop monitor takes known-bad files    *)
(* that appear (monitors/file_drop.py), the port watchdog, the YARA        *)
(* scanner and delete_file take others; the server mirrors the agent's     *)
(* events in quarantine_items (routers/agents.py) and queues restores      *)
(* (routers/admin.py).                                                     *)
(*                                                                         *)
(* Commands and events travel as in CommandChannel and EventCustody: a     *)
(* reply with commands may be lost, events arrive in order and at least    *)
(* once.  All files here are known-bad, and the store is on the volume of  *)
(* the files, so that a move is one rename.                                *)
(*                                                                         *)
(* Definitions marked "Fault:" are not part of the model: each is a        *)
(* plausible mistake in the definition that follows it.                    *)
(***************************************************************************)
EXTENDS Naturals, Sequences, FiniteSets, SequencesExt

CONSTANTS
    Files,     \* the files a monitor may take, by path
    MaxTaken,  \* bound: quarantines, which are also the ids
    MaxDrops,  \* bound: files dropped
    MaxAsked,  \* bound: restores asked for
    MaxFaults  \* bound: lost replies and acknowledgements, disk errors, deaths

ASSUME StoreAssumption ==
    /\ {MaxTaken, MaxDrops, MaxAsked, MaxFaults} \subseteq Nat
    /\ "none" \notin Files    \* which stands for no file

VARIABLES
    (* the host *)
    origin,    \* files at their original path
    store,     \* files in the quarantine directory: which file an id is
    manifest,  \* what _load_manifest() would return
    (* the agent's thread *)
    job,       \* the quarantine or restore under way
    scan,      \* files file_drop's scan has still to handle, and what it listed
    baselined, \* FileDropMonitor._baselined
    seen,      \* FileDropMonitor._seen
    todo,      \* restore commands of the last check-in
    outbox,    \* events the server does not yet hold
    (* the server *)
    told,      \* ids some stored event tells of
    items,     \* QuarantineItem.status
    pending,   \* restore commands in Device.pending_commands
    (* bounds and history *)
    taken, drops, asked, faults,
    cut,       \* ids whose quarantine or restore a death or a disk error has cut
    unheard    \* ids of which a command or an event has been lost

host == <<origin, store, manifest>>
server == <<told, items, pending>>
bounds == <<taken, drops, asked, faults>>
monitor == <<baselined, seen>>
vars == <<host, job, scan, monitor, todo, outbox, server, bounds, cut, unheard>>

Id == 1..MaxTaken
\* The server mirrors the events of file_drop and quarantine, and no others.
Source == {"mirrored", "other"}
Entry == [id : Id, file : Files, source : Source, status : {"quarantined", "restored"}]
Event == [action : {"quarantined", "restored", "restore_failed"}, id : Id, source : Source]

NoJob == [step |-> "none"]

\* The file is moved, the manifest is open and empty, or it is written; then the
\* event is emitted.
Job == {NoJob} \cup [step : {"moved", "opened", "written"}, entries : Seq(Entry), event : Event]

NoScan == [on |-> FALSE, new |-> {}, listed |-> {}]

Init ==
    /\ origin = {} /\ store = [i \in Id |-> "none"] /\ manifest = <<>>
    /\ job = NoJob /\ scan = NoScan /\ baselined = FALSE /\ seen = {}
    /\ todo = <<>> /\ outbox = <<>>
    /\ told = {} /\ items = [i \in Id |-> "none"] /\ pending = <<>>
    /\ taken = 0 /\ drops = 0 /\ asked = [i \in Id |-> 0] /\ faults = 0
    /\ cut = {} /\ unheard = {}

-------------------------------------------------------------------------------
(* The host and the drop monitor.                                          *)

\* Somebody drops a file, again perhaps.
Drop(f) ==
    /\ drops < MaxDrops
    /\ f \notin origin
    /\ drops' = drops + 1
    /\ origin' = origin \cup {f}
    /\ UNCHANGED <<store, manifest, job, scan, monitor, todo, outbox, server,
                   taken, asked, faults, cut, unheard>>

\* scan(): the first one only records what is there.
ScanBaseline ==
    /\ job = NoJob /\ ~ scan.on
    /\ ~ baselined
    /\ baselined' = TRUE
    /\ seen' = origin
    /\ UNCHANGED <<host, job, scan, todo, outbox, server, bounds, cut, unheard>>

ScanStart ==
    /\ job = NoJob /\ ~ scan.on
    /\ baselined
    /\ scan' = [on |-> TRUE, new |-> origin \ seen, listed |-> origin]
    /\ UNCHANGED <<host, job, monitor, todo, outbox, server, bounds, cut, unheard>>

ScanEnd ==
    /\ job = NoJob /\ scan.on
    /\ scan.new = {}
    /\ seen' = scan.listed
    /\ scan' = NoScan
    /\ UNCHANGED <<baselined, host, job, todo, outbox, server, bounds, cut, unheard>>

-------------------------------------------------------------------------------
(* QuarantineManager.                                                      *)

\* Fault: the list starts anew.
Alone(entry) == <<entry>>

Listed(entry) == Append(manifest, entry)

\* quarantine(): the file is moved and its entry appended to the loaded list.
Take(f, source) ==
    /\ taken < MaxTaken
    /\ taken' = taken + 1
    /\ origin' = origin \ {f}
    /\ store' = [store EXCEPT ![taken + 1] = f]
    /\ job' = [step |-> "moved",
               entries |-> Listed([id |-> taken + 1, file |-> f, source |-> source,
                                   status |-> "quarantined"]),
               event |-> [action |-> "quarantined", id |-> taken + 1, source |-> source]]
    /\ UNCHANGED <<manifest, monitor, outbox, server, drops, asked, faults, cut, unheard>>

\* _handle_new_file() takes a known-bad file; one that is gone is left alone.
TakeDropped(f) ==
    /\ job = NoJob
    /\ f \in scan.new
    /\ scan' = [scan EXCEPT !.new = @ \ {f}]
    /\ IF f \in origin
       THEN Take(f, "mirrored")
       ELSE UNCHANGED <<host, job, monitor, outbox, server, bounds, cut, unheard>>
    /\ UNCHANGED todo

\* The watchdog takes the file of a process it has killed (mirrored), or yara_scanner
\* or delete_file take a file (other).
TakeOther(f, source) ==
    /\ job = NoJob /\ ~ scan.on
    /\ f \in origin
    /\ Take(f, source)
    /\ UNCHANGED <<scan, todo>>

\* The entry restore() looks for.
Restorable(i) == {k \in DOMAIN manifest : manifest[k].id = i /\ manifest[k].status = "quarantined"}

Restored(k) == [manifest EXCEPT ![k].status = "restored"]

\* restore(): the file is moved back, over whatever is there, and its entry marked.
RestoreStart ==
    /\ job = NoJob /\ ~ scan.on
    /\ todo # <<>>
    /\ \E k \in Restorable(Head(todo)) :
         /\ store[Head(todo)] # "none"
         /\ origin' = origin \cup {manifest[k].file}
         /\ store' = [store EXCEPT ![Head(todo)] = "none"]
         /\ job' = [step |-> "moved", entries |-> Restored(k),
                    event |-> [action |-> "restored", id |-> Head(todo), source |-> "mirrored"]]
    /\ todo' = Tail(todo)
    /\ UNCHANGED <<manifest, scan, monitor, outbox, server, bounds, cut, unheard>>

\* restore(): the id is unknown, restored already, or its file cannot be moved.
RestoreFails ==
    /\ job = NoJob /\ ~ scan.on
    /\ todo # <<>>
    /\ \A k \in Restorable(Head(todo)) : store[Head(todo)] = "none"
    /\ outbox' = Append(outbox, [action |-> "restore_failed", id |-> Head(todo),
                                 source |-> "mirrored"])
    /\ todo' = Tail(todo)
    /\ UNCHANGED <<host, job, scan, monitor, server, bounds, cut, unheard>>

\* _save_manifest(): write_text() opens the file for writing, which empties it ...
ManifestOpen ==
    /\ job.step = "moved"
    /\ manifest' = <<>>
    /\ job' = [job EXCEPT !.step = "opened"]
    /\ UNCHANGED <<origin, store, scan, monitor, todo, outbox, server, bounds, cut, unheard>>

\* ... and writes the list.
ManifestWrite ==
    /\ job.step = "opened"
    /\ manifest' = job.entries
    /\ job' = [job EXCEPT !.step = "written"]
    /\ UNCHANGED <<origin, store, scan, monitor, todo, outbox, server, bounds, cut, unheard>>

\* The event is emitted.
JobDone ==
    /\ job.step = "written"
    /\ outbox' = Append(outbox, job.event)
    /\ job' = NoJob
    /\ UNCHANGED <<host, scan, monitor, todo, server, bounds, cut, unheard>>

Fail ==
    /\ faults < MaxFaults
    /\ faults' = faults + 1

\* What is lost with the work of the agent's thread: the job, the entries of the
\* list it was about to write, and the commands still to be handled.
Abandon ==
    /\ job' = NoJob /\ scan' = NoScan /\ todo' = <<>>
    /\ cut' = cut \cup (IF job.step \in {"moved", "opened"} THEN {job.event.id} ELSE {})
                  \cup (IF job.step = "opened"
                        THEN {job.entries[k].id : k \in DOMAIN job.entries} ELSE {})
    /\ unheard' = unheard \cup ToSet(todo) \cup (IF job = NoJob THEN {} ELSE {job.event.id})

\* An OSError of the open or of the write reaches run(), which starts its next turn.
ManifestFails ==
    /\ Fail
    /\ job.step \in {"moved", "opened"}
    /\ Abandon
    /\ UNCHANGED <<host, monitor, outbox, server, taken, drops, asked>>

\* The process dies and is started again.
Crash ==
    /\ Fail
    /\ Abandon
    /\ baselined' = FALSE /\ seen' = {}
    /\ UNCHANGED <<host, outbox, server, taken, drops, asked>>

-------------------------------------------------------------------------------
(* Commands and events.                                                    *)

AskedInAll == FoldSeq(LAMBDA i, n : asked[i] + n, 0, [i \in Id |-> i])

Ask(i) ==
    /\ AskedInAll < MaxAsked
    /\ asked' = [asked EXCEPT ![i] = @ + 1]
    /\ pending' = Append(pending, i)

\* restore_quarantine() knows the item, and it is not restored.
MayRequest(i) == items[i] \notin {"none", "restored"}

RequestRestore(i) ==
    /\ MayRequest(i)
    /\ Ask(i)
    /\ items' = [items EXCEPT ![i] = "restore_requested"]
    /\ UNCHANGED <<host, job, scan, monitor, todo, outbox, told, taken, drops, faults, cut, unheard>>

\* respond() with restore_file, for an id that some stored event tells.
RespondRestore(i) ==
    /\ i \in told
    /\ Ask(i)
    /\ UNCHANGED <<host, job, scan, monitor, todo, outbox, told, items, taken, drops, faults, cut, unheard>>

\* A check-in hands over the commands ...
Checkin ==
    /\ job = NoJob /\ ~ scan.on /\ todo = <<>>
    /\ pending # <<>>
    /\ todo' = pending
    /\ pending' = <<>>
    /\ UNCHANGED <<host, job, scan, monitor, outbox, told, items, bounds, cut, unheard>>

\* ... or its reply is lost.
CheckinLost ==
    /\ Fail
    /\ pending # <<>>
    /\ unheard' = unheard \cup ToSet(pending)
    /\ pending' = <<>>
    /\ UNCHANGED <<host, job, scan, monitor, todo, outbox, told, items, taken, drops, asked, cut>>

\* Fault: an item, once known, stays as it is.
ChangesUnknown(e, known) == ~ known /\ e.action = "quarantined"

\* _sync_quarantine(): a quarantine makes an item; a restore, or one that failed, changes
\* an item there was before the batch.
Changes(e, known) == known <=> e.action # "quarantined"

MirroredStatus(e) == IF e.action = "restored" THEN "restored" ELSE "quarantined"

\* The events of the mirrored sources that change item i; the last of them counts.
Mirrored(batch, i) ==
    {k \in DOMAIN batch : /\ batch[k].id = i /\ batch[k].source = "mirrored"
                          /\ Changes(batch[k], items[i] # "none")}

LastOf(ks) == CHOOSE k \in ks : \A j \in ks : j <= k

\* telemetry() stores a batch and mirrors it.
Sync(batch) ==
    /\ told' = told \cup {batch[k].id : k \in DOMAIN batch}
    /\ items' = [i \in Id |-> IF Mirrored(batch, i) = {} THEN items[i]
                              ELSE MirroredStatus(batch[LastOf(Mirrored(batch, i))])]

\* The batch is stored, and acknowledged or not.
Deliver ==
    /\ job = NoJob /\ ~ scan.on
    /\ outbox # <<>>
    /\ Sync(outbox)
    /\ outbox' = <<>>
    /\ UNCHANGED <<host, job, scan, monitor, todo, pending, bounds, cut, unheard>>

DeliverUnacknowledged ==
    /\ Fail
    /\ job = NoJob /\ ~ scan.on
    /\ outbox # <<>>
    /\ Sync(outbox)
    /\ UNCHANGED <<host, job, scan, monitor, todo, outbox, pending, taken, drops, asked, cut, unheard>>

-------------------------------------------------------------------------------
Next ==
    \/ \E f \in Files :
         \/ Drop(f) \/ TakeDropped(f)
         \/ \E source \in Source : TakeOther(f, source)
    \/ ScanBaseline \/ ScanStart \/ ScanEnd
    \/ RestoreStart \/ RestoreFails
    \/ ManifestOpen \/ ManifestWrite \/ JobDone \/ ManifestFails \/ Crash
    \/ \E i \in Id : RequestRestore(i) \/ RespondRestore(i)
    \/ Checkin \/ CheckinLost \/ Deliver \/ DeliverUnacknowledged

Spec == Init /\ [][Next]_vars

-------------------------------------------------------------------------------
(* Properties.                                                             *)

Quiet == job = NoJob

\* A quarantined file can be restored: it is in the store if and only if the
\* manifest lists it so, unless a death or a disk error cut a quarantine or a
\* restore, of that file or while the manifest was being written.
StoreMatchesManifest ==
    Quiet => \A i \in 1..taken :
        \/ i \in cut
        \/ store[i] # "none" <=> Restorable(i) # {}

\* The dashboard tells what became of a file the drop monitor or the watchdog took,
\* once commands and events have arrived: unless one was lost, or a restore was
\* asked for twice.
MirrorTellsTruth ==
    Quiet /\ outbox = <<>> /\ todo = <<>> /\ pending = <<>> =>
        \A k \in DOMAIN manifest :
            LET e == manifest[k]
            IN  e.source = "mirrored" =>
                    \/ e.id \in unheard \/ asked[e.id] > 1
                    \/ items[e.id] = e.status

-------------------------------------------------------------------------------
(* The inductive invariant from which both are proved.                     *)

TypeOK ==
    /\ origin \subseteq Files
    /\ store \in [Id -> Files \cup {"none"}]
    /\ manifest \in Seq(Entry)
    /\ job \in Job
    /\ scan \in [on : BOOLEAN, new : SUBSET Files, listed : SUBSET Files]
    /\ baselined \in BOOLEAN /\ seen \subseteq Files
    /\ todo \in Seq(Id) /\ pending \in Seq(Id)
    /\ outbox \in Seq(Event)
    /\ told \subseteq Id
    /\ items \in [Id -> {"none", "quarantined", "restore_requested", "restored"}]
    /\ taken \in 0..MaxTaken /\ drops \in 0..MaxDrops /\ faults \in 0..MaxFaults
    /\ asked \in [Id -> Nat]
    /\ cut \subseteq Id /\ unheard \subseteq Id

\* The ids of a list are those of quarantines begun, each once.
Sound(list) ==
    \A k \in DOMAIN list :
        /\ list[k].id <= taken
        /\ \A l \in DOMAIN list : list[l].id = list[k].id => l = k

Held(list, i) == \E k \in DOMAIN list : list[k].id = i /\ list[k].status = "quarantined"

Agrees(list, i) == i \in cut \/ (store[i] # "none" <=> Held(list, i))

\* The store agrees with the manifest, or with the list about to replace it.
StoreAgrees ==
    /\ Sound(manifest)
    /\ Quiet => \A i \in 1..taken : Agrees(manifest, i)
    /\ ~ Quiet => /\ Sound(job.entries) /\ job.event.id <= taken
                  /\ \A i \in 1..taken : Agrees(job.entries, i)
    /\ job.step = "moved" => \A i \in (1..taken) \ {job.event.id} : Agrees(manifest, i)
    /\ job.step = "opened" => manifest = <<>>
    /\ job.step = "written" => manifest = job.entries

\* Commands for an id that the agent has yet to handle, and what became of them.
Commanded(i) == i \in ToSet(pending) \cup ToSet(todo)
Outcomes(i) == {k \in DOMAIN outbox : outbox[k].id = i /\ outbox[k].action # "quarantined"}
Restoring(i) == ~ Quiet /\ job.event.id = i /\ job.event.action # "quarantined"

\* Nothing is known of an id not given out, and a restore has only the mirrored source.
EventsSound ==
    /\ \A i \in Id : i > taken => asked[i] = 0 /\ items[i] = "none" /\ i \notin told
    /\ \A k \in DOMAIN outbox :
         /\ outbox[k].id <= taken
         /\ outbox[k].action # "quarantined" => outbox[k].source = "mirrored"
    /\ ~ Quiet /\ job.event.action # "quarantined" =>
         job.event.action = "restored" /\ job.event.source = "mirrored"

Single(queue, i) == \A k, l \in DOMAIN queue : queue[k] = i /\ queue[l] = i => k = l

\* A restore asked for once is on its way once, or handled.
AskedOnce ==
    \A i \in Id :
        /\ Commanded(i) \/ Outcomes(i) # {} \/ Restoring(i) => asked[i] > 0
        /\ asked[i] = 1 =>
             /\ Single(pending, i) /\ Single(todo, i)
             /\ i \in ToSet(todo) => i \notin ToSet(pending)
             /\ Commanded(i) => Outcomes(i) = {} /\ ~ Restoring(i)

Announcement(i) == [action |-> "quarantined", id |-> i, source |-> "mirrored"]

Announced(i) ==
    \/ \E k \in DOMAIN outbox : outbox[k] = Announcement(i)
    \/ ~ Quiet /\ job.event = Announcement(i)

\* What the server has, and the events on their way make of it, is what the entry says.
Mirrors(e) ==
    LET i == e.id
    IN  e.source = "mirrored" /\ i \notin unheard /\ asked[i] <= 1 =>
          /\ items[i] = "none" => Announced(i)
          /\ i \in told \/ asked[i] > 0 => items[i] # "none"
          /\ e.status = "quarantined" =>
               /\ items[i] # "restored" /\ ~ Restoring(i)
               /\ \A k \in Outcomes(i) : outbox[k].action = "restore_failed"
               /\ items[i] = "restore_requested" => Commanded(i) \/ Outcomes(i) # {}
          /\ e.status = "restored" =>
               /\ asked[i] > 0 /\ ~ Commanded(i)
               /\ \A k \in Outcomes(i) : outbox[k].action = "restored"
               /\ items[i] = "restored" \/ Restoring(i) \/ Outcomes(i) # {}

\* The entries of the manifest, and of the list about to replace it.
Current(e) ==
    \/ /\ \E k \in DOMAIN manifest : manifest[k] = e
       /\ ~ (job.step = "moved" /\ job.event.id = e.id)
    \/ ~ Quiet /\ \E k \in DOMAIN job.entries : job.entries[k] = e

EntriesMirrored == \A e \in Entry : Current(e) => Mirrors(e)

StoreInv == TypeOK /\ StoreAgrees /\ EventsSound /\ AskedOnce /\ EntriesMirrored

===============================================================================
