--------------------------- MODULE EndpointMonitors ---------------------------
(***************************************************************************)
(* The monitors of the endpoint agent that compare what they see with what *)
(* they saw the last time (agent/silentguard_agent/monitors/): listening   *)
(* ports and blocked process names (port_watchdog), processes              *)
(* (process_monitor), autorun entries (registry_monitor), USB storage      *)
(* (usb_guard), scanned files (yara_scanner), the gateway's hardware       *)
(* address (arp_guard) and the alerts in a log (suricata_monitor).  They   *)
(* do not interact, so that a behaviour has one of them, chosen at the     *)
(* start.                                                                  *)
(*                                                                         *)
(* A thing is what the monitor tells apart: a process and its port, a      *)
(* process, an autorun's name, a device, a path, a gateway, a place in the *)
(* log: what a rotated log has in a place is another alert.  Its look is   *)
(* what may differ: a suspicious port or blocked name, the command of an   *)
(* autorun, a file that matches, the address of a gateway; of USB storage, *)
(* whether blocking takes the device off the bus ("bad"; on Linux, where   *)
(* it is deauthorised) or only keeps the next from mounting (on Windows).  *)
(* Things that no report is due for, such as allowlisted listeners, are    *)
(* left out.  The files are those of the directories the agent watches.    *)
(*                                                                         *)
(* Definitions marked "Fault:" are not part of the model: each is a        *)
(* plausible mistake in the definition that follows it.                    *)
(***************************************************************************)
EXTENDS Naturals, FiniteSets

CONSTANTS
    Kinds,       \* the monitors to choose from
    MaxThings,   \* bound: things there may be
    MaxEvents,   \* max_events of process_monitor and suricata_monitor, in one scan
    MaxChanges,  \* bound: arrivals, departures, changes of look or rule, restarts
    MaxFaults    \* bound: readings and inspections that fail, things that resist

AllKinds == {"listener", "name", "process", "registry", "usb", "yara", "arp", "alert"}

ASSUME MonitorsAssumption ==
    /\ Kinds \subseteq AllKinds
    /\ {MaxThings, MaxEvents, MaxChanges, MaxFaults} \subseteq Nat

VARIABLES
    kind,       \* the monitor
    (* the host *)
    present,    \* each thing's look, "none" if it is not there
    (* the agent *)
    known,      \* what the last scan saw; for arp_guard, the gateway pinned
    baselined,
    rule,       \* is the port, name or USB storage blocked by the policy?
    said,       \* the events of the last scan, if nothing has changed since
    (* bounds and history *)
    changes, faults,
    shown,      \* what the last scan was shown, or the gateway when first seen
    old,        \* things that have been there since before the first scan
    added,      \* files of directories that a policy has brought since the start
    owed,       \* arrivals and changes that no event has told of
    excused,    \* those the code cannot see, skips, or fails to inspect
    spared,     \* things the rule does not reach, or that resisted it
    fresh,      \* is the last scan newer than the last change?
    glitched    \* has a reading failed since the start?

host == <<kind, present>>
agent == <<known, baselined, rule, said>>
bounds == <<changes, faults>>
history == <<shown, old, added, owed, excused, spared, fresh, glitched>>
vars == <<host, agent, bounds, history>>

Things == 1..MaxThings
Looks == {"plain", "bad"}
Absent == [x \in Things |-> "none"]
Seen(snapshot) == {x \in Things : snapshot[x] # "none"}
There == Seen(present)

\* The monitors whose first scan is silent.
Silent == {"process", "registry", "usb", "yara", "alert"}

Start(k, p) ==
    /\ known = Absent /\ baselined = FALSE /\ shown = Absent
    /\ rule \in BOOLEAN
    /\ said = {} /\ excused = {} /\ spared = {} /\ fresh = FALSE /\ glitched = FALSE
    /\ added = {}
    /\ old = IF k \in Silent THEN Seen(p) ELSE {}
    /\ owed = IF k = "listener" THEN Seen(p) ELSE {}

\* A gateway is one thing at a time, and a log has no holes.
OneGateway == kind = "arp" => Cardinality(There) =< 1
Filled(xs) == kind = "alert" => xs = 1..Cardinality(xs)

Init ==
    /\ kind \in Kinds
    /\ present \in [Things -> Looks \cup {"none"}]
    /\ OneGateway /\ Filled(There)
    /\ Start(kind, present)
    /\ changes = 0 /\ faults = 0

-------------------------------------------------------------------------------
(* The host and the policy.                                                *)

Changed ==
    /\ changes < MaxChanges /\ changes' = changes + 1
    /\ said' = {} /\ fresh' = FALSE
    /\ UNCHANGED <<kind, faults, shown, glitched>>

\* Is an event due for a thing that arrives with this look?
Due(x, look) ==
    CASE kind = "yara" -> baselined /\ look = "bad"
      [] kind = "listener" -> TRUE
      [] kind = "name" -> FALSE
      [] kind = "arp" -> shown[x] \notin {"none", look}
      [] OTHER -> baselined

\* Did the last scan see the same?  Only autoruns and gateways are compared by look;
\* of a log only its length is remembered.
AsBefore(x, look) == kind # "alert" /\ shown[x] # "none" /\ (kind \in {"registry", "arp"} => shown[x] = look)

Arrive(x, look) ==
    /\ present[x] = "none"
    /\ kind = "arp" => There = {}
    /\ Filled(There \cup {x})
    /\ Changed
    /\ present' = [present EXCEPT ![x] = look]
    /\ owed' = IF Due(x, look) THEN owed \cup {x} ELSE owed
    /\ old' = IF kind \in Silent /\ ~ baselined THEN old \cup {x} ELSE old
    /\ excused' = IF AsBefore(x, look) THEN excused \cup {x} ELSE excused
    /\ spared' = IF AsBefore(x, look) /\ kind # "name" THEN spared \cup {x} ELSE spared
    /\ added' \in {added, IF kind = "yara" /\ baselined THEN added \cup {x} ELSE added}
    /\ UNCHANGED <<known, baselined, rule>>

\* Things leave one by one, but a log that is rotated is empty at once.
Leave(xs) ==
    /\ xs # {} /\ xs \subseteq There /\ (kind = "alert" => xs = There)
    /\ Changed
    /\ present' = [x \in Things |-> IF x \in xs THEN "none" ELSE present[x]]
    /\ old' = old \ xs /\ added' = added \ xs /\ owed' = owed \ xs
    /\ excused' = excused \ xs /\ spared' = spared \ xs
    /\ UNCHANGED <<known, baselined, rule>>

\* An autorun's command, or the address a gateway answers with, is another.
Differ(x) ==
    /\ x \in There /\ kind \in {"registry", "arp"}
    /\ Changed
    /\ \E look \in Looks \ {present[x]} :
         /\ present' = [present EXCEPT ![x] = look]
         /\ owed' = IF shown[x] \notin {"none", look} THEN owed \cup {x}
                    ELSE IF shown[x] = look THEN owed \ {x} ELSE owed
    /\ old' = old \ (IF shown[x] = "none" THEN {} ELSE {x})
    /\ excused' = excused \ {x}
    /\ UNCHANGED <<known, baselined, rule, added, spared>>

Ruled(k) == k \in {"listener", "name", "usb"}

\* A check-in brings the rule; what a monitor has seen before it never looks at again,
\* except that process names are looked at in every scan.
RuleOn ==
    /\ Ruled(kind) /\ ~ rule
    /\ Changed
    /\ rule' = TRUE
    /\ spared' = IF kind = "name" THEN spared ELSE spared \cup (There \cap Seen(shown))
    /\ UNCHANGED <<present, known, baselined, old, added, owed, excused>>

\* Only the policy for USB storage can be taken back.
RuleOff ==
    /\ kind = "usb" /\ rule
    /\ Changed
    /\ rule' = FALSE
    /\ UNCHANGED <<present, known, baselined, old, added, owed, excused, spared>>

\* A check-in comes after the first scan of its turn: what is in the directories that its
\* policy adds has been there before, but no scan has seen it.
PolicyDirs(xs) ==
    /\ kind = "yara" /\ baselined
    /\ xs # {} /\ xs \cap (There \cup Seen(known)) = {}
    /\ Changed
    /\ \E look \in [xs -> Looks] :
         present' = [x \in Things |-> IF x \in xs THEN look[x] ELSE present[x]]
    /\ old' = old \cup xs /\ added' = added \cup xs
    /\ UNCHANGED <<known, baselined, rule, owed, excused, spared>>

\* The agent starts again, and watches the directories of its settings only.
Restart ==
    /\ changes < MaxChanges /\ changes' = changes + 1
    /\ known' = Absent /\ baselined' = FALSE /\ shown' = Absent
    /\ rule' \in BOOLEAN
    /\ said' = {} /\ excused' = {} /\ spared' = {} /\ fresh' = FALSE /\ glitched' = FALSE
    /\ present' = [x \in Things |-> IF x \in added THEN "none" ELSE present[x]]
    /\ added' = {}
    /\ old' = IF kind \in Silent THEN There' ELSE {}
    /\ owed' = IF kind = "listener" THEN There' ELSE {}
    /\ UNCHANGED <<kind, faults>>

-------------------------------------------------------------------------------
(* Scans.                                                                  *)

Event(x, word) == [thing |-> x, word |-> word]
Events(xs, word) == {Event(x, word) : x \in xs}

\* Fault: what was once seen is never forgotten.
NeverForgotten(snapshot) == [x \in Things |-> IF snapshot[x] = "none" THEN known[x] ELSE snapshot[x]]

Remembered(snapshot) == snapshot

\* Fault: the first scan records nothing.
EmptyBaseline(snapshot) == Absent

Baseline(snapshot) == snapshot

FirstScan(snapshot) ==
    /\ kind \in Silent /\ ~ baselined
    /\ known' = Baseline(snapshot) /\ baselined' = TRUE
    /\ said' = {}
    /\ spared' = Seen(snapshot)
    /\ UNCHANGED <<host, rule, old, added, owed, excused>>

\* The end of a scan: the events, what was not inspected, what the rule was tried on
\* and is still there, and what is gone.
Ends(snapshot, words, missed, staying, gone) ==
    /\ known' = Remembered(snapshot)
    /\ baselined' = TRUE
    /\ said' = words
    /\ present' = [x \in Things |-> IF x \in gone THEN "none" ELSE present[x]]
    /\ old' = old \ gone /\ added' = added \ gone
    /\ owed' = owed \ ({w.thing : w \in words} \cup gone)
    /\ excused' = (excused \cup missed) \ gone
    /\ spared' = (spared \cup missed \cup staying) \ gone
    /\ UNCHANGED <<kind, rule>>

News(snapshot) == {x \in Seen(snapshot) : x \notin Seen(known)}

\* The processes of a burst that are reported.
Burst(xs) == {some \in SUBSET xs :
                Cardinality(some) = IF Cardinality(xs) < MaxEvents THEN Cardinality(xs) ELSE MaxEvents}

ScanProcesses ==
    /\ kind = "process" /\ baselined
    /\ \E some \in Burst(News(present)) :
         Ends(present, Events(some, "arrived"), News(present) \ some, {}, {})

\* The log is read from where the last scan ended, or from the top if it is shorter;
\* what is beyond the limit, half written (skipped) or in a place already read is lost.
Unread == IF There # Seen(known) /\ There \subseteq Seen(known) THEN There ELSE News(present)

First(xs) == {x \in xs : Cardinality({y \in xs : y =< x}) =< MaxEvents}

Reread == IF There # Seen(shown) /\ There \subseteq Seen(shown) THEN {} ELSE There \cap Seen(shown)

ScanLog(skipped) ==
    /\ kind = "alert" /\ baselined
    /\ skipped \subseteq {x \in Unread : x = Cardinality(There)}
    /\ LET alerts == First(Unread \ skipped)
       IN  Ends(present, Events(alerts, "arrived"), Reread \cup (Unread \ alerts), {}, {})

ScanRegistry(snapshot) ==
    /\ kind = "registry" /\ baselined
    /\ Ends(snapshot, Events(News(snapshot), "arrived")
                 \cup Events({x \in Seen(snapshot) : known[x] \notin {"none", snapshot[x]}}, "changed"),
            {}, {}, {})

\* A device that is blocked is off the bus, or stays until it is unplugged: both are
\* reported as blocked.
ScanUsb(snapshot, resisting) ==
    LET new == News(snapshot)
        blocked == {x \in new \ resisting : rule}
    IN  /\ kind = "usb" /\ baselined
        /\ resisting \subseteq {x \in new : rule}
        /\ Ends(snapshot, Events(new, "arrived")
                     \cup Events(blocked, "stopped") \cup Events(resisting, "resisted")
                     \cup Events(Seen(known) \ Seen(snapshot), "left"),
                {}, resisting, {x \in blocked : snapshot[x] = "bad"})

\* A match is moved to quarantine; if that fails, it stays and is not scanned again.
ScanFiles(snapshot, skipped, resisting) ==
    LET matches == {x \in News(snapshot) \ skipped : snapshot[x] = "bad"}
    IN  /\ kind = "yara" /\ baselined
        /\ skipped \subseteq News(snapshot) /\ resisting \subseteq matches
        /\ Ends(snapshot, Events(matches \ resisting, "stopped") \cup Events(resisting, "resisted"),
                skipped, resisting, matches \ resisting)

\* A listener is remembered before it is inspected, and killed on a suspicious port.
ScanListeners(skipped, resisting) ==
    LET inspected == News(present) \ skipped
        bad == {x \in inspected : rule /\ present[x] = "bad"}
    IN  /\ kind = "listener"
        /\ skipped \subseteq News(present) /\ resisting \subseteq bad
        /\ Ends(present, Events(bad \ resisting, "stopped") \cup Events(resisting, "resisted")
                     \cup Events(inspected \ bad, "arrived"),
                skipped, resisting, bad \ resisting)

\* Fault: a process that survived once is left alone.
OnlyNew(xs) == xs \ Seen(known)

\* Processes with a blocked name are killed in every scan.
Named(xs) == xs

ScanNames(resisting) ==
    LET bad == Named({x \in There : rule /\ present[x] = "bad"})
    IN  /\ kind = "name"
        /\ resisting \subseteq bad
        /\ Ends(present, Events(bad \ resisting, "stopped") \cup Events(resisting, "resisted"),
                {}, resisting, bad \ resisting)

\* The first address of a gateway is trusted; another one is reported in every scan.
ScanGateway ==
    /\ kind = "arp" /\ There # {}
    /\ LET gw == CHOOSE x \in There : TRUE
       IN  IF known[gw] = "none"
           THEN Ends(present, {}, {}, {}, {})
           ELSE Ends(known, Events(IF known[gw] # present[gw] THEN {gw} ELSE {}, "changed"),
                     {}, {}, {})

Scan(snapshot, skipped, resisting) ==
    \/ FirstScan(snapshot)
    \/ ScanProcesses /\ snapshot = present /\ skipped = {} /\ resisting = {}
    \/ ScanLog(skipped) /\ snapshot = present /\ resisting = {}
    \/ ScanRegistry(snapshot) /\ skipped = {} /\ resisting = {}
    \/ ScanUsb(snapshot, resisting) /\ skipped = {}
    \/ ScanFiles(snapshot, skipped, resisting)
    \/ ScanListeners(skipped, resisting) /\ snapshot = present
    \/ ScanNames(resisting) /\ snapshot = present /\ skipped = {}
    \/ ScanGateway /\ snapshot = present /\ skipped = {} /\ resisting = {}

\* What a scan gets to see: a device, key or directory that cannot be read counts as
\* empty.
Snapshot(lost) == [x \in Things |-> IF x \in lost THEN "none" ELSE present[x]]

\* A scan, in which things may be lost, fail to be inspected, or resist.
Look ==
    \E lost \in SUBSET There, skipped \in SUBSET There, resisting \in SUBSET There :
        /\ lost # {} => kind \in {"registry", "usb", "yara"}
        /\ faults' = faults + Cardinality(lost) + Cardinality(skipped) + Cardinality(resisting)
        /\ faults' =< MaxFaults
        /\ Scan(Snapshot(lost), skipped, resisting)
        /\ shown' = IF kind = "arp" /\ There \cap Seen(shown) # {} THEN shown ELSE Snapshot(lost)
        /\ fresh' = (lost = {}) /\ glitched' = (glitched \/ lost # {})
        /\ UNCHANGED changes

-------------------------------------------------------------------------------

Next ==
    \/ \E xs \in {There} \cup {{x} : x \in Things} : Leave(xs)
    \/ \E x \in Things : Differ(x) \/ \E look \in Looks : Arrive(x, look)
    \/ \E xs \in SUBSET Things : PolicyDirs(xs)
    \/ RuleOn \/ RuleOff \/ Restart \/ Look

Spec == Init /\ [][Next]_vars

-------------------------------------------------------------------------------
(* Properties.                                                             *)

\* Every variable has its type; a burst of processes or alerts is reported up to the limit.
TypeOK ==
    /\ kind \in Kinds
    /\ {present, known, shown} \subseteq [Things -> Looks \cup {"none"}]
    /\ {baselined, rule, fresh, glitched} \subseteq BOOLEAN
    /\ said \subseteq [thing : Things, word : {"arrived", "changed", "stopped", "resisted", "left"}]
    /\ kind \in {"process", "alert"} => Cardinality(said) =< MaxEvents
    /\ old \cup added \cup owed \cup excused \cup spared \subseteq Things
    /\ changes \in 0..MaxChanges /\ faults \in 0..MaxFaults

\* When a scan has ended, every arrival and every change since the first one has been
\* reported, except what took the name of something seen before, what was beyond the
\* limit of a burst, what could not be inspected, and what a rotated log has in places
\* that were already read, unless it was shorter when it was read again.
EveryArrivalReported == fresh => owed \subseteq excused

\* The monitors whose first scan is silent (processes, autoruns, USB storage, files and
\* alerts) never report what was there before it, also across restarts, unless a reading
\* failed or it is in a directory that a policy has added since.
NothingReplayed ==
    kind \in Silent /\ ~ glitched =>
        \A e \in said : e.word = "left" \/ e.thing \notin old \ added

\* When a scan has ended, no blocked process or listener and no USB device that blocking
\* takes off the bus is left but those that resisted, that the monitor had seen before the
\* rule came, or could not inspect.  A device that blocking leaves mounted stays.
RuleEnforced ==
    fresh /\ rule /\ Ruled(kind) => \A x \in There : present[x] = "bad" => x \in spared

-------------------------------------------------------------------------------
(* The inductive invariant: what is due, what was there before the first scan and what   *)
(* the rule applies to, against what the last scan saw.                                  *)

\* A monitor knows what it was shown, and nothing before its first scan.
KnownIsShown == known = shown /\ (~ baselined => known = Absent)

GatewayIsOne == kind = "arp" => \A x, y \in There : x = y

\* An arrival or a change that is due and not excused looks new to the next scan.
LooksNew(x) ==
    CASE kind = "registry" -> known[x] # present[x]
      [] kind = "yara" -> known[x] = "none" /\ present[x] = "bad"
      [] kind = "alert" -> TRUE
      [] OTHER -> known[x] = "none"

OwedIsNew ==
    /\ owed \subseteq There
    /\ kind \in Silent /\ ~ baselined => owed = {}
    /\ kind = "name" => owed = {}
    /\ IF kind = "arp"
       THEN \A x \in owed : known[x] \notin {"none", present[x]}
       ELSE \A x \in owed \ excused : LooksNew(x)

\* What was there before the first scan, in the directories it saw, looks known to the next.
OldIsKnown ==
    /\ old \subseteq There
    /\ kind \notin Silent => old = {}
    /\ kind # "yara" => added = {}
    /\ baselined /\ ~ glitched =>
         /\ \A x \in old \ added : known[x] # "none" /\ (kind = "registry" => known[x] = present[x])
         /\ kind = "alert" /\ old # {} => Seen(known) \subseteq There

\* What the next scan will not look at again is spared.
KnownIsSpared ==
    kind \in {"listener", "usb"} /\ rule =>
        \A x \in There \cap Seen(known) : present[x] = "bad" => x \in spared

MonitorsInv ==
    /\ TypeOK
    /\ KnownIsShown
    /\ GatewayIsOne
    /\ OwedIsNew
    /\ OldIsKnown
    /\ KnownIsSpared
    /\ EveryArrivalReported
    /\ NothingReplayed
    /\ RuleEnforced
===============================================================================
