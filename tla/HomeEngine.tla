------------------------------ MODULE HomeEngine ------------------------------
(***************************************************************************)
(* SilentGuard Home on one PC: the blocklist the user edits, the threads   *)
(* that bring the firewall and the hosts file in line with it (engine.py,  *)
(* enforcement.py, blocklist.py), and the window that starts them          *)
(* (app.py): a loop while protection is on, and a thread of its own for    *)
(* each edit.  Nothing is locked; _active_hosts, the firewall and the      *)
(* hosts file are shared.  Entries are domains, each resolving to some     *)
(* address or to none.                                                     *)
(*                                                                         *)
(* Definitions marked "Fault:" are not part of the model: each is a        *)
(* plausible mistake in the definition that follows it.                    *)
(***************************************************************************)
EXTENDS Naturals, FiniteSets

CONSTANTS
    Hosts,       \* domains a user may block
    Threads,     \* bound: threads at a time
    MaxEdits,    \* bound: entries added or removed
    MaxToggles,  \* bound: times protection is turned on or off
    MaxFaults    \* bound: commands that fail, names that do not resolve, exits

ASSUME HomeAssumption == {MaxEdits, MaxToggles, MaxFaults} \subseteq Nat

VARIABLES
    list,     \* Blocklist._entries
    on,       \* ProtectionEngine._running
    active,   \* ProtectionEngine._active_hosts
    at,       \* what each thread is doing
    (* the host *)
    ruled,    \* domains the firewall has a rule for
    hosts,    \* the hosts file
    (* bounds and history *)
    edits, toggles, faults,
    stray,    \* domains whose rule an overlap, a failure or an exit may have left behind
    cut       \* has the hosts file been read or left in the middle of a write, or a write failed?

engine == <<list, on, active>>
host == <<ruled, hosts>>
bounds == <<edits, toggles, faults>>
vars == <<engine, at, host, bounds, stray, cut>>

\* The domains pinned between the markers, whether the user's own lines are there,
\* and whether the file is whole.
HostsFile == [pins : SUBSET Hosts, own : BOOLEAN, whole : BOOLEAN]

Stages == {"start", "drop", "block", "rule", "hosts", "truncate", "write", "guard"}

\* A thread: once for an edit, or the loop; what it has loaded and has yet to do.
Thread == [mode : {"none", "once", "loop"}, stage : Stages \cup {"none", "sleep"},
           domains : SUBSET Hosts, todo : SUBSET Hosts, now : SUBSET Hosts, own : BOOLEAN]

NoThread == [mode |-> "none", stage |-> "none", domains |-> {}, todo |-> {},
             now |-> {}, own |-> FALSE]
Starting(m) == [NoThread EXCEPT !.mode = m, !.stage = "start"]

Init ==
    /\ list = {} /\ on = FALSE /\ active = {}
    /\ at = [t \in Threads |-> NoThread]
    /\ ruled = {} /\ hosts = [pins |-> {}, own |-> TRUE, whole |-> TRUE]
    /\ edits = 0 /\ toggles = 0 /\ faults = 0
    /\ stray = {} /\ cut = FALSE

Fail ==
    /\ faults < MaxFaults
    /\ faults' = faults + 1

Fails(ok) == IF ok THEN UNCHANGED faults ELSE Fail

-------------------------------------------------------------------------------
(* The window.                                                             *)

Free == {t \in Threads : at[t].mode = "none"}

\* toggle(): the loop and a thread of its own start at once ...
TurnOn ==
    /\ ~ on
    /\ toggles < MaxToggles /\ toggles' = toggles + 1
    /\ on' = TRUE
    /\ \E t, u \in Free :
         t # u /\ at' = [at EXCEPT ![t] = Starting("loop"), ![u] = Starting("once")]
    /\ UNCHANGED <<list, active, host, edits, faults, stray, cut>>

\* ... or the loop is told to end.
TurnOff ==
    /\ on
    /\ toggles < MaxToggles /\ toggles' = toggles + 1
    /\ on' = FALSE
    /\ UNCHANGED <<list, active, at, host, edits, faults, stray, cut>>

SyncNow ==
    IF on THEN \E t \in Free : at' = [at EXCEPT ![t] = Starting("once")]
          ELSE UNCHANGED at

\* add_entry(), remove_entry(): the list is saved, and a thread of its own started.
Edit(l) ==
    /\ edits < MaxEdits /\ edits' = edits + 1
    /\ list' = l
    /\ SyncNow
    /\ UNCHANGED <<on, active, host, toggles, faults, stray, cut>>

Add(h) == h \notin list /\ Edit(list \cup {h})
Remove(h) == h \in list /\ Edit(list \ {h})

\* The program ends and is started again, with the list from its file; an edit whose
\* save is cut short costs the list.
Exit(torn) ==
    /\ Fail
    /\ list' = IF torn THEN {} ELSE list
    /\ on' = FALSE /\ active' = {}
    /\ at' = [t \in Threads |-> NoThread]
    /\ stray' = stray \cup ruled
    /\ cut' = (cut \/ ~ hosts.whole)
    /\ hosts' = [hosts EXCEPT !.whole = TRUE]
    /\ UNCHANGED <<ruled, edits, toggles>>

-------------------------------------------------------------------------------
(* sync().                                                                 *)

Stage(t) == at[t].stage
Syncing(t) == Stage(t) \in Stages \ {"start"}

\* What two syncs at once do not agree about.
Disputed(domains) ==
    UNION {(at[u].domains \ domains) \cup (domains \ at[u].domains) :
             u \in {v \in Threads : Syncing(v)}}

\* Fault: the rules of removed domains are left.
NothingToDrop(domains) == {}

ToDrop(domains) == active \ domains

\* The list is loaded, and compared with _active_hosts.
SyncStart(t) ==
    /\ Stage(t) = "start"
    /\ at' = [at EXCEPT ![t] = [@ EXCEPT !.stage = "drop", !.domains = list, !.todo = ToDrop(list)]]
    /\ stray' = stray \cup Disputed(list)
    /\ UNCHANGED <<engine, host, bounds, cut>>

\* unblock() of a removed domain.
Drop(t, ok) ==
    /\ Stage(t) = "drop"
    /\ \E h \in at[t].todo :
         /\ at' = [at EXCEPT ![t].todo = @ \ {h}]
         /\ ruled' = IF ok THEN ruled \ {h} ELSE ruled
         /\ stray' = IF ok THEN stray ELSE stray \cup {h}
    /\ Fails(ok)
    /\ UNCHANGED <<engine, hosts, edits, toggles, cut>>

Dropped(t) ==
    /\ Stage(t) = "drop" /\ at[t].todo = {}
    /\ at' = [at EXCEPT ![t] = [@ EXCEPT !.stage = "block", !.todo = at[t].domains]]
    /\ UNCHANGED <<engine, host, bounds, stray, cut>>

\* block() of a domain begins with its unblock() ...
Block(t, h) ==
    /\ Stage(t) = "block"
    /\ h \in at[t].todo
    /\ ruled' = ruled \ {h}
    /\ at' = [at EXCEPT ![t] = [@ EXCEPT !.stage = "rule", !.todo = at[t].todo \ {h}, !.now = {h}]]
    /\ UNCHANGED <<engine, hosts, bounds, stray, cut>>

\* ... and adds the rule, if the domain resolves and the command works.
Rule(t, ok) ==
    /\ Stage(t) = "rule"
    /\ ruled' = IF ok THEN ruled \cup at[t].now ELSE ruled
    /\ at' = [at EXCEPT ![t] = [@ EXCEPT !.stage = "block", !.now = {}]]
    /\ Fails(ok)
    /\ UNCHANGED <<engine, hosts, edits, toggles, stray, cut>>

\* Fault: only what is new is remembered.
NewOnly(domains) == domains \ active

Remembered(domains) == domains

\* Without domains the hosts file is left as it is.
Pin(domains) == IF domains = {} THEN "guard" ELSE "hosts"

\* _active_hosts becomes the list that was loaded.
Remember(t) ==
    /\ Stage(t) = "block" /\ at[t].todo = {}
    /\ active' = Remembered(at[t].domains)
    /\ at' = [at EXCEPT ![t].stage = Pin(at[t].domains)]
    /\ UNCHANGED <<list, on, host, bounds, stray, cut>>

\* Fault: what stands after the markers is dropped.
HeadOnly(file) == file.own /\ file.pins = {}

\* The user's own lines, if the file read holds them.
Rest(file) == file.own

\* apply_hosts() reads the file ...
ReadHosts(t) ==
    /\ Stage(t) = "hosts"
    /\ at' = [at EXCEPT ![t] = [@ EXCEPT !.stage = "truncate", !.own = Rest(hosts)]]
    /\ cut' = (cut \/ ~ hosts.whole)
    /\ UNCHANGED <<engine, host, bounds, stray>>

\* ... truncates it, unless it may not ...
Truncate(t, ok) ==
    /\ Stage(t) = "truncate"
    /\ hosts' = IF ok THEN [pins |-> {}, own |-> FALSE, whole |-> FALSE] ELSE hosts
    /\ at' = [at EXCEPT ![t].stage = IF ok THEN "write" ELSE "guard"]
    /\ Fails(ok)
    /\ UNCHANGED <<engine, ruled, edits, toggles, stray, cut>>

\* ... and writes it anew; a disk that is full leaves the file empty, and sync() goes on.
WriteHosts(t, ok) ==
    /\ Stage(t) = "write"
    /\ hosts' = IF ok THEN [pins |-> at[t].domains, own |-> at[t].own, whole |-> TRUE]
                      ELSE [pins |-> {}, own |-> FALSE, whole |-> TRUE]
    /\ at' = [at EXCEPT ![t].stage = "guard"]
    /\ cut' = (cut \/ ~ ok)
    /\ Fails(ok)
    /\ UNCHANGED <<engine, ruled, edits, toggles, stray>>

\* The process guard kills and remembers nothing.  The loop sleeps until its next turn.
SyncEnd(t) ==
    /\ Stage(t) = "guard"
    /\ at' = [at EXCEPT ![t] = IF @.mode = "loop" THEN [NoThread EXCEPT !.mode = "loop", !.stage = "sleep"]
                               ELSE NoThread]
    /\ UNCHANGED <<engine, host, bounds, stray, cut>>

\* The loop looks at _running, which may have been cleared and set again meanwhile.
Wake(t) ==
    /\ Stage(t) = "sleep"
    /\ at' = [at EXCEPT ![t] = IF on THEN Starting("loop") ELSE NoThread]
    /\ UNCHANGED <<engine, host, bounds, stray, cut>>

-------------------------------------------------------------------------------
SyncStep(t) ==
    \/ SyncStart(t) \/ Drop(t, TRUE) \/ Dropped(t)
    \/ \E h \in Hosts : Block(t, h)
    \/ Rule(t, TRUE) \/ Remember(t)
    \/ ReadHosts(t) \/ Truncate(t, TRUE) \/ WriteHosts(t, TRUE) \/ SyncEnd(t) \/ Wake(t)

Next ==
    \/ TurnOn \/ TurnOff
    \/ \E h \in Hosts : Add(h) \/ Remove(h)
    \/ \E torn \in BOOLEAN : Exit(torn)
    \/ \E t \in Threads :
         SyncStep(t) \/ Drop(t, FALSE) \/ Rule(t, FALSE) \/ Truncate(t, FALSE) \/ WriteHosts(t, FALSE)

Spec == Init /\ [][Next]_vars

\* A thread that has been started goes on, and the loop wakes from its sleep.
FairSpec == Spec /\ \A t \in Threads : WF_vars(SyncStep(t))

-------------------------------------------------------------------------------
(* Properties.                                                             *)

\* Between syncs every rule is one the engine remembers and so will remove, unless
\* two syncs that did not agree about its domain overlapped, a command failed, or
\* the program was restarted (sync).
RulesRemembered ==
    (\A t \in Threads : ~ Syncing(t)) => ruled \subseteq active \cup stray

\* The user's lines in the hosts file survive every sync, unless one has read the file
\* while another wrote it, a write failed after the file was truncated, or the program
\* ended in a write (apply_hosts).
OwnLinesSurvive == hosts.whole => hosts.own \/ cut

\* While protection stays on, an entry that stays on the list is blocked, again and
\* again, by a rule and in the hosts file, and a domain that stays off it has no rule
\* in the end, if its rule is not stray (sync, start, add_entry, remove_entry).
ListIsEnforced ==
    \A h \in Hosts :
        /\ <>[](on /\ h \in list) => []<>(h \in ruled) /\ []<>(h \in hosts.pins)
        /\ <>[](on /\ h \notin list) => <>[](h \notin ruled \/ h \in stray)

-------------------------------------------------------------------------------
(* The inductive invariant: what the threads have loaded and done, against the list the  *)
(* engine remembers, the rules and the hosts file.                                       *)

TypeOK ==
    /\ list \subseteq Hosts /\ on \in BOOLEAN /\ active \subseteq Hosts
    /\ at \in [Threads -> Thread]
    /\ ruled \subseteq Hosts /\ hosts \in HostsFile
    /\ edits \in 0..MaxEdits /\ toggles \in 0..MaxToggles /\ faults \in 0..MaxFaults
    /\ stray \subseteq Hosts /\ cut \in BOOLEAN

\* A thread that blocks has only domains of the list it loaded in hand.
InHand ==
    \A t \in Threads :
       /\ Stage(t) \in {"block", "rule"} => at[t].todo \cup at[t].now \subseteq at[t].domains
       /\ Stage(t) # "rule" => at[t].now = {}

\* A thread that is free does nothing.
FreeAreIdle == \A t \in Threads : at[t].mode = "none" => Stage(t) = "none"

\* Two syncs at once agree about every domain that is not stray.
SyncsAgree ==
    \A t, u \in Threads :
       Syncing(t) /\ Syncing(u) => at[t].domains \subseteq at[u].domains \cup stray

\* A rule is remembered, or a sync that is about to remember its domain has made it.
RulesAccounted ==
    \A h \in ruled :
       \/ h \in active \cup stray
       \/ \E t \in Threads : Stage(t) \in {"block", "rule"} /\ h \in at[t].domains

\* What a sync leaves ruled is on its list, or still to be dropped.
SyncsDrop ==
    \A t \in Threads :
       Syncing(t) =>
          ruled \subseteq at[t].domains \cup stray
                         \cup (IF Stage(t) = "drop" THEN at[t].todo ELSE {})

\* What is to be written holds the user's own lines.
OwnLinesRead == \A t \in Threads : Stage(t) \in {"truncate", "write"} => at[t].own \/ cut

HomeInv ==
    /\ TypeOK
    /\ InHand
    /\ FreeAreIdle
    /\ SyncsAgree
    /\ RulesAccounted
    /\ SyncsDrop
    /\ OwnLinesRead
    /\ OwnLinesSurvive
===============================================================================
