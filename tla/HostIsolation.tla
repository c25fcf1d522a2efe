----------------------------- MODULE HostIsolation -----------------------------
(***************************************************************************)
(* The agent's isolation of its host (agent isolation.py): a sequence of   *)
(* firewall commands, each of which may fail, run because the last         *)
(* check-in says so (main.py), by a process that remembers in memory only  *)
(* whether it has isolated the host.  CommandChannel brings the level      *)
(* here; this module follows it into the firewall.                         *)
(*                                                                         *)
(* Definitions marked "Fault:" are not part of the model: each is a        *)
(* plausible mistake in the definition that follows it.                    *)
(***************************************************************************)
EXTENDS Naturals, Sequences, SequencesExt

CONSTANTS
    Systems,   \* what platform.system() may return
    MaxOrders, \* bound: changes of the level
    MaxFaults  \* bound: commands that fail, deaths of the process, reboots

ASSUME IsolationAssumption ==
    /\ Systems \subseteq {"Linux", "Windows", "Darwin"}
    /\ MaxOrders \in Nat /\ MaxFaults \in Nat

VARIABLES
    system,
    level,    \* `isolated` of the last check-in
    firewall, \* what the commands work on
    isolated, \* IsolationController.isolated
    doing,    \* the method under way
    left,     \* the commands it still has to run
    ok,       \* have those of isolate() succeeded so far?
    report,   \* the action of the last event emitted
    (* bounds and history *)
    orders, faults,
    hurt,     \* a command failed, or the process died, with the host not open
    slipped   \* a command of release() failed

controller == <<isolated, doing, left, ok, report>>
vars == <<system, level, firewall, controller, orders, faults, hurt, slipped>>

\* chain, rules and hook are of iptables; allow and block of netsh.
Firewall == [chain : BOOLEAN, rules : Seq({"loopback", "server", "dns", "drop"}), hook : BOOLEAN,
             allow : BOOLEAN, block : BOOLEAN]

Open == [chain |-> FALSE, rules |-> <<>>, hook |-> FALSE, allow |-> FALSE, block |-> FALSE]

Init ==
    /\ system \in Systems
    /\ level = FALSE
    /\ firewall = Open
    /\ isolated = FALSE /\ doing = "nothing" /\ left = <<>> /\ ok = TRUE /\ report = "none"
    /\ orders = 0 /\ faults = 0 /\ hurt = FALSE /\ slipped = FALSE

-------------------------------------------------------------------------------
(* The firewall.                                                           *)

\* Is a command accepted?
Accepted(c, fw) ==
    CASE c = "new" -> ~ fw.chain
      [] c \in {"loopback", "server", "dns", "drop", "hook", "flush"} -> fw.chain
      [] c = "unhook" -> fw.hook
      [] c = "delete" -> fw.chain /\ ~ fw.hook /\ fw.rules = <<>>
      [] OTHER -> TRUE

Effect(c, fw) ==
    CASE c = "new" -> [fw EXCEPT !.chain = TRUE]
      [] c \in {"loopback", "server", "dns", "drop"} -> [fw EXCEPT !.rules = Append(@, c)]
      [] c = "hook" -> [fw EXCEPT !.hook = TRUE]
      [] c = "unhook" -> [fw EXCEPT !.hook = FALSE]
      [] c = "flush" -> [fw EXCEPT !.rules = <<>>]
      [] c = "delete" -> [fw EXCEPT !.chain = FALSE]
      [] c = "allow" -> [fw EXCEPT !.allow = TRUE]
      [] c = "disallow" -> [fw EXCEPT !.allow = FALSE]
      [] c = "block" -> [fw EXCEPT !.block = TRUE]
      [] c = "unblock" -> [fw EXCEPT !.block = FALSE]

\* Is the host's traffic cut, and does the server remain within reach?
Cut == (firewall.hook /\ "drop" \in ToSet(firewall.rules)) \/ firewall.block

ServerReached ==
    /\ firewall.hook /\ "drop" \in ToSet(firewall.rules) =>
         \E i, j \in DOMAIN firewall.rules :
             i < j /\ firewall.rules[i] = "server" /\ firewall.rules[j] = "drop"
    /\ firewall.block => firewall.allow

-------------------------------------------------------------------------------
(* IsolationController.                                                    *)

\* Fault: the chain is hooked in before it is complete.
HookFirst ==
    CASE system = "Linux" -> <<"new", "hook", "drop", "server", "loopback", "dns">>
      [] system = "Windows" -> <<"block", "allow">>
      [] OTHER -> <<>>

\* The commands of isolate(), which stops at the first that fails.
IsolateCommands ==
    CASE system = "Linux" -> <<"new", "loopback", "server", "dns", "drop", "hook">>
      [] system = "Windows" -> <<"allow", "block">>
      [] OTHER -> <<>>

\* The commands of release(), all of which are run.
ReleaseCommands ==
    CASE system = "Linux" -> <<"unhook", "flush", "delete">>
      [] system = "Windows" -> <<"unblock", "disallow">>
      [] OTHER -> <<>>

\* run() calls isolate() or release() after each check-in; nothing happens when the
\* controller thinks it has.
Isolate ==
    /\ doing = "nothing"
    /\ level /\ ~ isolated
    /\ doing' = "isolate" /\ left' = IsolateCommands
    /\ ok' = (system \in {"Linux", "Windows"})
    /\ UNCHANGED <<system, level, firewall, isolated, report, orders, faults, hurt, slipped>>

Release ==
    /\ doing = "nothing"
    /\ ~ level /\ isolated
    /\ doing' = "release" /\ left' = ReleaseCommands
    /\ UNCHANGED <<system, level, firewall, isolated, ok, report, orders, faults, hurt, slipped>>

\* What is left to run after a command.
Remaining(succeeded) == IF doing = "isolate" /\ ~ succeeded THEN <<>> ELSE Tail(left)

\* Fault: whatever a command returns, it has succeeded.
AssumeSuccess(succeeded) == ok

StillOk(succeeded) == ok /\ succeeded

Ran(succeeded) ==
    /\ left' = Remaining(succeeded)
    /\ ok' = IF doing = "isolate" THEN StillOk(succeeded) ELSE ok

\* _sh(): the command is run; it fails if the firewall refuses it.
Command ==
    /\ left # <<>>
    /\ LET accepted == Accepted(Head(left), firewall)
       IN  /\ firewall' = IF accepted THEN Effect(Head(left), firewall) ELSE firewall
           /\ Ran(accepted)
    /\ UNCHANGED <<system, level, isolated, doing, report, orders, faults, hurt, slipped>>

Fail ==
    /\ faults < MaxFaults
    /\ faults' = faults + 1

\* _sh(): the command cannot be run, or times out after or before it has worked.
CommandFails(worked) ==
    /\ left # <<>>
    /\ Fail
    /\ firewall' = IF worked /\ Accepted(Head(left), firewall)
                   THEN Effect(Head(left), firewall) ELSE firewall
    /\ Ran(FALSE)
    /\ hurt' = TRUE
    /\ slipped' = (slipped \/ doing = "release")
    /\ UNCHANGED <<system, level, isolated, doing, report, orders>>

\* The controller takes note and emits its event.
Finish ==
    /\ doing # "nothing" /\ left = <<>>
    /\ isolated' = (doing = "isolate")
    /\ report' = IF doing = "release" THEN "released"
                 ELSE IF ok THEN "isolated" ELSE "isolation_partial"
    /\ doing' = "nothing"
    /\ UNCHANGED <<system, level, firewall, left, ok, orders, faults, hurt, slipped>>

-------------------------------------------------------------------------------
(* The server and the host.                                                *)

\* A check-in brings a level, if the server is within reach.
SetLevel(v) ==
    /\ ServerReached
    /\ orders < MaxOrders
    /\ v # level
    /\ doing = "nothing"
    /\ orders' = orders + 1
    /\ level' = v
    /\ UNCHANGED <<system, firewall, controller, faults, hurt, slipped>>

\* The process dies and is started again; a reboot clears iptables as well.
Restart(reboot) ==
    /\ Fail
    /\ firewall' = IF reboot THEN [Open EXCEPT !.allow = firewall.allow, !.block = firewall.block]
                   ELSE firewall
    /\ hurt' = (hurt \/ firewall' # Open)
    /\ isolated' = FALSE /\ doing' = "nothing" /\ left' = <<>> /\ ok' = TRUE
    /\ report' = "none"
    /\ UNCHANGED <<system, level, orders, slipped>>

Agent == Isolate \/ Release \/ Command \/ Finish

Next ==
    \/ Agent
    \/ \E worked \in BOOLEAN : CommandFails(worked)
    \/ \E v \in BOOLEAN : SetLevel(v)
    \/ \E reboot \in BOOLEAN : Restart(reboot)

Spec == Init /\ [][Next]_vars

\* run() checks in again and again and obeys.
FairSpec == Spec /\ WF_vars(Agent)

-------------------------------------------------------------------------------
(* Properties.                                                             *)

Commands == {"new", "loopback", "server", "dns", "drop", "hook", "unhook", "flush", "delete",
             "allow", "disallow", "block", "unblock"}

TypeOK ==
    /\ system \in Systems
    /\ level \in BOOLEAN
    /\ firewall \in Firewall /\ Len(firewall.rules) =< 4
    /\ isolated \in BOOLEAN
    /\ doing \in {"nothing", "isolate", "release"}
    /\ left \in Seq(Commands)
    /\ ok \in BOOLEAN
    /\ report \in {"none", "isolated", "isolation_partial", "released"}
    /\ orders \in 0..MaxOrders /\ faults \in 0..MaxFaults
    /\ hurt \in BOOLEAN /\ slipped \in BOOLEAN

\* isolation.py:1-2, the traffic is cut "while keeping the agent's control channel
\* alive", at every step and whatever fails; on Windows, unless a command of
\* release() fails.
ServerStaysReachable == ServerReached \/ (system = "Windows" /\ slipped)

\* The agent says isolated only when the traffic is cut, and released only when it
\* is not, unless a command of release() failed.
ReportIsTrue ==
    /\ report = "isolated" /\ isolated /\ doing = "nothing" => Cut
    /\ report = "released" /\ ~ isolated /\ doing = "nothing" => ~ Cut \/ slipped

\* isolation.py:4-5, the rules "are reverted by release()".
ReleaseReverts == <>[](~ level) => <>[](~ Cut)
-------------------------------------------------------------------------------
(* The inductive invariant from which the safety properties are proved.    *)

\* The rules of the chain, in the order in which isolate() appends them.
RuleOrder == <<"loopback", "server", "dns", "drop">>

\* s is the beginning, or the end, of whole.
Begins(s, whole) == Len(s) =< Len(whole) /\ \A i \in 1..Len(s) : s[i] = whole[i]
Ends(s, whole) ==
    Len(s) =< Len(whole) /\ \A i \in 1..Len(s) : s[i] = whole[Len(whole) - Len(s) + i]

\* The commands left are the end of the method's, none after a failure of isolate().
LeftIsEnd ==
    /\ doing = "nothing" => left = <<>>
    /\ doing = "isolate" => Ends(left, IsolateCommands) /\ (~ ok => left = <<>>)
    /\ doing = "release" => Ends(left, ReleaseCommands)

\* Each system uses its own firewall, and a chain holds the first of its rules.
FirewallSound ==
    /\ Begins(firewall.rules, RuleOrder)
    /\ ~ firewall.chain => firewall.rules = <<>> /\ ~ firewall.hook
    /\ system # "Linux" => ~ firewall.chain
    /\ system # "Windows" => ~ firewall.block

\* What isolate() has done when n of its commands are left and none has failed.
Built(n) ==
    /\ system \in {"Linux", "Windows"}
    /\ system = "Linux" /\ n < 6 =>
         /\ firewall.chain
         /\ Len(firewall.rules) = IF n = 0 THEN 4 ELSE 5 - n
         /\ firewall.hook <=> n = 0
    /\ system = "Windows" /\ n < 2 => firewall.allow
    /\ system = "Windows" /\ n = 0 => firewall.block

\* What release() has undone as soon as one of its commands has been run.
Opened == slipped \/ (~ firewall.hook /\ ~ firewall.block)

Progress ==
    /\ doing = "isolate" /\ ok => Built(Len(left))
    /\ doing = "release" /\ Len(left) < Len(ReleaseCommands) => Opened

IInv ==
    /\ TypeOK
    /\ LeftIsEnd
    /\ FirewallSound
    /\ Progress
    /\ ServerStaysReachable
    /\ ReportIsTrue
===============================================================================
