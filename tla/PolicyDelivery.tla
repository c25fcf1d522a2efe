----------------------------- MODULE PolicyDelivery -----------------------------
(***************************************************************************)
(* A turn of the agent's loop, from the answer of the check-in to what the *)
(* host is made to do (agent main.py, monitors/dns_sinkhole.py): the       *)
(* fleet's blocklist and the effective policy are merged into the          *)
(* configuration, then isolation follows the level, and the sinkhole pins  *)
(* the blocked domains in the hosts file.  It extends HostIsolation, whose *)
(* controller is called by this loop, with what the server decides and     *)
(* may decide otherwise, and with what stands between: a policy is free    *)
(* JSON.  A setting that the merge cannot iterate over raises, which ends  *)
(* the turn before isolation; a domain that extract_host() cannot parse    *)
(* (an unmatched bracket) raises in the sinkhole, and a drop directory     *)
(* that is no path in the monitor behind it, from then on in each turn,    *)
(* before the check-in.  So does a hosts file that cannot be decoded, when *)
(* the block has to be written, and whatever else a scan may raise.        *)
(*                                                                         *)
(* Domains stand for blocked processes and suspicious ports as well, which *)
(* are merged likewise; a domain stands for its host and the subdomains    *)
(* pinned with it.  Of the hosts file only the agent's own lines are kept. *)
(*                                                                         *)
(* Definitions marked "Fault:" are not part of the model: each is a        *)
(* plausible mistake in the definition that follows it.                    *)
(***************************************************************************)
EXTENDS HostIsolation, FiniteSets

CONSTANTS
    Domains,
    Builtin,   \* those the agent blocks by itself,
    Garbled,   \* and those that cannot be parsed
    MaxEdits   \* bound: decisions on the server

ASSUME DeliveryAssumption ==
    /\ Builtin \subseteq Domains /\ Builtin # {}
    /\ Garbled \subseteq Domains \ Builtin
    /\ MaxEdits \in Nat /\ MaxEdits =< MaxOrders

VARIABLES
    (* the server *)
    blocklist,
    policy,   \* the device's effective policy: its blocked_domains, and what it breaks
    wanted,   \* the device's `isolated`
    (* the agent *)
    config,   \* config.blocked_domains
    applied,  \* DnsSinkhole._applied
    due,      \* the turn has come to isolate() or release()
    jam,      \* what raises in every turn before the check-in, sync() or before it too
    hosts,    \* the hosts file
    (* bounds and history *)
    edits,
    named,    \* domains the agent was given since its start
    cut       \* domains of blocks whose end was never written

server == <<blocklist, policy, wanted, edits>>
agent == <<config, applied, due, jam>>
hostVars == vars
turnVars == <<hostVars, server, agent, hosts, named, cut>>

\* A setting whose value cannot be iterated over is met before the domains are merged
\* ("early": ports, processes or the domains themselves) or after ("late": directories).
\* A directory that is no path ("path") is merged, and raises when it is scanned.
Breaks == {"nothing", "early", "late", "path"}

\* The agent's block, if it has an end (`closed`), what stands in one that has none, and
\* whether the file can be decoded.
Hosts == [block : SUBSET Domains, closed : BOOLEAN, torn : SUBSET Domains, legible : BOOLEAN]

Pinned == hosts.block \cup hosts.torn

\* The agent's process starts.
Fresh == config = Builtin /\ applied = {} /\ due = FALSE /\ jam = "none"

TurnInit ==
    /\ Init
    /\ blocklist = {} /\ policy = [domains |-> {}, breaks |-> "nothing"] /\ wanted = FALSE
    /\ Fresh
    /\ hosts = [block |-> {}, closed |-> FALSE, torn |-> {}, legible |-> TRUE]
    /\ edits = 0 /\ named = Builtin /\ cut = {}

-------------------------------------------------------------------------------
(* The server.                                                             *)

Edit == edits < MaxEdits /\ edits' = edits + 1

\* add_blocklist(), delete_blocklist(), and the block_domain response, which alone
\* stores a domain that cannot be parsed.
EditBlocklist(d) ==
    /\ Edit
    /\ blocklist' = IF d \in blocklist THEN blocklist \ {d} ELSE blocklist \cup {d}
    /\ UNCHANGED <<policy, wanted>>

\* Whatever changes what resolve_effective_policy() returns (FleetPolicy).
EditPolicy(domains, breaks) ==
    /\ Edit
    /\ policy # [domains |-> domains, breaks |-> breaks]
    /\ policy' = [domains |-> domains, breaks |-> breaks]
    /\ UNCHANGED <<blocklist, wanted>>

\* isolate_device(), release_device().
EditLevel ==
    /\ Edit
    /\ wanted' = ~ wanted
    /\ UNCHANGED <<blocklist, policy>>

EditSomething ==
    /\ \/ \E d \in Domains : EditBlocklist(d)
       \/ \E ds \in SUBSET (Domains \ Builtin), b \in Breaks : EditPolicy(ds, b)
       \/ EditLevel
    /\ UNCHANGED <<hostVars, agent, hosts, named, cut>>

-------------------------------------------------------------------------------
(* The agent.                                                              *)

Free == doing = "nothing" /\ ~ due

\* Does sync() get as far as to the hosts file, with what has been merged?
Parsed == config \cap Garbled = {} /\ jam # "sync"

\* Does the turn get to the check-in?
Passes == Parsed /\ jam = "none" /\ (config = applied \/ hosts.legible)

\* What a check-in adds: the blocklist, and the policy up to where it raises.
Merged == blocklist \cup (IF policy.breaks = "early" THEN {} ELSE policy.domains)

\* Fault: only a level that differs from the last one is obeyed.
NewLevel == wanted # level

\* isolate() and release() do nothing if the controller thinks it is done.
OtherLevel == wanted # isolated

\* The answer is merged; unless the policy raises, the level is obeyed after it.
CheckIn ==
    /\ Free /\ Passes /\ ServerReached
    /\ config' = config \cup Merged
    /\ named' = named \cup Merged
    /\ jam' = IF policy.breaks = "path" THEN "scan" ELSE jam
    /\ IF policy.breaks \in {"early", "late"}
       THEN UNCHANGED <<hostVars, due>>
       ELSE /\ due' = OtherLevel
            /\ IF wanted = level THEN UNCHANGED hostVars ELSE SetLevel(wanted)
    /\ UNCHANGED <<server, applied, hosts, cut>>

\* isolate() or release(), in the turn of the check-in.
Obey ==
    /\ due /\ due' = FALSE
    /\ Isolate \/ Release
    /\ UNCHANGED <<server, config, applied, jam, hosts, named, cut>>

Work ==
    /\ Command \/ Finish \/ \E worked \in BOOLEAN : CommandFails(worked)
    /\ UNCHANGED <<server, agent, hosts, named, cut>>

\* Fault: a new block is put behind the old one.
Kept(h) == h.block \cup h.torn

\* What is left of the agent's lines when the old block has been stripped, which takes
\* both markers.
Unstripped(h) == IF h.closed THEN {} ELSE h.torn

\* sync(): the block is written anew if the blocked set is another than that applied.
Sync ==
    /\ Free /\ Parsed /\ hosts.legible
    /\ config # applied
    /\ hosts' = [block |-> config, closed |-> TRUE, torn |-> Unstripped(hosts), legible |-> TRUE]
    /\ applied' = config
    /\ UNCHANGED <<hostVars, server, config, due, jam, named, cut>>

\* Fault: a failed write is taken for done.
TakenForDone == config

AppliedAfterFailure == applied

\* The file is truncated and its writing fails: the block may be missing or lack its end.
\* (A file that cannot be opened is left as it is, and so is all else.)  If it fails
\* because the platform's encoding has no letter for a domain (`raises`), nothing is
\* written, and no turn gets further.
SyncFails(written, raises) ==
    /\ Free /\ Parsed /\ hosts.legible
    /\ config # applied
    /\ Fail
    /\ hosts' = [block |-> {}, closed |-> FALSE, torn |-> written, legible |-> TRUE]
    /\ written \subseteq config \cup Unstripped(hosts)
    /\ raises => written = {}
    /\ jam' = IF raises THEN "sync" ELSE jam
    /\ cut' = cut \cup written
    /\ applied' = AppliedAfterFailure
    /\ UNCHANGED <<system, level, firewall, controller, orders, hurt, slipped>>
    /\ UNCHANGED <<server, config, due, named>>

\* A scan, before sync() or behind it, raises from now on; or somebody writes to the hosts
\* file what cannot be decoded, or takes it out again.
Trouble ==
    /\ Fail
    /\ \/ jam = "none" /\ jam' \in {"sync", "scan"} /\ UNCHANGED hosts
       \/ hosts' = [hosts EXCEPT !.legible = ~ @] /\ UNCHANGED jam
    /\ UNCHANGED <<system, level, firewall, controller, orders, hurt, slipped>>
    /\ UNCHANGED <<server, config, applied, due, named, cut>>

\* The process starts again: all it knows is what it is built with.
TurnRestart(reboot) ==
    /\ Restart(reboot)
    /\ config' = Builtin /\ applied' = {} /\ due' = FALSE /\ jam' = "none" /\ named' = Builtin
    /\ UNCHANGED <<server, hosts, cut>>

-------------------------------------------------------------------------------

TurnNext ==
    \/ EditSomething
    \/ CheckIn \/ Obey \/ Work \/ Sync
    \/ \E written \in SUBSET Domains, raises \in BOOLEAN : SyncFails(written, raises)
    \/ Trouble
    \/ \E reboot \in BOOLEAN : TurnRestart(reboot)

TurnSpec == TurnInit /\ [][TurnNext]_turnVars

\* run() goes on for ever, whatever a turn raises, and begins each turn anew: a turn that
\* raises nowhere before it comes to each of these, and the server answers in the end when
\* it is within reach.
FairTurnSpec ==
    /\ TurnSpec
    /\ WF_turnVars(CheckIn) /\ WF_turnVars(Sync) /\ WF_turnVars(Obey) /\ WF_turnVars(Work)

-------------------------------------------------------------------------------
(* Properties.                                                             *)

\* dns_sinkhole.py:58, the hosts file has "exactly the current blocked set": once a run of
\* the agent has written it, it pins nothing but what was named since the start of the
\* run.  A domain taken off the list is thus pinned no longer than until a restart.  Only
\* blocks that a failed write has left without an end may be pinned for longer.
PinsAreOrdered == applied # {} => Pinned \subseteq named \cup cut

\* What the server has blocked for good is pinned in the end, on any host that can write
\* its hosts file and where nobody undoes it, whatever else is in the policy: but for the
\* policy's own domains, if one of its settings breaks the merge before it comes to them.
\* The agent hears of it unless it is left with what ends every turn before the check-in
\* (a domain that cannot be parsed, a drop directory that is no path, a hosts file that
\* cannot be decoded, a scan that raises), or with a firewall that keeps the server out.
Ordered ==
    Builtin \cup blocklist \cup (IF policy.breaks = "early" THEN {} ELSE policy.domains)

PinsFollow ==
    \A d \in Domains \ Garbled :
        <>[](d \in Ordered) => <>[](d \in Pinned) \/ <>[](~ Passes \/ ~ ServerReached)

\* The firewall ends up as the server decided, if the policy stays one that can be merged,
\* and unless a command failed (on Windows that may keep the server out for good), the
\* process died while the host was not open, or the agent is left with what ends every
\* turn before the check-in.
LevelIsObeyed ==
    system # "Darwin" =>
        \A v \in BOOLEAN :
            <>[](wanted = v /\ policy.breaks \notin {"early", "late"}) =>
                <>[](Cut = v) \/ <>hurt \/ <>[](~ Passes)
-------------------------------------------------------------------------------
(* The inductive invariant, together with that of HostIsolation.           *)

TurnTypeOK ==
    /\ blocklist \subseteq Domains
    /\ policy \in [domains : SUBSET Domains, breaks : Breaks]
    /\ wanted \in BOOLEAN /\ due \in BOOLEAN /\ jam \in {"none", "sync", "scan"}
    /\ config \subseteq Domains /\ applied \subseteq Domains
    /\ hosts \in Hosts
    /\ edits \in 0..MaxEdits
    /\ named \subseteq Domains /\ cut \subseteq Domains

\* What the agent blocks was named to it, what it has written is what it blocks, and what
\* stands in the file without an end was left there by a failed write.
PinsExplained ==
    /\ config \subseteq named
    /\ applied # {} => hosts.block \subseteq named
    /\ hosts.torn \subseteq cut

TurnInv == IInv /\ TurnTypeOK /\ PinsExplained
===============================================================================
