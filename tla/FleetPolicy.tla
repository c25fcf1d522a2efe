------------------------------ MODULE FleetPolicy ------------------------------
(***************************************************************************)
(* What administrators decide for a fleet, in the tables of the server:    *)
(* device groups, the policies of a group and of the whole organization,   *)
(* the group a device is in, and the plan that limits users, devices and   *)
(* groups (routers/policies.py, users.py, orgs.py, agents.py, services/    *)
(* policy.py and sso.py, core/plans.py).                                   *)
(*                                                                         *)
(* A request loads the rows on which it decides in one step and commits in *)
(* another; requests run side by side on the threads of the pool.  There   *)
(* is one organization and one device whose membership is followed; users  *)
(* and devices are counted.  No. 0 is no group: the group_id NULL of a     *)
(* device, or of the organization's policies.  A row gets the number after *)
(* the largest in its table, as SQLite has it, so that a number may serve  *)
(* again; a group's name tells it from an earlier one of its number.       *)
(*                                                                         *)
(* Definitions marked "Fault:" are not part of the model: each is a        *)
(* plausible mistake in the definition that follows it.                    *)
(***************************************************************************)
EXTENDS Naturals, FiniteSets

CONSTANTS
    Threads,     \* of the pool, and the event loop
    Plans,       \* core/plans.py: the plans,
    PlanLimit,   \* their limits, 0 for none,
    GroupPlans,  \* and those with device groups
    Caps,        \* values of the organization's own max_devices
    MaxRequests  \* bound: requests made

Counted == {"users", "devices", "groups"}

ASSUME FleetAssumption ==
    /\ PlanLimit \in [Plans -> [Counted -> Nat]]
    /\ GroupPlans \subseteq Plans
    /\ Caps \subseteq Nat
    /\ MaxRequests \in Nat

VARIABLES
    plan, cap,      \* of the organization's row
    users, devices, \* how many rows there are
    groups,         \* device_groups: the name of each number, 0 if it is free
    member,         \* the device's group_id
    policies,       \* the rows
    request,        \* what each thread has loaded
    (* bounds and history *)
    requests, names,
    meant,          \* the name of the group the device was put into
    astray          \* was it put there by requests that crossed?

org == <<plan, cap, users, devices>>
fleet == <<groups, member, meant, astray>>
fleetVars == <<org, fleet, policies, request, requests, names>>

Numbers == 1..(MaxRequests + 1)

\* What a policy says of a setting: its value, nothing (None), or it is disabled.
Looks == {"sets", "silent", "off"}

Idle == [about |-> <<"nothing", 0>>, op |-> "none"]
Group(g) == <<"group", g>>

NextNumber(used) == 1 + Cardinality({n \in Numbers : \E m \in used : n =< m})

FleetInit ==
    /\ plan \in Plans /\ cap = 0
    /\ users = 1 /\ devices = 1
    /\ groups = [g \in Numbers |-> 0]
    /\ member = 0 /\ meant = 0 /\ astray = FALSE
    /\ policies = {}
    /\ request = [t \in Threads |-> Idle]
    /\ requests = 0 /\ names = 0

-------------------------------------------------------------------------------
(* Plans.                                                                  *)

Existing == {g \in Numbers : groups[g] # 0}

Count(k) == CASE k = "users" -> users [] k = "devices" -> devices [] OTHER -> Cardinality(Existing)

\* entitlements_for(): the organization's max_devices overrides the plan's.
Limit(k) == IF k = "devices" /\ cap # 0 THEN cap ELSE PlanLimit[plan][k]

\* Fault: one more than the plan allows.
UpToLimit(k) == Limit(k) = 0 \/ Count(k) =< Limit(k)

WithinLimit(k) == Limit(k) = 0 \/ Count(k) < Limit(k)

-------------------------------------------------------------------------------
(* Requests.                                                               *)

\* What a request loads.  It is crossed when another one about the same commits before
\* it does, and one of the two deletes it or counts it.
Load(t, what) ==
    /\ requests < MaxRequests /\ requests' = requests + 1
    /\ request[t] = Idle
    /\ request' = [request EXCEPT ![t] = what]
    /\ UNCHANGED <<org, fleet, policies, names>>

\* The request of t commits, and is crossed by the others about the same.
Done(t) ==
    request' = [u \in Threads |->
                  IF u = t THEN Idle
                  ELSE IF request[u].about = request[t].about
                          /\ {request[u].op, request[t].op} \cap {"insert", "delete"} # {}
                       THEN [request[u] EXCEPT !.crossed = TRUE]
                       ELSE request[u]]

\* create_user() and invite_member(), create_group(), enroll(): count, then insert.
\* enroll() awaits nothing in between, so that there is one at a time.
LoadCount(t, k) ==
    /\ k = "groups" => plan \in GroupPlans
    /\ k = "devices" => \A u \in Threads : request[u].about # <<"devices", 0>>
    /\ WithinLimit(k)
    /\ Load(t, [about |-> <<k, 0>>, op |-> "insert", crossed |-> FALSE])

CommitInsert(t, k) ==
    /\ request[t].about = <<k, 0>>
    /\ Done(t)
    /\ users' = IF k = "users" THEN users + 1 ELSE users
    /\ devices' = IF k = "devices" THEN devices + 1 ELSE devices
    /\ IF k = "groups"
       THEN /\ names' = names + 1
            /\ groups' = [groups EXCEPT ![NextNumber(Existing)] = names + 1]
       ELSE UNCHANGED <<names, groups>>
    /\ UNCHANGED <<plan, cap, member, meant, astray, policies, requests>>

\* provision_and_issue(): the first single sign-on of an address makes its user, of the
\* default organization, whatever the plan and the counts are.
ProvisionUser ==
    /\ requests < MaxRequests /\ requests' = requests + 1
    /\ users' = users + 1
    /\ request' = [u \in Threads |->
                     IF request[u].about = <<"users", 0>>
                     THEN [request[u] EXCEPT !.crossed = TRUE] ELSE request[u]]
    /\ UNCHANGED <<plan, cap, devices, fleet, policies, names>>

\* update_org(): another plan, or another cap, whatever the counts are.
UpdateOrg(p, c) ==
    /\ requests < MaxRequests /\ requests' = requests + 1
    /\ <<p, c>> # <<plan, cap>>
    /\ plan' = p /\ cap' = c
    /\ request' = [u \in Threads |->
                     IF request[u].about \in {<<k, 0>> : k \in Counted}
                     THEN [request[u] EXCEPT !.crossed = TRUE] ELSE request[u]]
    /\ UNCHANGED <<users, devices, fleet, policies, names>>

\* Fault: the devices of the group stay in it.
NoMember(g) == FALSE

IsMember(g) == member = g

\* Fault: the group's policies stay.
NoPolicies(g) == {}

PoliciesOf(g) == {p.id : p \in {q \in policies : q.scope = g}}

\* delete_group(): the group, its devices and its policies are loaded.
LoadDeleteGroup(t, g) ==
    /\ g \in Existing
    /\ Load(t, [about |-> Group(g), op |-> "delete", crossed |-> FALSE,
                member |-> IsMember(g), policies |-> PoliciesOf(g)])

\* What else has come to point at the group since then goes on doing so.
CommitDeleteGroup(t, g) ==
    LET r == request[t]
    IN  /\ r.about = Group(g) /\ r.op = "delete"
        /\ Done(t)
        /\ groups' = [groups EXCEPT ![g] = 0]
        /\ member' = IF r.member THEN 0 ELSE member
        /\ meant' = IF r.member THEN 0 ELSE meant
        /\ astray' = IF r.member THEN FALSE ELSE astray \/ (r.crossed /\ member = g)
        /\ policies' = {IF p.scope = g /\ r.crossed THEN [p EXCEPT !.astray = TRUE] ELSE p :
                        p \in {q \in policies : q.id \notin r.policies}}
        /\ UNCHANGED <<org, requests, names>>

\* assign_group(): the device and the group are loaded, no group for "unassign".
LoadAssign(t, g) ==
    /\ g \in Existing \cup {0}
    /\ Load(t, [about |-> Group(g), op |-> "assign", crossed |-> FALSE,
                loaded |-> member, name |-> IF g = 0 THEN 0 ELSE groups[g]])

\* The column is written if it differs from what was loaded.
CommitAssign(t, g) ==
    LET r == request[t]
    IN  /\ r.about = Group(g) /\ r.op = "assign"
        /\ Done(t)
        /\ IF r.loaded = g
           THEN UNCHANGED <<member, meant, astray>>
           ELSE member' = g /\ meant' = r.name /\ astray' = r.crossed
        /\ UNCHANGED <<org, groups, policies, requests, names>>

\* create_policy(): its group is loaded, if it is to have one.
LoadCreatePolicy(t, g, look) ==
    /\ g \in Existing \cup {0}
    /\ Load(t, [about |-> Group(g), op |-> "policy", crossed |-> FALSE,
                look |-> look, name |-> IF g = 0 THEN 0 ELSE groups[g]])

PolicyNumber(used) == NextNumber(used)

CommitCreatePolicy(t, g) ==
    LET r == request[t]
    IN  /\ r.about = Group(g) /\ r.op = "policy"
        /\ Done(t)
        /\ policies' = policies \cup
             {[id |-> PolicyNumber({p.id : p \in policies}), scope |-> g, name |-> r.name,
               look |-> r.look, astray |-> r.crossed]}
        /\ UNCHANGED <<org, fleet, requests, names>>

\* delete_policy(): the row is loaded, and deleted by its number.
LoadDeletePolicy(t, n) ==
    /\ \E p \in policies : p.id = n
    /\ Load(t, [about |-> <<"policy", n>>, op |-> "delete", crossed |-> FALSE])

CommitDeletePolicy(t, n) ==
    /\ request[t].about = <<"policy", n>>
    /\ Done(t)
    /\ policies' = {p \in policies : p.id # n}
    /\ UNCHANGED <<org, fleet, requests, names>>

-------------------------------------------------------------------------------
(* resolve_effective_policy().                                             *)

\* Fault: the youngest policy of a scope is asked.
Youngest(rows) == {p \in rows : \A q \in rows : q.id =< p.id}

\* .order_by(Policy.id).first(), or none.
Oldest(rows) == {p \in rows : \A q \in rows : p.id =< q.id}

\* The enabled policy of a scope that is asked.
InForce(g) == Oldest({p \in policies : p.scope = g /\ p.look # "off"})

Setting(rows) == {p \in rows : p.look = "sets"}

\* The policy that gives a device its value of a setting; none for the built-in one.
Decides(g) ==
    IF g # 0 /\ Setting(InForce(g)) # {} THEN InForce(g) ELSE Setting(InForce(0))

-------------------------------------------------------------------------------

Commit(t) ==
    \/ \E k \in Counted : CommitInsert(t, k)
    \/ \E g \in Numbers : CommitDeleteGroup(t, g) \/ CommitDeletePolicy(t, g)
    \/ \E g \in Numbers \cup {0} : CommitAssign(t, g) \/ CommitCreatePolicy(t, g)

FleetNext ==
    \/ \E t \in Threads :
         \/ Commit(t)
         \/ \E k \in Counted : LoadCount(t, k)
         \/ \E g \in Numbers : LoadDeleteGroup(t, g) \/ LoadDeletePolicy(t, g)
         \/ \E g \in Numbers \cup {0} :
              LoadAssign(t, g) \/ \E look \in Looks : LoadCreatePolicy(t, g, look)
    \/ \E p \in Plans, c \in Caps : UpdateOrg(p, c)
    \/ ProvisionUser

FleetSpec == FleetInit /\ [][FleetNext]_fleetVars

-------------------------------------------------------------------------------
(* Properties.                                                             *)

Rows == [id : Numbers, scope : Numbers \cup {0}, name : 0..MaxRequests, look : Looks,
         astray : BOOLEAN]

Requests ==
    {Idle}
      \cup [about : {<<k, 0>> : k \in Counted}, op : {"insert"}, crossed : BOOLEAN]
      \cup [about : {Group(g) : g \in Numbers}, op : {"delete"}, crossed : BOOLEAN,
            member : BOOLEAN, policies : SUBSET Numbers]
      \cup [about : {Group(g) : g \in Numbers \cup {0}}, op : {"assign"}, crossed : BOOLEAN,
            loaded : Numbers \cup {0}, name : 0..MaxRequests]
      \cup [about : {Group(g) : g \in Numbers \cup {0}}, op : {"policy"}, crossed : BOOLEAN,
            look : Looks, name : 0..MaxRequests]
      \cup [about : {<<"policy", n>> : n \in Numbers}, op : {"delete"}, crossed : BOOLEAN]

\* Every variable has its type, and no two policies have one number.
FleetTypeOK ==
    /\ plan \in Plans /\ cap \in Caps \cup {0}
    /\ users \in 1..(MaxRequests + 1) /\ devices \in 1..(MaxRequests + 1)
    /\ groups \in [Numbers -> 0..MaxRequests]
    /\ member \in Numbers \cup {0}
    /\ policies \subseteq Rows
    /\ \A p, q \in policies : p.id = q.id => p = q
    /\ request \in [Threads -> Requests]
    /\ {requests, names, meant} \subseteq 0..MaxRequests /\ astray \in BOOLEAN

\* core/plans.py:85-88, "stays within the plan limit": a creation goes beyond the limit
\* of the plan only if another one, a change of the plan or a sign-on committed between
\* its count and its insert.  A device's never does, but for a change of the plan.  And a
\* single sign-on goes beyond the limit as it likes, with nobody beside it.
WithinPlan ==
    [][\A k \in Counted :
         Count(k)' > Count(k) =>
            \/ Limit(k) = 0 \/ Count(k)' =< Limit(k)
            \/ \E t \in Threads : request[t].about = <<k, 0>> /\ request[t].crossed
                                  /\ request'[t] = Idle
            \/ k = "users" /\ ProvisionUser]_fleetVars

\* The group a device is in exists, and is the one it was put into, not a later one of
\* its number: unless the deletion of the group crossed another request about it.
MembershipIsReal == member # 0 /\ ~ astray => meant # 0 /\ groups[member] = meant

\* A device gets a group's setting only from a policy made for the group it was put into,
\* with the same exception.
GroupPolicyIsOwn ==
    ~ astray => \A p \in Decides(member) : p.scope # 0 /\ ~ p.astray => p.name = meant

\* A policy in force stays in force until it is deleted: a newer one of its scope, by
\* whoever made it, has no say before that.
OldestPolicyRules ==
    [][\A g \in Numbers \cup {0} : \A p \in InForce(g) :
         \/ \E q \in InForce(g)' : q.id = p.id
         \/ \A q \in policies' : q.id # p.id]_fleetVars

-------------------------------------------------------------------------------
(* The inductive invariant: what each request has loaded, against the tables as they     *)
(* are now, as long as no other request has crossed it.                                  *)

Pending == {t \in Threads : request[t] # Idle}

\* A request in flight has not made a row yet: this keeps every number within Numbers.
RequestsAreCounted ==
    /\ IsFiniteSet(Pending)
    /\ LET waiting == Cardinality(Pending)
       IN  /\ users + waiting =< requests + 1 /\ devices + waiting =< requests + 1
           /\ names + waiting =< requests
           /\ \A g \in Existing : g + waiting =< requests
           /\ \A p \in policies : p.id + waiting =< requests

\* A count that was not crossed is still within the limit.
CountHolds ==
    \A t \in Threads, k \in Counted :
       request[t].about = <<k, 0>> /\ ~ request[t].crossed => WithinLimit(k)

\* A group loaded for a device or a policy, and not crossed, still is that group.
NameHolds ==
    \A t \in Threads, g \in Numbers :
       request[t].about = Group(g) /\ request[t].op # "delete" /\ ~ request[t].crossed
         => request[t].name # 0 /\ groups[g] = request[t].name

\* A deletion that was not crossed has loaded all that points at its group.
DeletionHolds ==
    \A t \in Threads, g \in Numbers :
       request[t].about = Group(g) /\ request[t].op = "delete" /\ ~ request[t].crossed
         => (member = g => request[t].member) /\ PoliciesOf(g) \subseteq request[t].policies

\* The group of a policy exists, and is the one it was made for.
PoliciesAreReal ==
    \A p \in policies :
       p.scope # 0 /\ ~ p.astray => p.name # 0 /\ groups[p.scope] = p.name

FleetInv ==
    /\ FleetTypeOK
    /\ RequestsAreCounted
    /\ CountHolds
    /\ NameHolds
    /\ DeletionHolds
    /\ PoliciesAreReal
    /\ MembershipIsReal
===============================================================================
