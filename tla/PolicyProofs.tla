------------------------------ MODULE PolicyProofs -----------------------------
(***************************************************************************)
(* Proofs about policies.  First those about PolicyDelivery and the        *)
(* HostIsolation it extends, for every set of domains and systems and any  *)
(* number of orders and faults.  The argument for the firewall: the        *)
(* commands left are the end of the list of the method under way, so that  *)
(* how many are left tells which one is next and, as isolate() stops at    *)
(* its first failure, what the firewall holds.  Then those about           *)
(* FleetPolicy, for every value of its constants: any number of threads,   *)
(* plans, limits and requests.                                             *)
(***************************************************************************)
EXTENDS PolicyDelivery, FleetPolicy, SequenceTheorems, FiniteSetTheorems, TLAPS

-------------------------------------------------------------------------------
(* The lists of commands.                                                  *)

LEMMA IsolateList ==
    /\ IsolateCommands \in Seq(Commands)
    /\ system = "Linux" =>
         /\ Len(IsolateCommands) = 6
         /\ IsolateCommands[1] = "new" /\ IsolateCommands[2] = "loopback"
         /\ IsolateCommands[3] = "server" /\ IsolateCommands[4] = "dns"
         /\ IsolateCommands[5] = "drop" /\ IsolateCommands[6] = "hook"
    /\ system = "Windows" =>
         /\ Len(IsolateCommands) = 2
         /\ IsolateCommands[1] = "allow" /\ IsolateCommands[2] = "block"
    /\ system \notin {"Linux", "Windows"} => IsolateCommands = <<>>
  <1>1. CASE system = "Linux"
    <2>1. IsolateCommands = <<"new", "loopback", "server", "dns", "drop", "hook">>
      BY <1>1 DEF IsolateCommands
    <2> QED BY <1>1, <2>1 DEF Commands
  <1>2. CASE system = "Windows"
    <2>1. IsolateCommands = <<"allow", "block">>
      BY <1>2 DEF IsolateCommands
    <2> QED BY <1>2, <2>1 DEF Commands
  <1>3. CASE system \notin {"Linux", "Windows"}
    <2>1. IsolateCommands = <<>>
      BY <1>3 DEF IsolateCommands
    <2> QED BY <1>3, <2>1
  <1> QED BY <1>1, <1>2, <1>3

LEMMA ReleaseList ==
    /\ ReleaseCommands \in Seq(Commands)
    /\ system = "Linux" =>
         /\ Len(ReleaseCommands) = 3
         /\ ReleaseCommands[1] = "unhook" /\ ReleaseCommands[2] = "flush"
         /\ ReleaseCommands[3] = "delete"
    /\ system = "Windows" =>
         /\ Len(ReleaseCommands) = 2
         /\ ReleaseCommands[1] = "unblock" /\ ReleaseCommands[2] = "disallow"
    /\ system \notin {"Linux", "Windows"} => ReleaseCommands = <<>>
  <1>1. CASE system = "Linux"
    <2>1. ReleaseCommands = <<"unhook", "flush", "delete">>
      BY <1>1 DEF ReleaseCommands
    <2> QED BY <1>1, <2>1 DEF Commands
  <1>2. CASE system = "Windows"
    <2>1. ReleaseCommands = <<"unblock", "disallow">>
      BY <1>2 DEF ReleaseCommands
    <2> QED BY <1>2, <2>1 DEF Commands
  <1>3. CASE system \notin {"Linux", "Windows"}
    <2>1. ReleaseCommands = <<>>
      BY <1>3 DEF ReleaseCommands
    <2> QED BY <1>3, <2>1
  <1> QED BY <1>1, <1>2, <1>3

LEMMA RuleList ==
    /\ Len(RuleOrder) = 4
    /\ RuleOrder[1] = "loopback" /\ RuleOrder[2] = "server"
    /\ RuleOrder[3] = "dns" /\ RuleOrder[4] = "drop"
  BY DEF RuleOrder

\* The next command of a list of which s is left, and what is left after it.
LEMMA EndsTail ==
    ASSUME NEW S, NEW s \in Seq(S), NEW whole \in Seq(S), s # <<>>, Ends(s, whole)
    PROVE  /\ Len(s) \in Nat \ {0} /\ Len(whole) \in Nat /\ Len(s) =< Len(whole)
           /\ Head(s) = whole[Len(whole) - Len(s) + 1]
           /\ Tail(s) \in Seq(S) /\ Len(Tail(s)) = Len(s) - 1
           /\ Ends(Tail(s), whole)
  <1>1. Len(s) \in Nat /\ Len(whole) \in Nat
    BY LenProperties
  <1>2. Len(s) # 0
    BY EmptySeq
  <1>3. /\ Head(s) = s[1]
        /\ Tail(s) \in Seq(S) /\ Len(Tail(s)) = Len(s) - 1
        /\ \A i \in 1..Len(Tail(s)) : Tail(s)[i] = s[i + 1]
    BY HeadTailProperties
  <1>4. \A i \in 1..Len(s) : s[i] = whole[Len(whole) - Len(s) + i]
    BY DEF Ends
  <1>5. Head(s) = whole[Len(whole) - Len(s) + 1]
    BY <1>1, <1>2, <1>3, <1>4
  <1>6. ASSUME NEW i \in 1..Len(Tail(s))
        PROVE  Tail(s)[i] = whole[Len(whole) - Len(Tail(s)) + i]
    <2>1. i \in Nat /\ i + 1 \in 1..Len(s)
      BY <1>1, <1>3
    <2>2. Tail(s)[i] = whole[Len(whole) - Len(s) + (i + 1)]
      BY <1>3, <1>4, <2>1
    <2>3. Len(whole) - Len(s) + (i + 1) = Len(whole) - Len(Tail(s)) + i
      BY <1>1, <1>3, <2>1
    <2> QED BY <2>2, <2>3
  <1> QED BY <1>1, <1>2, <1>3, <1>5, <1>6 DEF Ends

LEMMA EndsWhole ==
    ASSUME NEW S, NEW s \in Seq(S)
    PROVE  Ends(s, s) /\ Ends(<<>>, s)
  BY LenProperties DEF Ends

\* A chain that is complete drops the traffic, after letting that with the server pass.
LEMMA DropIsLast ==
    ASSUME NEW S, NEW rules \in Seq(S), Begins(rules, RuleOrder)
    PROVE  /\ "drop" \in ToSet(rules) <=> Len(rules) = 4
           /\ Len(rules) = 4 => rules[2] = "server" /\ rules[4] = "drop"
  <1>1. Len(rules) \in Nat /\ DOMAIN rules = 1..Len(rules)
    BY LenProperties
  <1>2. Len(rules) =< 4 /\ \A i \in 1..Len(rules) : rules[i] = RuleOrder[i]
    BY RuleList DEF Begins
  <1>3. "drop" \in ToSet(rules) <=> \E i \in 1..Len(rules) : rules[i] = "drop"
    BY <1>1 DEF ToSet
  <1> QED BY <1>1, <1>2, <1>3, RuleList

-------------------------------------------------------------------------------
(* What a command does to the firewall.                                    *)

\* The firewall when command c has been run on fw; c may have been refused.
After(c, fw) == IF Accepted(c, fw) THEN Effect(c, fw) ELSE fw

LEMMA RuleEffect ==
    ASSUME NEW fw \in Firewall, NEW c \in {"loopback", "server", "dns", "drop"}, fw.chain
    PROVE  /\ Accepted(c, fw)
           /\ Effect(c, fw) = [fw EXCEPT !.rules = Append(fw.rules, c)]
  BY DEF Accepted, Effect

LEMMA IptablesEffect ==
    ASSUME NEW fw \in Firewall
    PROVE  /\ Accepted("new", fw) = ~ fw.chain
           /\ Effect("new", fw) = [fw EXCEPT !.chain = TRUE]
           /\ Accepted("hook", fw) = fw.chain
           /\ Effect("hook", fw) = [fw EXCEPT !.hook = TRUE]
           /\ After("unhook", fw) = [fw EXCEPT !.hook = FALSE]
           /\ After("flush", fw) = IF fw.chain THEN [fw EXCEPT !.rules = <<>>] ELSE fw
           /\ After("delete", fw) = IF fw.chain /\ ~ fw.hook /\ fw.rules = <<>>
                                    THEN [fw EXCEPT !.chain = FALSE] ELSE fw
  <1>1. /\ Accepted("new", fw) = ~ fw.chain /\ Effect("new", fw) = [fw EXCEPT !.chain = TRUE]
        /\ Accepted("hook", fw) = fw.chain /\ Effect("hook", fw) = [fw EXCEPT !.hook = TRUE]
    BY DEF Accepted, Effect
  <1>2. After("unhook", fw) = [fw EXCEPT !.hook = FALSE]
    BY DEF Accepted, Effect, After, Firewall
  <1>3. After("flush", fw) = IF fw.chain THEN [fw EXCEPT !.rules = <<>>] ELSE fw
    BY DEF Accepted, Effect, After
  <1>4. After("delete", fw) = IF fw.chain /\ ~ fw.hook /\ fw.rules = <<>>
                              THEN [fw EXCEPT !.chain = FALSE] ELSE fw
    BY DEF Accepted, Effect, After
  <1> QED BY <1>1, <1>2, <1>3, <1>4

LEMMA NetshEffect ==
    ASSUME NEW fw \in Firewall, NEW c \in {"allow", "disallow", "block", "unblock"}
    PROVE  /\ Accepted(c, fw)
           /\ Effect("allow", fw) = [fw EXCEPT !.allow = TRUE]
           /\ Effect("disallow", fw) = [fw EXCEPT !.allow = FALSE]
           /\ Effect("block", fw) = [fw EXCEPT !.block = TRUE]
           /\ Effect("unblock", fw) = [fw EXCEPT !.block = FALSE]
  BY DEF Accepted, Effect

\* Appending the next rule in order.
LEMMA AppendNext ==
    ASSUME NEW S, NEW rules \in Seq(S), NEW c \in S, Begins(rules, RuleOrder),
           Len(rules) < 4, RuleOrder[Len(rules) + 1] = c
    PROVE  /\ Append(rules, c) \in Seq(S) /\ Len(Append(rules, c)) = Len(rules) + 1
           /\ Begins(Append(rules, c), RuleOrder)
  <1> DEFINE a == Append(rules, c)
  <1>1. /\ a \in Seq(S)
        /\ Len(a) = Len(rules) + 1
        /\ \A i \in 1..Len(rules) : a[i] = rules[i]
        /\ a[Len(rules) + 1] = c
    BY AppendProperties
  <1>2. Len(rules) \in Nat /\ \A i \in 1..Len(rules) : rules[i] = RuleOrder[i]
    BY LenProperties DEF Begins
  <1> HIDE DEF a
  <1>3. ASSUME NEW i \in 1..Len(a) PROVE a[i] = RuleOrder[i]
    <2>1. i \in 1..Len(rules) \/ i = Len(rules) + 1
      BY <1>1, <1>2
    <2> QED BY <1>1, <1>2, <2>1
  <1>4. Len(a) =< Len(RuleOrder)
    BY <1>1, <1>2, RuleList
  <1> QED BY <1>1, <1>3, <1>4 DEF Begins, a

LEMMA ServerFirst ==
    ASSUME NEW S, NEW rules \in Seq(S), Begins(rules, RuleOrder), "drop" \in ToSet(rules)
    PROVE  \E i, j \in DOMAIN rules : i < j /\ rules[i] = "server" /\ rules[j] = "drop"
  <1>1. Len(rules) = 4 /\ rules[2] = "server" /\ rules[4] = "drop"
    BY DropIsLast
  <1>2. DOMAIN rules = 1..4
    BY <1>1, LenProperties
  <1>3. 2 \in DOMAIN rules /\ 4 \in DOMAIN rules /\ 2 < 4
    BY <1>2
  <1> QED BY <1>1, <1>3

-------------------------------------------------------------------------------
(* A command of isolate().                                                 *)

\* Command c is run, and counted as done only if it was accepted and has worked.
Runs(c, done) ==
    \/ firewall' = firewall /\ done = FALSE
    \/ Accepted(c, firewall) /\ firewall' = Effect(c, firewall)

\* What is to be shown of the firewall after a command of isolate() of which n follow.
Better(n, done) ==
    /\ firewall' \in Firewall
    /\ FirewallSound'
    /\ done => Built(n)'
    /\ firewall.block' => firewall.allow' \/ (system = "Windows" /\ slipped)

LEMMA IsolateLinux ==
    ASSUME IInv, system = "Linux", doing = "isolate", left # <<>>, system' = system,
           NEW done \in BOOLEAN, Runs(Head(left), done), NEW n \in Nat, Len(left) = n + 1
    PROVE  Better(n, done)
  <1>1. left \in Seq(Commands) /\ firewall \in Firewall
    BY DEF IInv, TypeOK
  <1>2. ok /\ Ends(left, IsolateCommands)
    BY DEF IInv, LeftIsEnd
  <1> DEFINE list == IsolateCommands
  <1>0. /\ list \in Seq(Commands) /\ Len(list) = 6
        /\ list[1] = "new" /\ list[2] = "loopback" /\ list[3] = "server" /\ list[4] = "dns"
        /\ list[5] = "drop" /\ list[6] = "hook"
    BY IsolateList
  <1> HIDE DEF list
  <1>3. n \in 0..5 /\ Head(left) = list[6 - n]
    <2>0. Ends(left, list)
      BY <1>2 DEF list
    <2>1. /\ Len(left) =< Len(list)
          /\ Head(left) = list[Len(list) - Len(left) + 1]
      BY <1>0, <1>1, <2>0, EndsTail
    <2>2. n \in 0..5 /\ Len(list) - Len(left) + 1 = 6 - n
      BY <1>0, <2>1
    <2> QED BY <2>1, <2>2
  <1>4. Built(n + 1)
    BY <1>2 DEF IInv, Progress
  <1>5. n + 1 < 6 => /\ firewall.chain
                     /\ Len(firewall.rules) = 5 - (n + 1)
                     /\ firewall.hook = FALSE
    BY <1>3, <1>4 DEF Built, Firewall
  <1>6. /\ Begins(firewall.rules, RuleOrder) /\ ~ firewall.block
        /\ ~ firewall.chain => firewall.rules = <<>> /\ ~ firewall.hook
    BY DEF IInv, FirewallSound
  <1>7. CASE firewall' = firewall /\ done = FALSE
    BY <1>1, <1>6, <1>7 DEF IInv, FirewallSound, Better
  <1>8. CASE Accepted(Head(left), firewall) /\ firewall' = Effect(Head(left), firewall)
    <2>1. CASE n = 5
      <3>1. Head(left) = "new"
        BY <1>0, <1>3, <2>1
      <3>2. ~ firewall.chain /\ firewall' = [firewall EXCEPT !.chain = TRUE]
        BY <1>1, <1>8, <3>1, IptablesEffect
      <3>3. /\ firewall' \in Firewall /\ firewall'.chain /\ ~ firewall'.hook /\ ~ firewall'.block
            /\ firewall'.rules = <<>>
        BY <1>1, <1>6, <3>2 DEF Firewall
      <3>4. Begins(firewall'.rules, RuleOrder) /\ Len(firewall'.rules) = 0
        BY <1>6, <3>2, <3>3, <1>1 DEF Firewall
      <3>5. Built(n)'
        BY <2>1, <3>3, <3>4 DEF Built, Firewall
      <3> QED BY <3>3, <3>4, <3>5 DEF Better, FirewallSound
    <2>2. CASE n \in 1..4
      <3> DEFINE c == Head(left)
      <3>1. Len(firewall.rules) = 4 - n /\ firewall.chain /\ ~ firewall.hook
        BY <1>5, <2>2
      <3>2. c = RuleOrder[Len(firewall.rules) + 1] /\ c \in {"loopback", "server", "dns", "drop"}
        <4>1. n = 4 \/ n = 3 \/ n = 2 \/ n = 1
          BY <2>2
        <4>2. c = list[6 - n] /\ Len(firewall.rules) + 1 = 5 - n
          BY <1>3, <2>2, <3>1
        <4>3. list[6 - n] = RuleOrder[5 - n]
          BY <1>0, <4>1, RuleList
        <4>4. RuleOrder[5 - n] \in {"loopback", "server", "dns", "drop"}
          BY <4>1, RuleList
        <4> QED BY <4>2, <4>3, <4>4
      <3> HIDE DEF c
      <3>3. firewall' = [firewall EXCEPT !.rules = Append(firewall.rules, c)]
        <4>1. firewall' = Effect(c, firewall)
          BY <1>8 DEF c
        <4> QED BY <1>1, <3>1, <3>2, <4>1, RuleEffect
      <3>4. firewall.rules \in Seq({"loopback", "server", "dns", "drop"})
        BY <1>1 DEF Firewall
      <3>5. Len(firewall.rules) < 4
        BY <2>2, <3>1
      <3>6. /\ Append(firewall.rules, c) \in Seq({"loopback", "server", "dns", "drop"})
            /\ Len(Append(firewall.rules, c)) = Len(firewall.rules) + 1
            /\ Begins(Append(firewall.rules, c), RuleOrder)
        BY <1>6, <3>2, <3>4, <3>5, AppendNext
      <3>7. /\ firewall' \in Firewall /\ firewall'.chain /\ ~ firewall'.hook /\ ~ firewall'.block
            /\ firewall'.rules = Append(firewall.rules, c)
        BY <1>1, <1>6, <3>1, <3>3, <3>6 DEF Firewall
      <3>8. Len(firewall'.rules) = 5 - n
        BY <2>2, <3>1, <3>6, <3>7
      <3>9. Built(n)'
        BY <2>2, <3>7, <3>8 DEF Built, Firewall
      <3> QED BY <3>6, <3>7, <3>9 DEF Better, FirewallSound
    <2>3. CASE n = 0
      <3>1. Head(left) = "hook"
        BY <1>0, <1>3, <2>3
      <3>2. firewall' = [firewall EXCEPT !.hook = TRUE]
        BY <1>1, <1>8, <3>1, IptablesEffect
      <3>3. firewall.chain /\ Len(firewall.rules) = 4
        BY <1>5, <2>3
      <3>4. /\ firewall' \in Firewall /\ firewall'.chain /\ firewall'.hook = TRUE
            /\ ~ firewall'.block /\ firewall'.rules = firewall.rules
        BY <1>1, <1>6, <3>2, <3>3 DEF Firewall
      <3>5. Built(n)'
        BY <2>3, <3>3, <3>4 DEF Built
      <3> QED BY <1>6, <3>4, <3>5 DEF Better, FirewallSound
    <2> QED BY <1>3, <2>1, <2>2, <2>3
  <1> QED BY <1>7, <1>8 DEF Runs

LEMMA IsolateWindows ==
    ASSUME IInv, system = "Windows", doing = "isolate", left # <<>>, system' = system,
           NEW done \in BOOLEAN, Runs(Head(left), done), NEW n \in Nat, Len(left) = n + 1,
           slipped' = slipped
    PROVE  Better(n, done)
  <1>1. left \in Seq(Commands) /\ firewall \in Firewall
    BY DEF IInv, TypeOK
  <1>2. ok /\ Ends(left, IsolateCommands)
    BY DEF IInv, LeftIsEnd
  <1> DEFINE list == IsolateCommands
  <1>3. /\ list \in Seq(Commands) /\ Len(list) = 2
        /\ list[1] = "allow" /\ list[2] = "block"
    BY IsolateList
  <1> HIDE DEF list
  <1>4. n \in 0..1 /\ Head(left) = list[2 - n]
    <2>1. Ends(left, list)
      BY <1>2 DEF list
    <2>2. Len(left) =< Len(list) /\ Head(left) = list[Len(list) - Len(left) + 1]
      BY <1>1, <1>3, <2>1, EndsTail
    <2>3. n \in 0..1 /\ Len(list) - Len(left) + 1 = 2 - n
      BY <1>3, <2>2
    <2> QED BY <2>2, <2>3
  <1>5. n = 0 => firewall.allow
    BY <1>2 DEF IInv, Progress, Built
  <1>6. /\ Begins(firewall.rules, RuleOrder) /\ ~ firewall.chain
        /\ firewall.rules = <<>> /\ ~ firewall.hook
        /\ firewall.block => firewall.allow \/ slipped
    BY <1>1 DEF IInv, FirewallSound, ServerStaysReachable, ServerReached
  <1>7. CASE firewall' = firewall /\ done = FALSE
    BY <1>1, <1>6, <1>7 DEF IInv, FirewallSound, Better
  <1>8. CASE Accepted(Head(left), firewall) /\ firewall' = Effect(Head(left), firewall)
    <2>1. CASE n = 1
      <3>1. Head(left) = "allow"
        BY <1>3, <1>4, <2>1
      <3>2. firewall' = [firewall EXCEPT !.allow = TRUE]
        BY <1>1, <1>8, <3>1, NetshEffect
      <3>3. /\ firewall' \in Firewall /\ firewall'.allow
            /\ firewall'.chain = firewall.chain /\ firewall'.hook = firewall.hook
            /\ firewall'.rules = firewall.rules
        BY <1>1, <3>2 DEF Firewall
      <3> QED BY <1>6, <2>1, <3>3 DEF Better, FirewallSound, Built
    <2>2. CASE n = 0
      <3>1. Head(left) = "block"
        BY <1>3, <1>4, <2>2
      <3>2. firewall' = [firewall EXCEPT !.block = TRUE]
        BY <1>1, <1>8, <3>1, NetshEffect
      <3>3. /\ firewall' \in Firewall /\ firewall'.block /\ firewall'.allow = firewall.allow
            /\ firewall'.chain = firewall.chain /\ firewall'.hook = firewall.hook
            /\ firewall'.rules = firewall.rules
        BY <1>1, <3>2 DEF Firewall
      <3> QED BY <1>5, <1>6, <2>2, <3>3 DEF Better, FirewallSound, Built
    <2> QED BY <1>4, <2>1, <2>2
  <1> QED BY <1>7, <1>8 DEF Runs

-------------------------------------------------------------------------------
(* A command of release().                                                 *)

\* What is to be shown of the firewall after a command of release().
Loosened ==
    /\ firewall' \in Firewall
    /\ FirewallSound'
    /\ Opened'
    /\ firewall.block' => firewall.allow' \/ (system = "Windows" /\ slipped')

LEMMA ReleaseLinux ==
    ASSUME IInv, system = "Linux", doing = "release", left # <<>>, system' = system,
           NEW n \in Nat, Len(left) = n + 1, slipped => slipped',
           \/ firewall' = After(Head(left), firewall)
           \/ firewall' = firewall /\ slipped'
    PROVE  Loosened
  <1>1. left \in Seq(Commands) /\ firewall \in Firewall
    BY DEF IInv, TypeOK
  <1> DEFINE list == ReleaseCommands
  <1>2. /\ list \in Seq(Commands) /\ Len(list) = 3
        /\ list[1] = "unhook" /\ list[2] = "flush" /\ list[3] = "delete"
    BY ReleaseList
  <1>3. Ends(left, list) /\ (Len(left) < Len(list) => Opened)
    BY DEF IInv, LeftIsEnd, Progress
  <1> HIDE DEF list
  <1>4. n \in 0..2 /\ Head(left) = list[3 - n]
    <2>1. Len(left) =< Len(list) /\ Head(left) = list[Len(list) - Len(left) + 1]
      BY <1>1, <1>2, <1>3, EndsTail
    <2>2. n \in 0..2 /\ Len(list) - Len(left) + 1 = 3 - n
      BY <1>2, <2>1
    <2> QED BY <2>1, <2>2
  <1>5. /\ Begins(firewall.rules, RuleOrder) /\ ~ firewall.block
        /\ ~ firewall.chain => firewall.rules = <<>> /\ ~ firewall.hook
    BY DEF IInv, FirewallSound
  <1>6. n < 2 => slipped' \/ ~ firewall.hook
    BY <1>2, <1>3 DEF Opened
  <1>7. CASE firewall' = firewall /\ slipped'
    BY <1>1, <1>5, <1>7 DEF Loosened, FirewallSound, Opened
  <1>8. CASE firewall' = After(Head(left), firewall)
    <2>1. CASE n = 2
      <3>1. Head(left) = "unhook"
        BY <1>2, <1>4, <2>1
      <3>2. firewall' = [firewall EXCEPT !.hook = FALSE]
        BY <1>1, <1>8, <3>1, IptablesEffect
      <3>3. /\ firewall' \in Firewall /\ ~ firewall'.hook
            /\ firewall'.chain = firewall.chain /\ firewall'.block = firewall.block
            /\ firewall'.rules = firewall.rules
        BY <1>1, <3>2 DEF Firewall
      <3> QED BY <1>5, <3>3 DEF Loosened, FirewallSound, Opened
    <2>2. CASE n = 1
      <3>1. Head(left) = "flush"
        BY <1>2, <1>4, <2>2
      <3>2. firewall' = IF firewall.chain THEN [firewall EXCEPT !.rules = <<>>] ELSE firewall
        BY <1>1, <1>8, <3>1, IptablesEffect
      <3>3. /\ firewall' \in Firewall /\ firewall'.hook = firewall.hook
            /\ firewall'.chain = firewall.chain /\ firewall'.block = firewall.block
            /\ firewall'.rules \in {firewall.rules, <<>>}
        <4>1. CASE firewall.chain
          <5>1. firewall' = [firewall EXCEPT !.rules = <<>>]
            BY <3>2, <4>1
          <5> QED BY <1>1, <5>1, EmptySeq DEF Firewall
        <4>2. CASE ~ firewall.chain
          BY <1>1, <3>2, <4>2 DEF Firewall
        <4> QED BY <4>1, <4>2
      <3>4. Begins(<<>>, RuleOrder)
        BY RuleList DEF Begins
      <3> QED BY <1>5, <1>6, <2>2, <3>3, <3>4 DEF Loosened, FirewallSound, Opened
    <2>3. CASE n = 0
      <3>1. Head(left) = "delete"
        BY <1>2, <1>4, <2>3
      <3>2. firewall' = IF firewall.chain /\ ~ firewall.hook /\ firewall.rules = <<>>
                        THEN [firewall EXCEPT !.chain = FALSE] ELSE firewall
        BY <1>1, <1>8, <3>1, IptablesEffect
      <3>3. /\ firewall' \in Firewall /\ firewall'.hook = firewall.hook
            /\ firewall'.block = firewall.block /\ firewall'.rules = firewall.rules
            /\ ~ firewall'.chain => ~ firewall.chain \/ (~ firewall.hook /\ firewall.rules = <<>>)
        BY <1>1, <3>2 DEF Firewall
      <3> QED BY <1>5, <1>6, <2>3, <3>3 DEF Loosened, FirewallSound, Opened
    <2> QED BY <1>4, <2>1, <2>2, <2>3
  <1> QED BY <1>7, <1>8

LEMMA ReleaseWindows ==
    ASSUME IInv, system = "Windows", doing = "release", left # <<>>, system' = system,
           NEW n \in Nat, Len(left) = n + 1, slipped => slipped',
           \/ firewall' = After(Head(left), firewall)
           \/ firewall' = firewall /\ slipped'
    PROVE  Loosened
  <1>1. left \in Seq(Commands) /\ firewall \in Firewall
    BY DEF IInv, TypeOK
  <1> DEFINE list == ReleaseCommands
  <1>2. /\ list \in Seq(Commands) /\ Len(list) = 2
        /\ list[1] = "unblock" /\ list[2] = "disallow"
    BY ReleaseList
  <1>3. Ends(left, list) /\ (Len(left) < Len(list) => Opened)
    BY DEF IInv, LeftIsEnd, Progress
  <1> HIDE DEF list
  <1>4. n \in 0..1 /\ Head(left) = list[2 - n]
    <2>1. Len(left) =< Len(list) /\ Head(left) = list[Len(list) - Len(left) + 1]
      BY <1>1, <1>2, <1>3, EndsTail
    <2>2. n \in 0..1 /\ Len(list) - Len(left) + 1 = 2 - n
      BY <1>2, <2>1
    <2> QED BY <2>1, <2>2
  <1>5. /\ Begins(firewall.rules, RuleOrder) /\ ~ firewall.chain
        /\ firewall.rules = <<>> /\ ~ firewall.hook
    BY DEF IInv, FirewallSound
  <1>6. n = 0 => slipped' \/ ~ firewall.block
    BY <1>2, <1>3 DEF Opened
  <1>7. CASE firewall' = firewall /\ slipped'
    BY <1>1, <1>5, <1>7 DEF Loosened, FirewallSound, Opened
  <1>8. CASE firewall' = After(Head(left), firewall)
    <2>1. CASE n = 1
      <3>1. Head(left) = "unblock"
        BY <1>2, <1>4, <2>1
      <3>2. firewall' = [firewall EXCEPT !.block = FALSE]
        BY <1>1, <1>8, <3>1, NetshEffect DEF After
      <3>3. /\ firewall' \in Firewall /\ ~ firewall'.block
            /\ firewall'.chain = firewall.chain /\ firewall'.hook = firewall.hook
            /\ firewall'.rules = firewall.rules
        BY <1>1, <3>2 DEF Firewall
      <3> QED BY <1>5, <3>3 DEF Loosened, FirewallSound, Opened
    <2>2. CASE n = 0
      <3>1. Head(left) = "disallow"
        BY <1>2, <1>4, <2>2
      <3>2. firewall' = [firewall EXCEPT !.allow = FALSE]
        BY <1>1, <1>8, <3>1, NetshEffect DEF After
      <3>3. /\ firewall' \in Firewall /\ firewall'.block = firewall.block
            /\ firewall'.chain = firewall.chain /\ firewall'.hook = firewall.hook
            /\ firewall'.rules = firewall.rules
        BY <1>1, <3>2 DEF Firewall
      <3> QED BY <1>5, <1>6, <2>2, <3>3 DEF Loosened, FirewallSound, Opened
    <2> QED BY <1>4, <2>1, <2>2
  <1> QED BY <1>7, <1>8

-------------------------------------------------------------------------------
(* The controller.                                                         *)

\* With a sound firewall, the server is within reach if a block comes with its exception.
LEMMA Reached ==
    ASSUME firewall' \in Firewall, FirewallSound', system' = system, slipped => slipped',
           firewall.block' => firewall.allow' \/ (system = "Windows" /\ slipped')
    PROVE  ServerStaysReachable'
  <1>1. firewall'.rules \in Seq({"loopback", "server", "dns", "drop"})
    BY DEF Firewall
  <1>2. Begins(firewall'.rules, RuleOrder)
    BY DEF FirewallSound
  <1>3. "drop" \in ToSet(firewall'.rules) =>
          \E i, j \in DOMAIN firewall'.rules :
            i < j /\ firewall'.rules[i] = "server" /\ firewall'.rules[j] = "drop"
    BY <1>1, <1>2, ServerFirst
  <1> QED BY <1>3 DEF ServerStaysReachable, ServerReached

LEMMA ChainIsShort ==
    ASSUME firewall' \in Firewall, FirewallSound'
    PROVE  Len(firewall'.rules) =< 4
  BY RuleList DEF FirewallSound, Begins

\* A command of either method, done or not.
LEMMA RanInv ==
    ASSUME IInv, left # <<>>, NEW done \in BOOLEAN, Ran(done),
           UNCHANGED <<system, level, isolated, doing, report, orders>>,
           faults' \in 0..MaxFaults, hurt' \in BOOLEAN, slipped' \in BOOLEAN,
           doing = "isolate" => slipped' = slipped /\ Runs(Head(left), done),
           doing = "release" => /\ slipped => slipped'
                                /\ \/ firewall' = After(Head(left), firewall)
                                   \/ firewall' = firewall /\ slipped'
    PROVE  IInv'
  <1>1. TypeOK /\ LeftIsEnd /\ FirewallSound /\ Progress
    BY DEF IInv
  <1>2. left \in Seq(Commands) /\ Len(left) \in Nat \ {0}
    BY <1>1, EmptySeq, LenProperties DEF TypeOK
  <1>3. PICK n \in Nat : Len(left) = n + 1
    <2>1. Len(left) - 1 \in Nat /\ Len(left) = (Len(left) - 1) + 1
      BY <1>2
    <2> QED BY <2>1
  <1>4. Tail(left) \in Seq(Commands) /\ Len(Tail(left)) = n
    BY <1>2, <1>3, HeadTailProperties
  <1>5. <<>> \in Seq(Commands)
    BY EmptySeq
  <1>6. left' \in {Tail(left), <<>>} /\ left' \in Seq(Commands) /\ ok' \in BOOLEAN
    BY <1>1, <1>4, <1>5 DEF Ran, Remaining, StillOk, TypeOK
  <1>7. doing = "isolate" \/ doing = "release"
    BY <1>1 DEF TypeOK, LeftIsEnd
  <1>8. CASE doing = "isolate"
    <2>1. ok /\ Ends(left, IsolateCommands)
      BY <1>1, <1>8 DEF LeftIsEnd
    <2>2. system = "Linux" \/ system = "Windows"
      BY <1>1, <1>8, <2>1 DEF Progress, Built
    <2>3. Better(n, done)
      <3>1. Runs(Head(left), done) /\ slipped' = slipped /\ system' = system
        BY <1>8
      <3>2. CASE system = "Linux"
        BY <1>3, <1>8, <3>1, <3>2, IsolateLinux
      <3>3. CASE system = "Windows"
        BY <1>3, <1>8, <3>1, <3>3, IsolateWindows
      <3> QED BY <2>2, <3>2, <3>3
    <2>4. /\ done => left' = Tail(left) /\ ok'
          /\ ~ done => left' = <<>> /\ ~ ok'
      BY <1>1, <1>8, <2>1 DEF Ran, Remaining, StillOk, TypeOK
    <2>5. /\ Ends(Tail(left), IsolateCommands) /\ Ends(<<>>, IsolateCommands)
      BY <1>2, <2>1, IsolateList, EndsTail, EndsWhole
    <2>6. IsolateCommands' = IsolateCommands
      BY DEF IsolateCommands
    <2>7. LeftIsEnd'
      BY <1>8, <2>4, <2>5, <2>6 DEF LeftIsEnd
    <2>8. Progress'
      <3>1. CASE done
        BY <1>4, <1>8, <2>3, <2>4, <3>1 DEF Progress, Better
      <3>2. CASE ~ done
        BY <1>8, <2>4, <3>2 DEF Progress
      <3> QED BY <3>1, <3>2
    <2>9. ServerStaysReachable'
      BY <1>8, <2>3, Reached DEF Better
    <2>10. TypeOK'
      BY <1>1, <1>6, <2>3, ChainIsShort DEF TypeOK, Better
    <2> QED BY <1>8, <2>3, <2>7, <2>8, <2>9, <2>10 DEF IInv, Better, ReportIsTrue
  <1>9. CASE doing = "release"
    <2>1. Ends(left, ReleaseCommands)
      BY <1>1, <1>9 DEF LeftIsEnd
    <2>2. system = "Linux" \/ system = "Windows"
      <3>1. CASE system \notin {"Linux", "Windows"}
        <4>1. Ends(left, <<>>)
          BY <2>1, <3>1, ReleaseList
        <4>2. Len(left) =< 0
          BY <4>1 DEF Ends
        <4> QED BY <1>2, <4>2
      <3> QED BY <3>1
    <2>3. Loosened
      <3>1. /\ slipped => slipped'
            /\ \/ firewall' = After(Head(left), firewall)
               \/ firewall' = firewall /\ slipped'
            /\ system' = system
        BY <1>9
      <3>2. CASE system = "Linux"
        BY <1>3, <1>9, <3>1, <3>2, ReleaseLinux
      <3>3. CASE system = "Windows"
        BY <1>3, <1>9, <3>1, <3>3, ReleaseWindows
      <3> QED BY <2>2, <3>2, <3>3
    <2>4. left' = Tail(left)
      BY <1>9 DEF Ran, Remaining
    <2>5. Ends(Tail(left), ReleaseCommands)
      BY <1>2, <2>1, ReleaseList, EndsTail
    <2>6. ReleaseCommands' = ReleaseCommands
      BY DEF ReleaseCommands
    <2>7. LeftIsEnd'
      BY <1>9, <2>4, <2>5, <2>6 DEF LeftIsEnd
    <2>8. Progress'
      BY <1>9, <2>3 DEF Progress, Loosened
    <2>9. ServerStaysReachable'
      BY <1>9, <2>3, Reached DEF Loosened
    <2>10. TypeOK'
      BY <1>1, <1>6, <2>3, ChainIsShort DEF TypeOK, Loosened
    <2> QED BY <1>9, <2>3, <2>7, <2>8, <2>9, <2>10 DEF IInv, Loosened, ReportIsTrue
  <1> QED BY <1>7, <1>8, <1>9

LEMMA AcceptedBoolean ==
    ASSUME NEW fw \in Firewall, NEW c
    PROVE  Accepted(c, fw) \in BOOLEAN
  BY DEF Accepted, Firewall

LEMMA CommandInv == IInv /\ Command => IInv'
  <1> SUFFICES ASSUME IInv, Command PROVE IInv'
    OBVIOUS
  <1> DEFINE done == Accepted(Head(left), firewall)
  <1>1. done \in BOOLEAN
    BY AcceptedBoolean DEF IInv, TypeOK
  <1>2. /\ left # <<>> /\ Ran(done)
        /\ firewall' = After(Head(left), firewall)
        /\ UNCHANGED <<system, level, isolated, doing, report, orders, faults, hurt, slipped>>
    BY DEF Command, After
  <1>3. Runs(Head(left), done)
    BY <1>1, <1>2 DEF Runs, After
  <1>4. faults' \in 0..MaxFaults /\ hurt' \in BOOLEAN /\ slipped' \in BOOLEAN
    BY <1>2 DEF IInv, TypeOK
  <1> HIDE DEF done
  <1> QED BY <1>1, <1>2, <1>3, <1>4, RanInv

LEMMA CommandFailsInv == ASSUME NEW worked \in BOOLEAN PROVE IInv /\ CommandFails(worked) => IInv'
  <1> SUFFICES ASSUME IInv, CommandFails(worked) PROVE IInv'
    OBVIOUS
  <1>1. /\ left # <<>> /\ Ran(FALSE)
        /\ firewall' \in {firewall, After(Head(left), firewall)}
        /\ UNCHANGED <<system, level, isolated, doing, report, orders>>
        /\ hurt' = TRUE /\ slipped' = (slipped \/ doing = "release")
    BY DEF CommandFails, After
  <1>2. Runs(Head(left), FALSE)
    BY <1>1 DEF Runs, After
  <1>3. faults' \in 0..MaxFaults
    BY IsolationAssumption DEF CommandFails, Fail, IInv, TypeOK
  <1>4. slipped \in BOOLEAN /\ doing \in {"nothing", "isolate", "release"}
    BY DEF IInv, TypeOK
  <1>5. slipped' \in BOOLEAN /\ hurt' \in BOOLEAN
    BY <1>1
  <1>6. doing = "isolate" => slipped' = slipped
    BY <1>1, <1>4
  <1>7. doing = "release" => slipped'
    BY <1>1
  <1> QED BY <1>1, <1>2, <1>3, <1>5, <1>6, <1>7, RanInv

LEMMA IsolateInv == IInv /\ Isolate => IInv'
  <1> SUFFICES ASSUME IInv, Isolate PROVE IInv'
    OBVIOUS
  <1> USE DEF Isolate
  <1>1. TypeOK'
    BY IsolateList DEF IInv, TypeOK
  <1>2. IsolateCommands' = IsolateCommands
    BY DEF IsolateCommands
  <1>3. LeftIsEnd'
    <2>1. Ends(IsolateCommands, IsolateCommands)
      BY IsolateList, EndsWhole
    <2>2. ~ ok' => IsolateCommands = <<>>
      BY IsolateList
    <2> QED BY <1>2, <2>1, <2>2 DEF LeftIsEnd
  <1>4. Progress'
    <2>1. CASE system = "Linux"
      <3>1. Len(left') = 6
        BY <2>1, IsolateList
      <3> QED BY <2>1, <3>1 DEF Progress, Built
    <2>2. CASE system = "Windows"
      <3>1. Len(left') = 2
        BY <2>2, IsolateList
      <3> QED BY <2>2, <3>1 DEF Progress, Built
    <2>3. CASE system \notin {"Linux", "Windows"}
      BY <2>3 DEF Progress
    <2> QED BY <2>1, <2>2, <2>3
  <1>5. FirewallSound' /\ ServerStaysReachable' /\ ReportIsTrue'
    BY DEF IInv, FirewallSound, ServerStaysReachable, ServerReached, ReportIsTrue
  <1> QED BY <1>1, <1>3, <1>4, <1>5 DEF IInv

LEMMA ReleaseInv == IInv /\ Release => IInv'
  <1> SUFFICES ASSUME IInv, Release PROVE IInv'
    OBVIOUS
  <1> USE DEF Release
  <1>1. TypeOK'
    BY ReleaseList DEF IInv, TypeOK
  <1>2. ReleaseCommands' = ReleaseCommands
    BY DEF ReleaseCommands
  <1>3. LeftIsEnd'
    <2>1. Ends(ReleaseCommands, ReleaseCommands)
      BY ReleaseList, EndsWhole
    <2> QED BY <1>2, <2>1 DEF LeftIsEnd
  <1>4. Progress'
    <2>1. Len(ReleaseCommands) \in Nat
      BY ReleaseList, LenProperties
    <2> QED BY <1>2, <2>1 DEF Progress
  <1>5. FirewallSound' /\ ServerStaysReachable' /\ ReportIsTrue'
    BY DEF IInv, FirewallSound, ServerStaysReachable, ServerReached, ReportIsTrue
  <1> QED BY <1>1, <1>3, <1>4, <1>5 DEF IInv

\* When a method is done, its report is true.
LEMMA FinishInv == IInv /\ Finish => IInv'
  <1> SUFFICES ASSUME IInv, Finish PROVE IInv'
    OBVIOUS
  <1> USE DEF Finish
  <1>1. TypeOK'
    BY DEF IInv, TypeOK
  <1>2. LeftIsEnd' /\ Progress'
    BY DEF LeftIsEnd, Progress
  <1>3. FirewallSound' /\ ServerStaysReachable'
    BY DEF IInv, FirewallSound, ServerStaysReachable, ServerReached
  <1>4. Cut' = Cut
    BY DEF Cut
  <1>5. Len(left) = 0
    BY EmptySeq DEF IInv, TypeOK
  <1>6. firewall \in Firewall /\ firewall.rules \in Seq({"loopback", "server", "dns", "drop"})
    BY DEF IInv, TypeOK, Firewall
  <1>7. Begins(firewall.rules, RuleOrder)
    BY DEF IInv, FirewallSound
  <1>8. doing = "isolate" /\ ok => Cut
    <2>1. SUFFICES ASSUME doing = "isolate", ok PROVE Cut
      OBVIOUS
    <2>2. Built(0)
      BY <1>5, <2>1 DEF IInv, Progress
    <2>3. CASE system = "Linux"
      <3>1. firewall.hook /\ Len(firewall.rules) = 4
        BY <2>2, <2>3 DEF Built
      <3> QED BY <1>6, <1>7, <3>1, DropIsLast DEF Cut
    <2>4. CASE system = "Windows"
      BY <2>2, <2>4 DEF Built, Cut
    <2> QED BY <2>2, <2>3, <2>4 DEF Built
  <1>9. doing = "release" => ~ Cut \/ slipped
    <2>1. SUFFICES ASSUME doing = "release", ~ slipped PROVE ~ Cut
      OBVIOUS
    <2>2. CASE system \in {"Linux", "Windows"}
      <3>1. 0 < Len(ReleaseCommands)
        BY <2>2, ReleaseList
      <3> QED BY <1>5, <2>1, <3>1 DEF IInv, Progress, Opened, Cut
    <2>3. CASE system \notin {"Linux", "Windows"}
      BY <2>3 DEF IInv, FirewallSound, Cut
    <2> QED BY <2>2, <2>3
  <1>10. ReportIsTrue'
    BY <1>4, <1>8, <1>9 DEF ReportIsTrue, IInv, TypeOK
  <1> QED BY <1>1, <1>2, <1>3, <1>10 DEF IInv

LEMMA SetLevelInv == ASSUME NEW v \in BOOLEAN PROVE IInv /\ SetLevel(v) => IInv'
  <1> SUFFICES ASSUME IInv, SetLevel(v) PROVE IInv'
    OBVIOUS
  <1> USE DEF SetLevel, controller
  <1>1. TypeOK'
    BY IsolationAssumption DEF IInv, TypeOK
  <1>2. LeftIsEnd' /\ Progress'
    BY DEF IInv, LeftIsEnd, Progress
  <1>3. FirewallSound' /\ ServerStaysReachable' /\ ReportIsTrue'
    BY DEF IInv, FirewallSound, ServerStaysReachable, ServerReached, ReportIsTrue, Cut
  <1> QED BY <1>1, <1>2, <1>3 DEF IInv

LEMMA RestartInv == ASSUME NEW reboot \in BOOLEAN PROVE IInv /\ Restart(reboot) => IInv'
  <1> SUFFICES ASSUME IInv, Restart(reboot) PROVE IInv'
    OBVIOUS
  <1> USE DEF Restart
  <1>1. firewall \in Firewall /\ firewall.allow \in BOOLEAN /\ firewall.block \in BOOLEAN
    BY DEF IInv, TypeOK, Firewall
  <1>2. \/ firewall' = firewall
        \/ firewall' = [chain |-> FALSE, rules |-> <<>>, hook |-> FALSE,
                        allow |-> firewall.allow, block |-> firewall.block]
    BY DEF Open
  <1>3. firewall' \in Firewall
    BY <1>1, <1>2, EmptySeq DEF Firewall
  <1>4. FirewallSound'
    <2>1. Begins(<<>>, RuleOrder)
      BY RuleList DEF Begins
    <2> QED BY <1>2, <2>1 DEF IInv, FirewallSound
  <1>5. ServerStaysReachable'
    <2>1. firewall.block => firewall.allow \/ (system = "Windows" /\ slipped)
      BY DEF IInv, ServerStaysReachable, ServerReached
    <2>2. firewall'.block => firewall'.allow \/ (system = "Windows" /\ slipped')
      BY <1>2, <2>1
    <2> QED BY <1>3, <1>4, <2>2, Reached
  <1>6. LeftIsEnd' /\ Progress' /\ ReportIsTrue'
    BY DEF LeftIsEnd, Progress, ReportIsTrue
  <1>7. TypeOK'
    <2>1. faults' \in 0..MaxFaults
      BY IsolationAssumption DEF IInv, TypeOK, Fail
    <2>2. left' \in Seq(Commands) /\ hurt' \in BOOLEAN
      <3>1. hurt \in BOOLEAN
        BY DEF IInv, TypeOK
      <3> QED BY <3>1, EmptySeq
    <2> QED BY <1>3, <1>4, <2>1, <2>2, ChainIsShort DEF IInv, TypeOK
  <1> QED BY <1>4, <1>5, <1>6, <1>7 DEF IInv

LEMMA HostInit == Init => IInv
  <1> SUFFICES ASSUME Init PROVE IInv
    OBVIOUS
  <1> USE DEF Init
  <1>1. firewall = Open /\ firewall.rules = <<>> /\ Len(firewall.rules) = 0
    BY DEF Open
  <1>2. TypeOK
    <2>1. firewall \in Firewall
      BY <1>1, EmptySeq DEF Open, Firewall
    <2>2. left \in Seq(Commands)
      BY EmptySeq
    <2>3. orders \in 0..MaxOrders /\ faults \in 0..MaxFaults
      BY IsolationAssumption
    <2>4. Len(firewall.rules) =< 4
      BY <1>1
    <2>5. /\ system \in Systems /\ level \in BOOLEAN /\ isolated \in BOOLEAN /\ ok \in BOOLEAN
          /\ doing \in {"nothing", "isolate", "release"}
          /\ report \in {"none", "isolated", "isolation_partial", "released"}
          /\ hurt \in BOOLEAN /\ slipped \in BOOLEAN
      OBVIOUS
    <2> HIDE DEF Init
    <2> QED BY <2>1, <2>2, <2>3, <2>4, <2>5 DEF TypeOK
  <1>3. LeftIsEnd /\ Progress /\ ReportIsTrue
    BY DEF LeftIsEnd, Progress, ReportIsTrue
  <1>4. FirewallSound /\ ServerStaysReachable
    BY <1>1, RuleList DEF FirewallSound, Begins, ServerStaysReachable, ServerReached, Open
  <1> QED BY <1>2, <1>3, <1>4 DEF IInv

LEMMA HostStutter == IInv /\ UNCHANGED vars => IInv'
  <1> SUFFICES ASSUME IInv, UNCHANGED vars PROVE IInv'
    OBVIOUS
  <1> USE DEF vars, controller
  <1>1. TypeOK'
    BY DEF IInv, TypeOK
  <1>2. LeftIsEnd' /\ Progress'
    BY DEF IInv, LeftIsEnd, Progress, IsolateCommands, ReleaseCommands, Built, Opened
  <1>3. FirewallSound' /\ ServerStaysReachable' /\ ReportIsTrue'
    BY DEF IInv, FirewallSound, ServerStaysReachable, ServerReached, ReportIsTrue, Cut
  <1> QED BY <1>1, <1>2, <1>3 DEF IInv

-------------------------------------------------------------------------------
(* The turn of the agent's loop.                                           *)

LEMMA TurnInitInv == TurnInit => TurnInv
  <1> SUFFICES ASSUME TurnInit PROVE TurnInv
    OBVIOUS
  <1> USE DEF TurnInit, Fresh
  <1>1. IInv
    BY HostInit
  <1>2. TurnTypeOK
    <2>1. policy \in [domains : SUBSET Domains, breaks : Breaks]
      BY DEF Breaks
    <2>2. hosts \in Hosts
      BY DEF Hosts
    <2>3. 0 \in 0..MaxEdits /\ Builtin \subseteq Domains
      BY DeliveryAssumption
    <2> QED BY <2>1, <2>2, <2>3 DEF TurnTypeOK
  <1>3. PinsExplained
    BY DEF PinsExplained
  <1> QED BY <1>1, <1>2, <1>3 DEF TurnInv

\* Of the host's variables a turn changes them as the controller does, or counts a fault.
LEMMA TurnHostInv == IInv /\ TurnTypeOK /\ [TurnNext]_turnVars => IInv'
  <1> SUFFICES ASSUME IInv, TurnTypeOK, [TurnNext]_turnVars PROVE IInv'
    OBVIOUS
  <1>1. CASE EditSomething \/ Sync \/ UNCHANGED turnVars
    BY <1>1, HostStutter DEF EditSomething, Sync, hostVars, turnVars
  <1>2. CASE CheckIn
    <2>1. wanted \in BOOLEAN
      BY DEF TurnTypeOK
    <2>2. UNCHANGED hostVars \/ SetLevel(wanted)
      BY <1>2 DEF CheckIn
    <2> QED BY <2>1, <2>2, HostStutter, SetLevelInv DEF hostVars
  <1>3. CASE Obey
    BY <1>3, IsolateInv, ReleaseInv DEF Obey
  <1>4. CASE Work
    BY <1>4, CommandInv, FinishInv, CommandFailsInv DEF Work
  <1>5. CASE Trouble \/ \E written \in SUBSET Domains, raises \in BOOLEAN : SyncFails(written, raises)
    <2>1. /\ UNCHANGED <<system, level, firewall, controller, orders, hurt, slipped>>
          /\ faults' \in 0..MaxFaults
      BY <1>5, IsolationAssumption DEF Trouble, SyncFails, Fail, IInv, TypeOK
    <2> USE DEF controller
    <2>2. TypeOK'
      BY <2>1 DEF IInv, TypeOK
    <2>3. LeftIsEnd' /\ Progress'
      BY <2>1 DEF IInv, LeftIsEnd, Progress, IsolateCommands, ReleaseCommands, Built, Opened
    <2>4. FirewallSound' /\ ServerStaysReachable' /\ ReportIsTrue'
      BY <2>1 DEF IInv, FirewallSound, ServerStaysReachable, ServerReached, ReportIsTrue, Cut
    <2> QED BY <2>2, <2>3, <2>4 DEF IInv
  <1>6. ASSUME NEW reboot \in BOOLEAN, TurnRestart(reboot) PROVE IInv'
    BY <1>6, RestartInv DEF TurnRestart
  <1> QED BY <1>1, <1>2, <1>3, <1>4, <1>5, <1>6 DEF TurnNext

\* What is blocked was named, and what is pinned was blocked or is left from a failed write.
LEMMA TurnPinsInv ==
    TurnTypeOK /\ PinsExplained /\ [TurnNext]_turnVars => TurnTypeOK' /\ PinsExplained'
  <1> SUFFICES ASSUME TurnTypeOK, PinsExplained, [TurnNext]_turnVars
               PROVE  TurnTypeOK' /\ PinsExplained'
    OBVIOUS
  <1> USE DEF TurnTypeOK, PinsExplained, server, agent
  <1>1. CASE EditSomething
    <2>1. UNCHANGED <<agent, hosts, named, cut>> /\ edits' \in 0..MaxEdits
      BY <1>1, DeliveryAssumption
         DEF EditSomething, EditBlocklist, EditPolicy, EditLevel, Edit
    <2>2. CASE \E d \in Domains : EditBlocklist(d)
      BY <2>1, <2>2 DEF EditBlocklist
    <2>3. CASE \E ds \in SUBSET (Domains \ Builtin), b \in Breaks : EditPolicy(ds, b)
      BY <2>1, <2>3 DEF EditPolicy
    <2>4. CASE EditLevel
      BY <2>1, <2>4 DEF EditLevel
    <2> QED BY <1>1, <2>2, <2>3, <2>4 DEF EditSomething
  <1>2. CASE CheckIn
    <2>1. Merged \subseteq Domains
      BY DEF Merged
    <2>2. due' \in BOOLEAN /\ jam' \in {"none", "sync", "scan"}
      BY <1>2 DEF CheckIn, OtherLevel
    <2>3. /\ UNCHANGED <<blocklist, policy, wanted, edits, applied, hosts, cut>>
          /\ config' = config \cup Merged /\ named' = named \cup Merged
      BY <1>2 DEF CheckIn
    <2> QED BY <2>1, <2>2, <2>3
  <1>3. CASE Obey
    BY <1>3 DEF Obey
  <1>4. CASE Work
    BY <1>4 DEF Work
  <1>5. CASE Sync
    <2>1. /\ UNCHANGED <<blocklist, policy, wanted, edits, config, due, jam, named, cut>>
          /\ applied' = config
          /\ hosts' = [block |-> config, closed |-> TRUE, torn |-> Unstripped(hosts),
                       legible |-> TRUE]
      BY <1>5 DEF Sync
    <2>2. Unstripped(hosts) \subseteq cut
      BY DEF Unstripped
    <2> QED BY <2>1, <2>2 DEF Hosts
  <1>6. ASSUME NEW written \in SUBSET Domains, NEW raises \in BOOLEAN,
               SyncFails(written, raises)
        PROVE  TurnTypeOK' /\ PinsExplained'
    <2>1. /\ UNCHANGED <<blocklist, policy, wanted, edits, config, due, named>>
          /\ applied' = applied /\ jam' \in {"none", "sync", "scan"}
          /\ hosts' = [block |-> {}, closed |-> FALSE, torn |-> written, legible |-> TRUE]
          /\ cut' = cut \cup written
      BY <1>6 DEF SyncFails, AppliedAfterFailure
    <2> QED BY <2>1 DEF Hosts
  <1>7. ASSUME NEW reboot \in BOOLEAN, TurnRestart(reboot)
        PROVE  TurnTypeOK' /\ PinsExplained'
    BY <1>7, DeliveryAssumption DEF TurnRestart
  <1>8. CASE Trouble
    <2>1. /\ UNCHANGED <<blocklist, policy, wanted, edits, config, applied, due, named, cut>>
          /\ jam' \in {"none", "sync", "scan"}
          /\ hosts' = hosts \/ hosts' = [hosts EXCEPT !.legible = ~ hosts.legible]
      BY <1>8 DEF Trouble
    <2>2. [hosts EXCEPT !.legible = ~ hosts.legible] \in Hosts
      BY DEF Hosts
    <2>3. hosts' \in Hosts /\ hosts'.block = hosts.block /\ hosts'.torn = hosts.torn
      BY <2>1, <2>2 DEF Hosts
    <2> QED BY <2>1, <2>3
  <1>9. CASE UNCHANGED turnVars
    BY <1>9 DEF turnVars
  <1> QED BY <1>1, <1>2, <1>3, <1>4, <1>5, <1>6, <1>7, <1>8, <1>9 DEF TurnNext

LEMMA TurnIsInvariant == TurnSpec => []TurnInv
  <1>1. TurnInv /\ [TurnNext]_turnVars => TurnInv'
    BY TurnHostInv, TurnPinsInv DEF TurnInv
  <1> QED BY <1>1, TurnInitInv, PTL DEF TurnSpec

\* isolation.py:1-2: whatever the server decides and whatever fails, each step of isolate()
\* and release() leaves the server within reach, but after a failed release() on Windows.
THEOREM ServerReachable == TurnSpec => []ServerStaysReachable
  <1>1. TurnInv => ServerStaysReachable
    BY DEF TurnInv, IInv
  <1> QED BY <1>1, TurnIsInvariant, PTL

\* The agent reports a host isolated only when its traffic is cut, and released only when
\* it is not, but for a failed command of release().
THEOREM ReportsAreTrue == TurnSpec => []ReportIsTrue
  <1>1. TurnInv => ReportIsTrue
    BY DEF TurnInv, IInv
  <1> QED BY <1>1, TurnIsInvariant, PTL

\* dns_sinkhole.py:58: a run of the agent that has written the hosts file pins nothing that
\* was not named to it, but what a failed write has left without an end.
THEOREM PinsOrdered == TurnSpec => []PinsAreOrdered
  <1>1. TurnInv => PinsAreOrdered
    BY DEF TurnInv, PinsExplained, PinsAreOrdered, Pinned
  <1> QED BY <1>1, TurnIsInvariant, PTL

-------------------------------------------------------------------------------
(* FleetPolicy.                                                            *)

USE FleetAssumption

-------------------------------------------------------------------------------
(* Numbers of rows.                                                        *)

LEMMA NumbersAreFinite == IsFiniteSet(Numbers)
  BY FS_Interval DEF Numbers

\* The next number is above every number in use, and by one at most.
LEMMA NextNumberIsFresh ==
  ASSUME NEW used, used \subseteq Numbers
  PROVE  /\ NextNumber(used) \in Nat \ {0}
         /\ \A m \in used : m < NextNumber(used)
         /\ \A b \in Nat : (\A m \in used : m =< b) => NextNumber(used) =< b + 1
  <1> DEFINE upto == {n \in Numbers : \E m \in used : n =< m}
  <1>1. IsFiniteSet(upto) /\ Cardinality(upto) \in Nat
    BY NumbersAreFinite, FS_Subset, FS_CardinalityType
  <1>2. NextNumber(used) = 1 + Cardinality(upto)
    BY DEF NextNumber
  <1>3. ASSUME NEW m \in used PROVE m =< Cardinality(upto)
    <2>1. m \in Nat /\ 1..m \subseteq upto
      BY DEF Numbers
    <2>2. Cardinality(1..m) = m
      BY <2>1, FS_Interval
    <2> QED
      BY <2>1, <2>2, <1>1, FS_Subset
  <1>4. ASSUME NEW b \in Nat, \A m \in used : m =< b PROVE Cardinality(upto) =< b
    <2>1. upto \subseteq 1..b
      BY <1>4 DEF Numbers
    <2>2. IsFiniteSet(1..b) /\ Cardinality(1..b) = b
      BY FS_Interval
    <2> QED
      BY <2>1, <2>2, FS_Subset
  <1> HIDE DEF upto
  <1>5. ASSUME NEW m \in used PROVE m < NextNumber(used)
    <2>1. m \in Nat /\ m =< Cardinality(upto)
      BY <1>3 DEF Numbers
    <2> QED
      BY <2>1, <1>1, <1>2
  <1> QED
    BY <1>1, <1>2, <1>4, <1>5

LEMMA ExistingIsFinite ==
  IsFiniteSet(Existing) /\ Cardinality(Existing) \in Nat /\ Existing \subseteq Numbers
  BY NumbersAreFinite, FS_Subset, FS_CardinalityType DEF Existing

-------------------------------------------------------------------------------
(* Requests: a step that has a request waiting, and one that takes it off. *)

LEMMA LoadKeeps ==
  ASSUME FleetTypeOK, RequestsAreCounted, NEW t \in Threads, NEW what \in Requests,
         what # Idle, Load(t, what)
  PROVE  /\ request' \in [Threads -> Requests]
         /\ request'[t] = what
         /\ \A u \in Threads : u # t => request'[u] = request[u]
         /\ requests' = requests + 1 /\ requests' \in 0..MaxRequests
         /\ IsFiniteSet(Pending')
         /\ Cardinality(Pending) \in Nat
         /\ Cardinality(Pending') = Cardinality(Pending) + 1
  <1>1. /\ request' = [request EXCEPT ![t] = what] /\ request[t] = Idle
        /\ request \in [Threads -> Requests] /\ requests' = requests + 1
        /\ requests \in 0..MaxRequests /\ requests < MaxRequests
    BY DEF Load, FleetTypeOK
  <1>2. /\ request' \in [Threads -> Requests] /\ request'[t] = what
        /\ \A u \in Threads : u # t => request'[u] = request[u]
    BY <1>1
  <1>3. Pending' = Pending \cup {t} /\ t \notin Pending
    BY <1>1, <1>2 DEF Pending
  <1>4. IsFiniteSet(Pending)
    BY DEF RequestsAreCounted
  <1>5. /\ IsFiniteSet(Pending') /\ Cardinality(Pending) \in Nat
        /\ Cardinality(Pending') = Cardinality(Pending) + 1
    BY <1>3, <1>4, FS_AddElement, FS_CardinalityType
  <1>6. requests' \in 0..MaxRequests
    BY <1>1
  <1> QED
    BY <1>1, <1>2, <1>5, <1>6

\* What the fields of a request are.
LEMMA FieldsOfRequest ==
  ASSUME NEW r \in Requests
  PROVE  /\ r # Idle => r.crossed \in BOOLEAN /\ r.about # <<"nothing", 0>>
         /\ \A k \in Counted : r.about = <<k, 0>> => r # Idle /\ r.op = "insert"
         /\ \A g \in Numbers \cup {0} : r.about = Group(g) =>
              /\ r # Idle
              /\ r.op = "delete" =>
                   g # 0 /\ r.member \in BOOLEAN /\ r.policies \subseteq Numbers
              /\ r.op = "assign" => r.loaded \in Numbers \cup {0} /\ r.name \in 0..MaxRequests
              /\ r.op = "policy" => r.look \in Looks /\ r.name \in 0..MaxRequests
              /\ r.op \in {"delete", "assign", "policy"}
         /\ \A n \in Numbers : r.about = <<"policy", n>> => r # Idle
  BY DEF Requests, Idle, Group, Counted, Numbers

LEMMA CrossedIsRequest ==
  ASSUME NEW r \in Requests, r # Idle
  PROVE  LET c == [r EXCEPT !.crossed = TRUE]
         IN  c \in Requests /\ c # Idle /\ c.about = r.about /\ c.op = r.op /\ c.crossed
  BY DEF Requests, Idle, Group, Counted, Numbers

\* After a commit, a request that waits has waited, and if it is not crossed it is as it was,
\* and not one about the same as the commit, if one of the two makes or deletes a row.
Apart(t) ==
    \A u \in Threads :
       request'[u] # Idle =>
         /\ u # t /\ request[u] # Idle
         /\ request'[u].about = request[u].about /\ request'[u].op = request[u].op
         /\ ~ request'[u].crossed =>
              /\ request'[u] = request[u]
              /\ request[u].about = request[t].about =>
                   /\ request[u].op \notin {"insert", "delete"}
                   /\ request[t].op \notin {"insert", "delete"}

LEMMA DoneKeeps ==
  ASSUME FleetTypeOK, RequestsAreCounted, NEW t \in Threads, request[t] # Idle, Done(t)
  PROVE  /\ request' \in [Threads -> Requests]
         /\ request'[t] = Idle
         /\ Apart(t)
         /\ IsFiniteSet(Pending')
         /\ Cardinality(Pending) \in Nat /\ Cardinality(Pending') \in Nat
         /\ Cardinality(Pending') = Cardinality(Pending) - 1
  <1>1. request \in [Threads -> Requests]
    BY DEF FleetTypeOK
  <1>2. request[t].about # <<"nothing", 0>>
    BY <1>1, FieldsOfRequest
  <1>3. request'[t] = Idle
    BY DEF Done
  <1>4. ASSUME NEW u \in Threads, u # t
        PROVE  \/ /\ request[u].about = request[t].about
                  /\ {request[u].op, request[t].op} \cap {"insert", "delete"} # {}
                  /\ request[u] # Idle
                  /\ request'[u] = [request[u] EXCEPT !.crossed = TRUE]
               \/ /\ \/ request[u].about # request[t].about
                     \/ {request[u].op, request[t].op} \cap {"insert", "delete"} = {}
                  /\ request'[u] = request[u]
    BY <1>2, <1>4 DEF Done, Idle
  <1>5. ASSUME NEW u \in Threads, u # t
        PROVE  /\ request'[u] \in Requests
               /\ request'[u] # Idle <=> request[u] # Idle
               /\ request'[u].about = request[u].about /\ request'[u].op = request[u].op
               /\ \/ request'[u] = request[u] /\
                     (\/ request[u].about # request[t].about
                      \/ {request[u].op, request[t].op} \cap {"insert", "delete"} = {})
                  \/ request'[u].crossed
    <2>1. request[u] \in Requests
      BY <1>1
    <2>2. CASE request'[u] = request[u] /\
                     (\/ request[u].about # request[t].about
                      \/ {request[u].op, request[t].op} \cap {"insert", "delete"} = {})
      BY <2>1, <2>2
    <2>3. CASE request[u] # Idle /\ request'[u] = [request[u] EXCEPT !.crossed = TRUE]
      BY <2>1, <2>3, CrossedIsRequest
    <2> QED
      BY <2>2, <2>3, <1>4, <1>5
  <1>6. request' \in [Threads -> Requests]
    <2>1. request' = [u \in Threads |-> request'[u]]
      BY DEF Done
    <2>2. \A u \in Threads : request'[u] \in Requests
      BY <1>3, <1>5 DEF Requests
    <2> HIDE <2>2
    <2> QED
      BY <2>1, <2>2
  <1>7. Apart(t)
    BY <1>3, <1>5 DEF Apart
  <1>8. Pending' = Pending \ {t} /\ t \in Pending
    BY <1>3, <1>5 DEF Pending
  <1>9. IsFiniteSet(Pending)
    BY DEF RequestsAreCounted
  <1>10. /\ IsFiniteSet(Pending') /\ Cardinality(Pending') = Cardinality(Pending) - 1
         /\ Cardinality(Pending) \in Nat /\ Cardinality(Pending') \in Nat
    BY <1>8, <1>9, FS_RemoveElement, FS_CardinalityType
  <1> QED
    BY <1>3, <1>6, <1>7, <1>10

-------------------------------------------------------------------------------
(* What requests in flight hold, over a load and over a commit.            *)

LEMMA LoadHolds ==
  ASSUME FleetInv, NEW t \in Threads, NEW what \in Requests, what # Idle, Load(t, what),
         \A k \in Counted : what.about = <<k, 0>> /\ ~ what.crossed => WithinLimit(k),
         \A g \in Numbers : what.about = Group(g) /\ what.op # "delete" /\ ~ what.crossed
           => what.name # 0 /\ groups[g] = what.name,
         \A g \in Numbers : what.about = Group(g) /\ what.op = "delete" /\ ~ what.crossed
           => (member = g => what.member) /\ PoliciesOf(g) \subseteq what.policies
  PROVE  FleetInv'
  <1>1. UNCHANGED <<plan, cap, users, devices, groups, member, meant, astray, policies, names>>
    BY DEF Load, org, fleet
  <1>2. /\ request' \in [Threads -> Requests]
        /\ request'[t] = what
        /\ \A u \in Threads : u # t => request'[u] = request[u]
        /\ requests' = requests + 1 /\ requests' \in 0..MaxRequests
        /\ IsFiniteSet(Pending')
        /\ Cardinality(Pending) \in Nat
        /\ Cardinality(Pending') = Cardinality(Pending) + 1
    BY LoadKeeps DEF FleetInv
  <1>3. FleetTypeOK'
    BY <1>1, <1>2 DEF FleetTypeOK, FleetInv
  <1>4. RequestsAreCounted'
    <2>1. Existing' = Existing
      BY <1>1 DEF Existing
    <2>2. /\ users \in Nat /\ devices \in Nat /\ names \in Nat /\ requests \in Nat
          /\ Existing \subseteq Nat /\ \A p \in policies : p.id \in Nat
      BY DEF FleetInv, FleetTypeOK, Existing, Numbers, Rows
    <2> QED
      BY <1>1, <1>2, <2>1, <2>2 DEF RequestsAreCounted, FleetInv
  <1>5. CountHolds'
    <2>1. \A k \in Counted : WithinLimit(k)' <=> WithinLimit(k)
      BY <1>1 DEF WithinLimit, Limit, Count, Existing
    <2> QED
      BY <1>2, <2>1 DEF CountHolds, FleetInv
  <1>6. NameHolds'
    BY <1>1, <1>2 DEF NameHolds, FleetInv
  <1>7. DeletionHolds'
    <2>1. \A g \in Numbers : PoliciesOf(g)' = PoliciesOf(g)
      BY <1>1 DEF PoliciesOf
    <2> QED
      BY <1>1, <1>2, <2>1 DEF DeletionHolds, FleetInv
  <1>8. PoliciesAreReal' /\ MembershipIsReal'
    BY <1>1 DEF PoliciesAreReal, MembershipIsReal, FleetInv
  <1> QED
    BY <1>3, <1>4, <1>5, <1>6, <1>7, <1>8 DEF FleetInv

LEMMA CommitHolds ==
  ASSUME FleetInv, NEW t \in Threads, request[t] # Idle, Apart(t),
         request' \in [Threads -> Requests],
         \A k \in Counted : request[t].about # <<k, 0>> =>
           (WithinLimit(k) => WithinLimit(k)'),
         \A g \in Numbers : groups[g] # 0 =>
           groups'[g] = groups[g] \/ (request[t].about = Group(g) /\ request[t].op = "delete"),
         \A g \in Numbers : member' = g => member = g \/ request[t].about = Group(g),
         \A g \in Numbers : PoliciesOf(g)' \subseteq PoliciesOf(g) \/ request[t].about = Group(g)
  PROVE  CountHolds' /\ NameHolds' /\ DeletionHolds'
  <1>1. request \in [Threads -> Requests]
    BY DEF FleetInv, FleetTypeOK
  <1>2. ASSUME NEW u \in Threads, NEW k \in Counted,
               request'[u].about = <<k, 0>>, ~ request'[u].crossed
        PROVE  WithinLimit(k)'
    <2>1. request'[u] # Idle
      BY <1>2, FieldsOfRequest
    <2>2. /\ request'[u] = request[u] /\ request[u].op = "insert"
          /\ request[u].about # request[t].about
      BY <1>1, <1>2, <2>1, FieldsOfRequest DEF Apart
    <2>3. WithinLimit(k)
      BY <1>2, <2>2 DEF CountHolds, FleetInv
    <2> QED
      BY <1>2, <2>2, <2>3
  <1>3. ASSUME NEW u \in Threads, NEW g \in Numbers, request'[u].about = Group(g),
               request'[u].op # "delete", ~ request'[u].crossed
        PROVE  request'[u].name # 0 /\ groups'[g] = request'[u].name
    <2>1. request'[u] # Idle
      BY <1>3, FieldsOfRequest
    <2>2. /\ request'[u] = request[u]
          /\ request[u].about = request[t].about => request[t].op # "delete"
      BY <1>3, <2>1 DEF Apart
    <2>3. request[u].name # 0 /\ groups[g] = request[u].name
      BY <1>3, <2>2 DEF NameHolds, FleetInv
    <2> QED
      BY <1>3, <2>2, <2>3
  <1>4. ASSUME NEW u \in Threads, NEW g \in Numbers, request'[u].about = Group(g),
               request'[u].op = "delete", ~ request'[u].crossed
        PROVE  /\ member' = g => request'[u].member
               /\ PoliciesOf(g)' \subseteq request'[u].policies
    <2>1. request'[u] # Idle
      BY <1>4, FieldsOfRequest
    <2>2. request'[u] = request[u] /\ request[u].about # request[t].about
      BY <1>4, <2>1 DEF Apart
    <2>3. (member = g => request[u].member) /\ PoliciesOf(g) \subseteq request[u].policies
      BY <1>4, <2>2 DEF DeletionHolds, FleetInv
    <2>4. request[t].about # Group(g)
      BY <1>4, <2>2
    <2> QED
      BY <2>2, <2>3, <2>4
  <1> QED
    BY <1>2, <1>3, <1>4 DEF CountHolds, NameHolds, DeletionHolds

-------------------------------------------------------------------------------
(* One lemma for each action.                                              *)

LEMMA InitFleet == FleetInit => FleetInv
  <1> SUFFICES ASSUME FleetInit PROVE FleetInv
    OBVIOUS
  <1>1. Existing = {} /\ Pending = {}
    BY DEF FleetInit, Existing, Pending
  <1>2. FleetTypeOK
    <2>1. request \in [Threads -> Requests]
      BY DEF FleetInit, Requests
    <2>2. groups \in [Numbers -> 0..MaxRequests]
      BY DEF FleetInit
    <2>3. /\ plan \in Plans /\ cap \in Caps \cup {0} /\ member \in Numbers \cup {0}
          /\ policies \subseteq Rows /\ \A p, q \in policies : p.id = q.id => p = q
          /\ astray \in BOOLEAN
      BY DEF FleetInit
    <2>4. /\ requests = 0 /\ names = 0 /\ meant = 0 /\ users = 1 /\ devices = 1
          /\ 0 \in 0..MaxRequests /\ 1 \in 1..(MaxRequests + 1)
      BY DEF FleetInit
    <2> QED
      BY <2>1, <2>2, <2>3, <2>4 DEF FleetTypeOK
  <1>3. RequestsAreCounted
    BY <1>1, FS_EmptySet DEF FleetInit, RequestsAreCounted
  <1>4. CountHolds /\ NameHolds /\ DeletionHolds
    BY DEF FleetInit, CountHolds, NameHolds, DeletionHolds, Idle, Group, Counted
  <1>5. PoliciesAreReal /\ MembershipIsReal
    BY DEF FleetInit, PoliciesAreReal, MembershipIsReal
  <1> QED
    BY <1>2, <1>3, <1>4, <1>5 DEF FleetInv

LEMMA KeepsLoadCount ==
  ASSUME FleetInv, NEW t \in Threads, NEW k \in Counted, LoadCount(t, k)
  PROVE  FleetInv'
  <1> DEFINE what == [about |-> <<k, 0>>, op |-> "insert", crossed |-> FALSE]
  <1>1. what \in Requests /\ what # Idle /\ what.about = <<k, 0>>
    BY DEF Requests, Idle
  <1>2. Load(t, what) /\ WithinLimit(k)
    BY DEF LoadCount
  <1>3. \A j \in Counted : what.about = <<j, 0>> => j = k
    OBVIOUS
  <1>4. \A g \in Numbers : what.about # Group(g)
    BY DEF Group, Counted
  <1> HIDE DEF what
  <1> QED
    BY <1>1, <1>2, <1>3, <1>4, LoadHolds

LEMMA KeepsLoadDeleteGroup ==
  ASSUME FleetInv, NEW t \in Threads, NEW g \in Numbers, LoadDeleteGroup(t, g)
  PROVE  FleetInv'
  <1> DEFINE what == [about |-> Group(g), op |-> "delete", crossed |-> FALSE,
                      member |-> IsMember(g), policies |-> PoliciesOf(g)]
  <1>1. PoliciesOf(g) \subseteq Numbers
    BY DEF PoliciesOf, FleetInv, FleetTypeOK, Rows
  <1>2. IsMember(g) \in BOOLEAN
    BY DEF IsMember
  <1>3. what \in Requests /\ what # Idle
    BY <1>1, <1>2 DEF Requests, Idle, Group
  <1>4. Load(t, what)
    BY DEF LoadDeleteGroup
  <1>5. \A k \in Counted : what.about # <<k, 0>>
    BY DEF Group, Counted
  <1>6. /\ \A h \in Numbers : what.about = Group(h) => h = g
        /\ what.op = "delete" /\ what.policies = PoliciesOf(g)
        /\ member = g => what.member
    BY DEF Group, IsMember
  <1> HIDE DEF what
  <1> QED
    BY <1>3, <1>4, <1>5, <1>6, LoadHolds

LEMMA KeepsLoadAssign ==
  ASSUME FleetInv, NEW t \in Threads, NEW g \in Numbers \cup {0}, LoadAssign(t, g)
  PROVE  FleetInv'
  <1> DEFINE what == [about |-> Group(g), op |-> "assign", crossed |-> FALSE,
                      loaded |-> member, name |-> IF g = 0 THEN 0 ELSE groups[g]]
  <1>1. member \in Numbers \cup {0} /\ groups \in [Numbers -> 0..MaxRequests]
    BY DEF FleetInv, FleetTypeOK
  <1>2. what \in Requests /\ what # Idle
    BY <1>1 DEF Requests, Idle, Group, Numbers
  <1>3. Load(t, what) /\ g \in Existing \cup {0}
    BY DEF LoadAssign
  <1>4. \A k \in Counted : what.about # <<k, 0>>
    BY DEF Group, Counted
  <1>5. /\ \A h \in Numbers : what.about = Group(h) => h = g
        /\ what.op = "assign" /\ g # 0 => what.name = groups[g]
    BY DEF Group
  <1>6. \A h \in Numbers : what.about = Group(h) => what.name # 0 /\ what.name = groups[h]
    BY <1>3, <1>5 DEF Existing, Numbers
  <1>7. what.op = "assign"
    OBVIOUS
  <1> HIDE DEF what
  <1> QED
    BY <1>2, <1>3, <1>4, <1>6, <1>7, LoadHolds

LEMMA KeepsLoadCreatePolicy ==
  ASSUME FleetInv, NEW t \in Threads, NEW g \in Numbers \cup {0}, NEW look \in Looks,
         LoadCreatePolicy(t, g, look)
  PROVE  FleetInv'
  <1> DEFINE what == [about |-> Group(g), op |-> "policy", crossed |-> FALSE,
                      look |-> look, name |-> IF g = 0 THEN 0 ELSE groups[g]]
  <1>1. groups \in [Numbers -> 0..MaxRequests]
    BY DEF FleetInv, FleetTypeOK
  <1>2. what \in Requests /\ what # Idle
    BY <1>1 DEF Requests, Idle, Group, Numbers
  <1>3. Load(t, what) /\ g \in Existing \cup {0}
    BY DEF LoadCreatePolicy
  <1>4. \A k \in Counted : what.about # <<k, 0>>
    BY DEF Group, Counted
  <1>5. /\ \A h \in Numbers : what.about = Group(h) => h = g
        /\ g # 0 => what.name = groups[g]
    BY DEF Group
  <1>6. \A h \in Numbers : what.about = Group(h) => what.name # 0 /\ what.name = groups[h]
    BY <1>3, <1>5 DEF Existing, Numbers
  <1>7. what.op = "policy"
    OBVIOUS
  <1> HIDE DEF what
  <1> QED
    BY <1>2, <1>3, <1>4, <1>6, <1>7, LoadHolds

LEMMA KeepsLoadDeletePolicy ==
  ASSUME FleetInv, NEW t \in Threads, NEW n \in Numbers, LoadDeletePolicy(t, n)
  PROVE  FleetInv'
  <1> DEFINE what == [about |-> <<"policy", n>>, op |-> "delete", crossed |-> FALSE]
  <1>1. what \in Requests /\ what # Idle
    BY DEF Requests, Idle
  <1>2. Load(t, what)
    BY DEF LoadDeletePolicy
  <1>3. /\ \A k \in Counted : what.about # <<k, 0>>
        /\ \A g \in Numbers : what.about # Group(g)
    BY DEF Group, Counted
  <1> HIDE DEF what
  <1> QED
    BY <1>1, <1>2, <1>3, LoadHolds

\* What a commit finds: a request that waits.
LEMMA CommitsWaiting ==
  ASSUME FleetInv, NEW t \in Threads
  PROVE  /\ request[t] \in Requests
         /\ \A k \in Counted : request[t].about = <<k, 0>> =>
              request[t] # Idle /\ \A g \in Numbers \cup {0} : request[t].about # Group(g)
         /\ \A g \in Numbers \cup {0} : request[t].about = Group(g) => request[t] # Idle
         /\ \A n \in Numbers : request[t].about = <<"policy", n>> => request[t] # Idle
  BY FieldsOfRequest DEF FleetInv, FleetTypeOK, Group, Counted

LEMMA KeepsCommitInsert ==
  ASSUME FleetInv, NEW t \in Threads, NEW k \in Counted, CommitInsert(t, k)
  PROVE  FleetInv' /\ Count(k)' = Count(k) + 1
  <1>1. /\ request[t].about = <<k, 0>> /\ Done(t)
        /\ UNCHANGED <<plan, cap, member, meant, astray, policies, requests>>
        /\ users' = IF k = "users" THEN users + 1 ELSE users
        /\ devices' = IF k = "devices" THEN devices + 1 ELSE devices
        /\ k # "groups" => names' = names /\ groups' = groups
        /\ k = "groups" => /\ names' = names + 1
                           /\ groups' = [groups EXCEPT ![NextNumber(Existing)] = names + 1]
    BY DEF CommitInsert
  <1>2. request[t] # Idle /\ \A g \in Numbers \cup {0} : request[t].about # Group(g)
    BY <1>1, CommitsWaiting
  <1>3. FleetTypeOK /\ RequestsAreCounted /\ PoliciesAreReal /\ MembershipIsReal
    BY DEF FleetInv
  <1>4. /\ request' \in [Threads -> Requests] /\ Apart(t) /\ IsFiniteSet(Pending')
        /\ Cardinality(Pending) \in Nat /\ Cardinality(Pending') \in Nat
        /\ Cardinality(Pending') = Cardinality(Pending) - 1
    BY <1>1, <1>2, <1>3, DoneKeeps
  <1>5. /\ users \in 1..(MaxRequests + 1) /\ devices \in 1..(MaxRequests + 1)
        /\ names \in 0..MaxRequests /\ requests \in 0..MaxRequests
        /\ groups \in [Numbers -> 0..MaxRequests] /\ policies \subseteq Rows
        /\ member \in Numbers \cup {0}
    BY <1>3 DEF FleetTypeOK
  <1>6. /\ users + Cardinality(Pending) =< requests + 1
        /\ devices + Cardinality(Pending) =< requests + 1
        /\ names + Cardinality(Pending) =< requests
        /\ \A g \in Existing : g + Cardinality(Pending) =< requests
        /\ \A p \in policies : p.id + Cardinality(Pending) =< requests
    BY <1>3 DEF RequestsAreCounted
  <1> DEFINE next == NextNumber(Existing)
             made == requests - Cardinality(Pending)
  <1>7. /\ next \in Numbers /\ next \notin Existing /\ groups[next] = 0
        /\ next + Cardinality(Pending') =< requests
    <2>1. made \in Nat /\ \A g \in Existing : g =< made
      <3>1. made \in Nat
        BY <1>4, <1>5, <1>6
      <3>2. ASSUME NEW g \in Existing PROVE g =< made
        <4>1. g \in Nat /\ g + Cardinality(Pending) =< requests
          BY <1>6 DEF Existing, Numbers
        <4> QED
          BY <4>1, <1>4, <1>5
      <3> QED
        BY <3>1, <3>2
    <2>2. /\ next \in Nat \ {0} /\ next =< made + 1
          /\ \A g \in Existing : g < next
      BY <2>1, ExistingIsFinite, NextNumberIsFresh
    <2> HIDE DEF next
    <2>3. next + Cardinality(Pending') =< requests
      BY <2>2, <1>4, <1>5
    <2>4. next \in Numbers
      BY <2>2, <2>3, <1>4, <1>5 DEF Numbers
    <2>5. next \notin Existing
      BY <2>2
    <2> QED
      BY <2>3, <2>4, <2>5 DEF Existing
  <1> HIDE DEF next, made
  <1>8. /\ groups' \in [Numbers -> 0..MaxRequests] /\ names' \in 0..MaxRequests
        /\ \A g \in Numbers : groups[g] # 0 => groups'[g] = groups[g]
        /\ Existing' = IF k = "groups" THEN Existing \cup {next} ELSE Existing
        /\ names' + Cardinality(Pending') =< requests
    <2>1. CASE k = "groups"
      <3>1. names + 1 \in 0..MaxRequests /\ names + 1 # 0
        BY <1>4, <1>5, <1>6
      <3>2. groups' = [groups EXCEPT ![next] = names + 1] /\ names' = names + 1
        BY <1>1, <2>1 DEF next
      <3>3. groups' \in [Numbers -> 0..MaxRequests]
        BY <3>1, <3>2, <1>5, <1>7
      <3>4. \A g \in Numbers : groups'[g] = IF g = next THEN names + 1 ELSE groups[g]
        BY <3>2, <1>5
      <3>5. Existing' = Existing \cup {next}
        BY <3>1, <3>4, <1>7 DEF Existing
      <3>6. names' + Cardinality(Pending') =< requests
        BY <3>2, <1>4, <1>5, <1>6
      <3> QED
        BY <3>1, <3>2, <3>3, <3>4, <3>5, <3>6, <1>7, <2>1
    <2>2. CASE k # "groups"
      BY <1>1, <1>4, <1>5, <1>6, <2>2 DEF Existing
    <2> QED
      BY <2>1, <2>2
  <1>9. /\ Cardinality(Existing) \in Nat
        /\ Cardinality(Existing') =
             IF k = "groups" THEN Cardinality(Existing) + 1 ELSE Cardinality(Existing)
    BY <1>7, <1>8, ExistingIsFinite, FS_AddElement
  <1>10. /\ users' \in 1..(MaxRequests + 1) /\ devices' \in 1..(MaxRequests + 1)
         /\ users' + Cardinality(Pending') =< requests + 1
         /\ devices' + Cardinality(Pending') =< requests + 1
    BY <1>1, <1>4, <1>5, <1>6
  <1>11. FleetTypeOK'
    BY <1>1, <1>3, <1>4, <1>8, <1>10 DEF FleetTypeOK
  <1>12. RequestsAreCounted'
    <2>1. \A g \in Existing' : g + Cardinality(Pending') =< requests
      <3>1. ASSUME NEW g \in Existing PROVE g + Cardinality(Pending') =< requests
        <4>1. g \in Nat /\ g + Cardinality(Pending) =< requests
          BY <1>6 DEF Existing, Numbers
        <4> QED
          BY <4>1, <1>4, <1>5
      <3> QED
        BY <3>1, <1>7, <1>8
    <2>2. ASSUME NEW p \in policies PROVE p.id + Cardinality(Pending') =< requests
      <3>1. p.id \in Nat /\ p.id + Cardinality(Pending) =< requests
        BY <1>5, <1>6 DEF Rows, Numbers
      <3> QED
        BY <3>1, <1>4, <1>5
    <2> QED
      BY <2>1, <2>2, <1>1, <1>4, <1>8, <1>10 DEF RequestsAreCounted
  <1>13. CountHolds' /\ NameHolds' /\ DeletionHolds'
    <2>1. ASSUME NEW j \in Counted, request[t].about # <<j, 0>>, WithinLimit(j)
          PROVE  WithinLimit(j)'
      <3>1. j # k
        BY <1>1, <2>1
      <3>2. Count(j)' = Count(j)
        BY <3>1, <1>1, <1>8 DEF Count, Counted
      <3> QED
        BY <3>2, <2>1, <1>1 DEF WithinLimit, Limit
    <2>2. \A g \in Numbers : PoliciesOf(g)' = PoliciesOf(g)
      BY <1>1 DEF PoliciesOf
    <2> QED
      BY <2>1, <2>2, <1>1, <1>2, <1>4, <1>8, CommitHolds
  <1>14. PoliciesAreReal'
    BY <1>1, <1>3, <1>5, <1>8 DEF PoliciesAreReal, Rows
  <1>15. MembershipIsReal'
    BY <1>1, <1>3, <1>5, <1>8 DEF MembershipIsReal
  <1>16. Count(k)' = Count(k) + 1
    BY <1>1, <1>9 DEF Count, Counted
  <1> QED
    BY <1>11, <1>12, <1>13, <1>14, <1>15, <1>16 DEF FleetInv

\* A commit that makes no user, device or group.
LEMMA CommitCounts ==
  ASSUME FleetInv, NEW t \in Threads, request[t] # Idle, Done(t),
         UNCHANGED <<users, devices, names, requests>>, Existing' \subseteq Existing,
         \A p \in policies' : \/ \E q \in policies : q.id = p.id
                              \/ p.id + Cardinality(Pending) =< requests + 1 /\ p.id \in Nat
  PROVE  RequestsAreCounted'
  <1>1. /\ IsFiniteSet(Pending')
        /\ Cardinality(Pending) \in Nat /\ Cardinality(Pending') \in Nat
        /\ Cardinality(Pending') = Cardinality(Pending) - 1
    BY DoneKeeps DEF FleetInv
  <1>2. /\ users \in Nat /\ devices \in Nat /\ names \in Nat /\ requests \in Nat
        /\ Existing \subseteq Nat /\ \A p \in policies : p.id \in Nat
    BY DEF FleetInv, FleetTypeOK, Existing, Numbers, Rows
  <1>3. /\ users + Cardinality(Pending) =< requests + 1
        /\ devices + Cardinality(Pending) =< requests + 1
        /\ names + Cardinality(Pending) =< requests
        /\ \A g \in Existing : g + Cardinality(Pending) =< requests
        /\ \A p \in policies : p.id + Cardinality(Pending) =< requests
    BY DEF FleetInv, RequestsAreCounted
  <1>4. /\ users + Cardinality(Pending') =< requests + 1
        /\ devices + Cardinality(Pending') =< requests + 1
        /\ names + Cardinality(Pending') =< requests
    BY <1>1, <1>2, <1>3
  <1>5. ASSUME NEW g \in Existing' PROVE g + Cardinality(Pending') =< requests
    <2>1. g \in Nat /\ g + Cardinality(Pending) =< requests
      BY <1>2, <1>3
    <2> QED
      BY <2>1, <1>1, <1>2
  <1>6. ASSUME NEW p \in policies' PROVE p.id + Cardinality(Pending') =< requests
    <2>1. p.id \in Nat /\ p.id + Cardinality(Pending) =< requests + 1
      <3>1. CASE \E q \in policies : q.id = p.id
        BY <3>1, <1>1, <1>2, <1>3
      <3> QED
        BY <3>1
    <2> QED
      BY <2>1, <1>1, <1>2
  <1> QED
    BY <1>1, <1>4, <1>5, <1>6 DEF RequestsAreCounted

LEMMA KeepsCommitDeleteGroup ==
  ASSUME FleetInv, NEW t \in Threads, NEW g \in Numbers, CommitDeleteGroup(t, g)
  PROVE  FleetInv' /\ \A k \in Counted : Count(k)' =< Count(k)
  <1> DEFINE r == request[t]
  <1>1. /\ r.about = Group(g) /\ r.op = "delete" /\ Done(t)
        /\ groups' = [groups EXCEPT ![g] = 0]
        /\ member' = IF r.member THEN 0 ELSE member
        /\ meant' = IF r.member THEN 0 ELSE meant
        /\ astray' = IF r.member THEN FALSE ELSE astray \/ (r.crossed /\ member = g)
        /\ policies' = {IF p.scope = g /\ r.crossed THEN [p EXCEPT !.astray = TRUE] ELSE p :
                        p \in {q \in policies : q.id \notin r.policies}}
        /\ UNCHANGED <<plan, cap, users, devices, requests, names>>
    BY DEF CommitDeleteGroup, org
  <1>2. /\ r # Idle /\ r.crossed \in BOOLEAN /\ r.member \in BOOLEAN
        /\ \A k \in Counted : r.about # <<k, 0>>
    BY <1>1, CommitsWaiting, FieldsOfRequest
  <1>3. FleetTypeOK /\ PoliciesAreReal /\ MembershipIsReal /\ DeletionHolds
    BY DEF FleetInv
  <1>4. /\ groups \in [Numbers -> 0..MaxRequests] /\ policies \subseteq Rows
        /\ member \in Numbers \cup {0} /\ meant \in 0..MaxRequests /\ astray \in BOOLEAN
    BY <1>3 DEF FleetTypeOK
  <1>5. request' \in [Threads -> Requests] /\ Apart(t)
    BY <1>1, <1>2, DoneKeeps DEF FleetInv
  <1>6. ~ r.crossed => (member = g => r.member) /\ PoliciesOf(g) \subseteq r.policies
    BY <1>1, <1>3 DEF DeletionHolds
  <1>7. /\ groups' \in [Numbers -> 0..MaxRequests]
        /\ \A h \in Numbers : groups'[h] = IF h = g THEN 0 ELSE groups[h]
    BY <1>1, <1>4
  <1>8. Existing' = Existing \ {g}
    BY <1>7 DEF Existing
  <1>9. \A k \in Counted : Count(k) \in Nat /\ Count(k)' \in Nat /\ Count(k)' =< Count(k)
    <2>1. Cardinality(Existing') \in Nat /\ Cardinality(Existing') =< Cardinality(Existing)
      BY <1>8, ExistingIsFinite, FS_Subset, FS_CardinalityType
    <2>2. users \in Nat /\ devices \in Nat /\ Cardinality(Existing) \in Nat
      BY <1>3, ExistingIsFinite DEF FleetTypeOK
    <2> QED
      BY <2>1, <2>2, <1>1 DEF Count, Counted
  <1>10. ASSUME NEW p \in policies'
         PROVE  \E q \in policies :
                  /\ q.id \notin r.policies
                  /\ p \in Rows /\ p.id = q.id /\ p.scope = q.scope /\ p.name = q.name
                  /\ p = IF q.scope = g /\ r.crossed THEN [q EXCEPT !.astray = TRUE] ELSE q
                  /\ p.astray = (q.astray \/ (q.scope = g /\ r.crossed))
    <2>1. PICK q \in policies : /\ q.id \notin r.policies
                                /\ p = IF q.scope = g /\ r.crossed
                                       THEN [q EXCEPT !.astray = TRUE] ELSE q
      BY <1>1
    <2>2. q \in Rows
      BY <1>4
    <2> HIDE DEF r
    <2>3. /\ p \in Rows /\ p.id = q.id /\ p.scope = q.scope /\ p.name = q.name
          /\ p.astray = (q.astray \/ (q.scope = g /\ r.crossed))
      BY <2>1, <2>2, <1>2 DEF Rows
    <2> QED
      BY <2>1, <2>3
  <1> HIDE DEF r
  <1>11. FleetTypeOK'
    <2>1. policies' \subseteq Rows
      BY <1>10
    <2>2. ASSUME NEW p \in policies', NEW q \in policies', p.id = q.id PROVE p = q
      <3>1. PICK u \in policies :
              /\ p.id = u.id
              /\ p = IF u.scope = g /\ r.crossed THEN [u EXCEPT !.astray = TRUE] ELSE u
        BY <1>10
      <3>2. PICK v \in policies :
              /\ q.id = v.id
              /\ q = IF v.scope = g /\ r.crossed THEN [v EXCEPT !.astray = TRUE] ELSE v
        BY <1>10
      <3>3. u = v
        BY <3>1, <3>2, <2>2, <1>3 DEF FleetTypeOK
      <3> QED
        BY <3>1, <3>2, <3>3
    <2>3. member' \in Numbers \cup {0} /\ meant' \in 0..MaxRequests /\ astray' \in BOOLEAN
      <3>1. CASE r.member
        BY <3>1, <1>1
      <3>2. CASE ~ r.member
        <4>1. member' = member /\ meant' = meant /\ astray' = (astray \/ (r.crossed /\ member = g))
          BY <3>2, <1>1
        <4> QED
          BY <4>1, <1>4
      <3> QED
        BY <3>1, <3>2
    <2> QED
      BY <2>1, <2>2, <2>3, <1>1, <1>3, <1>5, <1>7 DEF FleetTypeOK
  <1>12. RequestsAreCounted'
    BY <1>1, <1>2, <1>8, <1>10, CommitCounts DEF r
  <1>13. \A h \in Numbers : PoliciesOf(h)' \subseteq PoliciesOf(h)
    BY <1>10 DEF PoliciesOf
  <1>14. CountHolds' /\ NameHolds' /\ DeletionHolds'
    <2>1. ASSUME NEW k \in Counted, WithinLimit(k) PROVE WithinLimit(k)'
      <3>1. Limit(k)' = Limit(k) /\ Limit(k) \in Nat
        BY <1>1, <1>3 DEF Limit, FleetTypeOK
      <3>2. Count(k) \in Nat /\ Count(k)' \in Nat /\ Count(k)' =< Count(k)
        BY <1>9
      <3> QED
        BY <3>1, <3>2, <2>1 DEF WithinLimit
    <2>2. \A h \in Numbers : member' = h => member = h
      BY <1>1 DEF Numbers
    <2>3. \A h \in Numbers : groups[h] # 0 => groups'[h] = groups[h] \/ h = g
      BY <1>7
    <2> QED
      BY <2>1, <2>2, <2>3, <1>1, <1>2, <1>5, <1>13, CommitHolds DEF r
  <1>15. PoliciesAreReal'
    <2>1. ASSUME NEW p \in policies', p.scope # 0, ~ p.astray
          PROVE  p.name # 0 /\ groups'[p.scope] = p.name
      <3>1. PICK q \in policies :
              /\ q.id \notin r.policies
              /\ p \in Rows /\ p.scope = q.scope /\ p.name = q.name
              /\ p.astray = (q.astray \/ (q.scope = g /\ r.crossed))
        BY <1>10
      <3>2. q.name # 0 /\ groups[q.scope] = q.name
        BY <3>1, <2>1, <1>3 DEF PoliciesAreReal
      <3>3. q.scope # g
        <4>1. q.scope = g => ~ r.crossed
          BY <3>1, <2>1
        <4>2. q.scope = g => q.id \in PoliciesOf(g)
          BY DEF PoliciesOf
        <4> QED
          BY <4>1, <4>2, <3>1, <1>6 DEF r
      <3>4. p.scope \in Numbers
        BY <3>1, <2>1 DEF Rows
      <3> QED
        BY <3>1, <3>2, <3>3, <3>4, <1>7
    <2> QED
      BY <2>1 DEF PoliciesAreReal
  <1>16. MembershipIsReal'
    BY <1>1, <1>2, <1>3, <1>4, <1>6, <1>7 DEF MembershipIsReal, r
  <1>17. FleetInv'
    BY <1>11, <1>12, <1>14, <1>15, <1>16 DEF FleetInv
  <1> QED
    BY <1>9, <1>17

LEMMA KeepsCommitAssign ==
  ASSUME FleetInv, NEW t \in Threads, NEW g \in Numbers \cup {0}, CommitAssign(t, g)
  PROVE  FleetInv' /\ UNCHANGED <<policies, users, devices, groups>>
  <1> DEFINE r == request[t]
  <1>1. /\ r.about = Group(g) /\ r.op = "assign" /\ Done(t)
        /\ IF r.loaded = g
           THEN UNCHANGED <<member, meant, astray>>
           ELSE member' = g /\ meant' = r.name /\ astray' = r.crossed
        /\ UNCHANGED <<plan, cap, users, devices, groups, policies, requests, names>>
    BY DEF CommitAssign, org
  <1>2. /\ r # Idle /\ r.crossed \in BOOLEAN /\ r.name \in 0..MaxRequests
        /\ \A k \in Counted : r.about # <<k, 0>>
    BY <1>1, CommitsWaiting, FieldsOfRequest
  <1>3. FleetTypeOK /\ PoliciesAreReal /\ MembershipIsReal /\ NameHolds
    BY DEF FleetInv
  <1>4. request' \in [Threads -> Requests] /\ Apart(t)
    BY <1>1, <1>2, DoneKeeps DEF FleetInv
  <1>5. g # 0 /\ ~ r.crossed => r.name # 0 /\ groups[g] = r.name
    BY <1>1, <1>3 DEF NameHolds
  <1> HIDE DEF r
  <1>6. FleetTypeOK'
    <2>1. member' \in Numbers \cup {0} /\ meant' \in 0..MaxRequests /\ astray' \in BOOLEAN
      BY <1>1, <1>2, <1>3 DEF FleetTypeOK
    <2> QED
      BY <2>1, <1>1, <1>3, <1>4 DEF FleetTypeOK
  <1>7. Existing' = Existing
    BY <1>1 DEF Existing
  <1>8. RequestsAreCounted'
    BY <1>1, <1>2, <1>7, CommitCounts DEF r
  <1>9. CountHolds' /\ NameHolds' /\ DeletionHolds'
    <2>1. \A k \in Counted : WithinLimit(k)' <=> WithinLimit(k)
      BY <1>1, <1>7 DEF WithinLimit, Limit, Count
    <2>2. \A h \in Numbers : PoliciesOf(h)' = PoliciesOf(h)
      BY <1>1 DEF PoliciesOf
    <2>3. \A h \in Numbers : member' = h => member = h \/ r.about = Group(h)
      BY <1>1
    <2> QED
      BY <2>1, <2>2, <2>3, <1>1, <1>2, <1>4, CommitHolds DEF r
  <1>10. PoliciesAreReal'
    BY <1>1, <1>3 DEF PoliciesAreReal
  <1>11. MembershipIsReal'
    BY <1>1, <1>3, <1>5 DEF MembershipIsReal
  <1> QED
    BY <1>1, <1>6, <1>8, <1>9, <1>10, <1>11 DEF FleetInv

LEMMA KeepsCommitCreatePolicy ==
  ASSUME FleetInv, NEW t \in Threads, NEW g \in Numbers \cup {0}, CommitCreatePolicy(t, g)
  PROVE  /\ FleetInv'
         /\ UNCHANGED <<users, devices, groups>>
         /\ \E new \in Rows : /\ policies' = policies \cup {new}
                              /\ \A p \in policies : p.id < new.id
  <1> DEFINE r == request[t]
             ids == {p.id : p \in policies}
             number == PolicyNumber(ids)
             new == [id |-> number, scope |-> g, name |-> r.name, look |-> r.look,
                     astray |-> r.crossed]
  <1>1. /\ r.about = Group(g) /\ r.op = "policy" /\ Done(t)
        /\ policies' = policies \cup {new}
        /\ UNCHANGED <<plan, cap, users, devices, groups, member, meant, astray, requests,
                       names>>
    BY DEF CommitCreatePolicy, org, fleet
  <1>2. /\ r # Idle /\ r.crossed \in BOOLEAN /\ r.name \in 0..MaxRequests /\ r.look \in Looks
        /\ \A k \in Counted : r.about # <<k, 0>>
    BY <1>1, CommitsWaiting, FieldsOfRequest
  <1>3. FleetTypeOK /\ RequestsAreCounted /\ PoliciesAreReal /\ MembershipIsReal /\ NameHolds
    BY DEF FleetInv
  <1>4. /\ request' \in [Threads -> Requests] /\ Apart(t)
        /\ Cardinality(Pending) \in Nat /\ Cardinality(Pending') \in Nat
        /\ Cardinality(Pending') = Cardinality(Pending) - 1
    BY <1>1, <1>2, DoneKeeps DEF FleetInv
  <1>5. g # 0 /\ ~ r.crossed => r.name # 0 /\ groups[g] = r.name
    BY <1>1, <1>3 DEF NameHolds
  <1>6. ids \subseteq Numbers /\ policies \subseteq Rows /\ requests \in 0..MaxRequests
    BY <1>3 DEF FleetTypeOK, Rows
  <1>7. /\ number \in Nat \ {0} /\ \A m \in ids : m < number
        /\ number + Cardinality(Pending) =< requests + 1
    <2> DEFINE made == requests - Cardinality(Pending)
    <2>1. ASSUME NEW m \in ids PROVE m =< made
      <3>1. m \in Nat /\ m + Cardinality(Pending) =< requests
        BY <1>3, <1>6 DEF RequestsAreCounted, Numbers
      <3> QED
        BY <3>1, <1>4, <1>6
    <2>2. made \in Nat
      BY <1>3, <1>4, <1>6 DEF RequestsAreCounted, FleetTypeOK
    <2>3. /\ number \in Nat \ {0} /\ \A m \in ids : m < number
          /\ number =< made + 1
      BY <2>1, <2>2, <1>6, NextNumberIsFresh DEF PolicyNumber
    <2> HIDE DEF number, ids
    <2> QED
      BY <2>3, <1>4, <1>6
  <1>8. \A p \in policies : p.id \in ids
    OBVIOUS
  <1> HIDE DEF r, ids, number
  <1>9. number \in Numbers
    BY <1>4, <1>6, <1>7 DEF Numbers
  <1>10. new \in Rows /\ new.id = number /\ \A p \in policies : p.id < new.id
    BY <1>2, <1>7, <1>8, <1>9 DEF Rows
  <1>11. /\ new.scope = g /\ new.name = r.name /\ new.astray = r.crossed
    OBVIOUS
  <1> HIDE DEF new
  <1>12. FleetTypeOK'
    <2>1. policies' \subseteq Rows
      BY <1>1, <1>6, <1>10
    <2>2. ASSUME NEW p \in policies', NEW q \in policies', p.id = q.id PROVE p = q
      <3>1. \A s \in policies : s.id \in Nat /\ s.id # new.id
        BY <1>6, <1>9, <1>10 DEF Rows, Numbers
      <3> QED
        BY <3>1, <2>2, <1>1, <1>3 DEF FleetTypeOK
    <2> QED
      BY <2>1, <2>2, <1>1, <1>3, <1>4 DEF FleetTypeOK
  <1>13. Existing' = Existing
    BY <1>1 DEF Existing
  <1>14. RequestsAreCounted'
    BY <1>1, <1>2, <1>7, <1>10, <1>13, CommitCounts DEF r
  <1>15. CountHolds' /\ NameHolds' /\ DeletionHolds'
    <2>1. \A k \in Counted : WithinLimit(k)' <=> WithinLimit(k)
      BY <1>1, <1>13 DEF WithinLimit, Limit, Count
    <2>2. ASSUME NEW h \in Numbers PROVE PoliciesOf(h)' \subseteq PoliciesOf(h) \/ r.about = Group(h)
      BY <1>1, <1>11 DEF PoliciesOf
    <2> QED
      BY <2>1, <2>2, <1>1, <1>2, <1>4, CommitHolds DEF r
  <1>16. PoliciesAreReal'
    BY <1>1, <1>3, <1>5, <1>11 DEF PoliciesAreReal
  <1>17. MembershipIsReal'
    BY <1>1, <1>3 DEF MembershipIsReal
  <1>18. FleetInv'
    BY <1>12, <1>14, <1>15, <1>16, <1>17 DEF FleetInv
  <1> QED
    BY <1>1, <1>10, <1>18

LEMMA KeepsCommitDeletePolicy ==
  ASSUME FleetInv, NEW t \in Threads, NEW n \in Numbers, CommitDeletePolicy(t, n)
  PROVE  FleetInv' /\ UNCHANGED <<users, devices, groups>>
  <1>1. /\ request[t].about = <<"policy", n>> /\ Done(t)
        /\ policies' = {p \in policies : p.id # n}
        /\ UNCHANGED <<plan, cap, users, devices, groups, member, meant, astray, requests,
                       names>>
    BY DEF CommitDeletePolicy, org, fleet
  <1>2. request[t] # Idle /\ \A k \in Counted : request[t].about # <<k, 0>>
    BY <1>1, CommitsWaiting DEF Counted
  <1>3. FleetTypeOK /\ PoliciesAreReal /\ MembershipIsReal
    BY DEF FleetInv
  <1>4. request' \in [Threads -> Requests] /\ Apart(t)
    BY <1>1, <1>2, DoneKeeps DEF FleetInv
  <1>5. FleetTypeOK'
    BY <1>1, <1>3, <1>4 DEF FleetTypeOK
  <1>6. Existing' = Existing
    BY <1>1 DEF Existing
  <1>7. RequestsAreCounted'
    BY <1>1, <1>2, <1>6, CommitCounts
  <1>8. CountHolds' /\ NameHolds' /\ DeletionHolds'
    <2>1. \A k \in Counted : WithinLimit(k)' <=> WithinLimit(k)
      BY <1>1, <1>6 DEF WithinLimit, Limit, Count
    <2>2. \A h \in Numbers : PoliciesOf(h)' \subseteq PoliciesOf(h)
      BY <1>1 DEF PoliciesOf
    <2> QED
      BY <2>1, <2>2, <1>1, <1>2, <1>4, CommitHolds
  <1>9. PoliciesAreReal' /\ MembershipIsReal'
    BY <1>1, <1>3 DEF PoliciesAreReal, MembershipIsReal
  <1> QED
    BY <1>1, <1>5, <1>7, <1>8, <1>9 DEF FleetInv

LEMMA KeepsUpdateOrg ==
  ASSUME FleetInv, NEW p \in Plans, NEW c \in Caps, UpdateOrg(p, c)
  PROVE  FleetInv' /\ UNCHANGED <<users, devices, groups, policies>>
  <1>1. /\ requests < MaxRequests /\ requests' = requests + 1
        /\ plan' = p /\ cap' = c
        /\ request' = [u \in Threads |->
                         IF request[u].about \in {<<k, 0>> : k \in Counted}
                         THEN [request[u] EXCEPT !.crossed = TRUE] ELSE request[u]]
        /\ UNCHANGED <<users, devices, groups, member, meant, astray, policies, names>>
    BY DEF UpdateOrg, fleet
  <1>2. FleetTypeOK
    BY DEF FleetInv
  <1>3. ASSUME NEW u \in Threads
        PROVE  /\ request'[u] \in Requests
               /\ request'[u] # Idle <=> request[u] # Idle
               /\ request'[u].about = request[u].about
               /\ \/ request'[u] = request[u]
                     /\ request[u].about \notin {<<k, 0>> : k \in Counted}
                  \/ request'[u].about \in {<<k, 0>> : k \in Counted} /\ request'[u].crossed
    <2>1. request[u] \in Requests
      BY <1>2 DEF FleetTypeOK
    <2>2. CASE request[u].about \in {<<k, 0>> : k \in Counted}
      <3>1. request[u] # Idle
        BY <2>1, <2>2, FieldsOfRequest
      <3>2. request'[u] = [request[u] EXCEPT !.crossed = TRUE]
        BY <1>1, <2>2
      <3> QED
        BY <2>1, <2>2, <3>1, <3>2, CrossedIsRequest
    <2>3. CASE request[u].about \notin {<<k, 0>> : k \in Counted}
      BY <1>1, <2>1, <2>3
    <2> QED
      BY <2>2, <2>3
  <1>4. request' \in [Threads -> Requests]
    <2>1. request' = [u \in Threads |-> request'[u]]
      BY <1>1
    <2>2. \A u \in Threads : request'[u] \in Requests
      BY <1>3
    <2> QED
      BY <2>1, <2>2
  <1>5. FleetTypeOK'
    BY <1>1, <1>2, <1>4 DEF FleetTypeOK
  <1>6. Pending' = Pending /\ Existing' = Existing
    BY <1>1, <1>3 DEF Pending, Existing
  <1>7. RequestsAreCounted'
    <2>1. /\ users \in Nat /\ devices \in Nat /\ names \in Nat /\ requests \in Nat
          /\ Existing \subseteq Nat /\ \A q \in policies : q.id \in Nat
      BY <1>2 DEF FleetTypeOK, Existing, Numbers, Rows
    <2>2. Cardinality(Pending) \in Nat
      BY FS_CardinalityType DEF FleetInv, RequestsAreCounted
    <2> QED
      BY <1>1, <1>6, <2>1, <2>2 DEF FleetInv, RequestsAreCounted
  <1>8. CountHolds'
    BY <1>3 DEF CountHolds
  <1>9. \A u \in Threads, g \in Numbers :
           request'[u].about = Group(g) => request'[u] = request[u]
    BY <1>3 DEF Group, Counted
  <1>10. NameHolds'
    BY <1>1, <1>9 DEF NameHolds, FleetInv
  <1>11. DeletionHolds'
    <2>1. \A g \in Numbers : PoliciesOf(g)' = PoliciesOf(g)
      BY <1>1 DEF PoliciesOf
    <2> QED
      BY <1>1, <1>9, <2>1 DEF DeletionHolds, FleetInv
  <1>12. PoliciesAreReal' /\ MembershipIsReal'
    BY <1>1 DEF PoliciesAreReal, MembershipIsReal, FleetInv
  <1> QED
    BY <1>1, <1>5, <1>7, <1>8, <1>10, <1>11, <1>12 DEF FleetInv

LEMMA KeepsProvisionUser ==
  ASSUME FleetInv, ProvisionUser
  PROVE  FleetInv' /\ UNCHANGED <<devices, groups, policies>>
  <1>1. /\ requests < MaxRequests /\ requests' = requests + 1 /\ users' = users + 1
        /\ request' = [u \in Threads |->
                         IF request[u].about = <<"users", 0>>
                         THEN [request[u] EXCEPT !.crossed = TRUE] ELSE request[u]]
        /\ UNCHANGED <<plan, cap, devices, groups, member, meant, astray, policies, names>>
    BY DEF ProvisionUser, fleet
  <1>2. FleetTypeOK
    BY DEF FleetInv
  <1>3. ASSUME NEW u \in Threads
        PROVE  /\ request'[u] \in Requests
               /\ request'[u] # Idle <=> request[u] # Idle
               /\ request'[u].about = request[u].about
               /\ \/ request'[u] = request[u] /\ request[u].about # <<"users", 0>>
                  \/ request'[u].about = <<"users", 0>> /\ request'[u].crossed
    <2>1. request[u] \in Requests
      BY <1>2 DEF FleetTypeOK
    <2>2. CASE request[u].about = <<"users", 0>>
      <3>1. request[u] # Idle
        BY <2>1, <2>2, FieldsOfRequest DEF Counted
      <3>2. request'[u] = [request[u] EXCEPT !.crossed = TRUE]
        BY <1>1, <2>2
      <3> QED
        BY <2>1, <2>2, <3>1, <3>2, CrossedIsRequest
    <2>3. CASE request[u].about # <<"users", 0>>
      BY <1>1, <2>1, <2>3
    <2> QED
      BY <2>2, <2>3
  <1>4. request' \in [Threads -> Requests]
    <2>1. request' = [u \in Threads |-> request'[u]]
      BY <1>1
    <2>2. \A u \in Threads : request'[u] \in Requests
      BY <1>3
    <2> QED
      BY <2>1, <2>2
  <1>5. Pending' = Pending /\ Existing' = Existing
    BY <1>1, <1>3 DEF Pending, Existing
  <1>6. /\ users \in Nat \ {0} /\ devices \in Nat /\ names \in Nat
        /\ requests \in Nat /\ requests + 1 =< MaxRequests
        /\ Existing \subseteq Nat /\ \A q \in policies : q.id \in Nat
    BY <1>1, <1>2 DEF FleetTypeOK, Existing, Numbers, Rows
  <1>7. Cardinality(Pending) \in Nat
    BY FS_CardinalityType DEF FleetInv, RequestsAreCounted
  <1>8. RequestsAreCounted'
    BY <1>1, <1>5, <1>6, <1>7 DEF FleetInv, RequestsAreCounted
  <1>9. FleetTypeOK'
    <2>1. users + Cardinality(Pending) =< requests + 1
      BY DEF FleetInv, RequestsAreCounted
    <2>2. users' \in 1..(MaxRequests + 1) /\ requests' \in 0..MaxRequests
      BY <2>1, <1>1, <1>6, <1>7
    <2> QED
      BY <2>2, <1>1, <1>2, <1>4 DEF FleetTypeOK
  <1>10. CountHolds'
    <2> SUFFICES ASSUME NEW u \in Threads, NEW k \in Counted,
                        request'[u].about = <<k, 0>>, ~ request'[u].crossed
                 PROVE  WithinLimit(k)'
      BY DEF CountHolds
    <2>1. request'[u] = request[u] /\ k # "users"
      BY <1>3
    <2>2. WithinLimit(k)
      BY <2>1 DEF CountHolds, FleetInv
    <2>3. Count(k)' = Count(k) /\ Limit(k)' = Limit(k)
      BY <1>1, <1>5, <2>1 DEF Count, Limit
    <2> QED
      BY <2>2, <2>3 DEF WithinLimit
  <1>11. \A u \in Threads, g \in Numbers :
           request'[u].about = Group(g) => request'[u] = request[u]
    BY <1>3 DEF Group
  <1>12. NameHolds'
    BY <1>1, <1>11 DEF NameHolds, FleetInv
  <1>13. DeletionHolds'
    <2>1. \A g \in Numbers : PoliciesOf(g)' = PoliciesOf(g)
      BY <1>1 DEF PoliciesOf
    <2> QED
      BY <1>1, <1>11, <2>1 DEF DeletionHolds, FleetInv
  <1>14. PoliciesAreReal' /\ MembershipIsReal'
    BY <1>1 DEF PoliciesAreReal, MembershipIsReal, FleetInv
  <1> QED
    BY <1>1, <1>8, <1>9, <1>10, <1>12, <1>13, <1>14 DEF FleetInv

LEMMA NextFleet == FleetInv /\ [FleetNext]_fleetVars => FleetInv'
  <1> SUFFICES ASSUME FleetInv, [FleetNext]_fleetVars PROVE FleetInv'
    OBVIOUS
  <1>1. ASSUME NEW t \in Threads, NEW k \in Counted, CommitInsert(t, k) PROVE FleetInv'
    BY <1>1, KeepsCommitInsert
  <1>2. ASSUME NEW t \in Threads, NEW g \in Numbers, CommitDeleteGroup(t, g) PROVE FleetInv'
    BY <1>2, KeepsCommitDeleteGroup
  <1>3. ASSUME NEW t \in Threads, NEW n \in Numbers, CommitDeletePolicy(t, n) PROVE FleetInv'
    BY <1>3, KeepsCommitDeletePolicy
  <1>4. ASSUME NEW t \in Threads, NEW g \in Numbers \cup {0}, CommitAssign(t, g) PROVE FleetInv'
    BY <1>4, KeepsCommitAssign
  <1>5. ASSUME NEW t \in Threads, NEW g \in Numbers \cup {0}, CommitCreatePolicy(t, g)
        PROVE  FleetInv'
    BY <1>5, KeepsCommitCreatePolicy
  <1>6. ASSUME NEW t \in Threads, NEW k \in Counted, LoadCount(t, k) PROVE FleetInv'
    BY <1>6, KeepsLoadCount
  <1>7. ASSUME NEW t \in Threads, NEW g \in Numbers, LoadDeleteGroup(t, g) PROVE FleetInv'
    BY <1>7, KeepsLoadDeleteGroup
  <1>8. ASSUME NEW t \in Threads, NEW n \in Numbers, LoadDeletePolicy(t, n) PROVE FleetInv'
    BY <1>8, KeepsLoadDeletePolicy
  <1>9. ASSUME NEW t \in Threads, NEW g \in Numbers \cup {0}, LoadAssign(t, g) PROVE FleetInv'
    BY <1>9, KeepsLoadAssign
  <1>10. ASSUME NEW t \in Threads, NEW g \in Numbers \cup {0}, NEW look \in Looks,
                LoadCreatePolicy(t, g, look)
         PROVE  FleetInv'
    BY <1>10, KeepsLoadCreatePolicy
  <1>11. ASSUME NEW p \in Plans, NEW c \in Caps, UpdateOrg(p, c) PROVE FleetInv'
    BY <1>11, KeepsUpdateOrg
  <1>12. CASE UNCHANGED fleetVars
    BY <1>12 DEF fleetVars, org, fleet, FleetInv, FleetTypeOK, RequestsAreCounted, Pending, Existing,
         CountHolds, WithinLimit, Limit, Count, NameHolds, DeletionHolds, PoliciesOf,
         PoliciesAreReal, MembershipIsReal
  <1>13. CASE ProvisionUser
    BY <1>13, KeepsProvisionUser
  <1> QED
    BY <1>1, <1>2, <1>3, <1>4, <1>5, <1>6, <1>7, <1>8, <1>9, <1>10, <1>11, <1>12, <1>13
       DEF FleetNext, Commit

-------------------------------------------------------------------------------
(* The theorems.                                                           *)

\* The inductive invariant holds for any number of threads, any plans and any number of
\* requests: what a request that nobody crossed has loaded is still so when it commits
\* (policies.py, users.py, orgs.py, agents.py).
THEOREM FleetIsInductive == FleetSpec => []FleetInv
  BY InitFleet, NextFleet, PTL DEF FleetSpec

\* For every value of the constants: the group a device is in exists and is the one it was put
\* into, unless the deletion of the group crossed another request about it (delete_group,
\* assign_group).
THEOREM FleetMembershipIsReal == FleetSpec => []MembershipIsReal
  <1>1. FleetInv => MembershipIsReal
    BY DEF FleetInv
  <1> QED
    BY <1>1, FleetIsInductive, PTL

\* For every value of the constants: a device gets a group's setting only from a policy made for
\* the group it was put into, with the same exception (resolve_effective_policy).
THEOREM FleetGroupPolicyIsOwn == FleetSpec => []GroupPolicyIsOwn
  <1>1. FleetInv => GroupPolicyIsOwn
    <2> SUFFICES ASSUME FleetInv, ~ astray, NEW p \in Decides(member), p.scope # 0, ~ p.astray
                 PROVE  p.name = meant
      BY DEF GroupPolicyIsOwn
    <2>1. p \in policies /\ member # 0 /\ p.scope = member
      BY DEF Decides, Setting, InForce, Oldest
    <2>2. groups[p.scope] = p.name /\ groups[member] = meant
      BY <2>1 DEF FleetInv, PoliciesAreReal, MembershipIsReal
    <2> QED
      BY <2>1, <2>2
  <1> QED
    BY <1>1, FleetIsInductive, PTL

\* A step makes a row, edits the policies, or leaves the counted rows and the policies alone.
LEMMA WhatStepsChange ==
  ASSUME FleetInv, [FleetNext]_fleetVars
  PROVE  \/ \E t \in Threads, k \in Counted : CommitInsert(t, k)
         \/ \E t \in Threads, g \in Numbers : CommitDeleteGroup(t, g)
         \/ \E t \in Threads, n \in Numbers :
              CommitDeletePolicy(t, n) /\ UNCHANGED <<users, devices, groups>>
         \/ UNCHANGED <<users, devices, groups>> /\
            \E new \in Rows : /\ policies' = policies \cup {new}
                              /\ \A p \in policies : p.id < new.id
         \/ ProvisionUser /\ UNCHANGED <<devices, groups, policies>>
         \/ UNCHANGED <<users, devices, groups, policies>>
  <1>1. ASSUME NEW t \in Threads, NEW what, Load(t, what)
        PROVE  UNCHANGED <<users, devices, groups, policies>>
    BY <1>1 DEF Load, org, fleet
  <1>2. ASSUME NEW t \in Threads, NEW k \in Counted, LoadCount(t, k)
        PROVE  UNCHANGED <<users, devices, groups, policies>>
    BY <1>1, <1>2 DEF LoadCount
  <1>3. ASSUME NEW t \in Threads, NEW g \in Numbers,
               LoadDeleteGroup(t, g) \/ LoadDeletePolicy(t, g)
        PROVE  UNCHANGED <<users, devices, groups, policies>>
    BY <1>1, <1>3 DEF LoadDeleteGroup, LoadDeletePolicy
  <1>4. ASSUME NEW t \in Threads, NEW g \in Numbers \cup {0},
               LoadAssign(t, g) \/ \E look \in Looks : LoadCreatePolicy(t, g, look)
        PROVE  UNCHANGED <<users, devices, groups, policies>>
    BY <1>1, <1>4 DEF LoadAssign, LoadCreatePolicy
  <1>5. ASSUME NEW p \in Plans, NEW c \in Caps, UpdateOrg(p, c)
        PROVE  UNCHANGED <<users, devices, groups, policies>>
    BY <1>5, KeepsUpdateOrg
  <1>6. ASSUME NEW t \in Threads, NEW g \in Numbers \cup {0}, CommitAssign(t, g)
        PROVE  UNCHANGED <<users, devices, groups, policies>>
    BY <1>6, KeepsCommitAssign
  <1>7. ASSUME NEW t \in Threads, NEW g \in Numbers \cup {0}, CommitCreatePolicy(t, g)
        PROVE  UNCHANGED <<users, devices, groups>> /\
               \E new \in Rows : /\ policies' = policies \cup {new}
                                 /\ \A p \in policies : p.id < new.id
    BY <1>7, KeepsCommitCreatePolicy
  <1>8. ASSUME NEW t \in Threads, NEW n \in Numbers, CommitDeletePolicy(t, n)
        PROVE  UNCHANGED <<users, devices, groups>>
    BY <1>8, KeepsCommitDeletePolicy
  <1>9. CASE ProvisionUser
    BY <1>9, KeepsProvisionUser
  <1>10. CASE UNCHANGED fleetVars
    BY <1>10 DEF fleetVars, org, fleet
  <1> QED
    BY <1>2, <1>3, <1>4, <1>5, <1>6, <1>7, <1>8, <1>9, <1>10 DEF FleetNext, Commit

\* For every value of the constants: a creation goes beyond the limit of the plan only if
\* another one, a change of the plan or a sign-on committed between its count and its
\* insert, or if it is itself the first single sign-on of a user (create_user,
\* create_group, enroll, update_org, provision_and_issue).
THEOREM FleetStaysWithinPlan == FleetSpec => WithinPlan
  <1> DEFINE Within ==
        \A k \in Counted :
          Count(k)' > Count(k) =>
            \/ Limit(k) = 0 \/ Count(k)' =< Limit(k)
            \/ \E t \in Threads : request[t].about = <<k, 0>> /\ request[t].crossed
                                  /\ request'[t] = Idle
            \/ k = "users" /\ ProvisionUser
  <1>1. ASSUME FleetInv, [FleetNext]_fleetVars PROVE Within
    <2> SUFFICES ASSUME NEW k \in Counted, Count(k)' > Count(k),
                        ~ (k = "users" /\ ProvisionUser)
                 PROVE  \/ Limit(k) = 0 \/ Count(k)' =< Limit(k)
                        \/ \E t \in Threads : request[t].about = <<k, 0>> /\ request[t].crossed
                                              /\ request'[t] = Idle
      OBVIOUS
    <2>1. Count(k) \in Nat
      BY <1>1, ExistingIsFinite DEF FleetInv, FleetTypeOK, Count, Counted
    <2>2. ~ UNCHANGED <<users, devices, groups>>
      <3>1. SUFFICES ASSUME UNCHANGED <<users, devices, groups>> PROVE Count(k)' = Count(k)
        BY <2>1
      <3> QED
        BY <3>1 DEF Count, Existing
    <2>3. ~ \E t \in Threads, g \in Numbers : CommitDeleteGroup(t, g)
      <3>1. SUFFICES ASSUME NEW t \in Threads, NEW g \in Numbers, CommitDeleteGroup(t, g)
                     PROVE  Count(k)' =< Count(k) /\ Count(k)' \in Nat
        BY <2>1
      <3>2. FleetInv' /\ Count(k)' =< Count(k)
        BY <1>1, <3>1, KeepsCommitDeleteGroup
      <3>3. Existing' \subseteq Numbers /\ IsFiniteSet(Existing')
        BY NumbersAreFinite, FS_Subset DEF Existing
      <3>4. Count(k)' \in Nat
        BY <3>2, <3>3, FS_CardinalityType DEF FleetInv, FleetTypeOK, Count, Counted
      <3> QED
        BY <3>2, <3>4
    <2>4. PICK t \in Threads, j \in Counted : CommitInsert(t, j)
      <3>1. ~ (ProvisionUser /\ UNCHANGED <<devices, groups, policies>>)
        <4>1. SUFFICES ASSUME k # "users", UNCHANGED <<devices, groups>>
                       PROVE  Count(k)' = Count(k)
          BY <2>1
        <4> QED
          BY <4>1 DEF Count, Existing, Counted
      <3> QED
        BY <1>1, <2>2, <2>3, <3>1, WhatStepsChange
    <2>5. j = k
      <3>1. SUFFICES ASSUME j # k PROVE Count(k)' = Count(k)
        BY <2>1
      <3>2. /\ k = "users" => users' = users
            /\ k = "devices" => devices' = devices
            /\ k = "groups" => groups' = groups
        BY <2>4, <3>1 DEF CommitInsert
      <3> QED
        BY <3>2 DEF Count, Existing, Counted
    <2>6. Count(k)' = Count(k) + 1
      BY <1>1, <2>4, <2>5, KeepsCommitInsert
    <2>7. request[t].about = <<k, 0>> /\ request'[t] = Idle
      BY <2>4, <2>5 DEF CommitInsert, Done
    <2>8. CASE ~ request[t].crossed
      <3>1. WithinLimit(k)
        BY <1>1, <2>7, <2>8 DEF FleetInv, CountHolds
      <3>2. Limit(k) \in Nat
        BY <1>1 DEF Limit, FleetInv, FleetTypeOK
      <3> QED
        BY <2>1, <2>6, <3>1, <3>2 DEF WithinLimit
    <2> QED
      BY <2>7, <2>8
  <1>2. FleetInv /\ [FleetNext]_fleetVars => [Within]_fleetVars
    BY <1>1
  <1> QED
    BY <1>2, FleetIsInductive, PTL DEF WithinPlan, FleetSpec

\* For every value of the constants: a policy in force stays in force until it is deleted
\* (create_policy, resolve_effective_policy).
THEOREM FleetOldestPolicyRules == FleetSpec => OldestPolicyRules
  <1> DEFINE Rules ==
        \A g \in Numbers \cup {0} : \A p \in InForce(g) :
          \/ \E q \in InForce(g)' : q.id = p.id
          \/ \A q \in policies' : q.id # p.id
  <1>1. ASSUME FleetInv, [FleetNext]_fleetVars PROVE Rules
    <2> SUFFICES ASSUME NEW g \in Numbers \cup {0}, NEW p \in InForce(g),
                        NEW r \in policies', r.id = p.id
                 PROVE  \E q \in InForce(g)' : q.id = p.id
      OBVIOUS
    <2> DEFINE Enabled(rows) == {q \in rows : q.scope = g /\ q.look # "off"}
    <2>1. /\ InForce(g) = Oldest(Enabled(policies))
          /\ InForce(g)' = Oldest(Enabled(policies'))
      BY DEF InForce, Oldest
    <2>2. /\ p \in policies /\ p.scope = g /\ p.look # "off"
          /\ \A q \in Enabled(policies) : p.id =< q.id
      BY <2>1 DEF Oldest
    <2>3. policies \subseteq Rows
      BY <1>1 DEF FleetInv, FleetTypeOK
    <2>4. SUFFICES \E q \in policies' :
                     /\ q.id = p.id /\ q.scope = g /\ q.look # "off"
                     /\ \A s \in Enabled(policies') : q.id =< s.id
      BY <2>1 DEF Oldest
    <2>5. CASE policies' = policies
      BY <2>2, <2>5
    <2>6. CASE \E new \in Rows : /\ policies' = policies \cup {new}
                                 /\ \A q \in policies : q.id < new.id
      <3>1. PICK new \in Rows : /\ policies' = policies \cup {new}
                                /\ \A q \in policies : q.id < new.id
        BY <2>6
      <3>2. p.id =< new.id
        BY <2>2, <2>3, <3>1 DEF Rows, Numbers
      <3> QED
        BY <2>2, <3>1, <3>2
    <2>7. ASSUME NEW t \in Threads, NEW n \in Numbers, CommitDeletePolicy(t, n)
          PROVE  \E q \in policies' : /\ q.id = p.id /\ q.scope = g /\ q.look # "off"
                                      /\ \A s \in Enabled(policies') : q.id =< s.id
      <3>1. policies' = {q \in policies : q.id # n}
        BY <2>7 DEF CommitDeletePolicy
      <3> QED
        BY <2>2, <3>1
    <2>8. ASSUME NEW t \in Threads, NEW h \in Numbers, CommitDeleteGroup(t, h)
          PROVE  \E q \in policies' : /\ q.id = p.id /\ q.scope = g /\ q.look # "off"
                                      /\ \A s \in Enabled(policies') : q.id =< s.id
      <3> DEFINE kept == {q \in policies : q.id \notin request[t].policies}
                 Put(q) == IF q.scope = h /\ request[t].crossed
                           THEN [q EXCEPT !.astray = TRUE] ELSE q
      <3>1. policies' = {Put(q) : q \in kept}
        BY <2>8 DEF CommitDeleteGroup
      <3>2. \A q \in policies :
               Put(q).id = q.id /\ Put(q).scope = q.scope /\ Put(q).look = q.look
        BY <2>3 DEF Rows
      <3> HIDE DEF Put
      <3>3. p \in kept
        BY <2>2, <3>1, <3>2
      <3>4. \A s \in Enabled(policies') : p.id =< s.id
        BY <2>2, <3>1, <3>2
      <3> QED
        BY <2>2, <3>1, <3>2, <3>3, <3>4
    <2>9. ASSUME NEW t \in Threads, NEW k \in Counted, CommitInsert(t, k)
          PROVE  policies' = policies
      BY <2>9 DEF CommitInsert
    <2> QED
      BY <1>1, <2>5, <2>6, <2>7, <2>8, <2>9, WhatStepsChange
  <1>2. FleetInv /\ [FleetNext]_fleetVars => [Rules]_fleetVars
    BY <1>1
  <1> QED
    BY <1>2, FleetIsInductive, PTL DEF OldestPolicyRules, FleetSpec

===============================================================================
