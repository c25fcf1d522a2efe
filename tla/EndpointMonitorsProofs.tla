------------------------ MODULE EndpointMonitorsProofs ------------------------
(***************************************************************************)
(* Proofs about EndpointMonitors for every value of its constants: any     *)
(* number of things, events, changes and faults.                           *)
(***************************************************************************)
EXTENDS EndpointMonitors, FiniteSetTheorems, TLAPS

LEMMA Bounds ==
  MaxThings \in Nat /\ MaxEvents \in Nat /\ MaxChanges \in Nat /\ MaxFaults \in Nat
  BY MonitorsAssumption

LEMMA ThingsAreFinite ==
  ASSUME NEW xs, xs \subseteq Things
  PROVE  IsFiniteSet(xs) /\ Cardinality(xs) \in Nat
  <1>1. IsFiniteSet(Things)
    BY Bounds, FS_Interval DEF Things
  <1>2. IsFiniteSet(xs)
    BY <1>1, FS_Subset
  <1> QED
    BY <1>2, FS_CardinalityType

LEMMA KindIsOne ==
  ASSUME TypeOK
  PROVE  kind \in AllKinds
  BY MonitorsAssumption DEF TypeOK

Views == [Things -> Looks \cup {"none"}]
Said == [thing : Things, word : {"arrived", "changed", "stopped", "resisted", "left"}]

-------------------------------------------------------------------------------
(* Bursts.                                                                 *)

LEMMA EventsAreAsMany ==
  ASSUME NEW xs, xs \subseteq Things, NEW word
  PROVE  Cardinality(Events(xs, word)) =< Cardinality(xs)
  <1> DEFINE f == [x \in xs |-> Event(x, word)]
  <1>1. f \in Surjection(xs, Events(xs, word))
    BY DEF Surjection, Events
  <1> QED
    BY <1>1, ThingsAreFinite, FS_Surjection

LEMMA EventsAreFinite ==
  ASSUME NEW xs, xs \subseteq Things, NEW word
  PROVE  IsFiniteSet(Events(xs, word)) /\ Cardinality(Events(xs, word)) \in Nat
  <1> DEFINE f == [x \in xs |-> Event(x, word)]
  <1>1. f \in Surjection(xs, Events(xs, word))
    BY DEF Surjection, Events
  <1> QED
    BY <1>1, ThingsAreFinite, FS_Surjection, FS_CardinalityType

\* Of the unread alerts as many as the limit allows are reported: their ranks are distinct.
LEMMA FirstIsBounded ==
  ASSUME NEW xs, xs \subseteq Things
  PROVE  Cardinality(First(xs)) =< MaxEvents
  <1> DEFINE upto(x) == {y \in xs : y =< x}
             rank == [x \in First(xs) |-> Cardinality(upto(x))]
  <1>0. xs \subseteq Nat
    BY DEF Things
  <1>1. ASSUME NEW x \in xs
        PROVE  /\ x \in upto(x)
               /\ IsFiniteSet(upto(x)) /\ Cardinality(upto(x)) \in Nat
    <2>0. x =< x
      BY <1>0
    <2>1. upto(x) \subseteq Things /\ x \in upto(x)
      BY <2>0
    <2> QED
      BY <2>1, ThingsAreFinite
  <1>2. ASSUME NEW x \in First(xs)
        PROVE  rank[x] \in 1..MaxEvents
    <2>1. x \in xs /\ Cardinality(upto(x)) =< MaxEvents
      BY DEF First
    <2>2. Cardinality(upto(x)) # 0
      BY <1>1, <2>1, FS_EmptySet
    <2> HIDE DEF upto
    <2> QED
      BY <1>1, <2>1, <2>2, Bounds
  <1>3. ASSUME NEW x \in First(xs), NEW z \in First(xs), x < z
        PROVE  rank[x] # rank[z]
    <2>1. x \in xs /\ z \in xs /\ x \in Nat /\ z \in Nat
      BY DEF First, Things
    <2>2. /\ \A y \in xs : y =< x => y =< z
          /\ z =< z /\ ~ (z =< x)
      BY <1>0, <1>3, <2>1
    <2>3. upto(x) \subseteq upto(z) /\ z \in upto(z) /\ z \notin upto(x)
      BY <2>1, <2>2
    <2>4. IsFiniteSet(upto(z))
      BY <1>1, <2>1
    <2> HIDE DEF upto
    <2>5. Cardinality(upto(x)) # Cardinality(upto(z))
      BY <2>3, <2>4, FS_Subset
    <2> QED
      BY <2>5
  <1>4. \A x, z \in First(xs) : x # z => x < z \/ z < x
    BY DEF First, Things
  <1> HIDE DEF upto
  <1>5. rank \in [First(xs) -> 1..MaxEvents]
    BY <1>2
  <1> HIDE DEF rank
  <1>6. \A x, z \in First(xs) : rank[x] = rank[z] => x = z
    BY <1>3, <1>4
  <1>7. rank \in Injection(First(xs), 1..MaxEvents)
    BY <1>5, <1>6 DEF Injection, IsInjective
  <1>8. IsFiniteSet(1..MaxEvents) /\ Cardinality(1..MaxEvents) = MaxEvents
    BY Bounds, FS_Interval
  <1> QED
    BY <1>7, <1>8, FS_Injection

-------------------------------------------------------------------------------
(* The start, and the changes of the host and the policy.                  *)

LEMMA InitMonitors == Init => MonitorsInv
  <1> SUFFICES ASSUME Init PROVE MonitorsInv
    OBVIOUS
  <1>1. /\ kind \in Kinds /\ kind \in AllKinds /\ present \in Views
        /\ known = Absent /\ baselined = FALSE /\ shown = Absent /\ rule \in BOOLEAN
        /\ said = {} /\ excused = {} /\ spared = {} /\ fresh = FALSE /\ glitched = FALSE
        /\ added = {} /\ old = IF kind \in Silent THEN There ELSE {}
        /\ owed = IF kind = "listener" THEN There ELSE {}
        /\ changes = 0 /\ faults = 0
    BY MonitorsAssumption DEF Init, Start, There, Views
  <1>2. There \subseteq Things /\ Absent \in Views
    BY DEF There, Seen, Absent, Views
  <1>3. TypeOK
    <2>1. {present, known, shown} \subseteq [Things -> Looks \cup {"none"}]
      BY <1>1, <1>2 DEF Views
    <2>2. old \cup added \cup owed \cup excused \cup spared \subseteq Things
      BY <1>1, <1>2
    <2>3. {baselined, rule, fresh, glitched} \subseteq BOOLEAN
      BY <1>1
    <2>4. changes \in 0..MaxChanges /\ faults \in 0..MaxFaults
      BY <1>1, Bounds
    <2>5. Cardinality(said) =< MaxEvents
      BY <1>1, Bounds, FS_EmptySet
    <2> QED
      BY <1>1, <2>1, <2>2, <2>3, <2>4, <2>5 DEF TypeOK
  <1>4. KnownIsShown
    BY <1>1 DEF KnownIsShown
  <1>5. GatewayIsOne
    <2> SUFFICES ASSUME kind = "arp", NEW x \in There, NEW y \in There, x # y
                 PROVE  FALSE
      BY DEF GatewayIsOne
    <2>1. Cardinality(There) =< 1 /\ IsFiniteSet(There) /\ Cardinality(There) \in Nat
      BY <1>2, ThingsAreFinite DEF Init, OneGateway
    <2>2. Cardinality(There) = 1
      BY <2>1, FS_EmptySet
    <2> QED
      BY <2>1, <2>2, FS_Singleton
  <1>6. OwedIsNew
    <2>1. \A x \in Things : known[x] = "none"
      BY <1>1 DEF Absent
    <2> QED
      BY <1>1, <1>2, <2>1 DEF OwedIsNew, LooksNew, Silent
  <1>7. OldIsKnown
    BY <1>1 DEF OldIsKnown
  <1>8. KnownIsSpared
    <2>1. Seen(known) = {}
      BY <1>1 DEF Seen, Absent
    <2> QED
      BY <2>1 DEF KnownIsSpared
  <1>9. EveryArrivalReported /\ NothingReplayed /\ RuleEnforced
    BY <1>1 DEF EveryArrivalReported, NothingReplayed, RuleEnforced
  <1> QED
    BY <1>3, <1>4, <1>5, <1>6, <1>7, <1>8, <1>9 DEF MonitorsInv

\* A change of the host or the policy: the monitor knows what it knew.
LEMMA ChangedKeeps ==
  ASSUME MonitorsInv, Changed, UNCHANGED <<known, baselined>>,
         present' \in Views, rule' \in BOOLEAN,
         old' \cup added' \cup owed' \cup excused' \cup spared' \subseteq Things,
         GatewayIsOne', OwedIsNew', OldIsKnown', KnownIsSpared'
  PROVE  MonitorsInv'
  <1>1. /\ changes < MaxChanges /\ changes' = changes + 1
        /\ said' = {} /\ fresh' = FALSE
        /\ UNCHANGED <<kind, faults, shown, glitched>>
    BY DEF Changed
  <1>2. TypeOK
    BY DEF MonitorsInv
  <1>3. TypeOK'
    <2>1. {present', known', shown'} \subseteq [Things -> Looks \cup {"none"}]
      BY <1>1, <1>2 DEF TypeOK, Views
    <2>2. changes' \in 0..MaxChanges /\ faults' \in 0..MaxFaults
      BY <1>1, <1>2, Bounds DEF TypeOK
    <2>3. {baselined', rule', fresh', glitched'} \subseteq BOOLEAN
      BY <1>1, <1>2 DEF TypeOK
    <2>4. Cardinality(said') =< MaxEvents
      BY <1>1, Bounds, FS_EmptySet
    <2>5. kind' \in Kinds /\ said' = {}
      BY <1>1, <1>2 DEF TypeOK
    <2> QED
      BY <2>1, <2>2, <2>3, <2>4, <2>5 DEF TypeOK
  <1>4. KnownIsShown'
    BY <1>1 DEF MonitorsInv, KnownIsShown, Absent
  <1>5. EveryArrivalReported' /\ NothingReplayed' /\ RuleEnforced'
    BY <1>1 DEF EveryArrivalReported, NothingReplayed, RuleEnforced
  <1> QED
    BY <1>3, <1>4, <1>5 DEF MonitorsInv

\* What is there, and what is known, thing by thing.
LEMMA SeenIs ==
  ASSUME NEW f
  PROVE  Seen(f) \subseteq Things /\ \A x \in Things : x \in Seen(f) <=> f[x] # "none"
  BY DEF Seen

LEMMA KeepsArrive ==
  ASSUME MonitorsInv, NEW x \in Things, NEW look \in Looks, Arrive(x, look)
  PROVE  MonitorsInv'
  <1>1. /\ present[x] = "none"
        /\ kind = "arp" => There = {}
        /\ Changed
        /\ present' = [present EXCEPT ![x] = look]
        /\ owed' = IF Due(x, look) THEN owed \cup {x} ELSE owed
        /\ old' = IF kind \in Silent /\ ~ baselined THEN old \cup {x} ELSE old
        /\ excused' = IF AsBefore(x, look) THEN excused \cup {x} ELSE excused
        /\ spared' = IF AsBefore(x, look) /\ kind # "name" THEN spared \cup {x} ELSE spared
        /\ added' \in {added, IF kind = "yara" /\ baselined THEN added \cup {x} ELSE added}
        /\ UNCHANGED <<known, baselined, rule>>
    BY DEF Arrive
  <1>2. /\ TypeOK /\ KnownIsShown /\ GatewayIsOne /\ OwedIsNew /\ OldIsKnown /\ KnownIsSpared
        /\ kind \in AllKinds
    BY KindIsOne DEF MonitorsInv
  <1>3. UNCHANGED <<kind, shown, glitched>> /\ known = shown
    BY <1>1, <1>2 DEF Changed, KnownIsShown
  <1>4. look # "none" /\ look \in Looks
    BY DEF Looks
  <1>5. /\ present' \in Views /\ present'[x] = look
        /\ \A y \in Things : y # x => present'[y] = present[y]
    BY <1>1, <1>2 DEF TypeOK, Views
  <1>6. There' = There \cup {x} /\ x \notin There /\ There \subseteq Things
    BY <1>1, <1>4, <1>5 DEF There, Seen
  <1>7. old' \cup added' \cup owed' \cup excused' \cup spared' \subseteq Things
    BY <1>1, <1>2 DEF TypeOK
  <1>8. GatewayIsOne'
    BY <1>1, <1>3, <1>6 DEF GatewayIsOne
  <1>9. OwedIsNew'
    <2>1. x \notin owed
      BY <1>2, <1>6 DEF OwedIsNew
    <2>2. owed' \subseteq There'
      BY <1>1, <1>2, <1>6 DEF OwedIsNew
    <2>3. kind \in Silent /\ ~ baselined => owed' = {}
      BY <1>1, <1>2, <1>3 DEF OwedIsNew, Due, Silent, KnownIsShown, Absent
    <2>4. kind = "name" => owed' = {}
      BY <1>1, <1>2 DEF OwedIsNew, Due
    <2>5. kind = "arp" => \A y \in owed' : known'[y] \notin {"none", present'[y]}
      <3> SUFFICES ASSUME kind = "arp", NEW y \in owed'
                   PROVE  known'[y] \notin {"none", present'[y]}
        OBVIOUS
      <3>1. CASE y = x
        BY <3>1, <2>1, <1>1, <1>3, <1>5 DEF Due
      <3>2. CASE y # x
        BY <3>2, <1>1, <1>2, <1>5, <1>6 DEF OwedIsNew
      <3> QED
        BY <3>1, <3>2
    <2>6. kind # "arp" => \A y \in owed' \ excused' : LooksNew(y)'
      <3> SUFFICES ASSUME kind # "arp", NEW y \in owed' \ excused'
                   PROVE  LooksNew(y)'
        OBVIOUS
      <3>1. CASE y = x
        <4>1. Due(x, look) /\ ~ AsBefore(x, look)
          BY <3>1, <2>1, <1>1
        <4> QED
          BY <3>1, <4>1, <1>1, <1>3, <1>4, <1>5 DEF Due, AsBefore, LooksNew
      <3>2. CASE y # x
        <4>1. y \in owed \ excused /\ LooksNew(y)
          BY <3>2, <1>1, <1>2 DEF OwedIsNew
        <4>2. present'[y] = present[y]
          BY <3>2, <4>1, <1>2, <1>5, <1>6 DEF OwedIsNew
        <4> QED
          BY <4>1, <4>2, <1>1, <1>3 DEF LooksNew
      <3> QED
        BY <3>1, <3>2
    <2> QED
      BY <2>2, <2>3, <2>4, <2>5, <2>6, <1>1, <1>3 DEF OwedIsNew
  <1>10. OldIsKnown'
    <2>1. /\ baselined => old' = old
          /\ added \subseteq added' /\ (kind # "yara" => added' = added)
      BY <1>1
    <2>2. \A y \in old : present'[y] = present[y]
      BY <1>2, <1>5, <1>6 DEF OldIsKnown
    <2> QED
      BY <2>1, <2>2, <1>1, <1>2, <1>3, <1>6 DEF OldIsKnown
  <1>11. KnownIsSpared'
    <2> SUFFICES ASSUME kind \in {"listener", "usb"}, rule, NEW y \in There', y \in Seen(known),
                        present'[y] = "bad"
                 PROVE  y \in spared'
      BY <1>1, <1>3 DEF KnownIsSpared
    <2>1. CASE y = x
      BY <2>1, <1>1, <1>3, <1>6 DEF AsBefore, Seen
    <2>2. CASE y # x
      BY <2>2, <1>1, <1>2, <1>5, <1>6 DEF KnownIsSpared
    <2> QED
      BY <2>1, <2>2
  <1> QED
    BY <1>1, <1>5, <1>7, <1>8, <1>9, <1>10, <1>11, <1>2, ChangedKeeps DEF TypeOK

LEMMA KeepsLeave ==
  ASSUME MonitorsInv, NEW xs, Leave(xs)
  PROVE  MonitorsInv'
  <1>1. /\ xs # {} /\ xs \subseteq There /\ (kind = "alert" => xs = There)
        /\ Changed
        /\ present' = [y \in Things |-> IF y \in xs THEN "none" ELSE present[y]]
        /\ old' = old \ xs /\ added' = added \ xs /\ owed' = owed \ xs
        /\ excused' = excused \ xs /\ spared' = spared \ xs
        /\ UNCHANGED <<known, baselined, rule>>
    BY DEF Leave
  <1>2. /\ TypeOK /\ KnownIsShown /\ GatewayIsOne /\ OwedIsNew /\ OldIsKnown /\ KnownIsSpared
        /\ kind \in AllKinds
    BY KindIsOne DEF MonitorsInv
  <1>3. UNCHANGED <<kind, shown, glitched>>
    BY <1>1 DEF Changed
  <1>4. present' \in Views /\ \A y \in There \ xs : present'[y] = present[y]
    BY <1>1, <1>2 DEF TypeOK, Views, There, Seen
  <1>5. There' = There \ xs
    BY <1>1 DEF There, Seen
  <1>6. old' \cup added' \cup owed' \cup excused' \cup spared' \subseteq Things
    BY <1>1, <1>2 DEF TypeOK
  <1>7. GatewayIsOne'
    BY <1>2, <1>3, <1>5 DEF GatewayIsOne
  <1>8. OwedIsNew'
    <2>1. owed' \subseteq There' /\ owed' \subseteq owed /\ owed' \ excused' \subseteq owed \ excused
      BY <1>1, <1>2, <1>5 DEF OwedIsNew
    <2>2. \A y \in owed' : present'[y] = present[y]
      BY <2>1, <1>4, <1>5
    <2>3. kind = "arp" => \A y \in owed' : known'[y] \notin {"none", present'[y]}
      BY <1>1, <1>2, <2>1, <2>2 DEF OwedIsNew
    <2>4. kind # "arp" => \A y \in owed' \ excused' : LooksNew(y)'
      BY <1>1, <1>2, <1>3, <2>1, <2>2 DEF OwedIsNew, LooksNew
    <2>5. /\ kind \in Silent /\ ~ baselined => owed' = {}
          /\ kind = "name" => owed' = {}
      BY <1>2, <2>1 DEF OwedIsNew
    <2> QED
      BY <2>1, <2>3, <2>4, <2>5, <1>1, <1>3 DEF OwedIsNew
  <1>9. OldIsKnown'
    <2>1. /\ old' \subseteq There' /\ old' \subseteq old /\ old' \ added' \subseteq old \ added
          /\ kind # "yara" => added' = {}
      BY <1>1, <1>2, <1>5 DEF OldIsKnown
    <2>2. \A y \in old' : present'[y] = present[y]
      BY <2>1, <1>4, <1>5
    <2>3. kind = "alert" => old' = {}
      BY <1>1, <1>2 DEF OldIsKnown
    <2>4. kind \notin Silent => old' = {}
      BY <1>2, <2>1 DEF OldIsKnown
    <2> QED
      BY <2>1, <2>2, <2>3, <2>4, <1>1, <1>2, <1>3 DEF OldIsKnown
  <1>10. KnownIsSpared'
    <2> SUFFICES ASSUME kind \in {"listener", "usb"}, rule, NEW y \in There', y \in Seen(known),
                        present'[y] = "bad"
                 PROVE  y \in spared'
      BY <1>1, <1>3 DEF KnownIsSpared
    <2> QED
      BY <1>1, <1>2, <1>4, <1>5 DEF KnownIsSpared
  <1> QED
    BY <1>1, <1>4, <1>6, <1>7, <1>8, <1>9, <1>10, <1>2, ChangedKeeps DEF TypeOK

LEMMA KeepsDiffer ==
  ASSUME MonitorsInv, NEW x \in Things, Differ(x)
  PROVE  MonitorsInv'
  <1>1. PICK look \in Looks \ {present[x]} :
          /\ present' = [present EXCEPT ![x] = look]
          /\ owed' = IF shown[x] \notin {"none", look} THEN owed \cup {x}
                     ELSE IF shown[x] = look THEN owed \ {x} ELSE owed
    BY DEF Differ
  <1>2. /\ x \in There /\ kind \in {"registry", "arp"}
        /\ Changed
        /\ old' = old \ (IF shown[x] = "none" THEN {} ELSE {x})
        /\ excused' = excused \ {x}
        /\ UNCHANGED <<known, baselined, rule, added, spared>>
    BY DEF Differ
  <1>3. /\ TypeOK /\ KnownIsShown /\ GatewayIsOne /\ OwedIsNew /\ OldIsKnown
    BY DEF MonitorsInv
  <1>4. UNCHANGED <<kind, shown, glitched>> /\ known = shown
    BY <1>2, <1>3 DEF Changed, KnownIsShown
  <1>5. /\ look \in Looks /\ look # "none" /\ present' \in Views /\ present'[x] = look
        /\ \A y \in Things : y # x => present'[y] = present[y]
    BY <1>1, <1>3 DEF TypeOK, Views, Looks
  <1>6. There' = There /\ There \subseteq Things
    BY <1>2, <1>5 DEF There, Seen
  <1>7. old' \cup added' \cup owed' \cup excused' \cup spared' \subseteq Things
    BY <1>1, <1>2, <1>3 DEF TypeOK
  <1>8. GatewayIsOne'
    BY <1>3, <1>4, <1>6 DEF GatewayIsOne
  <1>9. OwedIsNew'
    <2>1. owed' \subseteq There'
      BY <1>1, <1>2, <1>3, <1>6 DEF OwedIsNew
    <2>2. kind \in Silent /\ ~ baselined => owed' = {}
      <3> HAVE kind \in Silent /\ ~ baselined
      <3>1. shown[x] = "none"
        BY <1>3, <1>4 DEF KnownIsShown, Absent
      <3> QED
        BY <3>1, <1>1, <1>3, <1>5 DEF OwedIsNew
    <2>3. \A y \in owed' : y # x => y \in owed
      BY <1>1
    <2>4. kind = "arp" => \A y \in owed' : known'[y] \notin {"none", present'[y]}
      <3> SUFFICES ASSUME kind = "arp", NEW y \in owed'
                   PROVE  known'[y] \notin {"none", present'[y]}
        OBVIOUS
      <3>1. CASE y = x
        <4>1. CASE shown[x] \notin {"none", look}
          BY <3>1, <4>1, <1>2, <1>4, <1>5
        <4>2. CASE shown[x] = look
          BY <3>1, <4>2, <1>1, <1>5
        <4>3. CASE shown[x] = "none"
          <5>1. y \in owed
            BY <3>1, <4>3, <1>1, <1>5
          <5> QED
            BY <5>1, <3>1, <4>3, <1>3, <1>4 DEF OwedIsNew
        <4> QED
          BY <4>1, <4>2, <4>3
      <3>2. CASE y # x
        <4>1. y \in owed /\ y \in Things
          BY <3>2, <2>3, <1>3 DEF TypeOK
        <4> QED
          BY <3>2, <4>1, <1>2, <1>3, <1>5 DEF OwedIsNew
      <3> QED
        BY <3>1, <3>2
    <2>5. kind # "arp" => \A y \in owed' \ excused' : LooksNew(y)'
      <3> SUFFICES ASSUME kind # "arp", NEW y \in owed' \ excused'
                   PROVE  LooksNew(y)'
        OBVIOUS
      <3>0. kind = "registry"
        BY <1>2
      <3>1. CASE y = x
        <4>1. shown[x] # look
          BY <3>1, <1>1
        <4> QED
          BY <3>0, <3>1, <4>1, <1>2, <1>4, <1>5 DEF LooksNew
      <3>2. CASE y # x
        <4>1. y \in owed \ excused /\ y \in Things
          BY <3>2, <2>3, <1>2, <1>3 DEF TypeOK
        <4> QED
          BY <3>0, <3>2, <4>1, <1>2, <1>3, <1>4, <1>5 DEF OwedIsNew, LooksNew
      <3> QED
        BY <3>1, <3>2
    <2> QED
      BY <2>1, <2>2, <2>4, <2>5, <1>2, <1>4 DEF OwedIsNew
  <1>10. OldIsKnown'
    <2>1. old' \subseteq There' /\ (kind \notin Silent => old' = {}) /\ added' = {}
      BY <1>2, <1>3, <1>6 DEF OldIsKnown
    <2>2. baselined /\ ~ glitched => x \notin old'
      BY <1>2, <1>3, <1>4 DEF OldIsKnown
    <2>3. baselined /\ ~ glitched => \A y \in old' :
             known'[y] # "none" /\ (kind = "registry" => known'[y] = present'[y])
      BY <2>2, <1>2, <1>3, <1>5 DEF OldIsKnown, TypeOK
    <2> QED
      BY <2>1, <2>3, <1>2, <1>4 DEF OldIsKnown
  <1>11. KnownIsSpared'
    BY <1>2, <1>4 DEF KnownIsSpared
  <1> QED
    BY <1>2, <1>5, <1>7, <1>8, <1>9, <1>10, <1>11, <1>3, ChangedKeeps DEF TypeOK

LEMMA KeepsPolicyDirs ==
  ASSUME MonitorsInv, NEW xs, xs \subseteq Things, PolicyDirs(xs)
  PROVE  MonitorsInv'
  <1>1. PICK look \in [xs -> Looks] :
          present' = [x \in Things |-> IF x \in xs THEN look[x] ELSE present[x]]
    BY DEF PolicyDirs
  <1>2. /\ kind = "yara" /\ baselined /\ xs \cap There = {}
        /\ Changed
        /\ old' = old \cup xs /\ added' = added \cup xs
        /\ UNCHANGED <<known, baselined, rule, owed, excused, spared>>
        /\ UNCHANGED <<kind, shown, glitched>>
    BY DEF PolicyDirs, Changed
  <1>3. TypeOK /\ OwedIsNew /\ OldIsKnown
    BY DEF MonitorsInv
  <1>4. /\ present' \in Views
        /\ \A x \in Things \ xs : present'[x] = present[x]
        /\ \A x \in xs : present'[x] # "none"
    BY <1>1, <1>3 DEF TypeOK, Views, Looks
  <1>5. There' = There \cup xs /\ There \subseteq Things
    BY <1>4 DEF There, Seen
  <1>6. GatewayIsOne'
    BY <1>2 DEF GatewayIsOne
  <1>7. OwedIsNew'
    <2>1. \A x \in owed : present'[x] = present[x]
      BY <1>2, <1>3, <1>4, <1>5 DEF OwedIsNew
    <2> QED
      BY <2>1, <1>2, <1>3, <1>5 DEF OwedIsNew, LooksNew
  <1>8. OldIsKnown'
    BY <1>2, <1>3, <1>5 DEF OldIsKnown, Silent
  <1>9. KnownIsSpared'
    BY <1>2 DEF KnownIsSpared
  <1>10. old' \cup added' \cup owed' \cup excused' \cup spared' \subseteq Things
    BY <1>2, <1>3 DEF TypeOK
  <1> QED
    BY <1>2, <1>3, <1>4, <1>6, <1>7, <1>8, <1>9, <1>10, ChangedKeeps DEF TypeOK

LEMMA KeepsRuleOn == MonitorsInv /\ RuleOn => MonitorsInv'
  <1> SUFFICES ASSUME MonitorsInv, RuleOn PROVE MonitorsInv'
    OBVIOUS
  <1>1. /\ Ruled(kind)
        /\ Changed
        /\ rule' = TRUE
        /\ spared' = IF kind = "name" THEN spared ELSE spared \cup (There \cap Seen(shown))
        /\ UNCHANGED <<present, known, baselined, old, added, owed, excused>>
        /\ UNCHANGED <<kind, shown, glitched>>
    BY DEF RuleOn, Changed
  <1>2. TypeOK /\ KnownIsShown /\ GatewayIsOne /\ OwedIsNew /\ OldIsKnown
    BY DEF MonitorsInv
  <1>3. There' = There /\ There \subseteq Things
    BY <1>1 DEF There, Seen
  <1>4. GatewayIsOne' /\ OwedIsNew' /\ OldIsKnown'
    BY <1>1, <1>2, <1>3 DEF GatewayIsOne, OwedIsNew, OldIsKnown, LooksNew
  <1>5. KnownIsSpared'
    BY <1>1, <1>2, <1>3 DEF KnownIsSpared, KnownIsShown
  <1>6. old' \cup added' \cup owed' \cup excused' \cup spared' \subseteq Things
    BY <1>1, <1>2, <1>3 DEF TypeOK
  <1>7. present' \in Views
    BY <1>1, <1>2 DEF TypeOK, Views
  <1> QED
    BY <1>1, <1>4, <1>5, <1>6, <1>7, ChangedKeeps

LEMMA KeepsRuleOff == MonitorsInv /\ RuleOff => MonitorsInv'
  <1> SUFFICES ASSUME MonitorsInv, RuleOff PROVE MonitorsInv'
    OBVIOUS
  <1>1. /\ Changed
        /\ rule' = FALSE
        /\ UNCHANGED <<present, known, baselined, old, added, owed, excused, spared>>
        /\ UNCHANGED <<kind, shown, glitched>>
    BY DEF RuleOff, Changed
  <1>2. TypeOK /\ GatewayIsOne /\ OwedIsNew /\ OldIsKnown
    BY DEF MonitorsInv
  <1>3. There' = There
    BY <1>1 DEF There
  <1>4. GatewayIsOne' /\ OwedIsNew' /\ OldIsKnown' /\ KnownIsSpared'
    BY <1>1, <1>2, <1>3 DEF GatewayIsOne, OwedIsNew, OldIsKnown, LooksNew, KnownIsSpared
  <1> QED
    BY <1>1, <1>2, <1>4, ChangedKeeps DEF TypeOK, Views

LEMMA KeepsRestart == MonitorsInv /\ Restart => MonitorsInv'
  <1> SUFFICES ASSUME MonitorsInv, Restart PROVE MonitorsInv'
    OBVIOUS
  <1>1. /\ changes < MaxChanges /\ changes' = changes + 1
        /\ known' = Absent /\ baselined' = FALSE /\ shown' = Absent
        /\ rule' \in BOOLEAN
        /\ said' = {} /\ excused' = {} /\ spared' = {} /\ fresh' = FALSE /\ glitched' = FALSE
        /\ present' = [x \in Things |-> IF x \in added THEN "none" ELSE present[x]]
        /\ added' = {}
        /\ old' = IF kind \in Silent THEN There' ELSE {}
        /\ owed' = IF kind = "listener" THEN There' ELSE {}
        /\ UNCHANGED <<kind, faults>>
    BY DEF Restart
  <1>2. TypeOK /\ GatewayIsOne /\ kind \in AllKinds
    BY KindIsOne DEF MonitorsInv
  <1>3. /\ There' = There \ added /\ There \subseteq Things /\ Absent \in Views
        /\ present' \in Views
    BY <1>1, <1>2 DEF There, Seen, Absent, Views, TypeOK
  <1>4. TypeOK'
    <2>1. {present', known', shown'} \subseteq [Things -> Looks \cup {"none"}]
      BY <1>1, <1>2, <1>3 DEF TypeOK, Views
    <2>2. old' \cup added' \cup owed' \cup excused' \cup spared' \subseteq Things
      BY <1>1, <1>3
    <2>3. {baselined', rule', fresh', glitched'} \subseteq BOOLEAN
      BY <1>1
    <2>4. changes' \in 0..MaxChanges /\ faults' \in 0..MaxFaults
      BY <1>1, <1>2, Bounds DEF TypeOK
    <2>5. Cardinality(said') =< MaxEvents
      BY <1>1, Bounds, FS_EmptySet
    <2>6. kind' \in Kinds /\ said' = {}
      BY <1>1, <1>2 DEF TypeOK
    <2> QED
      BY <2>1, <2>2, <2>3, <2>4, <2>5, <2>6 DEF TypeOK
  <1>5. KnownIsShown'
    BY <1>1 DEF KnownIsShown, Absent
  <1>6. GatewayIsOne'
    BY <1>1, <1>2, <1>3 DEF GatewayIsOne
  <1>7. OwedIsNew'
    <2>1. \A x \in Things : known'[x] = "none"
      BY <1>1 DEF Absent
    <2> QED
      BY <1>1, <1>3, <2>1 DEF OwedIsNew, LooksNew, Silent
  <1>8. OldIsKnown'
    BY <1>1, <1>3 DEF OldIsKnown
  <1>9. KnownIsSpared'
    <2>1. Seen(known)' = {}
      BY <1>1 DEF Seen, Absent
    <2> QED
      BY <2>1 DEF KnownIsSpared
  <1>10. EveryArrivalReported' /\ NothingReplayed' /\ RuleEnforced'
    BY <1>1 DEF EveryArrivalReported, NothingReplayed, RuleEnforced
  <1> QED
    BY <1>4, <1>5, <1>6, <1>7, <1>8, <1>9, <1>10 DEF MonitorsInv

-------------------------------------------------------------------------------
(* Scans.                                                                  *)

\* What is the same for every scan in which the things in lost are not seen.
Looked(lost) ==
    /\ lost \subseteq There
    /\ lost # {} => kind \in {"registry", "usb", "yara"}
    /\ faults' \in 0..MaxFaults
    /\ shown' = IF kind = "arp" /\ There \cap Seen(shown) # {} THEN shown ELSE Snapshot(lost)
    /\ fresh' = (lost = {}) /\ glitched' = (glitched \/ lost # {})
    /\ UNCHANGED changes

LEMMA SnapshotIs ==
  ASSUME TypeOK, NEW lost, lost \subseteq There
  PROVE  /\ Snapshot(lost) \in Views
         /\ Seen(Snapshot(lost)) = There \ lost
         /\ \A x \in lost : Snapshot(lost)[x] = "none"
         /\ \A x \in There \ lost : Snapshot(lost)[x] = present[x]
         /\ lost = {} => Snapshot(lost) = present
  BY DEF Snapshot, TypeOK, Views, There, Seen

\* A scan that compares keeps the invariant if it tells of what is due, is silent about
\* what was there before, and deals with what is blocked.
LEMMA EndsKeeps ==
  ASSUME MonitorsInv, kind # "arp",
         NEW lost, Looked(lost),
         NEW words, words \subseteq Said,
         kind \in {"process", "alert"} => Cardinality(words) =< MaxEvents,
         NEW missed, NEW staying, NEW gone,
         missed \cup staying \cup gone \subseteq There,
         kind = "alert" => gone = {},
         Ends(Snapshot(lost), words, missed, staying, gone),
         \A x \in owed \ excused : x \in missed \cup gone \cup lost \/ \E w \in words : w.thing = x,
         lost = {} /\ ~ glitched => \A e \in words : e.word = "left" \/ e.thing \notin old \ added,
         Ruled(kind) /\ rule =>
            \A x \in There \ (gone \cup lost) :
               present[x] = "bad" => x \in spared \cup missed \cup staying
  PROVE  MonitorsInv'
  <1>1. /\ known' = Snapshot(lost) /\ baselined' = TRUE /\ said' = words
        /\ present' = [x \in Things |-> IF x \in gone THEN "none" ELSE present[x]]
        /\ old' = old \ gone /\ added' = added \ gone
        /\ owed' = owed \ ({w.thing : w \in words} \cup gone)
        /\ excused' = (excused \cup missed) \ gone
        /\ spared' = (spared \cup missed \cup staying) \ gone
        /\ UNCHANGED <<kind, rule>>
    BY DEF Ends, Remembered
  <1>2. /\ lost \subseteq There
        /\ lost # {} => kind \in {"registry", "usb", "yara"}
        /\ shown' = Snapshot(lost)
        /\ fresh' = (lost = {}) /\ glitched' = (glitched \/ lost # {})
        /\ faults' \in 0..MaxFaults /\ UNCHANGED changes
    BY DEF Looked
  <1>3. TypeOK /\ OwedIsNew /\ OldIsKnown /\ KnownIsSpared /\ kind \in AllKinds
    BY KindIsOne DEF MonitorsInv
  <1>4. /\ Snapshot(lost) \in Views /\ Seen(Snapshot(lost)) = There \ lost
        /\ \A x \in lost : Snapshot(lost)[x] = "none"
        /\ \A x \in There \ lost : Snapshot(lost)[x] = present[x]
    BY <1>2, <1>3, SnapshotIs
  <1>5. /\ There' = There \ gone /\ There \subseteq Things /\ present' \in Views
        /\ \A x \in There' : present'[x] = present[x]
    BY <1>1, <1>3 DEF There, Seen, TypeOK, Views
  <1>6. /\ owed' \subseteq owed \ gone /\ old' \subseteq old \ gone
        /\ old' \ added' \subseteq old \ added
    BY <1>1
  <1>7. \A x \in owed' \ excused' : x \in lost /\ x \in owed \ excused
    BY <1>1
  <1>8. TypeOK'
    <2>1. {present', known', shown'} \subseteq [Things -> Looks \cup {"none"}]
      BY <1>1, <1>2, <1>4, <1>5 DEF Views
    <2>2. old' \cup added' \cup owed' \cup excused' \cup spared' \subseteq Things
      BY <1>1, <1>3, <1>5 DEF TypeOK
    <2>3. {baselined', rule', fresh', glitched'} \subseteq BOOLEAN
      <3>1. fresh' \in BOOLEAN
        BY <1>2
      <3>2. glitched' \in BOOLEAN
        BY <1>2
      <3> QED
        BY <3>1, <3>2, <1>1, <1>3 DEF TypeOK
    <2>4. changes' \in 0..MaxChanges /\ faults' \in 0..MaxFaults
      BY <1>2, <1>3 DEF TypeOK
    <2>5. kind' \in {"process", "alert"} => Cardinality(said') =< MaxEvents
      BY <1>1
    <2>6. kind' \in Kinds
      BY <1>1, <1>3 DEF TypeOK
    <2>7. said' \subseteq Said
      BY <1>1
    <2> QED
      BY <2>1, <2>2, <2>3, <2>4, <2>5, <2>6, <2>7 DEF TypeOK, Said
  <1>9. KnownIsShown' /\ GatewayIsOne'
    BY <1>1, <1>2 DEF KnownIsShown, GatewayIsOne
  <1>10. OwedIsNew'
    <2>1. owed' \subseteq There'
      BY <1>3, <1>5, <1>6 DEF OwedIsNew
    <2>2. kind = "name" => owed' = {}
      BY <1>3, <1>6 DEF OwedIsNew
    <2>3. ASSUME NEW x \in owed' \ excused'
          PROVE  LooksNew(x)'
      <3>1. x \in lost /\ x \in owed \ excused /\ x \in There /\ x \in There'
        BY <1>2, <1>7, <2>1
      <3>2. known'[x] = "none" /\ present'[x] = present[x] /\ present[x] # "none"
        BY <3>1, <1>1, <1>4, <1>5 DEF There, Seen
      <3>3. kind \in {"registry", "usb", "yara"} /\ LooksNew(x)
        BY <3>1, <1>2, <1>3 DEF OwedIsNew
      <3> QED
        BY <3>2, <3>3, <1>1 DEF LooksNew
    <2> QED
      BY <2>1, <2>2, <2>3, <1>1 DEF OwedIsNew
  <1>11. OldIsKnown'
    <2>1. /\ old' \subseteq There' /\ (kind \notin Silent => old' = {})
          /\ kind # "yara" => added' = {}
      BY <1>1, <1>3, <1>5, <1>6 DEF OldIsKnown
    <2>2. ASSUME ~ glitched', NEW x \in old'
          PROVE  known'[x] # "none" /\ known'[x] = present'[x]
      <3>1. lost = {} /\ x \in There /\ x \in There'
        BY <2>1, <2>2, <1>2, <1>5
      <3> QED
        BY <3>1, <1>1, <1>4, <1>5 DEF There, Seen
    <2>3. kind = "alert" => Seen(known)' \subseteq There'
      BY <1>1, <1>4, <1>5
    <2> QED
      BY <2>1, <2>2, <2>3, <1>1 DEF OldIsKnown
  <1>12. ASSUME Ruled(kind), rule, NEW x \in There', x \notin lost, present'[x] = "bad"
         PROVE  x \in spared'
    BY <1>12, <1>1, <1>5
  <1>13. KnownIsSpared'
    <2> SUFFICES ASSUME kind \in {"listener", "usb"}, rule, NEW x \in There', x \in Seen(known)',
                        present'[x] = "bad"
                 PROVE  x \in spared'
      BY <1>1 DEF KnownIsSpared
    <2> QED
      BY <1>1, <1>4, <1>12 DEF Ruled
  <1>14. EveryArrivalReported'
    BY <1>2, <1>7 DEF EveryArrivalReported
  <1>15. NothingReplayed'
    BY <1>1, <1>2, <1>6 DEF NothingReplayed
  <1>16. RuleEnforced'
    BY <1>1, <1>2, <1>12 DEF RuleEnforced
  <1> QED
    BY <1>8, <1>9, <1>10, <1>11, <1>13, <1>14, <1>15, <1>16 DEF MonitorsInv

LEMMA EventsAre ==
  ASSUME NEW xs, xs \subseteq Things,
         NEW word \in {"arrived", "changed", "stopped", "resisted", "left"}
  PROVE  /\ Events(xs, word) \subseteq Said
         /\ \A x \in xs : \E w \in Events(xs, word) : w.thing = x
         /\ \A w \in Events(xs, word) : w.thing \in xs /\ w.word = word
  <1>1. ASSUME NEW x \in xs
        PROVE  /\ Event(x, word) \in Events(xs, word) /\ Event(x, word) \in Said
               /\ Event(x, word).thing = x /\ Event(x, word).word = word
    BY DEF Events, Event, Said
  <1>2. \A w \in Events(xs, word) : \E x \in xs : w = Event(x, word)
    BY DEF Events
  <1> QED
    BY <1>1, <1>2

\* What was there before the first scan, in a directory it saw, is in none of the news of
\* the next.
LEMMA OldIsNoNews ==
  ASSUME MonitorsInv, baselined, ~ glitched, NEW snapshot
  PROVE  \A x \in News(snapshot) : x \notin old \ added
  BY DEF MonitorsInv, OldIsKnown, News, Seen

LEMMA KeepsFirst ==
  ASSUME MonitorsInv, NEW lost, Looked(lost), FirstScan(Snapshot(lost))
  PROVE  MonitorsInv'
  <1>1. /\ kind \in Silent /\ ~ baselined
        /\ known' = Snapshot(lost) /\ baselined' = TRUE /\ said' = {}
        /\ spared' = Seen(Snapshot(lost))
        /\ UNCHANGED <<kind, present, rule, old, added, owed, excused>>
    BY DEF FirstScan, Baseline, host
  <1>2. kind # "arp"
    BY <1>1 DEF Silent
  <1>3. /\ lost \subseteq There
        /\ shown' = Snapshot(lost)
        /\ fresh' = (lost = {}) /\ glitched' = (glitched \/ lost # {})
        /\ faults' \in 0..MaxFaults /\ UNCHANGED changes
    BY <1>2 DEF Looked
  <1>4. TypeOK /\ OwedIsNew /\ OldIsKnown
    BY DEF MonitorsInv
  <1>5. /\ Snapshot(lost) \in Views /\ Seen(Snapshot(lost)) = There \ lost
        /\ \A x \in There \ lost : Snapshot(lost)[x] = present[x]
    BY <1>3, <1>4, SnapshotIs
  <1>6. There' = There /\ There \subseteq Things
    BY <1>1 DEF There, Seen
  <1>7. owed' = {}
    BY <1>1, <1>4 DEF OwedIsNew
  <1>8. TypeOK'
    <2>1. {present', known', shown'} \subseteq [Things -> Looks \cup {"none"}]
      BY <1>1, <1>3, <1>4, <1>5 DEF Views, TypeOK
    <2>2. old' \cup added' \cup owed' \cup excused' \cup spared' \subseteq Things
      BY <1>1, <1>4, <1>5, <1>6 DEF TypeOK
    <2>3. fresh' \in BOOLEAN
      BY <1>3
    <2>4. glitched' \in BOOLEAN
      BY <1>3
    <2>5. {baselined', rule', fresh', glitched'} \subseteq BOOLEAN
      BY <2>3, <2>4, <1>1, <1>4 DEF TypeOK
    <2>6. changes' \in 0..MaxChanges /\ faults' \in 0..MaxFaults
      BY <1>3, <1>4 DEF TypeOK
    <2>7. Cardinality(said') =< MaxEvents
      BY <1>1, Bounds, FS_EmptySet
    <2>8. kind' \in Kinds /\ said' = {}
      BY <1>1, <1>4 DEF TypeOK
    <2> QED
      BY <2>1, <2>2, <2>5, <2>6, <2>7, <2>8 DEF TypeOK
  <1>9. KnownIsShown' /\ GatewayIsOne'
    BY <1>1, <1>2, <1>3 DEF KnownIsShown, GatewayIsOne
  <1>10. OwedIsNew'
    BY <1>1, <1>2, <1>7 DEF OwedIsNew
  <1>11. OldIsKnown'
    <2>1. ASSUME ~ glitched', NEW x \in old'
          PROVE  known'[x] # "none" /\ known'[x] = present'[x]
      <3>1. lost = {} /\ x \in There
        BY <2>1, <1>1, <1>3, <1>4 DEF OldIsKnown
      <3> QED
        BY <3>1, <1>1, <1>5 DEF There, Seen
    <2>2. Seen(known)' \subseteq There'
      BY <1>1, <1>5, <1>6
    <2> QED
      BY <2>1, <2>2, <1>1, <1>4, <1>6 DEF OldIsKnown
  <1>12. KnownIsSpared' /\ RuleEnforced'
    BY <1>1, <1>3, <1>5, <1>6 DEF KnownIsSpared, RuleEnforced, Ruled, Silent
  <1>13. EveryArrivalReported' /\ NothingReplayed'
    BY <1>1, <1>7 DEF EveryArrivalReported, NothingReplayed
  <1> QED
    BY <1>8, <1>9, <1>10, <1>11, <1>12, <1>13 DEF MonitorsInv

LEMMA KeepsProcesses ==
  ASSUME MonitorsInv, NEW lost, Looked(lost), Snapshot(lost) = present, ScanProcesses
  PROVE  MonitorsInv'
  <1>1. kind = "process" /\ baselined
    BY DEF ScanProcesses
  <1>2. PICK some \in Burst(News(present)) :
          Ends(present, Events(some, "arrived"), News(present) \ some, {}, {})
    BY DEF ScanProcesses
  <1>3. TypeOK /\ OwedIsNew
    BY DEF MonitorsInv
  <1>4. some \subseteq News(present) /\ News(present) \subseteq There /\ There \subseteq Things
    BY DEF Burst, News, There, Seen
  <1>5. Cardinality(Events(some, "arrived")) =< MaxEvents
    <2>1. Cardinality(Events(some, "arrived")) =< Cardinality(some)
      BY <1>4, EventsAreAsMany
    <2>2. Cardinality(some) = IF Cardinality(News(present)) < MaxEvents
                              THEN Cardinality(News(present)) ELSE MaxEvents
      BY DEF Burst
    <2>3. IsFiniteSet(Events(some, "arrived")) /\ Cardinality(Events(some, "arrived")) \in Nat
      BY <1>4, EventsAreFinite
    <2>4. Cardinality(News(present)) \in Nat
      BY <1>4, ThingsAreFinite
    <2> QED
      BY <2>1, <2>2, <2>3, <2>4, Bounds
  <1>6. \A x \in owed \ excused : x \in News(present)
    BY <1>1, <1>3 DEF OwedIsNew, LooksNew, News, There, Seen
  <1>7. /\ Events(some, "arrived") \subseteq Said
        /\ \A x \in some : \E w \in Events(some, "arrived") : w.thing = x
        /\ \A w \in Events(some, "arrived") : w.thing \in some
    BY <1>4, EventsAre
  <1>8. ~ glitched => \A e \in Events(some, "arrived") : e.thing \notin old \ added
    BY <1>1, <1>4, <1>7, OldIsNoNews
  <1>9. Ends(Snapshot(lost), Events(some, "arrived"), News(present) \ some, {}, {})
    BY <1>2
  <1> HIDE DEF Events
  <1> DEFINE missed == News(present) \ some
  <1>10. missed \cup {} \cup {} \subseteq There
    BY <1>4
  <1>11. \A x \in owed \ excused :
            x \in missed \cup {} \cup lost \/ \E w \in Events(some, "arrived") : w.thing = x
    BY <1>6, <1>7
  <1> QED
    BY <1>1, <1>5, <1>7, <1>8, <1>9, <1>10, <1>11, EndsKeeps DEF Ruled

\* The place of an alert is what it is due for: it is read, skipped, or in a place read before.
LEMMA KeepsLog ==
  ASSUME MonitorsInv, NEW lost, Looked(lost), Snapshot(lost) = present, NEW skipped, ScanLog(skipped)
  PROVE  MonitorsInv'
  <1> DEFINE alerts == First(Unread \ skipped)
             missed == Reread \cup (Unread \ alerts)
  <1>1. /\ kind = "alert" /\ baselined
        /\ Ends(present, Events(alerts, "arrived"), missed, {}, {})
    BY DEF ScanLog
  <1>2. TypeOK /\ OwedIsNew /\ OldIsKnown /\ known = shown
    BY DEF MonitorsInv, KnownIsShown
  <1>3. Unread \subseteq There /\ Reread \subseteq There /\ There \subseteq Things
    BY DEF Unread, Reread, News, There, Seen
  <1>4. alerts \subseteq Unread
    BY DEF First
  <1>5. There \subseteq Unread \cup Reread
    BY <1>2 DEF Unread, Reread, News, There
  <1>6. Cardinality(Events(alerts, "arrived")) =< MaxEvents
    <2>1. Cardinality(Events(alerts, "arrived")) =< Cardinality(alerts)
      BY <1>3, <1>4, EventsAreAsMany
    <2>2. Cardinality(alerts) =< MaxEvents
      BY <1>3, FirstIsBounded
    <2>3. Cardinality(Events(alerts, "arrived")) \in Nat /\ Cardinality(alerts) \in Nat
      BY <1>3, <1>4, ThingsAreFinite, EventsAreFinite
    <2> QED
      BY <2>1, <2>2, <2>3, Bounds
  <1>7. ~ glitched => \A x \in Unread : x \notin old \ added
    <2>1. CASE There # Seen(known) /\ There \subseteq Seen(known)
      BY <2>1, <1>1, <1>2 DEF OldIsKnown
    <2>2. CASE ~ (There # Seen(known) /\ There \subseteq Seen(known))
      BY <2>2, <1>1, OldIsNoNews DEF Unread
    <2> QED
      BY <2>1, <2>2
  <1> HIDE DEF alerts
  <1>8. /\ Events(alerts, "arrived") \subseteq Said
        /\ \A x \in alerts : \E w \in Events(alerts, "arrived") : w.thing = x
        /\ \A w \in Events(alerts, "arrived") : w.thing \in alerts
    BY <1>3, <1>4, EventsAre
  <1>9. ~ glitched => \A e \in Events(alerts, "arrived") : e.thing \notin old \ added
    BY <1>4, <1>7, <1>8
  <1>10. \A x \in owed \ excused :
            x \in missed \cup {} \cup lost \/ \E w \in Events(alerts, "arrived") : w.thing = x
    BY <1>2, <1>5, <1>8 DEF OwedIsNew
  <1>11. missed \cup {} \cup {} \subseteq There
    BY <1>3
  <1>12. Ends(Snapshot(lost), Events(alerts, "arrived"), missed, {}, {})
    BY <1>1
  <1> HIDE DEF missed
  <1> QED
    BY <1>1, <1>6, <1>8, <1>9, <1>10, <1>11, <1>12, EndsKeeps DEF Ruled

LEMMA KeepsRegistry ==
  ASSUME MonitorsInv, NEW lost, Looked(lost), ScanRegistry(Snapshot(lost))
  PROVE  MonitorsInv'
  <1> DEFINE snapshot == Snapshot(lost)
             others == {x \in Seen(snapshot) : known[x] \notin {"none", snapshot[x]}}
             words == Events(News(snapshot), "arrived") \cup Events(others, "changed")
  <1>1. kind = "registry" /\ baselined /\ Ends(snapshot, words, {}, {}, {})
    BY DEF ScanRegistry
  <1>2. TypeOK /\ OwedIsNew /\ OldIsKnown /\ lost \subseteq There
    BY DEF MonitorsInv, Looked
  <1>3. /\ Seen(snapshot) = There \ lost
        /\ \A x \in There \ lost : snapshot[x] = present[x]
        /\ There \subseteq Things
    BY <1>2, SnapshotIs DEF There, Seen
  <1>4. News(snapshot) \subseteq Things /\ others \subseteq Things
    BY <1>3 DEF News
  <1>5. /\ words \subseteq Said
        /\ \A x \in News(snapshot) \cup others : \E w \in words : w.thing = x
        /\ \A w \in words : w.thing \in News(snapshot) \cup others
    <2>1. /\ Events(News(snapshot), "arrived") \subseteq Said
          /\ \A x \in News(snapshot) : \E w \in Events(News(snapshot), "arrived") : w.thing = x
          /\ \A w \in Events(News(snapshot), "arrived") : w.thing \in News(snapshot)
      BY <1>4, EventsAre
    <2>2. /\ Events(others, "changed") \subseteq Said
          /\ \A x \in others : \E w \in Events(others, "changed") : w.thing = x
          /\ \A w \in Events(others, "changed") : w.thing \in others
      <3> HIDE DEF others
      <3> QED
        BY <1>4, EventsAre
    <2> HIDE DEF others, snapshot
    <2> QED
      BY <2>1, <2>2
  <1>6. \A x \in owed \ excused : x \in lost \/ x \in News(snapshot) \cup others
    <2> SUFFICES ASSUME NEW x \in owed \ excused, x \notin lost
                 PROVE  x \in News(snapshot) \cup others
      OBVIOUS
    <2>1. known[x] # present[x] /\ x \in There
      BY <1>1, <1>2 DEF OwedIsNew, LooksNew
    <2> QED
      BY <2>1, <1>3 DEF News, Seen
  <1>7. lost = {} /\ ~ glitched => \A x \in News(snapshot) \cup others : x \notin old \ added
    <2> SUFFICES ASSUME lost = {}, ~ glitched, NEW x \in old \ added
                 PROVE  x \notin News(snapshot) /\ x \notin others
      OBVIOUS
    <2>1. known[x] = present[x] /\ x \in There
      BY <1>1, <1>2 DEF OldIsKnown
    <2> QED
      BY <2>1, <1>1, <1>3, OldIsNoNews
  <1> HIDE DEF words, others, snapshot
  <1>8. \A x \in owed \ excused :
            x \in {} \cup {} \cup lost \/ \E w \in words : w.thing = x
    BY <1>5, <1>6
  <1>9. lost = {} /\ ~ glitched => \A e \in words : e.word = "left" \/ e.thing \notin old \ added
    BY <1>5, <1>7
  <1>10. Ends(Snapshot(lost), words, {}, {}, {})
    BY <1>1 DEF snapshot
  <1> QED
    BY <1>1, <1>5, <1>8, <1>9, <1>10, EndsKeeps DEF Ruled

LEMMA KeepsUsb ==
  ASSUME MonitorsInv, NEW lost, Looked(lost), NEW resisting, ScanUsb(Snapshot(lost), resisting)
  PROVE  MonitorsInv'
  <1> DEFINE new == News(Snapshot(lost))
             blocked == {x \in new \ resisting : rule}
             gone == {x \in blocked : Snapshot(lost)[x] = "bad"}
             left == Seen(known) \ Seen(Snapshot(lost))
             words == Events(new, "arrived") \cup Events(blocked, "stopped")
                        \cup Events(resisting, "resisted") \cup Events(left, "left")
  <1>1. Ends(Snapshot(lost), words, {}, resisting, gone)
    BY DEF ScanUsb
  <1>2. kind = "usb" /\ baselined /\ resisting \subseteq new
    BY DEF ScanUsb
  <1>3. TypeOK /\ OwedIsNew /\ KnownIsSpared /\ lost \subseteq There
    BY DEF MonitorsInv, Looked
  <1>4. /\ new = There \ (lost \cup Seen(known))
        /\ \A x \in There \ lost : Snapshot(lost)[x] = present[x]
        /\ There \subseteq Things
    BY <1>3, SnapshotIs DEF News, There, Seen
  <1>5. left \subseteq Things
    BY DEF Seen
  <1>6. gone \subseteq new /\ blocked \subseteq new
    OBVIOUS
  <1>7. ~ glitched => \A x \in new : x \notin old \ added
    BY <1>2, OldIsNoNews
  <1>8. \A x \in owed \ excused : x \in lost \/ x \in new
    <2>1. \A x \in owed \ excused : x \notin Seen(known) /\ x \in There
      BY <1>2, <1>3 DEF OwedIsNew, LooksNew, Seen
    <2> QED
      BY <2>1, <1>4
  <1>9. rule => \A x \in There : present[x] = "bad" => x \in lost \cup spared \cup resisting \cup gone
    BY <1>2, <1>3, <1>4 DEF KnownIsSpared
  <1>10. new \subseteq Things /\ blocked \subseteq Things /\ resisting \subseteq Things
    BY <1>2, <1>4, <1>6
  <1> HIDE DEF new, blocked, gone, left
  <1>11. /\ Events(new, "arrived") \subseteq Said
         /\ \A x \in new : \E w \in Events(new, "arrived") : w.thing = x
         /\ \A w \in Events(new, "arrived") : w.thing \in new
    BY <1>10, EventsAre
  <1>12. /\ Events(blocked, "stopped") \subseteq Said
         /\ \A w \in Events(blocked, "stopped") : w.thing \in new
    BY <1>6, <1>10, EventsAre
  <1>13. /\ Events(resisting, "resisted") \subseteq Said
         /\ \A w \in Events(resisting, "resisted") : w.thing \in new
    BY <1>2, <1>10, EventsAre
  <1>14. /\ Events(left, "left") \subseteq Said
         /\ \A w \in Events(left, "left") : w.word = "left"
    BY <1>5, EventsAre
  <1>15. /\ words \subseteq Said
         /\ \A x \in new : \E w \in words : w.thing = x
         /\ \A w \in words : w.word = "left" \/ w.thing \in new
    BY <1>11, <1>12, <1>13, <1>14
  <1> HIDE DEF words
  <1>16. {} \cup resisting \cup gone \subseteq There
    BY <1>2, <1>4, <1>6
  <1>17. \A x \in owed \ excused :
            x \in {} \cup gone \cup lost \/ \E w \in words : w.thing = x
    BY <1>8, <1>15
  <1>18. lost = {} /\ ~ glitched => \A e \in words : e.word = "left" \/ e.thing \notin old \ added
    BY <1>7, <1>15
  <1>19. Ruled(kind) /\ rule =>
            \A x \in There \ (gone \cup lost) :
               present[x] = "bad" => x \in spared \cup {} \cup resisting
    BY <1>9
  <1> QED
    BY <1>1, <1>2, <1>15, <1>16, <1>17, <1>18, <1>19, EndsKeeps

LEMMA KeepsFiles ==
  ASSUME MonitorsInv, NEW lost, Looked(lost), NEW skipped, NEW resisting,
         ScanFiles(Snapshot(lost), skipped, resisting)
  PROVE  MonitorsInv'
  <1> DEFINE new == News(Snapshot(lost))
             matches == {x \in new \ skipped : Snapshot(lost)[x] = "bad"}
             gone == matches \ resisting
             words == Events(gone, "stopped") \cup Events(resisting, "resisted")
  <1>1. /\ kind = "yara" /\ baselined
        /\ skipped \subseteq new /\ resisting \subseteq matches
        /\ Ends(Snapshot(lost), words, skipped, resisting, gone)
    BY DEF ScanFiles
  <1>2. TypeOK /\ OwedIsNew /\ lost \subseteq There
    BY DEF MonitorsInv, Looked
  <1>3. /\ new = There \ (lost \cup Seen(known))
        /\ \A x \in There \ lost : Snapshot(lost)[x] = present[x]
        /\ There \subseteq Things
    BY <1>2, SnapshotIs DEF News, There, Seen
  <1>4. matches \subseteq new /\ gone \cup resisting = matches
    BY <1>1
  <1>5. ~ glitched => \A x \in new : x \notin old \ added
    BY <1>1, OldIsNoNews
  <1>6. \A x \in owed \ excused : x \in lost \cup skipped \cup matches
    <2> SUFFICES ASSUME NEW x \in owed \ excused, x \notin lost, x \notin skipped
                 PROVE  x \in matches
      OBVIOUS
    <2>1. x \notin Seen(known) /\ present[x] = "bad" /\ x \in There
      BY <1>1, <1>2 DEF OwedIsNew, LooksNew, Seen
    <2> QED
      BY <2>1, <1>3
  <1>7. gone \subseteq Things /\ resisting \subseteq Things
    BY <1>1, <1>3
  <1>8. skipped \cup resisting \cup gone \subseteq There
    BY <1>1, <1>3
  <1> HIDE DEF new, gone, matches
  <1>9. /\ Events(gone, "stopped") \subseteq Said
        /\ \A x \in gone : \E w \in Events(gone, "stopped") : w.thing = x
        /\ \A w \in Events(gone, "stopped") : w.thing \in gone
    BY <1>7, EventsAre
  <1>10. /\ Events(resisting, "resisted") \subseteq Said
         /\ \A x \in resisting : \E w \in Events(resisting, "resisted") : w.thing = x
         /\ \A w \in Events(resisting, "resisted") : w.thing \in resisting
    BY <1>7, EventsAre
  <1>11. /\ words \subseteq Said
         /\ \A x \in matches : \E w \in words : w.thing = x
         /\ \A w \in words : w.thing \in new
    BY <1>4, <1>9, <1>10
  <1> HIDE DEF words
  <1>12. \A x \in owed \ excused :
            x \in skipped \cup gone \cup lost \/ \E w \in words : w.thing = x
    BY <1>6, <1>11
  <1>13. lost = {} /\ ~ glitched => \A e \in words : e.word = "left" \/ e.thing \notin old \ added
    BY <1>5, <1>11
  <1> QED
    BY <1>1, <1>8, <1>11, <1>12, <1>13, EndsKeeps DEF Ruled

LEMMA KeepsListeners ==
  ASSUME MonitorsInv, NEW lost, Looked(lost), Snapshot(lost) = present,
         NEW skipped, NEW resisting, ScanListeners(skipped, resisting)
  PROVE  MonitorsInv'
  <1> DEFINE new == News(present)
             inspected == new \ skipped
             bad == {x \in inspected : rule /\ present[x] = "bad"}
             gone == bad \ resisting
             words == Events(gone, "stopped") \cup Events(resisting, "resisted")
                        \cup Events(inspected \ bad, "arrived")
  <1>1. /\ kind = "listener"
        /\ skipped \subseteq new /\ resisting \subseteq bad
        /\ Ends(present, words, skipped, resisting, gone)
    BY DEF ScanListeners
  <1>2. TypeOK /\ OwedIsNew /\ OldIsKnown /\ KnownIsSpared
    BY DEF MonitorsInv
  <1>3. new = There \ Seen(known) /\ There \subseteq Things
    BY DEF News, There, Seen
  <1>4. old = {}
    BY <1>1, <1>2 DEF OldIsKnown, Silent
  <1>5. \A x \in owed \ excused : x \in new
    <2>1. \A x \in owed \ excused : x \notin Seen(known) /\ x \in There
      BY <1>1, <1>2 DEF OwedIsNew, LooksNew, Seen
    <2> QED
      BY <2>1, <1>3
  <1>6. rule => \A x \in There : present[x] = "bad" => x \in spared \cup skipped \cup gone \cup resisting
    BY <1>1, <1>2, <1>3 DEF KnownIsSpared
  <1>7. gone \subseteq Things /\ resisting \subseteq Things /\ inspected \ bad \subseteq Things
    BY <1>1, <1>3
  <1>8. skipped \cup resisting \cup gone \subseteq There
    BY <1>1, <1>3
  <1>9. new \subseteq skipped \cup gone \cup resisting \cup (inspected \ bad)
    OBVIOUS
  <1> DEFINE plain == inspected \ bad
  <1> HIDE DEF new, inspected, bad, gone, plain
  <1>10. /\ Events(gone, "stopped") \subseteq Said
         /\ \A x \in gone : \E w \in Events(gone, "stopped") : w.thing = x
    BY <1>7, EventsAre
  <1>11. /\ Events(resisting, "resisted") \subseteq Said
         /\ \A x \in resisting : \E w \in Events(resisting, "resisted") : w.thing = x
    BY <1>7, EventsAre
  <1>12. /\ Events(plain, "arrived") \subseteq Said
         /\ \A x \in plain : \E w \in Events(plain, "arrived") : w.thing = x
    BY <1>7, EventsAre DEF plain
  <1>13. words = Events(gone, "stopped") \cup Events(resisting, "resisted") \cup Events(plain, "arrived")
    BY DEF plain
  <1>14. /\ words \subseteq Said
         /\ \A x \in gone \cup resisting \cup plain : \E w \in words : w.thing = x
    <2> HIDE DEF words
    <2> QED
      BY <1>10, <1>11, <1>12, <1>13
  <1>15. new \subseteq skipped \cup gone \cup resisting \cup plain
    BY <1>9 DEF plain
  <1> HIDE DEF words
  <1>16. \A x \in owed \ excused :
            x \in skipped \cup gone \cup lost \/ \E w \in words : w.thing = x
    BY <1>5, <1>14, <1>15
  <1>17. lost = {} /\ ~ glitched => \A e \in words : e.word = "left" \/ e.thing \notin old \ added
    BY <1>4
  <1>18. Ruled(kind) /\ rule =>
            \A x \in There \ (gone \cup lost) :
               present[x] = "bad" => x \in spared \cup skipped \cup resisting
    BY <1>1, <1>6
  <1>19. Ends(Snapshot(lost), words, skipped, resisting, gone)
    BY <1>1
  <1> QED
    BY <1>1, <1>8, <1>14, <1>16, <1>17, <1>18, <1>19, EndsKeeps

LEMMA KeepsNames ==
  ASSUME MonitorsInv, NEW lost, Looked(lost), Snapshot(lost) = present,
         NEW resisting, ScanNames(resisting)
  PROVE  MonitorsInv'
  <1> DEFINE bad == {x \in There : rule /\ present[x] = "bad"}
             gone == bad \ resisting
             words == Events(gone, "stopped") \cup Events(resisting, "resisted")
  <1>1. /\ kind = "name"
        /\ resisting \subseteq bad
        /\ Ends(present, words, {}, resisting, gone)
    BY DEF ScanNames, Named
  <1>2. TypeOK /\ OwedIsNew /\ OldIsKnown
    BY DEF MonitorsInv
  <1>3. There \subseteq Things
    BY DEF There, Seen
  <1>4. old = {} /\ owed = {}
    BY <1>1, <1>2 DEF OldIsKnown, OwedIsNew, Silent
  <1>5. gone \subseteq Things /\ resisting \subseteq Things /\ {} \cup resisting \cup gone \subseteq There
    BY <1>1, <1>3
  <1>6. Ruled(kind) /\ rule =>
            \A x \in There \ (gone \cup lost) :
               present[x] = "bad" => x \in spared \cup {} \cup resisting
    BY <1>1
  <1> HIDE DEF bad, gone
  <1>7. words \subseteq Said
    BY <1>5, EventsAre
  <1> HIDE DEF words
  <1>8. lost = {} /\ ~ glitched => \A e \in words : e.word = "left" \/ e.thing \notin old \ added
    BY <1>4
  <1>9. \A x \in owed \ excused : x \in {} \cup gone \cup lost \/ \E w \in words : w.thing = x
    BY <1>4
  <1>10. Ends(Snapshot(lost), words, {}, resisting, gone)
    BY <1>1
  <1> QED
    BY <1>1, <1>5, <1>6, <1>7, <1>8, <1>9, <1>10, EndsKeeps

\* A gateway that is pinned is never forgotten, one that is not is pinned.
LEMMA KeepsGateway ==
  ASSUME MonitorsInv, NEW lost, Looked(lost), Snapshot(lost) = present, ScanGateway
  PROVE  MonitorsInv'
  <1> DEFINE gw == CHOOSE x \in There : TRUE
             words == Events(IF known[gw] # present[gw] THEN {gw} ELSE {}, "changed")
  <1>1. /\ kind = "arp" /\ There # {}
        /\ IF known[gw] = "none"
           THEN Ends(present, {}, {}, {}, {})
           ELSE Ends(known, words, {}, {}, {})
    BY DEF ScanGateway
  <1>2. TypeOK /\ GatewayIsOne /\ OwedIsNew /\ OldIsKnown /\ known = shown
    BY DEF MonitorsInv, KnownIsShown
  <1>3. There = {gw} /\ gw \in Things
    BY <1>1, <1>2 DEF GatewayIsOne, There, Seen
  <1> HIDE DEF gw
  <1>4. /\ lost = {}
        /\ shown' = IF There \cap Seen(shown) # {} THEN shown ELSE present
        /\ fresh' \in BOOLEAN /\ glitched' \in BOOLEAN
        /\ faults' \in 0..MaxFaults /\ UNCHANGED changes
    <2>1. fresh' = (lost = {}) /\ glitched' = (glitched \/ lost # {})
      BY DEF Looked
    <2>2. fresh' \in BOOLEAN
      BY <2>1
    <2>3. glitched' \in BOOLEAN
      BY <2>1
    <2> QED
      BY <2>2, <2>3, <1>1 DEF Looked
  <1>5. PICK told : /\ told \subseteq Said
                    /\ known' = shown' /\ baselined' = TRUE
                    /\ known' \in {known, present}
                    /\ Ends(known', told, {}, {}, {})
                    /\ \A x \in owed : \E w \in told : w.thing = x
    <2>1. CASE known[gw] = "none"
      <3>1. owed = {}
        BY <2>1, <1>1, <1>2, <1>3 DEF OwedIsNew
      <3>2. Ends(present, {}, {}, {}, {}) /\ known' = present /\ baselined' = TRUE
        BY <2>1, <1>1 DEF Ends, Remembered
      <3>3. shown' = present
        BY <2>1, <1>2, <1>3, <1>4 DEF Seen
      <3> QED
        BY <3>1, <3>2, <3>3
    <2>2. CASE known[gw] # "none"
      <3>1. Ends(known, words, {}, {}, {}) /\ known' = known /\ baselined' = TRUE
        BY <2>2, <1>1 DEF Ends, Remembered
      <3>2. shown' = known
        BY <2>2, <1>2, <1>3, <1>4 DEF Seen
      <3> DEFINE changed == IF known[gw] # present[gw] THEN {gw} ELSE {}
      <3>3. changed \subseteq Things /\ owed \subseteq changed
        BY <1>1, <1>2, <1>3 DEF OwedIsNew
      <3> HIDE DEF changed
      <3>4. /\ Events(changed, "changed") \subseteq Said
            /\ \A x \in changed : \E w \in Events(changed, "changed") : w.thing = x
        BY <3>3, EventsAre
      <3>5. words = Events(changed, "changed")
        BY DEF changed
      <3> QED
        BY <3>1, <3>2, <3>3, <3>4, <3>5
    <2> QED
      BY <2>1, <2>2
  <1>6. /\ said' = told
        /\ present' = [x \in Things |-> present[x]]
        /\ old' = old /\ added' = added /\ owed' = {} /\ excused' = excused /\ spared' = spared
        /\ UNCHANGED <<kind, rule>>
    BY <1>5 DEF Ends
  <1>7. present' = present
    BY <1>2, <1>6 DEF TypeOK
  <1>8. TypeOK'
    <2>1. {present', known', shown'} \subseteq [Things -> Looks \cup {"none"}]
      BY <1>2, <1>5, <1>7 DEF TypeOK
    <2>2. old' \cup added' \cup owed' \cup excused' \cup spared' \subseteq Things
      BY <1>2, <1>6 DEF TypeOK
    <2>3. {baselined', rule', fresh', glitched'} \subseteq BOOLEAN
      BY <1>2, <1>4, <1>5, <1>6 DEF TypeOK
    <2>4. changes' \in 0..MaxChanges /\ faults' \in 0..MaxFaults
      BY <1>2, <1>4 DEF TypeOK
    <2>5. kind' \in Kinds /\ kind' \notin {"process", "alert"} /\ said' \subseteq Said
      BY <1>1, <1>2, <1>5, <1>6 DEF TypeOK
    <2> QED
      BY <2>1, <2>2, <2>3, <2>4, <2>5 DEF TypeOK, Said
  <1>9. There' = There /\ old' = {}
    BY <1>1, <1>2, <1>6, <1>7 DEF There, OldIsKnown, Silent
  <1>10. KnownIsShown' /\ GatewayIsOne'
    BY <1>2, <1>5, <1>6, <1>9 DEF KnownIsShown, GatewayIsOne
  <1>11. OwedIsNew' /\ OldIsKnown'
    BY <1>1, <1>2, <1>6, <1>9 DEF OwedIsNew, OldIsKnown
  <1>12. KnownIsSpared' /\ RuleEnforced'
    BY <1>1, <1>6 DEF KnownIsSpared, RuleEnforced, Ruled
  <1>13. EveryArrivalReported' /\ NothingReplayed'
    BY <1>6, <1>9 DEF EveryArrivalReported, NothingReplayed
  <1> QED
    BY <1>8, <1>10, <1>11, <1>12, <1>13 DEF MonitorsInv

LEMMA KeepsLook == MonitorsInv /\ Look => MonitorsInv'
  <1> SUFFICES ASSUME MonitorsInv, Look PROVE MonitorsInv'
    OBVIOUS
  <1>1. PICK lost \in SUBSET There, skipped \in SUBSET There, resisting \in SUBSET There :
          /\ lost # {} => kind \in {"registry", "usb", "yara"}
          /\ faults' = faults + Cardinality(lost) + Cardinality(skipped) + Cardinality(resisting)
          /\ faults' =< MaxFaults
          /\ Scan(Snapshot(lost), skipped, resisting)
          /\ shown' = IF kind = "arp" /\ There \cap Seen(shown) # {} THEN shown ELSE Snapshot(lost)
          /\ fresh' = (lost = {}) /\ glitched' = (glitched \/ lost # {})
          /\ UNCHANGED changes
    BY DEF Look
  <1>2. faults' \in 0..MaxFaults
    <2>1. There \subseteq Things
      BY DEF There, Seen
    <2>2. /\ Cardinality(lost) \in Nat /\ Cardinality(skipped) \in Nat
          /\ Cardinality(resisting) \in Nat
      BY <2>1, ThingsAreFinite
    <2>3. faults \in Nat
      BY Bounds DEF MonitorsInv, TypeOK
    <2> QED
      BY <1>1, <2>2, <2>3, Bounds
  <1>3. Looked(lost)
    BY <1>1, <1>2 DEF Looked
  <1>4. CASE FirstScan(Snapshot(lost))
    BY <1>3, <1>4, KeepsFirst
  <1>5. CASE ScanProcesses /\ Snapshot(lost) = present
    BY <1>3, <1>5, KeepsProcesses
  <1>6. CASE ScanLog(skipped) /\ Snapshot(lost) = present
    BY <1>3, <1>6, KeepsLog
  <1>7. CASE ScanRegistry(Snapshot(lost))
    BY <1>3, <1>7, KeepsRegistry
  <1>8. CASE ScanUsb(Snapshot(lost), resisting)
    BY <1>3, <1>8, KeepsUsb
  <1>9. CASE ScanFiles(Snapshot(lost), skipped, resisting)
    BY <1>3, <1>9, KeepsFiles
  <1>10. CASE ScanListeners(skipped, resisting) /\ Snapshot(lost) = present
    BY <1>3, <1>10, KeepsListeners
  <1>11. CASE ScanNames(resisting) /\ Snapshot(lost) = present
    BY <1>3, <1>11, KeepsNames
  <1>12. CASE ScanGateway /\ Snapshot(lost) = present
    BY <1>3, <1>12, KeepsGateway
  <1> QED
    BY <1>1, <1>4, <1>5, <1>6, <1>7, <1>8, <1>9, <1>10, <1>11, <1>12 DEF Scan

-------------------------------------------------------------------------------

LEMMA NextMonitors == MonitorsInv /\ [Next]_vars => MonitorsInv'
  <1> SUFFICES ASSUME MonitorsInv, [Next]_vars PROVE MonitorsInv'
    OBVIOUS
  <1>1. CASE UNCHANGED vars
    <2>1. /\ UNCHANGED <<kind, present, known, baselined, rule, said, changes, faults>>
          /\ UNCHANGED <<shown, old, added, owed, excused, spared, fresh, glitched>>
      BY <1>1 DEF vars, host, agent, bounds, history
    <2>2. There' = There /\ Seen(known)' = Seen(known)
      BY <2>1 DEF There, Seen
    <2>3. (\A x : LooksNew(x)' <=> LooksNew(x))
      BY <2>1 DEF LooksNew
    <2>4. TypeOK' /\ KnownIsShown' /\ GatewayIsOne'
      BY <2>1, <2>2 DEF MonitorsInv, TypeOK, KnownIsShown, GatewayIsOne
    <2>5. OwedIsNew' /\ OldIsKnown' /\ KnownIsSpared'
      BY <2>1, <2>2, <2>3 DEF MonitorsInv, OwedIsNew, OldIsKnown, KnownIsSpared
    <2>6. EveryArrivalReported' /\ NothingReplayed' /\ RuleEnforced'
      BY <2>1, <2>2 DEF MonitorsInv, EveryArrivalReported, NothingReplayed, RuleEnforced
    <2> QED
      BY <2>4, <2>5, <2>6 DEF MonitorsInv
  <1>2. ASSUME NEW xs, Leave(xs) PROVE MonitorsInv'
    BY <1>2, KeepsLeave
  <1>3. ASSUME NEW x \in Things, Differ(x) PROVE MonitorsInv'
    BY <1>3, KeepsDiffer
  <1>4. ASSUME NEW x \in Things, NEW look \in Looks, Arrive(x, look) PROVE MonitorsInv'
    BY <1>4, KeepsArrive
  <1>5. CASE RuleOn
    BY <1>5, KeepsRuleOn
  <1>6. CASE RuleOff
    BY <1>6, KeepsRuleOff
  <1>7. CASE Restart
    BY <1>7, KeepsRestart
  <1>8. CASE Look
    BY <1>8, KeepsLook
  <1>9. ASSUME NEW xs \in SUBSET Things, PolicyDirs(xs) PROVE MonitorsInv'
    BY <1>9, KeepsPolicyDirs
  <1> QED
    BY <1>1, <1>2, <1>3, <1>4, <1>5, <1>6, <1>7, <1>8, <1>9 DEF Next

\* What a monitor knows is what it was last shown; what is due looks new to it, what was
\* there before its first scan looks known, and what it will not look at again is spared.
THEOREM MonitorsAreInductive == Spec => []MonitorsInv
  BY InitMonitors, NextMonitors, PTL DEF Spec

\* Every arrival and every change is reported by the scan that follows it, in every order
\* of arrivals, departures, rules, restarts and failing readings, but for the excused.
THEOREM MonitorsReportArrivals == Spec => []EveryArrivalReported
  <1>1. MonitorsInv => EveryArrivalReported
    BY DEF MonitorsInv
  <1> QED
    BY <1>1, MonitorsAreInductive, PTL

\* Where the first scan is silent, nothing that was there before it is ever reported as
\* new, unless a reading failed or a policy has added its directory since.
THEOREM MonitorsReplayNothing == Spec => []NothingReplayed
  <1>1. MonitorsInv => NothingReplayed
    BY DEF MonitorsInv
  <1> QED
    BY <1>1, MonitorsAreInductive, PTL

\* After a scan no process, listener or device that blocking ends or takes off the bus is
\* left but what resisted, was seen before the rule came, or could not be inspected.
THEOREM MonitorsEnforceRule == Spec => []RuleEnforced
  <1>1. MonitorsInv => RuleEnforced
    BY DEF MonitorsInv
  <1> QED
    BY <1>1, MonitorsAreInductive, PTL

===============================================================================
