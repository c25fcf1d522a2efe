--------------------------- MODULE HomeEngineProofs ---------------------------
(***************************************************************************)
(* Proofs about HomeEngine for every value of its constants: any domains,  *)
(* any number of threads, edits, toggles and faults.                       *)
(***************************************************************************)
EXTENDS HomeEngine, TLAPS

-------------------------------------------------------------------------------

LEMMA Bounds == MaxEdits \in Nat /\ MaxToggles \in Nat /\ MaxFaults \in Nat
  BY HomeAssumption

LEMMA InitHome == Init => HomeInv
  <1> SUFFICES ASSUME Init PROVE HomeInv
    OBVIOUS
  <1>1. NoThread \in Thread
    BY DEF NoThread, Thread
  <1>2. \A t \in Threads : at[t] = NoThread /\ Stage(t) = "none"
    BY DEF Init, Stage, NoThread
  <1>3. TypeOK
    <2>1. at \in [Threads -> Thread]
      BY <1>1 DEF Init
    <2>2. hosts \in HostsFile
      BY DEF Init, HostsFile
    <2>3. /\ edits \in 0..MaxEdits /\ toggles \in 0..MaxToggles /\ faults \in 0..MaxFaults
      BY Bounds DEF Init
    <2>4. list \subseteq Hosts /\ active \subseteq Hosts /\ ruled \subseteq Hosts /\ stray \subseteq Hosts
      BY DEF Init
    <2>5. on \in BOOLEAN /\ cut \in BOOLEAN
      BY DEF Init
    <2> QED
      BY <2>1, <2>2, <2>3, <2>4, <2>5 DEF TypeOK
  <1>4. InHand /\ FreeAreIdle /\ SyncsAgree /\ SyncsDrop /\ OwnLinesRead
    BY <1>2 DEF InHand, FreeAreIdle, SyncsAgree, SyncsDrop, OwnLinesRead, Syncing, Stages, NoThread
  <1>5. RulesAccounted /\ OwnLinesSurvive
    BY DEF Init, RulesAccounted, OwnLinesSurvive
  <1> QED
    BY <1>3, <1>4, <1>5 DEF HomeInv

\* One thread moves on to new, the others stay.
Moves(t, new) ==
    /\ new \in Thread
    /\ at' = [at EXCEPT ![t] = new]

LEMMA OneMoves ==
  ASSUME TypeOK, NEW t \in Threads, NEW new, Moves(t, new)
  PROVE  /\ at' \in [Threads -> Thread]
         /\ at'[t] = new
         /\ \A u \in Threads : u # t => at'[u] = at[u]
  BY DEF TypeOK, Moves

\* A step of one thread that leaves the list, the rules and the hosts file alone, and which
\* has no more in hand and on its list than before, or is none of the sync's.
LEMMA MovesKeep ==
  ASSUME HomeInv, NEW t \in Threads, NEW new, Moves(t, new),
         UNCHANGED <<list, on, active, ruled, hosts, edits, toggles, faults, stray>>,
         cut' \in BOOLEAN, cut => cut',
         new.stage \in {"block", "rule"} => new.todo \cup new.now \subseteq new.domains,
         new.stage # "rule" => new.now = {},
         new.mode = "none" => new.stage = "none",
         Stage(t) \in {"block", "rule"} =>
            new.stage \in {"block", "rule"} /\ new.domains = at[t].domains,
         new.stage \in Stages \ {"start"} =>
            /\ Syncing(t) /\ new.domains = at[t].domains
            /\ new.stage = "drop" => Stage(t) = "drop" /\ at[t].todo \subseteq new.todo
            /\ Stage(t) = "drop" /\ new.stage # "drop" => at[t].todo = {},
         new.stage \in {"truncate", "write"} => new.own \/ cut'
  PROVE  HomeInv'
  <1>1. /\ at' \in [Threads -> Thread] /\ at'[t] = new
        /\ \A u \in Threads : u # t => at'[u] = at[u]
    BY OneMoves DEF HomeInv
  <1>2. TypeOK'
    BY <1>1 DEF HomeInv, TypeOK
  <1>3. InHand' /\ FreeAreIdle'
    BY <1>1 DEF HomeInv, InHand, FreeAreIdle, Stage
  <1>4. \A u \in Threads : Syncing(u)' => Syncing(u) /\ at'[u].domains = at[u].domains
    BY <1>1 DEF Syncing, Stage
  <1>5. SyncsAgree'
    BY <1>4 DEF HomeInv, SyncsAgree
  <1>6. RulesAccounted'
    BY <1>1 DEF HomeInv, RulesAccounted, Stage
  <1>7. ASSUME NEW u \in Threads, Syncing(u)'
        PROVE  ruled' \subseteq at'[u].domains \cup stray'
                         \cup (IF Stage(u)' = "drop" THEN at'[u].todo ELSE {})
    <2>1. ruled \subseteq at[u].domains \cup stray
                            \cup (IF Stage(u) = "drop" THEN at[u].todo ELSE {})
      BY <1>4, <1>7 DEF HomeInv, SyncsDrop
    <2>2. CASE u # t
      BY <1>1, <2>1, <2>2 DEF Stage
    <2>3. CASE u = t
      <3>1. new.stage \in Stages \ {"start"}
        BY <1>1, <1>7, <2>3 DEF Syncing, Stage
      <3> QED
        BY <1>1, <2>1, <2>3, <3>1 DEF Stage
    <2> QED
      BY <2>2, <2>3
  <1>8. SyncsDrop'
    BY <1>7 DEF SyncsDrop
  <1>9. OwnLinesRead'
    BY <1>1 DEF HomeInv, OwnLinesRead, Stage, TypeOK
  <1>10. OwnLinesSurvive'
    BY DEF HomeInv, OwnLinesSurvive
  <1> QED
    BY <1>2, <1>3, <1>5, <1>6, <1>8, <1>9, <1>10 DEF HomeInv

-------------------------------------------------------------------------------
(* The window.                                                             *)

LEMMA StartingIsThread ==
  ASSUME NEW m \in {"once", "loop"}
  PROVE  /\ Starting(m) \in Thread /\ NoThread \in Thread
         /\ Starting(m).mode = m
         /\ Starting(m).stage = "start" /\ Starting(m).now = {}
         /\ NoThread.stage = "none" /\ NoThread.now = {}
  BY DEF Starting, NoThread, Thread, Stages

\* Threads are started, or all of them end; the rules and what is remembered of them stay.
LEMMA WindowKeeps ==
  ASSUME HomeInv, UNCHANGED <<active, ruled, hosts, stray, cut>>,
         list' \subseteq Hosts, on' \in BOOLEAN,
         edits' \in 0..MaxEdits, toggles' \in 0..MaxToggles, faults' = faults,
         at' \in [Threads -> Thread],
         \A u \in Threads :
            \/ at'[u] = at[u]
            \/ at[u].mode = "none" /\ at'[u] \in {Starting("once"), Starting("loop")}
  PROVE  HomeInv'
  <1>1. TypeOK'
    BY DEF HomeInv, TypeOK
  <1>2. ASSUME NEW u \in Threads
        PROVE  \/ at'[u] = at[u] /\ Stage(u)' = Stage(u)
               \/ /\ ~ Syncing(u) /\ Stage(u) = "none"
                  /\ Stage(u)' = "start" /\ at'[u].now = {} /\ at'[u].mode # "none"
    <2>1. CASE at[u].mode = "none" /\ at'[u] \in {Starting("once"), Starting("loop")}
      <3>1. Stage(u) = "none" /\ ~ Syncing(u)
        BY <2>1 DEF HomeInv, FreeAreIdle, Syncing, Stages
      <3> QED
        BY <2>1, <3>1, StartingIsThread DEF Stage
    <2> QED
      BY <2>1 DEF Stage
  <1>3. InHand' /\ FreeAreIdle' /\ OwnLinesRead'
    BY <1>2 DEF HomeInv, InHand, FreeAreIdle, OwnLinesRead
  <1>4. \A u \in Threads : Syncing(u)' => Syncing(u) /\ at'[u] = at[u] /\ Stage(u)' = Stage(u)
    BY <1>2 DEF Syncing
  <1>5. SyncsAgree' /\ SyncsDrop'
    BY <1>4 DEF HomeInv, SyncsAgree, SyncsDrop
  <1>6. RulesAccounted'
    BY <1>2 DEF HomeInv, RulesAccounted, Syncing, Stages
  <1>7. OwnLinesSurvive'
    BY DEF HomeInv, OwnLinesSurvive
  <1> QED
    BY <1>1, <1>3, <1>5, <1>6, <1>7 DEF HomeInv

LEMMA KeepsTurnOn ==
  ASSUME HomeInv, TurnOn
  PROVE  HomeInv'
  <1>1. PICK t \in Free, u \in Free :
           t # u /\ at' = [at EXCEPT ![t] = Starting("loop"), ![u] = Starting("once")]
    BY DEF TurnOn
  <1>2. /\ t \in Threads /\ at[t].mode = "none"
        /\ u \in Threads /\ at[u].mode = "none" /\ at \in [Threads -> Thread]
    BY DEF Free, HomeInv, TypeOK
  <1>3. /\ at' \in [Threads -> Thread]
        /\ at'[t] = Starting("loop") /\ at'[u] = Starting("once")
        /\ \A v \in Threads : v # t /\ v # u => at'[v] = at[v]
    BY <1>1, <1>2, StartingIsThread
  <1>4. /\ UNCHANGED <<list, active, ruled, hosts, edits, faults, stray, cut>>
        /\ on' = TRUE /\ toggles' = toggles + 1 /\ toggles < MaxToggles
    BY DEF TurnOn, host
  <1>5. list' \subseteq Hosts /\ toggles' \in 0..MaxToggles /\ edits' \in 0..MaxEdits
    BY <1>4, Bounds DEF HomeInv, TypeOK
  <1> QED
    BY <1>2, <1>3, <1>4, <1>5, WindowKeeps

LEMMA KeepsTurnOff ==
  ASSUME HomeInv, TurnOff
  PROVE  HomeInv'
  <1>1. /\ UNCHANGED <<list, active, at, ruled, hosts, edits, faults, stray, cut>>
        /\ on' = FALSE /\ toggles' = toggles + 1 /\ toggles < MaxToggles
    BY DEF TurnOff, host
  <1>2. /\ list' \subseteq Hosts /\ toggles' \in 0..MaxToggles /\ edits' \in 0..MaxEdits
        /\ at' \in [Threads -> Thread]
    BY <1>1, Bounds DEF HomeInv, TypeOK
  <1> QED
    BY <1>1, <1>2, WindowKeeps

LEMMA KeepsEdit ==
  ASSUME HomeInv, NEW h \in Hosts, Add(h) \/ Remove(h)
  PROVE  HomeInv'
  <1>1. PICK l \in SUBSET Hosts : Edit(l)
    BY DEF Add, Remove, HomeInv, TypeOK
  <1>2. /\ UNCHANGED <<on, active, ruled, hosts, toggles, faults, stray, cut>>
        /\ list' = l /\ edits' = edits + 1 /\ edits < MaxEdits
        /\ SyncNow
    BY <1>1 DEF Edit, host
  <1>3. /\ at' \in [Threads -> Thread]
        /\ \A u \in Threads : \/ at'[u] = at[u]
                              \/ at[u].mode = "none" /\ at'[u] = Starting("once")
    <2>1. at \in [Threads -> Thread]
      BY DEF HomeInv, TypeOK
    <2>2. CASE at' = at
      BY <2>1, <2>2
    <2>3. CASE \E t \in Free : at' = [at EXCEPT ![t] = Starting("once")]
      BY <2>1, <2>3, StartingIsThread DEF Free
    <2> QED
      BY <1>2, <2>2, <2>3 DEF SyncNow
  <1>4. /\ list' \subseteq Hosts /\ on' \in BOOLEAN /\ edits' \in 0..MaxEdits
        /\ toggles' \in 0..MaxToggles
    BY <1>2, Bounds DEF HomeInv, TypeOK
  <1> QED
    BY <1>2, <1>3, <1>4, WindowKeeps

LEMMA KeepsExit ==
  ASSUME HomeInv, NEW torn \in BOOLEAN, Exit(torn)
  PROVE  HomeInv'
  <1>1. /\ faults < MaxFaults /\ faults' = faults + 1
        /\ list' = IF torn THEN {} ELSE list
        /\ on' = FALSE /\ active' = {}
        /\ at' = [t \in Threads |-> NoThread]
        /\ stray' = stray \cup ruled
        /\ cut' = (cut \/ ~ hosts.whole)
        /\ hosts' = [hosts EXCEPT !.whole = TRUE]
        /\ UNCHANGED <<ruled, edits, toggles>>
    BY DEF Exit, Fail
  <1>2. TypeOK
    BY DEF HomeInv
  <1>3. hosts' \in HostsFile /\ hosts'.own = hosts.own
    BY <1>1, <1>2 DEF TypeOK, HostsFile
  <1>4. at' \in [Threads -> Thread]
    BY <1>1, StartingIsThread
  <1>5. faults' \in 0..MaxFaults /\ cut' \in BOOLEAN /\ list' \subseteq Hosts
    BY <1>1, <1>2, Bounds DEF TypeOK
  <1>6. TypeOK'
    BY <1>1, <1>2, <1>3, <1>4, <1>5 DEF TypeOK
  <1>7. \A t \in Threads : Stage(t)' = "none" /\ at'[t].now = {}
    BY <1>1, StartingIsThread DEF Stage
  <1>8. InHand' /\ FreeAreIdle' /\ SyncsAgree' /\ SyncsDrop' /\ OwnLinesRead'
    BY <1>7 DEF InHand, FreeAreIdle, SyncsAgree, SyncsDrop, OwnLinesRead, Syncing, Stages
  <1>9. RulesAccounted'
    BY <1>1 DEF RulesAccounted
  <1>10. OwnLinesSurvive'
    BY <1>1, <1>3 DEF HomeInv, OwnLinesSurvive
  <1> QED
    BY <1>6, <1>8, <1>9, <1>10 DEF HomeInv

-------------------------------------------------------------------------------
(* The steps of a sync.                                                    *)

LEMMA FaultCounted ==
  ASSUME HomeInv, NEW ok \in BOOLEAN, Fails(ok)
  PROVE  faults' \in 0..MaxFaults
  BY Bounds DEF Fails, Fail, HomeInv, TypeOK

LEMMA KeepsDropped ==
  ASSUME HomeInv, NEW t \in Threads, Dropped(t)
  PROVE  HomeInv'
  <1> DEFINE new == [at[t] EXCEPT !.stage = "block", !.todo = at[t].domains]
  <1>1. /\ at' = [at EXCEPT ![t] = new]
        /\ Stage(t) = "drop" /\ at[t].todo = {}
        /\ UNCHANGED <<list, on, active, ruled, hosts, edits, toggles, faults, stray, cut>>
    BY DEF Dropped, engine, host, bounds
  <1>2. at[t] \in Thread /\ at[t].now = {} /\ at[t].mode # "none" /\ cut \in BOOLEAN
    BY <1>1 DEF HomeInv, TypeOK, InHand, FreeAreIdle
  <1>3. /\ new \in Thread /\ new.stage = "block" /\ new.todo = at[t].domains
        /\ new.domains = at[t].domains /\ new.now = at[t].now /\ new.mode = at[t].mode
    BY <1>2 DEF Thread, Stages
  <1> HIDE DEF new
  <1> QED
    BY <1>1, <1>2, <1>3, MovesKeep DEF Moves, Syncing, Stages

LEMMA KeepsReadHosts ==
  ASSUME HomeInv, NEW t \in Threads, ReadHosts(t)
  PROVE  HomeInv'
  <1> DEFINE new == [at[t] EXCEPT !.stage = "truncate", !.own = Rest(hosts)]
  <1>1. /\ at' = [at EXCEPT ![t] = new]
        /\ Stage(t) = "hosts"
        /\ cut' = (cut \/ ~ hosts.whole)
        /\ UNCHANGED <<list, on, active, ruled, hosts, edits, toggles, faults, stray>>
    BY DEF ReadHosts, engine, host, bounds
  <1>2. /\ at[t] \in Thread /\ at[t].now = {} /\ at[t].mode # "none" /\ cut \in BOOLEAN
        /\ hosts \in HostsFile
    BY <1>1 DEF HomeInv, TypeOK, InHand, FreeAreIdle
  <1>3. /\ new \in Thread /\ new.stage = "truncate" /\ new.own = hosts.own
        /\ new.domains = at[t].domains /\ new.now = at[t].now /\ new.mode = at[t].mode
    BY <1>2 DEF Thread, Stages, Rest, HostsFile
  <1>4. cut' \in BOOLEAN /\ (cut => cut') /\ (hosts.own \/ cut')
    BY <1>1, <1>2 DEF HomeInv, OwnLinesSurvive
  <1> HIDE DEF new
  <1> QED
    BY <1>1, <1>2, <1>3, <1>4, MovesKeep DEF Moves, Syncing, Stages

LEMMA KeepsSyncEnd ==
  ASSUME HomeInv, NEW t \in Threads, SyncEnd(t)
  PROVE  HomeInv'
  <1> DEFINE new == IF at[t].mode = "loop"
                    THEN [NoThread EXCEPT !.mode = "loop", !.stage = "sleep"] ELSE NoThread
  <1>1. /\ at' = [at EXCEPT ![t] = new]
        /\ Stage(t) = "guard"
        /\ UNCHANGED <<list, on, active, ruled, hosts, edits, toggles, faults, stray, cut>>
    BY DEF SyncEnd, engine, host, bounds
  <1>2. cut \in BOOLEAN
    BY DEF HomeInv, TypeOK
  <1>3. /\ new \in Thread /\ new.stage \in {"sleep", "none"} /\ new.now = {}
        /\ new.mode = "none" => new.stage = "none"
    BY DEF Thread, Stages, NoThread
  <1> HIDE DEF new
  <1> QED
    BY <1>1, <1>2, <1>3, MovesKeep DEF Moves, Stages

LEMMA KeepsWake ==
  ASSUME HomeInv, NEW t \in Threads, Wake(t)
  PROVE  HomeInv'
  <1> DEFINE new == IF on THEN Starting("loop") ELSE NoThread
  <1>1. /\ at' = [at EXCEPT ![t] = new]
        /\ Stage(t) = "sleep"
        /\ UNCHANGED <<list, on, active, ruled, hosts, edits, toggles, faults, stray, cut>>
    BY DEF Wake, engine, host, bounds
  <1>2. cut \in BOOLEAN
    BY DEF HomeInv, TypeOK
  <1>3. /\ new \in Thread /\ new.stage \in {"start", "none"} /\ new.now = {}
        /\ new.mode = "none" => new.stage = "none"
    BY StartingIsThread
  <1> HIDE DEF new
  <1> QED
    BY <1>1, <1>2, <1>3, MovesKeep DEF Moves, Stages

LEMMA KeepsSyncStart ==
  ASSUME HomeInv, NEW t \in Threads, SyncStart(t)
  PROVE  HomeInv'
  <1> DEFINE new == [at[t] EXCEPT !.stage = "drop", !.domains = list, !.todo = ToDrop(list)]
  <1>1. /\ at' = [at EXCEPT ![t] = new]
        /\ Stage(t) = "start"
        /\ stray' = stray \cup Disputed(list)
        /\ UNCHANGED <<list, on, active, ruled, hosts, edits, toggles, faults, cut>>
    BY DEF SyncStart, engine, host, bounds
  <1>2. TypeOK /\ at[t] \in Thread /\ at[t].now = {} /\ at[t].mode # "none"
    BY <1>1 DEF HomeInv, TypeOK, InHand, FreeAreIdle
  <1>3. /\ new \in Thread /\ new.stage = "drop" /\ new.domains = list
        /\ new.todo = active \ list /\ new.now = at[t].now /\ new.mode = at[t].mode
    BY <1>2 DEF TypeOK, Thread, Stages, ToDrop
  <1> HIDE DEF new
  <1>4. /\ at' \in [Threads -> Thread] /\ at'[t] = new
        /\ \A u \in Threads : u # t => at'[u] = at[u] /\ Stage(u)' = Stage(u)
    BY <1>1, <1>2, <1>3, OneMoves DEF Moves, Stage
  <1>5. /\ \A u \in Threads : Syncing(u) =>
               at[u].domains \subseteq list \cup stray' /\ list \subseteq at[u].domains \cup stray'
        /\ ~ Syncing(t)
    BY <1>1 DEF Disputed, Syncing
  <1>6. Disputed(list) \subseteq Hosts
    BY <1>2 DEF Disputed, TypeOK, Thread
  <1>7. TypeOK'
    BY <1>1, <1>2, <1>4, <1>6 DEF TypeOK
  <1>8. InHand' /\ FreeAreIdle' /\ OwnLinesRead'
    BY <1>1, <1>2, <1>3, <1>4 DEF HomeInv, InHand, FreeAreIdle, OwnLinesRead, Stage
  <1>9. SyncsAgree'
    <2>1. \A u \in Threads : u # t => (Syncing(u)' <=> Syncing(u)) /\ at'[u].domains = at[u].domains
      BY <1>4 DEF Syncing
    <2> QED
      BY <2>1, <1>1, <1>3, <1>4, <1>5 DEF HomeInv, SyncsAgree
  <1>10. RulesAccounted'
    BY <1>1, <1>4 DEF HomeInv, RulesAccounted, Stage
  <1>11. SyncsDrop'
    <2>1. ASSUME NEW u \in Threads, u # t, Syncing(u)'
          PROVE  ruled' \subseteq at'[u].domains \cup stray'
                           \cup (IF Stage(u)' = "drop" THEN at'[u].todo ELSE {})
      BY <2>1, <1>1, <1>4 DEF HomeInv, SyncsDrop, Syncing
    <2>2. ruled \subseteq list \cup stray' \cup (active \ list)
      <3> SUFFICES ASSUME NEW h \in ruled, h \notin list, h \notin stray', h \notin active
                   PROVE  FALSE
        OBVIOUS
      <3>1. PICK u \in Threads : Stage(u) \in {"block", "rule"} /\ h \in at[u].domains
        BY <1>1 DEF HomeInv, RulesAccounted
      <3> QED
        BY <3>1, <1>5 DEF Syncing, Stages
    <2> QED
      BY <2>1, <2>2, <1>1, <1>3, <1>4 DEF SyncsDrop, Stage
  <1>12. OwnLinesSurvive'
    BY <1>1 DEF HomeInv, OwnLinesSurvive
  <1> QED
    BY <1>7, <1>8, <1>9, <1>10, <1>11, <1>12 DEF HomeInv

\* A step that works on the rules: it makes none but of the domain in hand, and what it need
\* not drop any more has no rule, or is stray.
LEMMA RulesKeep ==
  ASSUME HomeInv, NEW t \in Threads, NEW new, Moves(t, new),
         UNCHANGED <<list, on, active, hosts, edits, toggles, cut>>,
         faults' \in 0..MaxFaults, ruled' \subseteq Hosts, stray' \subseteq Hosts,
         stray \subseteq stray',
         Stage(t) \in {"drop", "block", "rule"}, new.stage \in {"drop", "block", "rule"},
         Stage(t) = "drop" <=> new.stage = "drop",
         new.domains = at[t].domains, new.mode = at[t].mode,
         new.stage # "drop" => new.todo \cup new.now \subseteq new.domains,
         new.stage # "rule" => new.now = {},
         \A h \in ruled' : h \in ruled \/ (Stage(t) = "rule" /\ h \in at[t].now),
         Stage(t) = "drop" => \A h \in ruled' : h \in at[t].todo => h \in new.todo \cup stray'
  PROVE  HomeInv'
  <1>1. /\ at' \in [Threads -> Thread] /\ at'[t] = new
        /\ \A u \in Threads : u # t => at'[u] = at[u] /\ Stage(u)' = Stage(u)
        /\ Stage(t)' = new.stage
    BY OneMoves DEF HomeInv, Stage
  <1>2. TypeOK'
    BY <1>1 DEF HomeInv, TypeOK
  <1>3. at[t].mode # "none"
    BY DEF HomeInv, FreeAreIdle
  <1>4. InHand' /\ FreeAreIdle' /\ OwnLinesRead'
    BY <1>1, <1>3 DEF HomeInv, InHand, FreeAreIdle, OwnLinesRead
  <1>5. /\ Syncing(t) /\ Syncing(t)'
        /\ \A u \in Threads : /\ Syncing(u)' <=> Syncing(u)
                              /\ at'[u].domains = at[u].domains
    BY <1>1 DEF Syncing, Stages
  <1>6. SyncsAgree'
    BY <1>5 DEF HomeInv, SyncsAgree
  <1>7. Stage(t) = "rule" => at[t].now \subseteq at[t].domains
    BY DEF HomeInv, InHand
  <1>8. RulesAccounted'
    <2> SUFFICES ASSUME NEW h \in ruled', h \notin active \cup stray'
                 PROVE  \E u \in Threads : Stage(u)' \in {"block", "rule"} /\ h \in at'[u].domains
      BY DEF RulesAccounted
    <2>1. CASE Stage(t) = "rule" /\ h \in at[t].now
      BY <2>1, <1>1, <1>7
    <2>2. CASE h \in ruled
      <3>1. PICK u \in Threads : Stage(u) \in {"block", "rule"} /\ h \in at[u].domains
        BY <2>2 DEF HomeInv, RulesAccounted
      <3> QED
        BY <3>1, <1>1, <1>5
    <2> QED
      BY <2>1, <2>2
  <1>9. SyncsDrop'
    <2> SUFFICES ASSUME NEW u \in Threads, Syncing(u), NEW h \in ruled',
                        h \notin at[u].domains, h \notin stray'
                 PROVE  Stage(u)' = "drop" /\ h \in at'[u].todo
      BY <1>5 DEF SyncsDrop
    <2>1. h \in ruled
      <3>1. ASSUME Stage(t) = "rule", h \in at[t].now PROVE FALSE
        BY <3>1, <1>5, <1>7 DEF HomeInv, SyncsAgree
      <3> QED
        BY <3>1
    <2>2. Stage(u) = "drop" /\ h \in at[u].todo
      BY <2>1 DEF HomeInv, SyncsDrop
    <2> QED
      BY <2>2, <1>1
  <1>10. OwnLinesSurvive'
    BY DEF HomeInv, OwnLinesSurvive
  <1> QED
    BY <1>2, <1>4, <1>6, <1>8, <1>9, <1>10 DEF HomeInv

LEMMA KeepsDrop ==
  ASSUME HomeInv, NEW t \in Threads, NEW ok \in BOOLEAN, Drop(t, ok)
  PROVE  HomeInv'
  <1>1. PICK h \in at[t].todo :
           /\ at' = [at EXCEPT ![t].todo = @ \ {h}]
           /\ ruled' = IF ok THEN ruled \ {h} ELSE ruled
           /\ stray' = IF ok THEN stray ELSE stray \cup {h}
    BY DEF Drop
  <1>2. /\ Stage(t) = "drop"
        /\ UNCHANGED <<list, on, active, hosts, edits, toggles, cut>>
    BY DEF Drop, engine
  <1>3. faults' \in 0..MaxFaults
    BY FaultCounted DEF Drop
  <1> DEFINE new == [at[t] EXCEPT !.todo = @ \ {h}]
  <1>4. at[t] \in Thread /\ at[t].now = {} /\ at[t].todo \subseteq Hosts
    BY <1>2 DEF HomeInv, TypeOK, InHand, Thread
  <1>5. /\ new \in Thread /\ new.stage = "drop" /\ new.todo = at[t].todo \ {h}
        /\ new.domains = at[t].domains /\ new.now = at[t].now /\ new.mode = at[t].mode
    BY <1>2, <1>4 DEF Thread, Stage
  <1>6. Moves(t, new)
    BY <1>1, <1>5 DEF Moves
  <1>7. ruled' \subseteq Hosts /\ stray' \subseteq Hosts /\ stray \subseteq stray'
    BY <1>1, <1>4 DEF HomeInv, TypeOK
  <1> HIDE DEF new
  <1> QED
    BY <1>1, <1>2, <1>3, <1>4, <1>5, <1>6, <1>7, RulesKeep

LEMMA KeepsBlock ==
  ASSUME HomeInv, NEW t \in Threads, NEW h \in Hosts, Block(t, h)
  PROVE  HomeInv'
  <1> DEFINE new == [at[t] EXCEPT !.stage = "rule", !.todo = @ \ {h}, !.now = {h}]
  <1>1. /\ at' = [at EXCEPT ![t] = new]
        /\ Stage(t) = "block" /\ h \in at[t].todo
        /\ ruled' = ruled \ {h}
        /\ UNCHANGED <<list, on, active, hosts, edits, toggles, faults, stray, cut>>
    BY DEF Block, engine, bounds
  <1>2. at[t] \in Thread /\ at[t].todo \subseteq at[t].domains
    BY <1>1 DEF HomeInv, TypeOK, InHand
  <1>3. /\ new \in Thread /\ new.stage = "rule" /\ new.todo = at[t].todo \ {h}
        /\ new.domains = at[t].domains /\ new.now = {h} /\ new.mode = at[t].mode
    BY <1>2 DEF Thread, Stages
  <1>4. /\ faults' \in 0..MaxFaults /\ ruled' \subseteq Hosts /\ stray' \subseteq Hosts
        /\ \A g \in ruled' : g \in ruled
    BY <1>1 DEF HomeInv, TypeOK
  <1>5. new.todo \cup new.now \subseteq new.domains
    BY <1>1, <1>2, <1>3
  <1> HIDE DEF new
  <1> QED
    BY <1>1, <1>3, <1>4, <1>5, RulesKeep DEF Moves

LEMMA KeepsRule ==
  ASSUME HomeInv, NEW t \in Threads, NEW ok \in BOOLEAN, Rule(t, ok)
  PROVE  HomeInv'
  <1> DEFINE new == [at[t] EXCEPT !.stage = "block", !.now = {}]
  <1>1. /\ at' = [at EXCEPT ![t] = new]
        /\ Stage(t) = "rule"
        /\ ruled' = IF ok THEN ruled \cup at[t].now ELSE ruled
        /\ UNCHANGED <<list, on, active, hosts, edits, toggles, stray, cut>>
    BY DEF Rule, engine
  <1>2. at[t] \in Thread /\ at[t].todo \subseteq at[t].domains /\ at[t].now \subseteq Hosts
    BY <1>1 DEF HomeInv, TypeOK, InHand, Thread
  <1>3. /\ new \in Thread /\ new.stage = "block" /\ new.todo = at[t].todo
        /\ new.domains = at[t].domains /\ new.now = {} /\ new.mode = at[t].mode
    BY <1>2 DEF Thread, Stages
  <1>4. /\ faults' \in 0..MaxFaults /\ ruled' \subseteq Hosts /\ stray' \subseteq Hosts
    BY <1>1, <1>2, FaultCounted DEF HomeInv, TypeOK, Rule
  <1> HIDE DEF new
  <1> QED
    BY <1>1, <1>2, <1>3, <1>4, RulesKeep DEF Moves

LEMMA KeepsRemember ==
  ASSUME HomeInv, NEW t \in Threads, Remember(t)
  PROVE  HomeInv'
  <1> DEFINE new == [at[t] EXCEPT !.stage = Pin(at[t].domains)]
  <1>1. /\ at' = [at EXCEPT ![t] = new]
        /\ Stage(t) = "block"
        /\ active' = at[t].domains
        /\ UNCHANGED <<list, on, ruled, hosts, edits, toggles, faults, stray, cut>>
    BY DEF Remember, Remembered, host, bounds
  <1>2. /\ TypeOK /\ at[t] \in Thread /\ at[t].domains \subseteq Hosts
        /\ at[t].now = {} /\ at[t].mode # "none"
    BY <1>1 DEF HomeInv, TypeOK, InHand, FreeAreIdle, Thread
  <1>3. /\ new \in Thread /\ new.stage \in {"hosts", "guard"}
        /\ new.domains = at[t].domains /\ new.now = {} /\ new.mode = at[t].mode
    BY <1>2 DEF Thread, Stages, Pin
  <1> HIDE DEF new
  <1>4. /\ at' \in [Threads -> Thread] /\ at'[t] = new
        /\ \A u \in Threads : u # t => at'[u] = at[u] /\ Stage(u)' = Stage(u)
        /\ Stage(t)' = new.stage
    BY <1>1, <1>2, <1>3, OneMoves DEF Moves, Stage
  <1>5. TypeOK'
    BY <1>1, <1>2, <1>4 DEF TypeOK
  <1>6. InHand' /\ FreeAreIdle' /\ OwnLinesRead'
    BY <1>1, <1>2, <1>3, <1>4 DEF HomeInv, InHand, FreeAreIdle, OwnLinesRead
  <1>7. /\ Syncing(t)
        /\ \A u \in Threads : Syncing(u)' => Syncing(u) /\ at'[u].domains = at[u].domains
    BY <1>1, <1>3, <1>4 DEF Syncing, Stages
  <1>8. SyncsAgree'
    BY <1>1, <1>7 DEF HomeInv, SyncsAgree
  <1>9. RulesAccounted'
    BY <1>1, <1>7 DEF HomeInv, SyncsDrop, RulesAccounted
  <1>10. SyncsDrop'
    BY <1>1, <1>3, <1>4, <1>7 DEF HomeInv, SyncsDrop
  <1>11. OwnLinesSurvive'
    BY <1>1 DEF HomeInv, OwnLinesSurvive
  <1> QED
    BY <1>5, <1>6, <1>8, <1>9, <1>10, <1>11 DEF HomeInv

\* A step that works on the hosts file.
LEMMA FileKeeps ==
  ASSUME HomeInv, NEW t \in Threads, NEW new, Moves(t, new),
         UNCHANGED <<list, on, active, ruled, edits, toggles, stray>>,
         cut' \in BOOLEAN, cut => cut',
         faults' \in 0..MaxFaults, hosts' \in HostsFile, OwnLinesSurvive',
         Stage(t) \in {"truncate", "write"}, new.stage \in {"write", "guard"},
         new.domains = at[t].domains, new.mode = at[t].mode, new.now = at[t].now,
         new.own = at[t].own
  PROVE  HomeInv'
  <1>1. /\ at' \in [Threads -> Thread] /\ at'[t] = new
        /\ \A u \in Threads : u # t => at'[u] = at[u] /\ Stage(u)' = Stage(u)
        /\ Stage(t)' = new.stage
    BY OneMoves DEF HomeInv, Stage
  <1>2. TypeOK'
    BY <1>1 DEF HomeInv, TypeOK
  <1>3. InHand' /\ FreeAreIdle' /\ OwnLinesRead'
    BY <1>1 DEF HomeInv, InHand, FreeAreIdle, OwnLinesRead
  <1>4. \A u \in Threads : Syncing(u)' => Syncing(u) /\ at'[u].domains = at[u].domains
    BY <1>1 DEF Syncing, Stages
  <1>5. SyncsAgree' /\ SyncsDrop'
    BY <1>1, <1>4 DEF HomeInv, SyncsAgree, SyncsDrop
  <1>6. RulesAccounted'
    BY <1>1 DEF HomeInv, RulesAccounted
  <1> QED
    BY <1>2, <1>3, <1>5, <1>6 DEF HomeInv

LEMMA KeepsTruncate ==
  ASSUME HomeInv, NEW t \in Threads, NEW ok \in BOOLEAN, Truncate(t, ok)
  PROVE  HomeInv'
  <1> DEFINE new == [at[t] EXCEPT !.stage = IF ok THEN "write" ELSE "guard"]
  <1>1. /\ at' = [at EXCEPT ![t] = new]
        /\ Stage(t) = "truncate"
        /\ hosts' = IF ok THEN [pins |-> {}, own |-> FALSE, whole |-> FALSE] ELSE hosts
        /\ UNCHANGED <<list, on, active, ruled, edits, toggles, stray, cut>>
    BY DEF Truncate, engine
  <1>2. at[t] \in Thread /\ cut \in BOOLEAN
    BY DEF HomeInv, TypeOK
  <1>3. /\ new \in Thread /\ new.stage \in {"write", "guard"} /\ new.own = at[t].own
        /\ new.domains = at[t].domains /\ new.now = at[t].now /\ new.mode = at[t].mode
    BY <1>2 DEF Thread, Stages
  <1>4. faults' \in 0..MaxFaults
    BY FaultCounted DEF Truncate
  <1>5. hosts' \in HostsFile /\ OwnLinesSurvive'
    BY <1>1 DEF HomeInv, TypeOK, HostsFile, OwnLinesSurvive
  <1> HIDE DEF new
  <1> QED
    BY <1>1, <1>2, <1>3, <1>4, <1>5, FileKeeps DEF Moves

LEMMA KeepsWriteHosts ==
  ASSUME HomeInv, NEW t \in Threads, NEW ok \in BOOLEAN, WriteHosts(t, ok)
  PROVE  HomeInv'
  <1> DEFINE new == [at[t] EXCEPT !.stage = "guard"]
  <1>1. /\ at' = [at EXCEPT ![t] = new]
        /\ Stage(t) = "write"
        /\ hosts' = IF ok THEN [pins |-> at[t].domains, own |-> at[t].own, whole |-> TRUE]
                          ELSE [pins |-> {}, own |-> FALSE, whole |-> TRUE]
        /\ cut' = (cut \/ ~ ok)
        /\ UNCHANGED <<list, on, active, ruled, edits, toggles, stray>>
    BY DEF WriteHosts, engine
  <1>2. at[t] \in Thread /\ cut \in BOOLEAN
    BY DEF HomeInv, TypeOK
  <1>3. /\ new \in Thread /\ new.stage = "guard" /\ new.own = at[t].own
        /\ new.domains = at[t].domains /\ new.now = at[t].now /\ new.mode = at[t].mode
    BY <1>2 DEF Thread, Stages
  <1>4. at[t].own \/ cut
    BY <1>1 DEF HomeInv, OwnLinesRead
  <1>5. hosts' \in HostsFile /\ OwnLinesSurvive'
    BY <1>1, <1>2, <1>4 DEF Thread, HostsFile, OwnLinesSurvive
  <1>6. cut' \in BOOLEAN /\ (cut => cut')
    BY <1>1, <1>2
  <1>7. faults' \in 0..MaxFaults
    BY FaultCounted DEF WriteHosts
  <1> HIDE DEF new
  <1> QED
    BY <1>1, <1>3, <1>5, <1>6, <1>7, FileKeeps DEF Moves

LEMMA NextHome == HomeInv /\ [Next]_vars => HomeInv'
  <1> SUFFICES ASSUME HomeInv, [Next]_vars PROVE HomeInv'
    OBVIOUS
  <1>1. ASSUME NEW t \in Threads, SyncStep(t) PROVE HomeInv'
    BY <1>1, KeepsSyncStart, KeepsDrop, KeepsDropped, KeepsBlock, KeepsRule, KeepsRemember,
       KeepsReadHosts, KeepsTruncate, KeepsWriteHosts, KeepsSyncEnd, KeepsWake DEF SyncStep
  <1>2. ASSUME NEW t \in Threads,
               Drop(t, FALSE) \/ Rule(t, FALSE) \/ Truncate(t, FALSE) \/ WriteHosts(t, FALSE)
        PROVE  HomeInv'
    BY <1>2, KeepsDrop, KeepsRule, KeepsTruncate, KeepsWriteHosts
  <1>3. CASE UNCHANGED vars
    BY <1>3 DEF vars, engine, host, bounds, HomeInv, TypeOK, InHand, FreeAreIdle, SyncsAgree,
         RulesAccounted, SyncsDrop, OwnLinesRead, OwnLinesSurvive, Syncing, Stage
  <1> QED
    BY <1>1, <1>2, <1>3, KeepsTurnOn, KeepsTurnOff, KeepsEdit, KeepsExit DEF Next

-------------------------------------------------------------------------------
(* The theorems.                                                           *)

\* The inductive invariant holds for any domains and any number of threads: what each sync has
\* loaded and done, against what the engine remembers (engine.py, enforcement.py).
THEOREM HomeIsInductive == Spec => []HomeInv
  BY InitHome, NextHome, PTL DEF Spec

\* For every value of the constants: between syncs every rule is one the engine remembers,
\* unless two syncs that did not agree about its domain overlapped, a command failed, or the
\* program was restarted (sync).
THEOREM HomeRulesRemembered == Spec => []RulesRemembered
  <1>1. HomeInv => RulesRemembered
    BY DEF HomeInv, RulesAccounted, RulesRemembered, Syncing, Stages
  <1> QED
    BY <1>1, HomeIsInductive, PTL

\* For every value of the constants: the user's lines in the hosts file survive every sync,
\* unless one has read the file while another wrote it, a write failed after the file was
\* truncated, or the program ended in a write (apply_hosts).
THEOREM HomeOwnLinesSurvive == Spec => []OwnLinesSurvive
  <1>1. HomeInv => OwnLinesSurvive
    BY DEF HomeInv
  <1> QED
    BY <1>1, HomeIsInductive, PTL

===============================================================================
