---------------------- MODULE DetectionAndResponseProofs ----------------------
(***************************************************************************)
(* Proofs about CommandChannel and about DetectionEngine, which decides    *)
(* what is asked of the channel, for every value of their constants: any   *)
(* number of actions, requests and faults, in every order of the handlers' *)
(* loads and commits; any names, feeds, blocklists and events.             *)
(***************************************************************************)
EXTENDS CommandChannel, DetectionEngine, FiniteSetTheorems, SequenceTheorems, TLAPS

LEMMA Bounds == MaxActions \in Nat /\ MaxRequests \in Nat /\ MaxFaults \in Nat
  BY ChannelAssumption

LEMMA ActionsAre == Action \subseteq Nat /\ Note \notin Action /\ Command = Action \cup {Note}
  BY DEF Action, Note, Command

LEMMA RequestsAreNat ==
  ASSUME NEW xs, xs \subseteq Action
  PROVE  Cardinality(xs) \in Nat
  <1>1. IsFiniteSet(Action)
    BY Bounds, FS_Interval DEF Action
  <1> QED
    BY <1>1, FS_Subset, FS_CardinalityType

-------------------------------------------------------------------------------
(* Lists of commands.                                                      *)

LEMMA TasksAre ==
  ASSUME NEW cmds
  PROVE  /\ Tasks(cmds) \subseteq Action
         /\ \A a \in Action : a \in Tasks(cmds) <=> \E i \in DOMAIN cmds : cmds[i] = a
  BY DEF Tasks, ToSet

LEMMA NoTasks == Tasks(<<>>) = {}
  BY DEF Tasks, ToSet

LEMMA TasksOfAppend ==
  ASSUME NEW cmds \in Seq(Command), NEW c \in Command
  PROVE  /\ Append(cmds, c) \in Seq(Command)
         /\ Tasks(Append(cmds, c)) = Tasks(cmds) \cup ({c} \cap Action)
  <1>1. /\ Append(cmds, c) \in Seq(Command)
        /\ DOMAIN Append(cmds, c) = 1..(Len(cmds) + 1)
        /\ DOMAIN cmds = 1..Len(cmds) /\ Len(cmds) \in Nat
        /\ \A i \in 1..Len(cmds) : Append(cmds, c)[i] = cmds[i]
        /\ Append(cmds, c)[Len(cmds) + 1] = c
    OBVIOUS
  <1>2. \A i \in 1..(Len(cmds) + 1) : i \in 1..Len(cmds) \/ i = Len(cmds) + 1
    BY <1>1
  <1>3. Len(cmds) + 1 \in 1..(Len(cmds) + 1) /\ 1..Len(cmds) \subseteq 1..(Len(cmds) + 1)
    BY <1>1
  <1> DEFINE longer == Append(cmds, c)
  <1>4. ASSUME NEW a \in Action
        PROVE  a \in Tasks(longer) <=> a \in Tasks(cmds) \/ a = c
    <2>1. (\E i \in DOMAIN longer : longer[i] = a)
             <=> (\E i \in DOMAIN cmds : cmds[i] = a) \/ a = c
      BY <1>1, <1>2, <1>3
    <2> QED
      BY <2>1, TasksAre
  <1> QED
    BY <1>1, <1>4, TasksAre

LEMMA TasksOfTail ==
  ASSUME NEW cmds \in Seq(Command), cmds # <<>>
  PROVE  /\ Tail(cmds) \in Seq(Command) /\ Head(cmds) \in Command
         /\ Tasks(Tail(cmds)) \subseteq Tasks(cmds)
         /\ Tasks(cmds) \subseteq Tasks(Tail(cmds)) \cup {Head(cmds)}
         /\ Head(cmds) \in Action => Head(cmds) \in Tasks(cmds)
         /\ \A i \in DOMAIN Tail(cmds) : i + 1 \in DOMAIN cmds /\ i + 1 # 1 /\ Tail(cmds)[i] = cmds[i + 1]
         /\ 1 \in DOMAIN cmds /\ cmds[1] = Head(cmds)
  <1>1. /\ Tail(cmds) \in Seq(Command) /\ Head(cmds) \in Command
        /\ \A i \in DOMAIN Tail(cmds) : i + 1 \in DOMAIN cmds /\ i + 1 # 1 /\ Tail(cmds)[i] = cmds[i + 1]
        /\ 1 \in DOMAIN cmds /\ cmds[1] = Head(cmds)
    OBVIOUS
  <1>2. \A j \in DOMAIN cmds : j = 1 \/ (j - 1 \in DOMAIN Tail(cmds) /\ cmds[j] = Tail(cmds)[j - 1])
    OBVIOUS
  <1>3. Tasks(Tail(cmds)) \subseteq Tasks(cmds)
    <2> SUFFICES ASSUME NEW a \in Tasks(Tail(cmds)) PROVE a \in Tasks(cmds)
      OBVIOUS
    <2>1. PICK i \in DOMAIN Tail(cmds) : Tail(cmds)[i] = a
      BY TasksAre
    <2>2. i + 1 \in DOMAIN cmds /\ cmds[i + 1] = a
      BY <1>1, <2>1
    <2> QED
      BY <2>2, TasksAre
  <1>4. Tasks(cmds) \subseteq Tasks(Tail(cmds)) \cup {Head(cmds)}
    <2> SUFFICES ASSUME NEW a \in Tasks(cmds), a # Head(cmds) PROVE a \in Tasks(Tail(cmds))
      OBVIOUS
    <2>1. PICK j \in DOMAIN cmds : cmds[j] = a
      BY TasksAre
    <2>2. j - 1 \in DOMAIN Tail(cmds) /\ Tail(cmds)[j - 1] = a
      BY <1>1, <1>2, <2>1
    <2> QED
      BY <2>2, TasksAre
  <1>5. Head(cmds) \in Action => Head(cmds) \in Tasks(cmds)
    BY <1>1, TasksAre
  <1> QED
    BY <1>1, <1>3, <1>4, <1>5

\* No task twice.
Single(cmds) == \A i, j \in DOMAIN cmds : cmds[i] = cmds[j] => i = j \/ cmds[i] = Note

LEMMA SingleTail ==
  ASSUME NEW cmds \in Seq(Command), cmds # <<>>, Single(cmds)
  PROVE  /\ Single(Tail(cmds))
         /\ Head(cmds) \in Action => Head(cmds) \notin Tasks(Tail(cmds))
  <1> DEFINE rest == Tail(cmds)
  <1>1. /\ \A i \in DOMAIN rest : i + 1 \in DOMAIN cmds /\ i + 1 # 1 /\ rest[i] = cmds[i + 1]
        /\ 1 \in DOMAIN cmds /\ cmds[1] = Head(cmds)
        /\ rest \in Seq(Command)
    BY TasksOfTail
  <1>2. DOMAIN rest \subseteq Nat
    BY <1>1
  <1> HIDE DEF rest
  <1>3. \A i, j \in DOMAIN rest : i + 1 = j + 1 => i = j
    BY <1>2
  <1>4. Single(rest)
    BY <1>1, <1>3 DEF Single
  <1>5. Head(cmds) \in Action => Head(cmds) \notin Tasks(rest)
    <2> SUFFICES ASSUME Head(cmds) \in Action, NEW i \in DOMAIN rest, rest[i] = Head(cmds)
                 PROVE  FALSE
      BY TasksAre
    <2> QED
      BY <1>1, ActionsAre DEF Single
  <1> QED
    BY <1>4, <1>5 DEF rest

LEMMA SingleAppend ==
  ASSUME NEW cmds \in Seq(Command), NEW c \in Command, Single(cmds), c \notin Tasks(cmds)
  PROVE  Single(Append(cmds, c))
  <1> DEFINE longer == Append(cmds, c)
  <1>1. /\ DOMAIN longer = 1..(Len(cmds) + 1)
        /\ DOMAIN cmds = 1..Len(cmds) /\ Len(cmds) \in Nat
        /\ \A i \in 1..Len(cmds) : longer[i] = cmds[i]
        /\ longer[Len(cmds) + 1] = c
    OBVIOUS
  <1>2. \A i \in DOMAIN longer : i \in DOMAIN cmds \/ i = Len(cmds) + 1
    BY <1>1
  <1>3. \A i \in DOMAIN cmds : cmds[i] = c => c = Note
    BY TasksAre, ActionsAre
  <1> HIDE DEF longer
  <1>4. Single(longer)
    BY <1>1, <1>2, <1>3 DEF Single
  <1> QED
    BY <1>4 DEF longer

\* What a rewrite of the column leaves: the copy, and the new command at its end.
LEMMA ListsKept ==
  ASSUME TypeOK, ListsSound,
         \A a \in Action : status[a] # "none" => status'[a] # "none",
         \A cmds \in Lists' :
            \/ cmds \in Lists \/ cmds = <<>>
            \/ todo # <<>> /\ cmds = Tail(todo)
            \/ \E seen \in Lists, c \in Command :
                  cmds = Append(seen, c) /\ (c \in Action => status[c] = "none" /\ status'[c] # "none")
  PROVE  ListsSound'
  <1>1. ASSUME NEW cmds \in Lists
        PROVE  cmds \in Seq(Command) /\ Single(cmds) /\ \A a \in Tasks(cmds) : status[a] # "none"
    <2>1. cmds \in Seq(Command)
      BY DEF Lists, TypeOK, Copy
    <2> QED
      BY <2>1 DEF ListsSound, Single
  <1> SUFFICES ASSUME NEW cmds \in Lists'
               PROVE  Single(cmds) /\ \A a \in Tasks(cmds) : status'[a] # "none"
    BY DEF ListsSound, Single, Tasks
  <1>2. CASE cmds \in Lists
    BY <1>1, <1>2, TasksAre
  <1>3. CASE cmds = <<>>
    BY <1>3, NoTasks DEF Single
  <1>4. CASE todo # <<>> /\ cmds = Tail(todo)
    <2>1. todo \in Lists
      BY DEF Lists
    <2> QED
      BY <2>1, <1>1, <1>4, SingleTail, TasksOfTail, TasksAre
  <1>5. ASSUME NEW seen \in Lists, NEW c \in Command,
               cmds = Append(seen, c), c \in Action => status[c] = "none" /\ status'[c] # "none"
        PROVE  Single(cmds) /\ \A a \in Tasks(cmds) : status'[a] # "none"
    <2>1. c \notin Tasks(seen)
      BY <1>1, <1>5, TasksAre
    <2>2. Single(cmds)
      BY <1>1, <1>5, <2>1, SingleAppend
    <2>3. Tasks(cmds) = Tasks(seen) \cup ({c} \cap Action)
      BY <1>1, <1>5, TasksOfAppend
    <2> QED
      BY <1>1, <1>5, <2>2, <2>3, TasksAre
  <1> QED
    BY <1>2, <1>3, <1>4, <1>5

-------------------------------------------------------------------------------
(* Counting.                                                               *)

LEMMA CountIs ==
  /\ Count(TRUE) = 1 /\ Count(FALSE) = 0
  /\ \A p \in BOOLEAN : Count(p) \in {0, 1}
  /\ \A p, q \in BOOLEAN : (p => q) => Count(p) =< Count(q)
  /\ \A p, q, s \in BOOLEAN : (p => q \/ s) => Count(p) =< Count(q) + Count(s)
  BY DEF Count

LEMMA AreBoolean ==
  ASSUME NEW a
  PROVE  /\ Awaits(a) \in BOOLEAN /\ Has(a) \in BOOLEAN
         /\ Awaits(a)' \in BOOLEAN /\ Has(a)' \in BOOLEAN
         /\ (status[a] # "none") \in BOOLEAN /\ (status'[a] # "none") \in BOOLEAN
  BY DEF Awaits, Has

LEMMA CountsKept ==
  ASSUME TypeOK, ExecutionsCounted, UNCHANGED <<executed, revived>>,
         \A a \in Action : /\ Awaits(a)' => Awaits(a)
                           /\ Has(a)' => Has(a)
                           /\ status[a] # "none" => status'[a] # "none"
  PROVE  ExecutionsCounted'
  <1> SUFFICES ASSUME NEW a \in Action
               PROVE  executed[a] + Count(Awaits(a)') + Count(Has(a)')
                        =< Count(status'[a] # "none") + revived[a]
    BY DEF ExecutionsCounted, Count
  <1>1. /\ Count(Awaits(a)') =< Count(Awaits(a)) /\ Count(Has(a)') =< Count(Has(a))
        /\ Count(status[a] # "none") =< Count(status'[a] # "none")
    BY AreBoolean, CountIs
  <1>2. /\ Count(Awaits(a)') \in {0, 1} /\ Count(Awaits(a)) \in {0, 1}
        /\ Count(Has(a)') \in {0, 1} /\ Count(Has(a)) \in {0, 1}
        /\ Count(status[a] # "none") \in {0, 1} /\ Count(status'[a] # "none") \in {0, 1}
    BY AreBoolean, CountIs
  <1>3. executed[a] \in Nat /\ revived[a] \in Nat
    BY DEF TypeOK
  <1>4. executed[a] + Count(Awaits(a)) + Count(Has(a)) =< Count(status[a] # "none") + revived[a]
    BY DEF ExecutionsCounted
  <1> QED
    BY <1>1, <1>2, <1>3, <1>4

\* A commit of a copy accounts for what it brings back.
LEMMA RewriteCounted ==
  ASSUME TypeOK, ExecutionsCounted, ListsSound,
         NEW seen \in Lists, NEW c \in Command, RewriteQueued(seen, c),
         UNCHANGED <<executed, checkins, epoch, pc, todo>>,
         \A a \in Action : a # c => status'[a] = status[a],
         c \in Action => status[c] = "none" /\ status'[c] # "none"
  PROVE  ExecutionsCounted'
  <1>1. /\ pending' = Append(seen, c)
        /\ revived' = [a \in Action |-> IF a \in Revived(seen) THEN revived[a] + 1 ELSE revived[a]]
    BY DEF RewriteQueued, Queue
  <1>2. seen \in Seq(Command)
    BY DEF Lists, TypeOK, Copy
  <1>3. Tasks(pending)' = Tasks(seen) \cup ({c} \cap Action)
    BY <1>1, <1>2, TasksOfAppend
  <1> SUFFICES ASSUME NEW a \in Action
               PROVE  executed[a] + Count(Awaits(a)') + Count(Has(a)')
                        =< Count(status'[a] # "none") + revived'[a]
    BY DEF ExecutionsCounted, Count
  <1>4. Has(a)' <=> Has(a)
    BY DEF Has, Left, Current, Tasks
  <1>5. Awaits(a)' => Awaits(a) \/ a \in Tasks(seen) \/ a = c
    BY <1>3 DEF Awaits, Current, Tasks
  <1>6. Count(Has(a)') = Count(Has(a))
    BY <1>4, AreBoolean DEF Count
  <1>7. /\ Count(Awaits(a)') \in {0, 1} /\ Count(Awaits(a)) \in {0, 1} /\ Count(Has(a)) \in {0, 1}
        /\ Count(status[a] # "none") \in {0, 1} /\ Count(status'[a] # "none") \in {0, 1}
    BY AreBoolean, CountIs
  <1>8. executed[a] \in Nat /\ revived[a] \in Nat
    BY DEF TypeOK
  <1>9. executed[a] + Count(Awaits(a)) + Count(Has(a)) =< Count(status[a] # "none") + revived[a]
    BY DEF ExecutionsCounted
  <1>10. CASE a = c
    <2>1. a \notin Tasks(seen)
      BY <1>10 DEF ListsSound
    <2>2. revived'[a] = revived[a]
      BY <1>1, <2>1 DEF Revived
    <2>3. Count(status[a] # "none") = 0 /\ Count(status'[a] # "none") = 1
      BY <1>10 DEF Count
    <2> QED
      BY <1>6, <1>7, <1>8, <1>9, <2>2, <2>3
  <1>11. CASE a # c
    <2>1. Count(status'[a] # "none") = Count(status[a] # "none")
      BY <1>11
    <2>2. CASE a \in Revived(seen)
      <3>1. revived'[a] = revived[a] + 1
        BY <1>1, <2>2
      <3> QED
        BY <1>6, <1>7, <1>8, <1>9, <2>1, <3>1
    <2>3. CASE a \notin Revived(seen)
      <3>1. revived'[a] = revived[a]
        BY <1>1, <2>3
      <3>2. Awaits(a)' => Awaits(a)
        BY <1>5, <1>11, <2>3 DEF Revived, Awaits, Tasks
      <3>3. Count(Awaits(a)') =< Count(Awaits(a))
        BY <3>2, AreBoolean, CountIs
      <3> QED
        BY <1>6, <1>7, <1>8, <1>9, <2>1, <3>1, <3>3
    <2> QED
      BY <2>2, <2>3
  <1> QED
    BY <1>10, <1>11

-------------------------------------------------------------------------------
(* The start.                                                              *)

LEMMA InitChannel == Init => ChannelInv
  <1> SUFFICES ASSUME Init PROVE ChannelInv
    OBVIOUS
  <1>1. TypeOK
    <2>1. orders \in 0..MaxRequests /\ faults \in 0..MaxFaults
      BY Bounds DEF Init
    <2>2. /\ Closed \in Copy /\ responds \in [Action -> Copy]
          /\ detection \in Copy /\ setting \in Copy /\ turn \in Turns
      BY DEF Init, Closed, Copy, Turns
    <2>3. pending \in Seq(Command) /\ todo \in Seq(Command) /\ outbox \in Seq(Result)
      BY DEF Init
    <2>4. /\ isolated \in BOOLEAN /\ level \in BOOLEAN /\ obeyed \in BOOLEAN
          /\ checkins = {} /\ lost = {} /\ epoch \in Nat /\ pc = "idle"
      BY DEF Init
    <2>5. /\ kind \in [Action -> Kinds \cup {"none"}]
          /\ status \in [Action -> {"none", "queued", "completed", "failed"}]
          /\ executed \in [Action -> Nat] /\ revived \in [Action -> Nat]
          /\ reported \in [Action -> SUBSET {"ok", "failed"}]
      BY DEF Init
    <2> QED
      BY <2>1, <2>2, <2>3, <2>4, <2>5 DEF TypeOK
  <1>2. OneCheckin /\ HoldsTask /\ QueuedOnce /\ ReportsAreReal /\ SettledAsReported
    BY DEF Init, OneCheckin, Current, HoldsTask, QueuedOnce, ReportsAreReal, SettledAsReported, Closed
  <1>3. ListsSound
    <2>1. \A cmds \in Lists : cmds = <<>>
      BY DEF Init, Lists, Closed
    <2> QED
      BY <2>1, NoTasks DEF ListsSound
  <1>4. ExecutionsCounted
    <2> SUFFICES ASSUME NEW a \in Action
                 PROVE  executed[a] + Count(Awaits(a)) + Count(Has(a)) =< Count(status[a] # "none") + revived[a]
      BY DEF ExecutionsCounted
    <2>1. ~ Awaits(a) /\ ~ Has(a)
      BY NoTasks DEF Init, Awaits, Has, Current, Left
    <2>2. Count(Awaits(a)) = 0 /\ Count(Has(a)) = 0
      BY <2>1 DEF Count
    <2>3. executed[a] = 0 /\ revived[a] = 0 /\ Count(status[a] # "none") = 0
      BY DEF Init, Count
    <2> QED
      BY <2>2, <2>3
  <1> QED
    BY <1>1, <1>2, <1>3, <1>4 DEF ChannelInv

-------------------------------------------------------------------------------
(* Responders, administrators and detections.                              *)

LEMMA RewriteTyped ==
  ASSUME TypeOK, NEW seen \in Lists, NEW c \in Command, RewriteQueued(seen, c)
  PROVE  /\ seen \in Seq(Command) /\ pending' = Append(seen, c) /\ pending' \in Seq(Command)
         /\ lost' \subseteq Action /\ revived' \in [Action -> Nat]
  <1>1. seen \in Seq(Command)
    BY DEF Lists, TypeOK, Copy
  <1>2. pending' = Append(seen, c) /\ pending' \in Seq(Command)
    BY <1>1 DEF RewriteQueued, Queue
  <1>3. lost' \subseteq Action
    BY TasksAre DEF RewriteQueued, Overwritten, TypeOK
  <1>4. revived' \in [Action -> Nat]
    BY DEF RewriteQueued, TypeOK
  <1> QED
    BY <1>1, <1>2, <1>3, <1>4

\* What is left alone by the handlers that only rewrite the column.
LEMMA AgentAlone ==
  ASSUME ChannelInv, UNCHANGED <<checkins, agent, executed, reported>>
  PROVE  /\ OneCheckin' /\ HoldsTask' /\ ReportsAreReal'
         /\ UNCHANGED <<pc, epoch, todo, level, obeyed, outbox, turn>>
  BY DEF ChannelInv, agent, OneCheckin, Current, HoldsTask, ReportsAreReal

LEMMA KeepsRespondLoad ==
  ASSUME ChannelInv, NEW a \in Action, NEW k \in Kinds, RespondLoad(a, k)
  PROVE  ChannelInv'
  <1>1. /\ kind[a] = "none"
        /\ kind' = [kind EXCEPT ![a] = k]
        /\ responds' = [responds EXCEPT ![a] = Loaded]
        /\ UNCHANGED <<pending, isolated, status, detection, setting, checkins, agent>>
        /\ UNCHANGED <<orders, faults, executed, reported, revived, lost>>
    BY DEF RespondLoad, bounds, history
  <1>2. /\ OneCheckin' /\ HoldsTask' /\ ReportsAreReal'
        /\ UNCHANGED <<pc, epoch, todo, level, obeyed, outbox, turn>>
    BY <1>1, AgentAlone
  <1>3. TypeOK /\ QueuedOnce /\ ListsSound /\ ExecutionsCounted /\ SettledAsReported
    BY DEF ChannelInv
  <1>4. Loaded \in Copy /\ Loaded.cmds = pending /\ k # "none"
    BY <1>3, ChannelAssumption DEF Loaded, Copy, TypeOK
  <1>5. /\ responds' \in [Action -> Copy] /\ responds'[a] = Loaded /\ kind'[a] = k
        /\ kind' \in [Action -> Kinds \cup {"none"}]
        /\ \A b \in Action : b # a => responds'[b] = responds[b] /\ kind'[b] = kind[b]
    BY <1>1, <1>3, <1>4 DEF TypeOK
  <1>6. TypeOK'
    BY <1>1, <1>2, <1>3, <1>5 DEF TypeOK
  <1>7. QueuedOnce'
    BY <1>1, <1>3, <1>4, <1>5 DEF QueuedOnce
  <1>8. ListsSound'
    <2>1. \A cmds \in Lists' : cmds \in Lists
      BY <1>1, <1>2, <1>4, <1>5 DEF Lists
    <2> QED
      BY <2>1, <1>1, <1>3, ListsKept
  <1>9. ExecutionsCounted'
    BY <1>1, <1>2, <1>3, CountsKept DEF Awaits, Has, Current, Left, Tasks
  <1>10. SettledAsReported'
    BY <1>1, <1>3 DEF SettledAsReported
  <1> QED
    BY <1>2, <1>6, <1>7, <1>8, <1>9, <1>10 DEF ChannelInv

LEMMA KeepsDispatch ==
  ASSUME ChannelInv, NEW a \in Action, Dispatch(a)
  PROVE  ChannelInv'
  <1> DEFINE seen == responds[a].cmds
  <1>1. /\ responds[a].open
        /\ status' = [status EXCEPT ![a] = "queued"]
        /\ RewriteQueued(seen, a)
        /\ responds' = [responds EXCEPT ![a] = Closed]
        /\ UNCHANGED <<isolated, kind, detection, setting, checkins, agent, orders, faults, executed, reported>>
    BY DEF Dispatch, bounds
  <1>2. /\ OneCheckin' /\ HoldsTask' /\ ReportsAreReal'
        /\ UNCHANGED <<pc, epoch, todo, level, obeyed, outbox, turn>>
    BY <1>1, AgentAlone
  <1>3. TypeOK /\ QueuedOnce /\ ListsSound /\ ExecutionsCounted /\ SettledAsReported
    BY DEF ChannelInv
  <1>4. seen \in Lists /\ a \in Command
    BY ActionsAre DEF Lists
  <1>5. /\ pending' = Append(seen, a) /\ pending' \in Seq(Command)
        /\ lost' \subseteq Action /\ revived' \in [Action -> Nat]
    BY <1>1, <1>3, <1>4, RewriteTyped
  <1>6. status[a] = "none" /\ kind[a] # "none"
    BY <1>1, <1>3 DEF QueuedOnce
  <1>7. /\ Closed \in Copy /\ Closed.cmds = <<>> /\ ~ Closed.open
        /\ responds' \in [Action -> Copy] /\ responds'[a] = Closed
        /\ \A b \in Action : b # a => responds'[b] = responds[b]
    BY <1>1, <1>3 DEF TypeOK, Closed, Copy
  <1>8. /\ status' \in [Action -> {"none", "queued", "completed", "failed"}]
        /\ status'[a] = "queued"
        /\ \A b : b # a => status'[b] = status[b]
    BY <1>1, <1>3 DEF TypeOK
  <1>9. TypeOK'
    BY <1>1, <1>2, <1>3, <1>5, <1>7, <1>8 DEF TypeOK
  <1>10. QueuedOnce'
    BY <1>1, <1>3, <1>6, <1>7, <1>8 DEF QueuedOnce
  <1>11. ListsSound'
    <2>1. \A cmds \in Lists' : cmds \in Lists \/ cmds = <<>> \/ cmds = Append(seen, a)
      BY <1>1, <1>2, <1>5, <1>7 DEF Lists
    <2> HIDE DEF seen
    <2> QED
      BY <2>1, <1>3, <1>4, <1>6, <1>8, ListsKept
  <1>12. ExecutionsCounted'
    <2> HIDE DEF seen
    <2> QED
      BY <1>1, <1>2, <1>3, <1>4, <1>6, <1>8, RewriteCounted
  <1>13. SettledAsReported'
    BY <1>1, <1>3, <1>8 DEF SettledAsReported
  <1> QED
    BY <1>2, <1>9, <1>10, <1>11, <1>12, <1>13 DEF ChannelInv

LEMMA KeepsIsolationLoad ==
  ASSUME ChannelInv, NEW v \in BOOLEAN, IsolationLoad(v)
  PROVE  ChannelInv'
  <1> DEFINE copy == [Loaded EXCEPT !.isolated = v]
  <1>1. /\ Requests < MaxRequests
        /\ orders' = orders + 1
        /\ setting' = copy
        /\ UNCHANGED <<pending, isolated, kind, status, responds, detection, checkins, agent>>
        /\ UNCHANGED <<faults, executed, reported, revived, lost>>
    BY DEF IsolationLoad, server, history
  <1>2. /\ OneCheckin' /\ HoldsTask' /\ ReportsAreReal'
        /\ UNCHANGED <<pc, epoch, todo, level, obeyed, outbox, turn>>
    BY <1>1, AgentAlone
  <1>3. TypeOK /\ QueuedOnce /\ ListsSound /\ ExecutionsCounted /\ SettledAsReported
    BY DEF ChannelInv
  <1>4. copy \in Copy /\ copy.cmds = pending
    BY <1>3 DEF Loaded, Copy, TypeOK
  <1> HIDE DEF copy
  <1>5. orders' \in 0..MaxRequests
    <2>1. Cardinality({a \in Action : kind[a] # "none"}) \in Nat
      BY RequestsAreNat
    <2> QED
      BY <2>1, <1>1, <1>3, Bounds DEF Requests, TypeOK
  <1>6. TypeOK'
    BY <1>1, <1>2, <1>3, <1>4, <1>5 DEF TypeOK
  <1>7. QueuedOnce' /\ SettledAsReported'
    BY <1>1, <1>3 DEF QueuedOnce, SettledAsReported
  <1>8. ListsSound'
    <2>1. \A cmds \in Lists' : cmds \in Lists
      BY <1>1, <1>2, <1>4 DEF Lists
    <2> QED
      BY <2>1, <1>1, <1>3, ListsKept
  <1>9. ExecutionsCounted'
    BY <1>1, <1>2, <1>3, CountsKept DEF Awaits, Has, Current, Left, Tasks
  <1> QED
    BY <1>2, <1>6, <1>7, <1>8, <1>9 DEF ChannelInv

LEMMA KeepsSetIsolation ==
  ASSUME ChannelInv, SetIsolation
  PROVE  ChannelInv'
  <1> DEFINE seen == setting.cmds
  <1>1. /\ isolated' = setting.isolated
        /\ RewriteQueued(seen, Note)
        /\ setting' = Closed
        /\ UNCHANGED <<kind, status, responds, detection, checkins, agent, orders, faults>>
        /\ UNCHANGED <<executed, reported>>
    BY DEF SetIsolation, bounds
  <1>2. /\ OneCheckin' /\ HoldsTask' /\ ReportsAreReal'
        /\ UNCHANGED <<pc, epoch, todo, level, obeyed, outbox, turn>>
    BY <1>1, AgentAlone
  <1>3. TypeOK /\ QueuedOnce /\ ListsSound /\ ExecutionsCounted /\ SettledAsReported
    BY DEF ChannelInv
  <1>4. seen \in Lists /\ Note \in Command /\ Note \notin Action
    BY ActionsAre DEF Lists
  <1>5. /\ pending' = Append(seen, Note) /\ pending' \in Seq(Command)
        /\ lost' \subseteq Action /\ revived' \in [Action -> Nat]
    BY <1>1, <1>3, <1>4, RewriteTyped
  <1>6. Closed \in Copy /\ Closed.cmds = <<>> /\ isolated' \in BOOLEAN
    BY <1>1, <1>3 DEF Closed, Copy, TypeOK
  <1>7. TypeOK'
    BY <1>1, <1>2, <1>3, <1>5, <1>6 DEF TypeOK
  <1>8. QueuedOnce' /\ SettledAsReported'
    BY <1>1, <1>3 DEF QueuedOnce, SettledAsReported
  <1>9. ListsSound'
    <2>1. \A cmds \in Lists' : cmds \in Lists \/ cmds = <<>> \/ cmds = Append(seen, Note)
      BY <1>1, <1>2, <1>5, <1>6 DEF Lists
    <2> HIDE DEF seen
    <2> QED
      BY <2>1, <1>1, <1>3, <1>4, ListsKept
  <1>10. ExecutionsCounted'
    <2> HIDE DEF seen
    <2> QED
      BY <1>1, <1>2, <1>3, <1>4, RewriteCounted
  <1> QED
    BY <1>2, <1>7, <1>8, <1>9, <1>10 DEF ChannelInv

LEMMA KeepsDetect ==
  ASSUME ChannelInv, Detect
  PROVE  ChannelInv'
  <1>1. /\ Requests < MaxRequests
        /\ orders' = orders + 1
        /\ detection' = Loaded
        /\ UNCHANGED <<pending, isolated, kind, status, responds, setting, checkins, agent, faults>>
        /\ UNCHANGED <<executed, reported, revived, lost>>
    BY DEF Detect, server, history
  <1>2. /\ OneCheckin' /\ HoldsTask' /\ ReportsAreReal'
        /\ UNCHANGED <<pc, epoch, todo, level, obeyed, outbox, turn>>
    BY <1>1, AgentAlone
  <1>3. TypeOK /\ QueuedOnce /\ ListsSound /\ ExecutionsCounted /\ SettledAsReported
    BY DEF ChannelInv
  <1>4. Loaded \in Copy /\ Loaded.cmds = pending
    BY <1>3 DEF Loaded, Copy, TypeOK
  <1>5. orders' \in 0..MaxRequests
    <2>1. Cardinality({a \in Action : kind[a] # "none"}) \in Nat
      BY RequestsAreNat
    <2> QED
      BY <2>1, <1>1, <1>3, Bounds DEF Requests, TypeOK
  <1>6. TypeOK'
    BY <1>1, <1>2, <1>3, <1>4, <1>5 DEF TypeOK
  <1>7. QueuedOnce' /\ SettledAsReported'
    BY <1>1, <1>3 DEF QueuedOnce, SettledAsReported
  <1>8. ListsSound'
    <2>1. \A cmds \in Lists' : cmds \in Lists
      BY <1>1, <1>2, <1>4 DEF Lists
    <2> QED
      BY <2>1, <1>1, <1>3, ListsKept
  <1>9. ExecutionsCounted'
    BY <1>1, <1>2, <1>3, CountsKept DEF Awaits, Has, Current, Left, Tasks
  <1> QED
    BY <1>2, <1>6, <1>7, <1>8, <1>9 DEF ChannelInv

LEMMA KeepsAutoIsolate ==
  ASSUME ChannelInv, AutoIsolate
  PROVE  ChannelInv'
  <1>1. /\ IF detection.isolated
           THEN UNCHANGED <<pending, isolated, lost, revived>>
           ELSE isolated' = TRUE /\ RewriteQueued(detection.cmds, Note)
        /\ detection' = Closed
        /\ UNCHANGED <<kind, status, responds, setting, checkins, agent, orders, faults>>
        /\ UNCHANGED <<executed, reported>>
    BY DEF AutoIsolate, bounds
  <1>2. /\ OneCheckin' /\ HoldsTask' /\ ReportsAreReal'
        /\ UNCHANGED <<pc, epoch, todo, level, obeyed, outbox, turn>>
    BY <1>1, AgentAlone
  <1>3. TypeOK /\ QueuedOnce /\ ListsSound /\ ExecutionsCounted /\ SettledAsReported
    BY DEF ChannelInv
  <1>4. Closed \in Copy /\ Closed.cmds = <<>>
    BY DEF Closed, Copy
  <1>5. QueuedOnce' /\ SettledAsReported'
    BY <1>1, <1>3 DEF QueuedOnce, SettledAsReported
  <1>6. CASE detection.isolated
    <2>1. UNCHANGED <<pending, isolated, lost, revived>>
      BY <1>1, <1>6
    <2>2. TypeOK'
      BY <1>1, <1>2, <1>3, <1>4, <2>1 DEF TypeOK
    <2>3. \A cmds \in Lists' : cmds \in Lists \/ cmds = <<>>
      BY <1>1, <1>2, <1>4, <2>1 DEF Lists
    <2>4. ListsSound'
      BY <2>3, <1>1, <1>3, ListsKept
    <2>5. ExecutionsCounted'
      BY <1>1, <1>2, <1>3, <2>1, CountsKept DEF Awaits, Has, Current, Left, Tasks
    <2> QED
      BY <1>2, <1>5, <2>2, <2>4, <2>5 DEF ChannelInv
  <1>7. CASE ~ detection.isolated
    <2>1. isolated' = TRUE /\ RewriteQueued(detection.cmds, Note)
      BY <1>1, <1>7
    <2>2. detection.cmds \in Lists /\ Note \in Command /\ Note \notin Action
      BY ActionsAre DEF Lists
    <2>3. /\ pending' = Append(detection.cmds, Note) /\ pending' \in Seq(Command)
          /\ lost' \subseteq Action /\ revived' \in [Action -> Nat]
      BY <1>3, <2>1, <2>2, RewriteTyped
    <2>4. TypeOK'
      BY <1>1, <1>2, <1>3, <1>4, <2>1, <2>3 DEF TypeOK
    <2>5. \A cmds \in Lists' : cmds \in Lists \/ cmds = <<>> \/ cmds = Append(detection.cmds, Note)
      BY <1>1, <1>2, <1>4, <2>3 DEF Lists
    <2>6. ListsSound'
      BY <2>2, <2>5, <1>1, <1>3, ListsKept
    <2>7. ExecutionsCounted'
      BY <1>1, <1>2, <1>3, <2>1, <2>2, RewriteCounted
    <2> QED
      BY <1>2, <1>5, <2>4, <2>6, <2>7 DEF ChannelInv
  <1> QED
    BY <1>6, <1>7

-------------------------------------------------------------------------------
(* Check-in.                                                               *)

Request == [epoch : Nat, stage : Stages, cmds : Seq(Command), isolated : BOOLEAN]

\* What is left alone by the steps of a check-in before its answer arrives.
LEMMA ServerAlone ==
  ASSUME ChannelInv, UNCHANGED <<kind, status, responds, todo, outbox, reported>>
  PROVE  QueuedOnce' /\ ReportsAreReal' /\ SettledAsReported'
  BY DEF ChannelInv, QueuedOnce, ReportsAreReal, SettledAsReported

LEMMA KeepsCheckinSend ==
  ASSUME ChannelInv, CheckinSend
  PROVE  ChannelInv'
  <1> DEFINE new == [epoch |-> epoch, stage |-> "sent", cmds |-> <<>>, isolated |-> FALSE]
  <1>1. /\ pc = "idle"
        /\ checkins' = checkins \cup {new}
        /\ pc' = "waiting"
        /\ UNCHANGED <<pending, isolated, kind, status, responds, detection, setting, turn, epoch, todo, level,
                       obeyed, outbox, orders, faults, executed, reported, revived, lost>>
    BY DEF CheckinSend, server, bounds, history, handlers
  <1>2. TypeOK /\ OneCheckin /\ ListsSound /\ ExecutionsCounted
    BY DEF ChannelInv
  <1>3. new \in Request /\ new.epoch = epoch /\ new.stage = "sent" /\ new.cmds = <<>>
    BY <1>2 DEF TypeOK, Request, Stages
  <1> HIDE DEF new
  <1>4. Current = {} /\ Current' = {new}
    BY <1>1, <1>2, <1>3 DEF OneCheckin, Current
  <1>5. TypeOK'
    BY <1>1, <1>2, <1>3 DEF TypeOK, Request
  <1>6. OneCheckin'
    <2>1. epoch =< epoch
      BY <1>2 DEF TypeOK
    <2> QED
      BY <2>1, <1>1, <1>2, <1>3, <1>4 DEF OneCheckin
  <1>7. HoldsTask'
    BY <1>1 DEF HoldsTask
  <1>8. QueuedOnce' /\ ReportsAreReal' /\ SettledAsReported'
    BY <1>1, ServerAlone
  <1>9. ListsSound'
    <2>1. \A cmds \in Lists' : cmds \in Lists \/ cmds = <<>>
      BY <1>1, <1>3 DEF Lists
    <2> QED
      BY <2>1, <1>1, <1>2, ListsKept
  <1>10. ExecutionsCounted'
    <2>1. \A a \in Action : (Awaits(a)' => Awaits(a)) /\ (Has(a)' => Has(a))
      BY <1>1, <1>3, <1>4 DEF Awaits, Has, Left, Tasks
    <2> QED
      BY <2>1, <1>1, <1>2, CountsKept
  <1> QED
    BY <1>5, <1>6, <1>7, <1>8, <1>9, <1>10 DEF ChannelInv

LEMMA KeepsCheckinLoad ==
  ASSUME ChannelInv, NEW r \in checkins, CheckinLoad(r)
  PROVE  ChannelInv'
  <1> DEFINE s == [r EXCEPT !.stage = "loaded", !.cmds = pending, !.isolated = isolated]
  <1>1. /\ r.stage = "sent"
        /\ checkins' = (checkins \ {r}) \cup {s}
        /\ UNCHANGED <<pending, isolated, kind, status, responds, detection, setting, turn, pc, epoch, todo, level,
                       obeyed, outbox, orders, faults, executed, reported, revived, lost>>
    BY DEF CheckinLoad, Becomes, server, agent, bounds, history, handlers
  <1>2. TypeOK /\ OneCheckin /\ HoldsTask /\ ListsSound /\ ExecutionsCounted
    BY DEF ChannelInv
  <1>3. /\ r \in Request /\ s \in Request
        /\ s.epoch = r.epoch /\ s.stage = "loaded" /\ s.cmds = pending
    BY <1>2 DEF TypeOK, Request, Stages
  <1> HIDE DEF s
  <1>4. Current' \subseteq (Current \ {r}) \cup {s} /\ (s \in Current' => r \in Current)
    BY <1>1, <1>3 DEF Current
  <1>5. TypeOK'
    BY <1>1, <1>2, <1>3 DEF TypeOK, Request
  <1>6. OneCheckin'
    BY <1>1, <1>2, <1>3, <1>4 DEF OneCheckin
  <1>7. HoldsTask'
    BY <1>1, <1>2 DEF HoldsTask
  <1>8. QueuedOnce' /\ ReportsAreReal' /\ SettledAsReported'
    BY <1>1, ServerAlone
  <1>9. ListsSound'
    <2>1. \A cmds \in Lists' : cmds \in Lists
      BY <1>1, <1>3 DEF Lists
    <2> QED
      BY <2>1, <1>1, <1>2, ListsKept
  <1>10. ExecutionsCounted'
    <2>1. \A a \in Action : (Awaits(a)' => Awaits(a)) /\ (Has(a)' => Has(a))
      BY <1>1, <1>3, <1>4 DEF Awaits, Has, Left, Tasks
    <2> QED
      BY <2>1, <1>1, <1>2, CountsKept
  <1> QED
    BY <1>5, <1>6, <1>7, <1>8, <1>9, <1>10 DEF ChannelInv

\* The commands leave the column as they are handed out.
LEMMA KeepsCheckin ==
  ASSUME ChannelInv, NEW r \in checkins, Checkin(r)
  PROVE  ChannelInv'
  <1> DEFINE s == Reply(r)
  <1>1. /\ r.stage = "loaded"
        /\ pending' = IF r.cmds = <<>> THEN pending ELSE <<>>
        /\ lost' = lost \cup (IF r.cmds = <<>> THEN {} ELSE Overwritten(r.cmds))
                        \cup (IF r.epoch = epoch THEN {} ELSE Tasks(r.cmds))
        /\ checkins' = (checkins \ {r}) \cup (IF r.epoch = epoch THEN {s} ELSE {})
        /\ UNCHANGED <<isolated, kind, status, responds, detection, setting, turn, pc, epoch, todo, level,
                       obeyed, outbox, orders, faults, executed, reported, revived>>
    BY DEF Checkin, Becomes, Emptied, agent, bounds, handlers
  <1>2. TypeOK /\ OneCheckin /\ HoldsTask /\ ListsSound /\ ExecutionsCounted
    BY DEF ChannelInv
  <1>3. /\ r \in Request /\ s \in Request
        /\ s.epoch = r.epoch /\ s.stage = "answered" /\ s.cmds = r.cmds
    BY <1>2 DEF TypeOK, Request, Stages, Reply
  <1> HIDE DEF s
  <1>4. Current' = (Current \ {r}) \cup (IF r.epoch = epoch THEN {s} ELSE {})
    BY <1>1, <1>3 DEF Current
  <1>5. r.epoch = epoch => Current = {r} /\ Current' = {s}
    BY <1>2, <1>4 DEF OneCheckin, Current
  <1>6. r.epoch # epoch => Current' = Current
    BY <1>4 DEF Current
  <1>7. TypeOK'
    <2>1. lost' \subseteq Action
      BY <1>1, <1>2, TasksAre DEF TypeOK, Overwritten
    <2>2. pending' \in Seq(Command)
      BY <1>1, <1>2 DEF TypeOK
    <2> QED
      BY <2>1, <2>2, <1>1, <1>2, <1>3 DEF TypeOK, Request
  <1>8. OneCheckin'
    <2>1. CASE r.epoch = epoch
      <3>1. epoch =< epoch
        BY <1>2 DEF TypeOK
      <3> QED
        BY <2>1, <3>1, <1>1, <1>2, <1>3, <1>5 DEF OneCheckin
    <2>2. CASE r.epoch # epoch
      BY <2>2, <1>1, <1>2, <1>6 DEF OneCheckin
    <2> QED
      BY <2>1, <2>2
  <1>9. HoldsTask'
    BY <1>1, <1>2 DEF HoldsTask
  <1>10. QueuedOnce' /\ ReportsAreReal' /\ SettledAsReported'
    BY <1>1, ServerAlone
  <1>11. ListsSound'
    <2>1. \A cmds \in Lists' : cmds \in Lists \/ cmds = <<>>
      BY <1>1, <1>3 DEF Lists
    <2> QED
      BY <2>1, <1>1, <1>2, ListsKept
  <1>12. CASE r.epoch # epoch \/ r.cmds = <<>>
    <2>1. Tasks(pending)' \subseteq Tasks(pending) /\ Tasks(Left)' = Tasks(Left)
      BY <1>1, NoTasks DEF Left, Tasks
    <2>2. \A q \in Current' : q \in Current \/ Tasks(q.cmds) = {}
      BY <1>3, <1>5, <1>6, <1>12, NoTasks
    <2>3. \A a \in Action : (Awaits(a)' => Awaits(a)) /\ (Has(a)' => Has(a))
      BY <2>1, <2>2 DEF Awaits, Has, Tasks
    <2>4. ExecutionsCounted'
      BY <2>3, <1>1, <1>2, CountsKept
    <2> QED
      BY <2>4, <1>7, <1>8, <1>9, <1>10, <1>11 DEF ChannelInv
  <1>13. CASE r.epoch = epoch /\ r.cmds # <<>>
    <2>1. ExecutionsCounted'
      <3> SUFFICES ASSUME NEW a \in Action
                   PROVE  executed[a] + Count(Awaits(a)') + Count(Has(a)')
                            =< Count(status[a] # "none") + revived[a]
        BY <1>1 DEF ExecutionsCounted, Count
      <3>1. ~ Awaits(a)'
        <4>1. Tasks(pending)' = {}
          BY <1>1, <1>13, NoTasks DEF Tasks
        <4> QED
          BY <4>1, <1>3, <1>5, <1>13 DEF Awaits
      <3>2. Has(a)' => Awaits(a) \/ Has(a)
        <4>1. Tasks(Left)' = Tasks(Left)
          BY <1>1 DEF Left, Tasks
        <4>2. a \in Tasks(r.cmds) => Awaits(a)
          BY <1>1, <1>5, <1>13 DEF Awaits
        <4>3. Has(a)' => a \in Tasks(Left) \/ a \in Tasks(r.cmds)
          BY <4>1, <1>3, <1>5, <1>13 DEF Has, Tasks
        <4> QED
          BY <4>2, <4>3 DEF Has
      <3>3. Count(Awaits(a)') = 0 /\ Count(Has(a)') =< Count(Awaits(a)) + Count(Has(a))
        BY <3>1, <3>2, AreBoolean, CountIs
      <3>4. /\ Count(Awaits(a)) \in {0, 1} /\ Count(Has(a)) \in {0, 1} /\ Count(Has(a)') \in {0, 1}
            /\ Count(status[a] # "none") \in {0, 1}
        BY AreBoolean, CountIs
      <3>5. executed[a] \in Nat /\ revived[a] \in Nat
        BY <1>2 DEF TypeOK
      <3>6. executed[a] + Count(Awaits(a)) + Count(Has(a)) =< Count(status[a] # "none") + revived[a]
        BY <1>2 DEF ExecutionsCounted
      <3> QED
        BY <3>3, <3>4, <3>5, <3>6
    <2> QED
      BY <2>1, <1>7, <1>8, <1>9, <1>10, <1>11 DEF ChannelInv
  <1> QED
    BY <1>12, <1>13

LEMMA KeepsCheckinReceive ==
  ASSUME ChannelInv, NEW r \in checkins, CheckinReceive(r)
  PROVE  ChannelInv'
  <1>1. /\ r.stage = "answered" /\ r.epoch = epoch
        /\ todo' = r.cmds
        /\ level' = r.isolated
        /\ pc' = "handling"
        /\ checkins' = checkins \ {r}
        /\ UNCHANGED <<pending, isolated, kind, status, responds, detection, setting, turn, epoch,
                       obeyed, outbox, orders, faults, executed, reported, revived, lost>>
    BY DEF CheckinReceive, RepliedLevel, server, bounds, history, handlers
  <1>2. TypeOK /\ OneCheckin /\ ListsSound /\ ExecutionsCounted
    BY DEF ChannelInv
  <1>3. r \in Request
    BY <1>2 DEF TypeOK, Request
  <1>4. Current = {r} /\ Current' = {}
    BY <1>1, <1>2 DEF OneCheckin, Current
  <1>5. TypeOK'
    BY <1>1, <1>2, <1>3 DEF TypeOK, Request
  <1>6. OneCheckin' /\ HoldsTask'
    BY <1>1, <1>2, <1>4 DEF OneCheckin, HoldsTask
  <1>7. QueuedOnce' /\ ReportsAreReal' /\ SettledAsReported'
    BY <1>1 DEF ChannelInv, QueuedOnce, ReportsAreReal, SettledAsReported
  <1>8. ListsSound'
    <2>1. \A cmds \in Lists' : cmds \in Lists
      BY <1>1 DEF Lists
    <2> QED
      BY <2>1, <1>1, <1>2, ListsKept
  <1>9. ExecutionsCounted'
    <2>1. \A a \in Action : (Awaits(a)' => Awaits(a)) /\ (Has(a)' => Has(a))
      BY <1>1, <1>4 DEF Awaits, Has, Left, Tasks
    <2> QED
      BY <2>1, <1>1, <1>2, CountsKept
  <1> QED
    BY <1>5, <1>6, <1>7, <1>8, <1>9 DEF ChannelInv

\* A check-in that is given up is nobody's: its answer will not be read.
LEMMA GivenUp ==
  ASSUME ChannelInv, GiveUp
  PROVE  /\ faults' \in 0..MaxFaults /\ epoch' \in Nat /\ epoch' = epoch + 1
         /\ checkins' \subseteq checkins /\ Current' = {}
         /\ \A r \in checkins' : r.epoch =< epoch' /\ r.stage # "answered"
  <1>1. TypeOK /\ OneCheckin
    BY DEF ChannelInv
  <1>2. /\ faults < MaxFaults /\ faults' = faults + 1 /\ epoch' = epoch + 1
        /\ checkins' = checkins \ Unread
    BY DEF GiveUp, Fail
  <1>3. faults' \in 0..MaxFaults /\ epoch' \in Nat /\ epoch \in Nat
    BY <1>1, <1>2, Bounds DEF TypeOK
  <1>4. \A r \in checkins : r.epoch \in Nat /\ r.epoch =< epoch
    BY <1>1 DEF TypeOK, OneCheckin
  <1>5. \A r \in checkins : r.epoch =< epoch' /\ r.epoch # epoch'
    BY <1>2, <1>3, <1>4
  <1> QED
    BY <1>2, <1>3, <1>5 DEF Current, Unread

LEMMA KeepsCheckinTimeout ==
  ASSUME ChannelInv, CheckinTimeout
  PROVE  ChannelInv'
  <1>1. /\ pc = "waiting"
        /\ GiveUp
        /\ pc' = Flushing
        /\ lost' = lost \cup UNION {Tasks(r.cmds) : r \in Unread}
        /\ UNCHANGED <<pending, isolated, kind, status, responds, detection, setting, turn, todo, level, obeyed,
                       outbox, orders, executed, reported, revived>>
    BY DEF CheckinTimeout, server, handlers
  <1>2. TypeOK /\ ListsSound /\ ExecutionsCounted
    BY DEF ChannelInv
  <1>3. /\ faults' \in 0..MaxFaults /\ epoch' \in Nat
        /\ checkins' \subseteq checkins /\ Current' = {}
        /\ \A r \in checkins' : r.epoch =< epoch' /\ r.stage # "answered"
    BY <1>1, GivenUp
  <1>4. pc' \in {"idle", "flushing"}
    BY <1>1 DEF Flushing
  <1>5. TypeOK'
    <2>1. lost' \subseteq Action
      BY <1>1, <1>2, TasksAre DEF TypeOK
    <2>2. \A r \in checkins' : r \in Request
      BY <1>2, <1>3 DEF TypeOK, Request
    <2> QED
      BY <2>1, <2>2, <1>1, <1>2, <1>3, <1>4 DEF TypeOK, Request
  <1>6. OneCheckin' /\ HoldsTask'
    BY <1>3, <1>4 DEF OneCheckin, HoldsTask
  <1>7. QueuedOnce' /\ ReportsAreReal' /\ SettledAsReported'
    BY <1>1, ServerAlone
  <1>8. ListsSound'
    <2>1. \A cmds \in Lists' : cmds \in Lists
      BY <1>1, <1>3 DEF Lists
    <2> QED
      BY <2>1, <1>1, <1>2, ListsKept
  <1>9. ExecutionsCounted'
    <2>1. \A a \in Action : (Awaits(a)' => Awaits(a)) /\ (Has(a)' => Has(a))
      BY <1>1, <1>3, <1>4 DEF Awaits, Has, Left, Tasks
    <2> QED
      BY <2>1, <1>1, <1>2, CountsKept
  <1> QED
    BY <1>5, <1>6, <1>7, <1>8, <1>9 DEF ChannelInv

LEMMA KeepsCheckinLost ==
  ASSUME ChannelInv, NEW r \in checkins, CheckinLost(r)
  PROVE  ChannelInv'
  <1>1. /\ checkins' = checkins \ {r}
        /\ UNCHANGED <<pending, isolated, kind, status, responds, detection, setting, turn, pc, epoch, todo, level,
                       obeyed, outbox, orders, faults, executed, reported, revived, lost>>
    BY DEF CheckinLost, server, agent, bounds, history, handlers
  <1>2. TypeOK /\ OneCheckin /\ HoldsTask /\ ListsSound /\ ExecutionsCounted
    BY DEF ChannelInv
  <1>3. Current' \subseteq Current
    BY <1>1 DEF Current
  <1>4. TypeOK'
    BY <1>1, <1>2 DEF TypeOK
  <1>5. OneCheckin' /\ HoldsTask'
    BY <1>1, <1>2, <1>3 DEF OneCheckin, HoldsTask
  <1>6. QueuedOnce' /\ ReportsAreReal' /\ SettledAsReported'
    BY <1>1, ServerAlone
  <1>7. ListsSound'
    <2>1. \A cmds \in Lists' : cmds \in Lists
      BY <1>1 DEF Lists
    <2> QED
      BY <2>1, <1>1, <1>2, ListsKept
  <1>8. ExecutionsCounted'
    <2>1. \A a \in Action : (Awaits(a)' => Awaits(a)) /\ (Has(a)' => Has(a))
      BY <1>1, <1>3 DEF Awaits, Has, Left, Tasks
    <2> QED
      BY <2>1, <1>1, <1>2, CountsKept
  <1> QED
    BY <1>4, <1>5, <1>6, <1>7, <1>8 DEF ChannelInv

-------------------------------------------------------------------------------
(* The agent's loop.                                                       *)

LEMMA KeepsHandleIgnored ==
  ASSUME ChannelInv, HandleIgnored
  PROVE  ChannelInv'
  <1>1. /\ pc = "handling" /\ todo # <<>>
        /\ todo' = Tail(todo)
        /\ UNCHANGED <<pending, isolated, kind, status, responds, detection, setting, turn, checkins, pc, epoch, level,
                       obeyed, outbox, orders, faults, executed, reported, revived, lost>>
    BY DEF HandleIgnored, server, bounds, history, handlers
  <1>2. TypeOK /\ OneCheckin /\ ListsSound /\ ExecutionsCounted
    BY DEF ChannelInv
  <1>3. todo \in Seq(Command)
    BY <1>2 DEF TypeOK
  <1>4. Tail(todo) \in Seq(Command) /\ Tasks(Tail(todo)) \subseteq Tasks(todo)
    BY <1>1, <1>3, TasksOfTail
  <1>5. TypeOK'
    BY <1>1, <1>2, <1>4 DEF TypeOK
  <1>6. OneCheckin' /\ HoldsTask'
    BY <1>1, <1>2 DEF OneCheckin, Current, HoldsTask
  <1>7. QueuedOnce' /\ ReportsAreReal' /\ SettledAsReported'
    BY <1>1 DEF ChannelInv, QueuedOnce, ReportsAreReal, SettledAsReported
  <1>8. ListsSound'
    <2>1. \A cmds \in Lists' : cmds \in Lists \/ cmds = Tail(todo)
      BY <1>1 DEF Lists
    <2> QED
      BY <2>1, <1>1, <1>2, ListsKept
  <1>9. ExecutionsCounted'
    <2>1. \A a \in Action : (Awaits(a)' => Awaits(a)) /\ (Has(a)' => Has(a))
      BY <1>1, <1>4 DEF Awaits, Has, Current, Left, Tasks
    <2> QED
      BY <2>1, <1>1, <1>2, CountsKept
  <1> QED
    BY <1>5, <1>6, <1>7, <1>8, <1>9 DEF ChannelInv

\* The execution of a command is the last of it that the agent has.
LEMMA KeepsHandleTask ==
  ASSUME ChannelInv, HandleTask
  PROVE  ChannelInv'
  <1> DEFINE b == Head(todo)
  <1>1. /\ pc = "handling" /\ todo # <<>> /\ b \in Action
        /\ executed' = [executed EXCEPT ![b] = executed[b] + 1]
        /\ pc' = "reporting"
        /\ UNCHANGED <<pending, isolated, kind, status, responds, detection, setting, turn, checkins, epoch, todo, level,
                       obeyed, outbox, orders, faults, reported, revived, lost>>
    BY DEF HandleTask, IsTask, server, bounds, handlers
  <1>2. TypeOK /\ OneCheckin /\ ListsSound /\ ExecutionsCounted
    BY DEF ChannelInv
  <1>3. todo \in Seq(Command) /\ Single(todo)
    BY <1>2 DEF TypeOK, ListsSound, Lists, Single
  <1>4. /\ b \in Tasks(todo) /\ b \notin Tasks(Tail(todo))
        /\ Tasks(Tail(todo)) \subseteq Tasks(todo)
    BY <1>1, <1>3, TasksOfTail, SingleTail
  <1> HIDE DEF b
  <1>5. executed' \in [Action -> Nat] /\ \A a \in Action : executed'[a] = IF a = b THEN executed[a] + 1 ELSE executed[a]
    BY <1>1, <1>2 DEF TypeOK
  <1>6. Current = {} /\ Current' = {}
    BY <1>1, <1>2 DEF OneCheckin, Current
  <1>7. TypeOK'
    BY <1>1, <1>2, <1>5 DEF TypeOK
  <1>8. OneCheckin' /\ HoldsTask'
    BY <1>1, <1>2, <1>6 DEF OneCheckin, HoldsTask, b
  <1>9. QueuedOnce' /\ ReportsAreReal' /\ SettledAsReported'
    BY <1>1, ServerAlone
  <1>10. ListsSound'
    <2>1. \A cmds \in Lists' : cmds \in Lists
      BY <1>1 DEF Lists
    <2> QED
      BY <2>1, <1>1, <1>2, ListsKept
  <1>11. ExecutionsCounted'
    <2> SUFFICES ASSUME NEW a \in Action
                 PROVE  executed'[a] + Count(Awaits(a)') + Count(Has(a)')
                          =< Count(status[a] # "none") + revived[a]
      BY <1>1 DEF ExecutionsCounted, Count
    <2>1. Awaits(a)' <=> Awaits(a)
      BY <1>1 DEF Awaits, Current, Tasks
    <2>2. (Has(a) <=> a \in Tasks(todo)) /\ (Has(a)' <=> a \in Tasks(Tail(todo)))
      BY <1>1, <1>6 DEF Has, Left, Tasks
    <2>3. Count(Awaits(a)') = Count(Awaits(a))
      BY <2>1, AreBoolean DEF Count
    <2>4. /\ Count(Awaits(a)) \in {0, 1} /\ Count(Has(a)) \in {0, 1} /\ Count(Has(a)') \in {0, 1}
          /\ Count(status[a] # "none") \in {0, 1}
      BY AreBoolean, CountIs
    <2>5. executed[a] \in Nat /\ revived[a] \in Nat
      BY <1>2 DEF TypeOK
    <2>6. executed[a] + Count(Awaits(a)) + Count(Has(a)) =< Count(status[a] # "none") + revived[a]
      BY <1>2 DEF ExecutionsCounted
    <2>7. CASE a = b
      <3>1. Has(a) /\ ~ Has(a)'
        BY <2>2, <2>7, <1>4
      <3>2. Count(Has(a)) = 1 /\ Count(Has(a)') = 0
        BY <3>1, AreBoolean DEF Count
      <3>3. executed'[a] = executed[a] + 1
        BY <1>5, <2>7
      <3> QED
        BY <2>3, <2>4, <2>5, <2>6, <3>2, <3>3
    <2>8. CASE a # b
      <3>1. Has(a)' => Has(a)
        BY <2>2, <1>4
      <3>2. Count(Has(a)') =< Count(Has(a))
        BY <3>1, AreBoolean, CountIs
      <3>3. executed'[a] = executed[a]
        BY <1>5, <2>8
      <3> QED
        BY <2>3, <2>4, <2>5, <2>6, <3>2, <3>3
    <2> QED
      BY <2>7, <2>8
  <1> QED
    BY <1>7, <1>8, <1>9, <1>10, <1>11 DEF ChannelInv

LEMMA KeepsReport ==
  ASSUME ChannelInv, NEW s \in {"ok", "failed"}, Report(s)
  PROVE  ChannelInv'
  <1> DEFINE b == Head(todo)
             result == [action |-> b, status |-> s]
  <1>1. /\ pc = "reporting"
        /\ outbox' = Append(outbox, result)
        /\ reported' = [reported EXCEPT ![b] = reported[b] \cup {s}]
        /\ todo' = Tail(todo)
        /\ pc' = "handling"
        /\ UNCHANGED <<pending, isolated, kind, status, responds, detection, setting, turn, checkins, epoch, level,
                       obeyed, orders, faults, executed, revived, lost>>
    BY DEF Report, server, bounds, handlers
  <1>2. /\ TypeOK /\ OneCheckin /\ HoldsTask /\ QueuedOnce /\ ListsSound /\ ExecutionsCounted
        /\ ReportsAreReal /\ SettledAsReported
    BY DEF ChannelInv
  <1>3. todo \in Seq(Command) /\ todo # <<>> /\ b \in Action
    BY <1>1, <1>2 DEF TypeOK, HoldsTask
  <1>4. Tail(todo) \in Seq(Command)
    BY <1>3, TasksOfTail
  <1>5. result \in Result /\ result.action = b /\ result.status = s
    BY <1>3 DEF Result
  <1> HIDE DEF result, b
  <1>6. /\ outbox' \in Seq(Result)
        /\ \A i \in DOMAIN outbox' : (i \in DOMAIN outbox /\ outbox'[i] = outbox[i]) \/ outbox'[i] = result
    BY <1>1, <1>2, <1>5 DEF TypeOK
  <1>7. /\ reported' \in [Action -> SUBSET {"ok", "failed"}]
        /\ s \in reported'[b] /\ \A a \in Action : reported[a] \subseteq reported'[a]
    BY <1>1, <1>2, <1>3 DEF TypeOK
  <1>8. TypeOK'
    BY <1>1, <1>2, <1>4, <1>6, <1>7 DEF TypeOK
  <1>9. OneCheckin' /\ HoldsTask' /\ QueuedOnce'
    BY <1>1, <1>2 DEF OneCheckin, Current, HoldsTask, QueuedOnce
  <1>10. ReportsAreReal'
    <2> SUFFICES ASSUME NEW i \in DOMAIN outbox'
                 PROVE  outbox'[i].status \in reported'[outbox'[i].action]
      BY DEF ReportsAreReal
    <2>1. CASE i \in DOMAIN outbox /\ outbox'[i] = outbox[i]
      <3>1. outbox[i] \in Result
        BY <2>1, <1>2 DEF TypeOK
      <3>2. outbox[i].action \in Action
        BY <3>1 DEF Result
      <3> QED
        BY <2>1, <3>2, <1>2, <1>7 DEF ReportsAreReal
    <2>2. CASE outbox'[i] = result
      BY <2>2, <1>5, <1>7
    <2> QED
      BY <2>1, <2>2, <1>6
  <1>11. SettledAsReported'
    BY <1>1, <1>2, <1>7 DEF SettledAsReported
  <1>12. ListsSound'
    <2>1. \A cmds \in Lists' : cmds \in Lists \/ cmds = Tail(todo)
      BY <1>1 DEF Lists
    <2> QED
      BY <2>1, <1>1, <1>2, <1>3, ListsKept
  <1>13. ExecutionsCounted'
    <2>1. \A a \in Action : (Awaits(a)' => Awaits(a)) /\ (Has(a)' => Has(a))
      BY <1>1 DEF Awaits, Has, Current, Left, Tasks
    <2> QED
      BY <2>1, <1>1, <1>2, CountsKept
  <1> QED
    BY <1>8, <1>9, <1>10, <1>11, <1>12, <1>13 DEF ChannelInv

LEMMA KeepsRaise ==
  ASSUME ChannelInv, Raise
  PROVE  ChannelInv'
  <1>1. /\ pc = "reporting"
        /\ faults < MaxFaults /\ faults' = faults + 1
        /\ lost' = lost \cup Tasks(todo)
        /\ todo' = <<>>
        /\ pc' = "idle"
        /\ UNCHANGED <<pending, isolated, kind, status, responds, detection, setting, turn, checkins, epoch, level,
                       obeyed, outbox, orders, executed, reported, revived>>
    BY DEF Raise, Fail, server, handlers
  <1>2. TypeOK /\ OneCheckin /\ ListsSound /\ ExecutionsCounted
    BY DEF ChannelInv
  <1>3. TypeOK'
    <2>1. lost' \subseteq Action
      BY <1>1, <1>2, TasksAre DEF TypeOK
    <2>2. faults' \in 0..MaxFaults
      BY <1>1, <1>2, Bounds DEF TypeOK
    <2> QED
      BY <2>1, <2>2, <1>1, <1>2 DEF TypeOK
  <1>4. OneCheckin' /\ HoldsTask'
    BY <1>1, <1>2 DEF OneCheckin, Current, HoldsTask
  <1>5. QueuedOnce' /\ ReportsAreReal' /\ SettledAsReported'
    BY <1>1 DEF ChannelInv, QueuedOnce, ReportsAreReal, SettledAsReported
  <1>6. ListsSound'
    <2>1. \A cmds \in Lists' : cmds \in Lists \/ cmds = <<>>
      BY <1>1 DEF Lists
    <2> QED
      BY <2>1, <1>1, <1>2, ListsKept
  <1>7. ExecutionsCounted'
    <2>1. \A a \in Action : (Awaits(a)' => Awaits(a)) /\ (Has(a)' => Has(a))
      BY <1>1, NoTasks DEF Awaits, Has, Current, Left, Tasks
    <2> QED
      BY <2>1, <1>1, <1>2, CountsKept
  <1> QED
    BY <1>3, <1>4, <1>5, <1>6, <1>7 DEF ChannelInv

LEMMA KeepsObeyIsolation ==
  ASSUME ChannelInv, ObeyIsolation
  PROVE  ChannelInv'
  <1>1. /\ pc = "handling" /\ todo = <<>>
        /\ obeyed' = level
        /\ pc' = Flushing
        /\ UNCHANGED <<pending, isolated, kind, status, responds, detection, setting, turn, checkins, epoch, todo, level,
                       outbox, orders, faults, executed, reported, revived, lost>>
    BY DEF ObeyIsolation, server, bounds, history, handlers
  <1>2. TypeOK /\ OneCheckin /\ ListsSound /\ ExecutionsCounted
    BY DEF ChannelInv
  <1>3. pc' \in {"idle", "flushing"}
    BY <1>1 DEF Flushing
  <1>4. TypeOK'
    BY <1>1, <1>2, <1>3 DEF TypeOK
  <1>5. OneCheckin' /\ HoldsTask'
    BY <1>1, <1>2, <1>3 DEF OneCheckin, Current, HoldsTask
  <1>6. QueuedOnce' /\ ReportsAreReal' /\ SettledAsReported'
    BY <1>1, ServerAlone
  <1>7. ListsSound'
    <2>1. \A cmds \in Lists' : cmds \in Lists
      BY <1>1 DEF Lists
    <2> QED
      BY <2>1, <1>1, <1>2, ListsKept
  <1>8. ExecutionsCounted'
    <2>1. \A a \in Action : (Awaits(a)' => Awaits(a)) /\ (Has(a)' => Has(a))
      BY <1>1, <1>3 DEF Awaits, Has, Current, Left, Tasks
    <2> QED
      BY <2>1, <1>1, <1>2, CountsKept
  <1> QED
    BY <1>4, <1>5, <1>6, <1>7, <1>8 DEF ChannelInv

\* What a turn comes to, and where it ends, is nothing to the commands.
LEMMA KeepsTurn ==
  ASSUME ChannelInv, MergeRaises \/ FlushTurn \/ \E t \in Turns : TurnsMeet(t)
  PROVE  ChannelInv'
  <1>1. /\ UNCHANGED <<pending, isolated, kind, status, responds, detection, setting, checkins>>
        /\ UNCHANGED <<epoch, todo, level, obeyed, outbox>>
        /\ UNCHANGED <<orders, executed, reported, revived, lost>>
    BY DEF MergeRaises, FlushTurn, TurnsMeet, server, handlers, bounds, history
  <1>2. TypeOK /\ OneCheckin /\ HoldsTask /\ ListsSound /\ ExecutionsCounted
    BY DEF ChannelInv
  <1>3. /\ pc' \in {pc, "idle", "flushing"} /\ turn' \in Turns
        /\ pc = "waiting" => pc' = "waiting"
        /\ pc = "reporting" => pc' = "reporting"
    BY <1>2 DEF MergeRaises, FlushTurn, TurnsMeet, TypeOK
  <1>4. faults' \in 0..MaxFaults
    BY <1>2, Bounds DEF MergeRaises, FlushTurn, TurnsMeet, Fail, bounds, TypeOK
  <1>5. TypeOK'
    BY <1>1, <1>2, <1>3, <1>4 DEF TypeOK
  <1>6. OneCheckin' /\ HoldsTask'
    BY <1>1, <1>2, <1>3 DEF OneCheckin, Current, HoldsTask
  <1>7. QueuedOnce' /\ ReportsAreReal' /\ SettledAsReported'
    BY <1>1, ServerAlone
  <1>8. ListsSound'
    <2>1. \A cmds \in Lists' : cmds \in Lists
      BY <1>1 DEF Lists
    <2> QED
      BY <2>1, <1>1, <1>2, ListsKept
  <1>9. ExecutionsCounted'
    <2>1. \A a \in Action : (Awaits(a)' => Awaits(a)) /\ (Has(a)' => Has(a))
      BY <1>1, <1>3 DEF Awaits, Has, Current, Left, Tasks
    <2> QED
      BY <2>1, <1>1, <1>2, CountsKept
  <1> QED
    BY <1>5, <1>6, <1>7, <1>8, <1>9 DEF ChannelInv

LEMMA KeepsCrash ==
  ASSUME ChannelInv, NEW n \in 0..Len(outbox), Crash(n)
  PROVE  ChannelInv'
  <1>1. /\ GiveUp
        /\ lost' = lost \cup Tasks(todo)
                        \cup (UNION {Tasks(r.cmds) : r \in Unread})
                        \cup {outbox[i].action : i \in (n + 1)..Len(outbox)}
        /\ outbox' = SubSeq(outbox, 1, n)
        /\ todo' = <<>>
        /\ pc' = "idle"
        /\ level' = FALSE /\ obeyed' = FALSE
        /\ UNCHANGED <<pending, isolated, kind, status, responds, detection, setting, turn, orders,
                       executed, reported, revived>>
    BY DEF Crash, server, handlers
  <1>2. TypeOK /\ QueuedOnce /\ ListsSound /\ ExecutionsCounted /\ ReportsAreReal /\ SettledAsReported
    BY DEF ChannelInv
  <1>3. /\ faults' \in 0..MaxFaults /\ epoch' \in Nat
        /\ checkins' \subseteq checkins /\ Current' = {}
        /\ \A r \in checkins' : r.epoch =< epoch' /\ r.stage # "answered"
    BY <1>1, GivenUp
  <1>4. outbox \in Seq(Result) /\ Len(outbox) \in Nat /\ DOMAIN outbox = 1..Len(outbox)
    BY <1>2 DEF TypeOK
  <1>5. \A i \in 1..Len(outbox) : outbox[i].action \in Action
    <2>1. \A i \in 1..Len(outbox) : outbox[i] \in Result
      BY <1>4
    <2> QED
      BY <2>1 DEF Result
  <1>6. /\ outbox' \in Seq(Result)
        /\ \A i \in DOMAIN outbox' : i \in DOMAIN outbox /\ outbox'[i] = outbox[i]
    BY <1>1, <1>4
  <1>7. TypeOK'
    <2>1. {outbox[i].action : i \in (n + 1)..Len(outbox)} \subseteq Action
      <3>1. \A i \in (n + 1)..Len(outbox) : i \in 1..Len(outbox)
        BY <1>4
      <3> QED
        BY <3>1, <1>5
    <2>2. lost \subseteq Action /\ Tasks(todo) \subseteq Action
      BY <1>2, TasksAre DEF TypeOK
    <2>3. UNION {Tasks(r.cmds) : r \in Unread} \subseteq Action
      BY TasksAre
    <2>4. lost' \subseteq Action
      <3> DEFINE answers == UNION {Tasks(r.cmds) : r \in Unread}
                 results == {outbox[i].action : i \in (n + 1)..Len(outbox)}
      <3>1. lost' = lost \cup Tasks(todo) \cup answers \cup results
        BY <1>1
      <3>2. answers \subseteq Action /\ results \subseteq Action
        BY <2>1, <2>3
      <3> HIDE DEF answers, results
      <3> QED
        BY <3>1, <3>2, <2>2
    <2>5. checkins' \subseteq Request
      BY <1>2, <1>3 DEF TypeOK, Request
    <2>6. /\ pending' \in Seq(Command) /\ isolated' \in BOOLEAN
          /\ kind' \in [Action -> Kinds \cup {"none"}]
          /\ status' \in [Action -> {"none", "queued", "completed", "failed"}]
          /\ responds' \in [Action -> Copy] /\ detection' \in Copy /\ setting' \in Copy
          /\ turn' \in Turns
          /\ orders' \in 0..MaxRequests
          /\ executed' \in [Action -> Nat] /\ revived' \in [Action -> Nat]
          /\ reported' \in [Action -> SUBSET {"ok", "failed"}]
      BY <1>1, <1>2 DEF TypeOK
    <2>7. todo' \in Seq(Command) /\ level' \in BOOLEAN /\ obeyed' \in BOOLEAN /\ pc' = "idle"
      <3>1. todo' = <<>> /\ level' = FALSE /\ obeyed' = FALSE /\ pc' = "idle"
        BY <1>1
      <3>2. todo' \in Seq(Command)
        BY <3>1
      <3>3. level' \in BOOLEAN /\ obeyed' \in BOOLEAN
        BY <3>1
      <3> QED
        BY <3>1, <3>2, <3>3
    <2> QED
      BY <2>4, <2>5, <2>6, <2>7, <1>3, <1>6 DEF TypeOK, Request
  <1>8. OneCheckin' /\ HoldsTask' /\ QueuedOnce' /\ SettledAsReported'
    BY <1>1, <1>2, <1>3 DEF OneCheckin, HoldsTask, QueuedOnce, SettledAsReported
  <1>9. ReportsAreReal'
    BY <1>1, <1>2, <1>6 DEF ReportsAreReal
  <1>10. ListsSound'
    <2>1. \A cmds \in Lists' : cmds \in Lists \/ cmds = <<>>
      BY <1>1, <1>3 DEF Lists
    <2> QED
      BY <2>1, <1>1, <1>2, ListsKept
  <1>11. ExecutionsCounted'
    <2>1. \A a \in Action : (Awaits(a)' => Awaits(a)) /\ (Has(a)' => Has(a))
      BY <1>1, <1>3, NoTasks DEF Awaits, Has, Left, Tasks
    <2> QED
      BY <2>1, <1>1, <1>2, CountsKept
  <1> QED
    BY <1>7, <1>8, <1>9, <1>10, <1>11 DEF ChannelInv

-------------------------------------------------------------------------------
(* Results.                                                                *)

\* A result settles an open record, as it was reported.
LEMMA Recorded ==
  ASSUME TypeOK, ReportsAreReal, SettledAsReported, QueuedOnce,
         RecordResults(outbox), UNCHANGED <<kind, responds, reported>>
  PROVE  /\ status' \in [Action -> {"none", "queued", "completed", "failed"}]
         /\ \A a \in Action : status[a] # "none" <=> status'[a] # "none"
         /\ \A a \in Action :
              \/ status'[a] = status[a]
              \/ status[a] = "queued" /\ status'[a] = "completed" /\ "ok" \in reported[a]
              \/ status[a] = "queued" /\ status'[a] = "failed" /\ "failed" \in reported[a]
         /\ SettledAsReported' /\ QueuedOnce'
  <1> DEFINE FirstOf(a) == {i \in DOMAIN outbox : /\ outbox[i].action = a
                                                /\ \A j \in 1..(i - 1) : outbox[j].action # a}
             one(a) == outbox[CHOOSE i \in FirstOf(a) : TRUE]
  <1>1. status' = [a \in Action |-> IF Open(a) /\ FirstOf(a) # {} THEN Outcome(one(a).status) ELSE status[a]]
    BY DEF RecordResults
  <1>2. ASSUME NEW a \in Action, FirstOf(a) # {}
        PROVE  one(a).status \in {"ok", "failed"} /\ one(a).status \in reported[a]
    <2>1. PICK i \in FirstOf(a) : one(a) = outbox[i]
      BY <1>2
    <2>2. i \in DOMAIN outbox /\ outbox[i].action = a
      OBVIOUS
    <2>3. outbox[i].status \in reported[a]
      BY <2>2 DEF ReportsAreReal
    <2>4. reported[a] \subseteq {"ok", "failed"}
      BY DEF TypeOK
    <2> QED
      BY <2>1, <2>3, <2>4
  <1> HIDE DEF FirstOf, one
  <1>3. ASSUME NEW a \in Action
        PROVE  \/ status'[a] = status[a]
               \/ status[a] = "queued" /\ status'[a] = "completed" /\ "ok" \in reported[a]
               \/ status[a] = "queued" /\ status'[a] = "failed" /\ "failed" \in reported[a]
    <2>1. CASE Open(a) /\ FirstOf(a) # {}
      <3>1. status'[a] = Outcome(one(a).status) /\ status[a] = "queued"
        BY <1>1, <2>1 DEF Open
      <3>2. one(a).status = "ok" \/ one(a).status = "failed"
        BY <1>2, <2>1
      <3> QED
        BY <1>2, <2>1, <3>1, <3>2 DEF Outcome
    <2>2. CASE ~ (Open(a) /\ FirstOf(a) # {})
      BY <1>1, <2>2
    <2> QED
      BY <2>1, <2>2
  <1>4. status' \in [Action -> {"none", "queued", "completed", "failed"}]
    <2>1. \A a \in Action : status'[a] \in {"none", "queued", "completed", "failed"}
      BY <1>3 DEF TypeOK
    <2> QED
      BY <2>1, <1>1
  <1>5. \A a \in Action : status[a] # "none" <=> status'[a] # "none"
    BY <1>3
  <1>6. SettledAsReported'
    BY <1>3 DEF SettledAsReported
  <1>7. QueuedOnce'
    BY <1>5 DEF QueuedOnce
  <1> QED
    BY <1>3, <1>4, <1>5, <1>6, <1>7

\* An acknowledged batch is forgotten; the others stay.
LEMMA KeepsResults ==
  ASSUME ChannelInv, pc = "flushing", pc' = "idle",
         RecordResults(outbox) \/ UNCHANGED status,
         outbox' \in {outbox, <<>>}, faults' \in 0..MaxFaults,
         UNCHANGED <<pending, isolated, kind, responds, detection, setting, turn, checkins, epoch, todo, level, obeyed,
                     orders, executed, reported, revived, lost>>
  PROVE  ChannelInv'
  <1>1. /\ TypeOK /\ OneCheckin /\ QueuedOnce /\ ListsSound /\ ExecutionsCounted
        /\ ReportsAreReal /\ SettledAsReported
    BY DEF ChannelInv
  <1>2. /\ status' \in [Action -> {"none", "queued", "completed", "failed"}]
        /\ \A a \in Action : status[a] # "none" <=> status'[a] # "none"
        /\ SettledAsReported' /\ QueuedOnce'
    <2>1. CASE RecordResults(outbox)
      BY <2>1, <1>1, Recorded
    <2>2. CASE UNCHANGED status
      BY <2>2, <1>1 DEF TypeOK, SettledAsReported, QueuedOnce
    <2> QED
      BY <2>1, <2>2
  <1>3. outbox' \in Seq(Result)
    <2>1. outbox \in Seq(Result) /\ <<>> \in Seq(Result)
      BY <1>1 DEF TypeOK
    <2> QED
      BY <2>1
  <1>4. TypeOK'
    BY <1>1, <1>2, <1>3 DEF TypeOK
  <1>5. OneCheckin' /\ HoldsTask'
    BY <1>1 DEF OneCheckin, Current, HoldsTask
  <1>6. ReportsAreReal'
    BY <1>1 DEF ReportsAreReal
  <1>7. ListsSound'
    <2>1. \A cmds \in Lists' : cmds \in Lists
      BY DEF Lists
    <2> QED
      BY <2>1, <1>1, <1>2, ListsKept
  <1>8. ExecutionsCounted'
    <2>1. \A a \in Action : (Awaits(a)' => Awaits(a)) /\ (Has(a)' => Has(a))
      BY DEF Awaits, Has, Current, Left, Tasks
    <2> QED
      BY <2>1, <1>1, <1>2, CountsKept
  <1> QED
    BY <1>2, <1>4, <1>5, <1>6, <1>7, <1>8 DEF ChannelInv

LEMMA KeepsDeliver == ChannelInv /\ Deliver => ChannelInv'
  <1> SUFFICES ASSUME ChannelInv, Deliver PROVE ChannelInv'
    OBVIOUS
  <1>1. /\ pc = "flushing" /\ RecordResults(outbox) /\ outbox' = <<>> /\ pc' = "idle"
        /\ UNCHANGED <<pending, isolated, kind, responds, detection, setting, turn, checkins, epoch, todo, level, obeyed,
                       orders, executed, reported, revived, lost>>
        /\ UNCHANGED faults
    BY DEF Deliver, bounds, history, handlers
  <1>2. faults' \in 0..MaxFaults
    BY <1>1 DEF ChannelInv, TypeOK
  <1> QED
    BY <1>1, <1>2, KeepsResults

LEMMA KeepsDeliverFailed ==
  ASSUME ChannelInv, NEW committed \in BOOLEAN, DeliverFailed(committed)
  PROVE  ChannelInv'
  <1>1. /\ RecordResults(outbox) \/ UNCHANGED status
        /\ outbox' = outbox /\ pc' = "idle"
        /\ UNCHANGED <<pending, isolated, kind, responds, detection, setting, turn, checkins, epoch, todo, level, obeyed,
                       orders, executed, reported, revived, lost>>
        /\ faults < MaxFaults /\ faults' = faults + 1
    BY DEF DeliverFailed, Fail, history, handlers
  <1>2. faults' \in 0..MaxFaults
    BY <1>1, Bounds DEF ChannelInv, TypeOK
  <1>3. pc = "flushing"
    BY DEF DeliverFailed
  <1> QED
    BY <1>1, <1>2, <1>3, KeepsResults

-------------------------------------------------------------------------------

LEMMA NextChannel == ChannelInv /\ [Next]_vars => ChannelInv'
  <1> SUFFICES ASSUME ChannelInv, [Next]_vars PROVE ChannelInv'
    OBVIOUS
  <1>1. CASE UNCHANGED vars
    <2>1. /\ UNCHANGED <<pending, isolated, kind, status, responds, detection, setting, checkins>>
          /\ UNCHANGED <<pc, epoch, todo, level, obeyed, outbox, turn, orders, faults>>
          /\ UNCHANGED <<executed, reported, revived, lost>>
      BY <1>1 DEF vars, server, handlers, agent, bounds, history
    <2>2. TypeOK' /\ OneCheckin' /\ HoldsTask' /\ QueuedOnce' /\ ReportsAreReal' /\ SettledAsReported'
      BY <2>1 DEF ChannelInv, TypeOK, OneCheckin, Current, HoldsTask, QueuedOnce, ReportsAreReal,
                  SettledAsReported
    <2>3. ListsSound'
      BY <2>1 DEF ChannelInv, ListsSound, Lists, Tasks
    <2>4. ExecutionsCounted'
      <3>1. TypeOK /\ ExecutionsCounted
        BY DEF ChannelInv
      <3> QED
        BY <2>1, <3>1, CountsKept DEF Awaits, Has, Current, Left, Tasks
    <2> QED
      BY <2>2, <2>3, <2>4 DEF ChannelInv
  <1>2. CASE Respond
    BY <1>2, KeepsRespondLoad, KeepsDispatch DEF Respond
  <1>3. CASE SetIsolation \/ \E v \in BOOLEAN : IsolationLoad(v)
    BY <1>3, KeepsSetIsolation, KeepsIsolationLoad
  <1>4. CASE Detect \/ AutoIsolate
    BY <1>4, KeepsDetect, KeepsAutoIsolate
  <1>5. CASE CheckinServer \/ \E r \in checkins : CheckinLost(r)
    BY <1>5, KeepsCheckinLoad, KeepsCheckin, KeepsCheckinLost DEF CheckinServer
  <1>6. CASE CheckinSend \/ AgentReceive
    BY <1>6, KeepsCheckinSend, KeepsCheckinTimeout, KeepsCheckinReceive DEF AgentReceive
  <1>7. CASE AgentLoop
    BY <1>7, KeepsHandleIgnored, KeepsHandleTask, KeepsObeyIsolation, KeepsTurn, KeepsReport
       DEF AgentLoop
  <1>8. CASE Raise \/ \E n \in 0..Len(outbox) : Crash(n)
    BY <1>8, KeepsRaise, KeepsCrash
  <1>9. CASE Deliver \/ \E c \in BOOLEAN : DeliverFailed(c)
    BY <1>9, KeepsDeliver, KeepsDeliverFailed
  <1>10. CASE FlushTurn \/ \E t \in Turns : TurnsMeet(t)
    BY <1>10, KeepsTurn
  <1> QED
    BY <1>1, <1>2, <1>3, <1>4, <1>5, <1>6, <1>7, <1>8, <1>9, <1>10 DEF Next

\* Where the command of an action may be, and how often it may yet be executed, is an
\* inductive invariant of the channel.
THEOREM ChannelIsInductive == Spec => []ChannelInv
  BY InitChannel, NextChannel, PTL DEF Spec

\* No timeout, lost reply, retry or restart repeats a command, and a record is settled as
\* an execution reported: dispatch(), the check-in, the handlers and record_result().
THEOREM ChannelExecutesAsRecorded == Spec => []ExecutedAsRecorded
  <1>1. ASSUME ChannelInv PROVE ExecutedAsRecorded
    <2> SUFFICES ASSUME NEW a \in Action
                 PROVE  /\ executed[a] =< 1 + revived[a]
                        /\ status[a] = "completed" => "ok" \in reported[a]
                        /\ status[a] = "failed" => "failed" \in reported[a]
      BY DEF ExecutedAsRecorded
    <2>1. executed[a] + Count(Awaits(a)) + Count(Has(a)) =< Count(status[a] # "none") + revived[a]
      BY <1>1 DEF ChannelInv, ExecutionsCounted
    <2>2. executed[a] \in Nat /\ revived[a] \in Nat
      BY <1>1 DEF ChannelInv, TypeOK
    <2>3. /\ Count(Awaits(a)) \in {0, 1} /\ Count(Has(a)) \in {0, 1}
          /\ Count(status[a] # "none") \in {0, 1}
      BY AreBoolean, CountIs
    <2>4. executed[a] =< 1 + revived[a]
      BY <2>1, <2>2, <2>3
    <2> QED
      BY <2>4, <1>1 DEF ChannelInv, SettledAsReported
  <1> QED
    BY <1>1, ChannelIsInductive, PTL

-------------------------------------------------------------------------------
(* The ledger.                                                             *)

\* Sets of results are small.
LEMMA ResultsAre ==
  ASSUME NEW S \in SUBSET {"ok", "failed"}
  PROVE  /\ Cardinality(S) \in Nat /\ Cardinality({}) = 0
         /\ \A s : Cardinality(S \cup {s}) \in Nat /\ Cardinality(S \cup {s}) =< Cardinality(S) + 1
  <1>1. IsFiniteSet({"ok", "failed"})
    <2>1. IsFiniteSet({}) /\ \A T, x : IsFiniteSet(T) => IsFiniteSet(T \cup {x})
      BY FS_EmptySet, FS_AddElement
    <2>2. {"ok", "failed"} = ({} \cup {"ok"}) \cup {"failed"}
      OBVIOUS
    <2> QED
      BY <2>1, <2>2
  <1>2. IsFiniteSet(S) /\ Cardinality(S) \in Nat
    BY <1>1, FS_Subset, FS_CardinalityType
  <1>3. ASSUME NEW s PROVE Cardinality(S \cup {s}) \in Nat /\ Cardinality(S \cup {s}) =< Cardinality(S) + 1
    <2>1. Cardinality(S \cup {s}) = IF s \in S THEN Cardinality(S) ELSE Cardinality(S) + 1
      BY <1>2, FS_AddElement
    <2> QED
      BY <1>2, <2>1
  <1> QED
    BY <1>2, <1>3, FS_EmptySet

\* The ledger counts as this module does.
LEMMA LedgerCardinality ==
  ASSUME NEW S
  PROVE  Ledger!Cardinality(S) = Cardinality(S)
  BY DEF Ledger!Cardinality, Cardinality

\* The last result of an action is still to come while its execution is under way.
LEMMA ReportingCounted ==
  ASSUME ChannelInv, ReportsCounted, NEW a \in Action
  PROVE  /\ reported[a] \in SUBSET {"ok", "failed"} /\ executed[a] \in Nat
         /\ Cardinality(reported[a]) \in Nat /\ Cardinality(reported[a]) =< executed[a]
         /\ pc = "reporting" /\ Head(todo) = a =>
              \A s : Cardinality(reported[a] \cup {s}) =< executed[a]
  <1>1. reported[a] \in SUBSET {"ok", "failed"} /\ executed[a] \in Nat
    BY DEF ChannelInv, TypeOK
  <1>2. Cardinality(reported[a]) + Count(pc = "reporting" /\ Head(todo) = a) =< executed[a]
    BY DEF ReportsCounted
  <1>3. Cardinality(reported[a]) \in Nat
        /\ \A s : Cardinality(reported[a] \cup {s}) \in Nat
                  /\ Cardinality(reported[a] \cup {s}) =< Cardinality(reported[a]) + 1
    BY <1>1, ResultsAre
  <1>4. CASE pc = "reporting" /\ Head(todo) = a
    <2>1. Cardinality(reported[a]) + 1 =< executed[a]
      BY <1>2, <1>4 DEF Count
    <2>2. ASSUME NEW s PROVE Cardinality(reported[a] \cup {s}) =< executed[a]
      <3>1. Cardinality(reported[a] \cup {s}) \in Nat
            /\ Cardinality(reported[a] \cup {s}) =< Cardinality(reported[a]) + 1
        BY <1>3
      <3> QED
        BY <1>1, <1>3, <2>1, <3>1
    <2>3. Cardinality(reported[a]) =< executed[a]
      BY <1>1, <1>3, <2>1
    <2> QED
      BY <1>1, <1>3, <2>2, <2>3
  <1>5. CASE ~ (pc = "reporting" /\ Head(todo) = a)
    <2>1. Cardinality(reported[a]) + 0 =< executed[a]
      BY <1>2, <1>5 DEF Count
    <2> QED
      BY <1>1, <1>3, <1>5, <2>1
  <1> QED
    BY <1>4, <1>5

\* An execution, and its report.
LEMMA HandleTaskExecutes ==
  ASSUME ChannelInv, ReportsCounted, HandleTask
  PROVE  ReportsCounted' /\ \E a \in Action : Ledger!Execute(a)
  <1>1. PICK b \in Action : b = Head(todo)
    BY DEF HandleTask, IsTask
  <1>2. /\ executed' = [executed EXCEPT ![b] = executed[b] + 1]
        /\ pc = "handling" /\ pc' = "reporting" /\ todo # <<>>
        /\ UNCHANGED <<todo, checkins, epoch, status, reported, revived>>
    BY <1>1 DEF HandleTask, server
  <1>3. \A a \in Action : executed[a] \in Nat /\ revived[a] \in Nat
    BY DEF ChannelInv, TypeOK
  <1>4. \A a \in Action : executed'[a] = IF a = b THEN executed[a] + 1 ELSE executed[a]
    BY <1>2 DEF ChannelInv, TypeOK
  <1>5. ReportsCounted'
    <2> SUFFICES ASSUME NEW a \in Action
                 PROVE  Cardinality(reported[a]) + Count(pc' = "reporting" /\ Head(todo') = a) =< executed'[a]
      BY <1>2 DEF ReportsCounted, Count
    <2>1. Cardinality(reported[a]) \in Nat /\ Cardinality(reported[a]) =< executed[a] /\ executed[a] \in Nat
      BY ReportingCounted
    <2>2. Count(pc' = "reporting" /\ Head(todo') = a) = IF a = b THEN 1 ELSE 0
      BY <1>1, <1>2 DEF Count
    <2> QED
      BY <1>4, <2>1, <2>2
  <1>6. executed[b] < Granted[b]
    <2>1. ExecutionsCounted' /\ executed'[b] = executed[b] + 1
      BY <1>4, KeepsHandleTask DEF ChannelInv
    <2>2. executed'[b] + Count(Awaits(b)') + Count(Has(b)') =< Count(status[b] # "none") + revived[b]
      BY <1>2, <2>1 DEF ExecutionsCounted, Count
    <2>3. Count(Awaits(b)') \in {0, 1} /\ Count(Has(b)') \in {0, 1}
      BY AreBoolean, CountIs
    <2>4. Granted[b] = revived[b] + Count(status[b] # "none") /\ Count(status[b] # "none") \in {0, 1}
      BY DEF Granted, Count
    <2> QED
      BY <1>3, <2>1, <2>2, <2>3, <2>4
  <1>7. Granted' = Granted
    BY <1>2 DEF Granted
  <1> QED
    BY <1>2, <1>5, <1>6, <1>7 DEF Ledger!Execute

LEMMA ReportReports ==
  ASSUME ChannelInv, ReportsCounted, NEW s \in {"ok", "failed"}, Report(s)
  PROVE  ReportsCounted' /\ \E a \in Action : Ledger!Reports(a, s)
  <1>1. PICK b \in Action : b = Head(todo)
    BY DEF Report, ChannelInv, HoldsTask
  <1>2. /\ reported' = [reported EXCEPT ![b] = reported[b] \cup {s}]
        /\ pc = "reporting" /\ pc' = "handling"
        /\ UNCHANGED <<status, executed, revived>>
    BY <1>1 DEF Report, server
  <1>3. \A a \in Action : reported'[a] = IF a = b THEN reported[a] \cup {s} ELSE reported[a]
    BY <1>2 DEF ChannelInv, TypeOK
  <1>4. Cardinality(reported[b] \cup {s}) =< executed[b]
    BY <1>1, <1>2, ReportingCounted
  <1>5. ReportsCounted'
    <2> SUFFICES ASSUME NEW a \in Action
                 PROVE  Cardinality(reported'[a]) + Count(pc' = "reporting" /\ Head(todo') = a) =< executed[a]
      BY <1>2 DEF ReportsCounted, Count
    <2>1. Count(pc' = "reporting" /\ Head(todo') = a) = 0
      BY <1>2 DEF Count
    <2>2. Cardinality(reported[a]) \in Nat /\ Cardinality(reported[a]) =< executed[a]
          /\ reported[a] \in SUBSET {"ok", "failed"}
      BY ReportingCounted
    <2>3. Cardinality(reported'[a]) \in Nat /\ Cardinality(reported'[a]) =< executed[a]
      BY <1>3, <1>4, <2>2, ResultsAre
    <2> QED
      BY <2>1, <2>3
  <1>6. Granted' = Granted
    BY <1>2 DEF Granted
  <1>7. Ledger!Reports(b, s)
    BY <1>2, <1>4, <1>6, LedgerCardinality DEF Ledger!Reports
  <1> QED
    BY <1>5, <1>7

\* What neither executes nor reports leaves the count of the reports alone.
LEMMA ReportsCountedKept ==
  ASSUME ReportsCounted, ChannelInv, UNCHANGED <<executed, reported>>,
         pc' = "reporting" => pc = "reporting" /\ todo' = todo
  PROVE  ReportsCounted'
  <1> SUFFICES ASSUME NEW a \in Action
               PROVE  Cardinality(reported[a]) + Count(pc' = "reporting" /\ Head(todo') = a) =< executed[a]
    BY DEF ReportsCounted, Count
  <1>1. Cardinality(reported[a]) + Count(pc = "reporting" /\ Head(todo) = a) =< executed[a]
    BY DEF ReportsCounted
  <1>2. Cardinality(reported[a]) \in Nat /\ Cardinality(reported[a]) =< executed[a]
    BY ReportingCounted
  <1>3. CASE pc' = "reporting"
    BY <1>1, <1>3 DEF Count
  <1>4. CASE pc' # "reporting"
    <2>1. Count(pc' = "reporting" /\ Head(todo') = a) = 0
      BY <1>4 DEF Count
    <2> QED
      BY <1>2, <2>1
  <1> QED
    BY <1>3, <1>4

\* A commit of a copy grants what it brings back, and what it orders.
LEMMA RewriteGrants ==
  ASSUME ChannelInv, NEW seen \in Lists, NEW c \in Command, RewriteQueued(seen, c),
         NEW new \in SUBSET Action, \A a \in new : status[a] = "none",
         status' = [a \in Action |-> IF a \in new THEN "queued" ELSE status[a]],
         UNCHANGED <<executed, reported>>
  PROVE  \E n, b \in SUBSET Action : Ledger!Grant(n, b)
  <1>1. revived' = [a \in Action |-> IF a \in Revived(seen) THEN revived[a] + 1 ELSE revived[a]]
    BY DEF RewriteQueued
  <1>2. Revived(seen) \subseteq Ledger!Ordered
    BY DEF ChannelInv, ListsSound, Revived, Tasks, Ledger!Ordered
  <1>3. \A a \in Action : revived[a] \in Nat
    BY DEF ChannelInv, TypeOK
  <1> DEFINE back == Revived(seen)
  <1>4. back \in SUBSET Action /\ new \cap Ledger!Ordered = {} /\ back \subseteq Ledger!Ordered
    BY <1>2 DEF Ledger!Ordered
  <1>5. Granted' = [a \in Action |-> IF a \in new \cup back THEN Granted[a] + 1 ELSE Granted[a]]
    <2>1. ASSUME NEW a \in Action
          PROVE  Granted'[a] = IF a \in new \cup back THEN Granted[a] + 1 ELSE Granted[a]
      <3>1. /\ Granted'[a] = revived'[a] + IF status'[a] = "none" THEN 0 ELSE 1
            /\ Granted[a] = revived[a] + IF status[a] = "none" THEN 0 ELSE 1
        BY DEF Granted
      <3>2. revived'[a] = IF a \in back THEN revived[a] + 1 ELSE revived[a]
        BY <1>1
      <3>3. status'[a] = IF a \in new THEN "queued" ELSE status[a]
        OBVIOUS
      <3>4. /\ a \in new => status[a] = "none" /\ a \notin back
            /\ a \in back => status[a] # "none"
        BY <1>4 DEF Ledger!Ordered
      <3> HIDE DEF back
      <3> QED
        BY <1>3, <3>1, <3>2, <3>3, <3>4
    <2> QED
      BY <2>1 DEF Granted
  <1> QED
    BY <1>4, <1>5 DEF Ledger!Grant

LEMMA ServerGrants ==
  ASSUME ChannelInv, (\E a \in Action : Dispatch(a)) \/ SetIsolation \/ AutoIsolate
  PROVE  (\E n, b \in SUBSET Action : Ledger!Grant(n, b)) \/ UNCHANGED Ledger!ledgerVars
  <1>0. status \in [Action -> {"none", "queued", "completed", "failed"}]
    BY DEF ChannelInv, TypeOK
  <1>1. ASSUME NEW a \in Action, Dispatch(a) PROVE \E n, b \in SUBSET Action : Ledger!Grant(n, b)
    <2>1. /\ RewriteQueued(responds[a].cmds, a) /\ UNCHANGED <<executed, reported>>
          /\ status' = [status EXCEPT ![a] = "queued"] /\ responds[a].open
      BY <1>1 DEF Dispatch
    <2>2. status[a] = "none" /\ responds[a].cmds \in Lists /\ a \in Command
      BY <2>1 DEF ChannelInv, QueuedOnce, Lists, Command
    <2>3. status' = [b \in Action |-> IF b \in {a} THEN "queued" ELSE status[b]]
      BY <1>0, <2>1
    <2>4. {a} \in SUBSET Action /\ \A b \in {a} : status[b] = "none"
      BY <2>2
    <2> QED
      BY <2>1, <2>2, <2>3, <2>4, RewriteGrants
  <1>2. ASSUME UNCHANGED status, UNCHANGED <<executed, reported>>,
               NEW seen \in Lists, RewriteQueued(seen, Note)
        PROVE  \E n, b \in SUBSET Action : Ledger!Grant(n, b)
    <2>1. status' = [a \in Action |-> IF a \in {} THEN "queued" ELSE status[a]]
      BY <1>0, <1>2
    <2>2. Note \in Command /\ {} \in SUBSET Action /\ \A a \in {} : status[a] = "none"
      BY DEF Command
    <2> QED
      BY <1>2, <2>1, <2>2, RewriteGrants
  <1>3. ASSUME SetIsolation PROVE \E n, b \in SUBSET Action : Ledger!Grant(n, b)
    <2>1. UNCHANGED status /\ UNCHANGED <<executed, reported>> /\ RewriteQueued(setting.cmds, Note)
          /\ setting.cmds \in Lists
      BY <1>3 DEF SetIsolation, Lists
    <2> QED
      BY <2>1, <1>2
  <1>4. ASSUME AutoIsolate
        PROVE  (\E n, b \in SUBSET Action : Ledger!Grant(n, b)) \/ UNCHANGED Ledger!ledgerVars
    <2>1. UNCHANGED status /\ UNCHANGED <<executed, reported>> /\ detection.cmds \in Lists
      BY <1>4 DEF AutoIsolate, Lists
    <2>2. CASE RewriteQueued(detection.cmds, Note)
      BY <1>2, <2>1, <2>2
    <2>3. CASE UNCHANGED revived
      BY <2>1, <2>3 DEF Granted, Ledger!ledgerVars
    <2> QED
      BY <1>4, <2>2, <2>3 DEF AutoIsolate
  <1> QED
    BY <1>1, <1>3, <1>4

\* A batch of results settles records that are open.
LEMMA ResultsSettle ==
  ASSUME ChannelInv, Deliver \/ (\E c \in BOOLEAN : DeliverFailed(c))
  PROVE  (\E done \in SUBSET Action : \E result \in [done -> {"ok", "failed"}] : Ledger!Settle(result))
         \/ UNCHANGED Ledger!ledgerVars
  <1>1. UNCHANGED <<executed, reported, revived>>
    BY DEF Deliver, DeliverFailed, history
  <1>2. CASE UNCHANGED status
    BY <1>1, <1>2 DEF Granted, Ledger!ledgerVars
  <1>3. CASE RecordResults(outbox)
    <2>1. UNCHANGED <<kind, responds>>
      BY DEF Deliver, DeliverFailed, handlers
    <2>2. /\ status' \in [Action -> {"none", "queued", "completed", "failed"}]
          /\ \A a \in Action :
               \/ status'[a] = status[a]
               \/ status[a] = "queued" /\ status'[a] = "completed" /\ "ok" \in reported[a]
               \/ status[a] = "queued" /\ status'[a] = "failed" /\ "failed" \in reported[a]
      BY <1>1, <1>3, <2>1, Recorded DEF ChannelInv
    <2> DEFINE done == {a \in Action : status'[a] # status[a]}
               result == [a \in done |-> IF status'[a] = "completed" THEN "ok" ELSE "failed"]
    <2>3. result \in [done -> {"ok", "failed"}] /\ done \in SUBSET Action
      OBVIOUS
    <2>4. \A a \in DOMAIN result : status[a] = "queued" /\ result[a] \in reported[a]
      BY <2>2
    <2>5. status' = [a \in Action |-> IF a \notin DOMAIN result THEN status[a]
                                      ELSE IF result[a] = "ok" THEN "completed" ELSE "failed"]
      BY <2>2
    <2>6. Granted' = Granted
      <3>1. \A a \in Action : status'[a] = "none" <=> status[a] = "none"
        BY <2>2
      <3> QED
        BY <1>1, <3>1 DEF Granted
    <2>7. Ledger!Settle(result)
      BY <1>1, <2>4, <2>5, <2>6 DEF Ledger!Settle
    <2> HIDE DEF result, done
    <2> QED
      BY <2>3, <2>7
  <1> QED
    BY <1>2, <1>3 DEF Deliver, DeliverFailed

\* What is neither of these leaves the ledger alone.
LEMMA OthersStutter ==
  ASSUME ChannelInv, ReportsCounted,
         \/ \E a \in Action : \E k \in Kinds : RespondLoad(a, k)
         \/ (\E v \in BOOLEAN : IsolationLoad(v)) \/ Detect
         \/ CheckinServer \/ (\E r \in checkins : CheckinLost(r))
         \/ CheckinSend \/ AgentReceive \/ HandleIgnored \/ ObeyIsolation \/ Raise
         \/ MergeRaises \/ FlushTurn \/ (\E t \in Turns : TurnsMeet(t))
         \/ \E n \in 0..Len(outbox) : Crash(n)
         \/ UNCHANGED vars
  PROVE  ReportsCounted' /\ UNCHANGED Ledger!ledgerVars
  <1>1. UNCHANGED <<status, executed, reported, revived>>
    BY DEF RespondLoad, Detect, CheckinServer, CheckinLoad, Checkin, CheckinLost, CheckinSend,
           AgentReceive, CheckinReceive, CheckinTimeout, HandleIgnored, ObeyIsolation, Raise, Crash,
           IsolationLoad, MergeRaises, FlushTurn, TurnsMeet, vars, server, history
  <1>2. pc' = "reporting" => pc = "reporting" /\ todo' = todo
    BY DEF RespondLoad, Detect, CheckinServer, CheckinLoad, Checkin, CheckinLost, CheckinSend,
           AgentReceive, CheckinReceive, CheckinTimeout, HandleIgnored, ObeyIsolation, Raise, Crash,
           IsolationLoad, MergeRaises, FlushTurn, TurnsMeet, vars, agent, Flushing
  <1> QED
    BY <1>1, <1>2, ReportsCountedKept DEF Granted, Ledger!ledgerVars

\* Every step of the channel is one of the ledger, or leaves it alone.
LEMMA StepsOfLedger ==
  ASSUME ChannelInv, ReportsCounted, [Next]_vars
  PROVE  ReportsCounted' /\ [Ledger!LedgerNext]_(Ledger!ledgerVars)
  <1>1. CASE HandleTask
    BY <1>1, HandleTaskExecutes DEF Ledger!LedgerNext
  <1>2. CASE \E s \in {"ok", "failed"} : Report(s)
    BY <1>2, ReportReports DEF Ledger!LedgerNext
  <1>3. CASE (\E a \in Action : Dispatch(a)) \/ SetIsolation \/ AutoIsolate
    <2>1. UNCHANGED <<pc, todo, executed, reported>>
      BY <1>3 DEF Dispatch, SetIsolation, AutoIsolate, agent
    <2> QED
      BY <1>3, <2>1, ReportsCountedKept, ServerGrants DEF Ledger!LedgerNext
  <1>4. CASE Deliver \/ \E c \in BOOLEAN : DeliverFailed(c)
    <2>1. UNCHANGED <<executed, reported>> /\ pc' # "reporting"
      BY <1>4 DEF Deliver, DeliverFailed, history
    <2> QED
      BY <1>4, <2>1, ReportsCountedKept, ResultsSettle DEF Ledger!LedgerNext
  <1>5. CASE \/ \E a \in Action : \E k \in Kinds : RespondLoad(a, k)
             \/ (\E v \in BOOLEAN : IsolationLoad(v)) \/ Detect
             \/ CheckinServer \/ (\E r \in checkins : CheckinLost(r))
             \/ CheckinSend \/ AgentReceive \/ HandleIgnored \/ ObeyIsolation \/ Raise
             \/ MergeRaises \/ FlushTurn \/ (\E t \in Turns : TurnsMeet(t))
             \/ \E n \in 0..Len(outbox) : Crash(n)
             \/ UNCHANGED vars
    BY <1>5, OthersStutter
  <1> QED
    BY <1>1, <1>2, <1>3, <1>4, <1>5 DEF Next, Respond, AgentLoop

\* Whatever is lost, repeated or overwritten on the way, an action is executed only as
\* often as its command was queued or brought back, each execution reports one result, and
\* its record is settled once, by a result reported: the channel implements ActionLedger.
THEOREM ChannelImplementsLedger == Spec => ImplementsLedger
  <1>1. Init => Ledger!LedgerInit /\ ReportsCounted
    <2> SUFFICES ASSUME Init PROVE Ledger!LedgerInit /\ ReportsCounted
      OBVIOUS
    <2>1. Ledger!LedgerInit
      BY DEF Init, Granted, Ledger!LedgerInit
    <2>2. ReportsCounted
      <3>1. Cardinality({}) = 0
        BY FS_EmptySet
      <3> QED
        BY <3>1 DEF Init, ReportsCounted, Count
    <2> QED
      BY <2>1, <2>2
  <1>2. ChannelInv /\ ReportsCounted /\ [Next]_vars => ReportsCounted' /\ [Ledger!LedgerNext]_(Ledger!ledgerVars)
    BY StepsOfLedger
  <1> QED
    BY <1>1, <1>2, ChannelIsInductive, PTL DEF Spec, ImplementsLedger, Ledger!LedgerSpec

-------------------------------------------------------------------------------
(* The detection engine: names.                                            *)

\* A set of positions has a first one.
LEMMA FirstOfPositions ==
  ASSUME NEW n \in Nat, NEW ns \in SUBSET (1..n), ns # {}
  PROVE  First(ns) \in ns /\ \A m \in ns : First(ns) <= m
  <1> DEFINE T == {1..k : k \in ns}
             R == StrictSubsetOrdering(1..n)
             F == FiniteSubsetsOf(1..n)
  <1>1. IsWellFoundedOn(R, F)
    BY FS_StrictSubsetOrderingWellFounded
  <1>2. T \subseteq F
    <2> SUFFICES ASSUME NEW k \in ns PROVE 1..k \in F
      OBVIOUS
    <2>1. k \in Int /\ 1 \in Int /\ 1..k \in SUBSET (1..n)
      OBVIOUS
    <2>2. IsFiniteSet(1..k)
      BY <2>1, FS_Interval
    <2> QED
      BY <2>1, <2>2 DEF FiniteSubsetsOf
  <1>3. T # {}
    OBVIOUS
  <1> HIDE DEF R, F
  <1>4. PICK x \in T : \A y \in T : <<y, x>> \notin R
    BY <1>1, <1>2, <1>3, WFMin
  <1>5. PICK k \in ns : x = 1..k
    BY <1>4
  <1>6. ASSUME NEW j \in ns PROVE k <= j
    <2> SUFFICES ASSUME j < k PROVE FALSE
      OBVIOUS
    <2>1. /\ (1..j) \in SUBSET (1..n) /\ (1..k) \in SUBSET (1..n)
          /\ (1..j) \subseteq (1..k) /\ k \in (1..k) /\ k \notin (1..j)
      OBVIOUS
    <2>2. <<1..j, 1..k>> \in R
      BY <2>1 DEF R, StrictSubsetOrdering
    <2> QED
      BY <1>4, <1>5, <2>2
  <1> QED
    BY <1>6 DEF First

\* A name and what it ends in.
LEMMA SuffixIsEnd ==
  ASSUME NEW S, NEW h \in Seq(S), NEW d \in Seq(S), d # <<>>
  PROVE  IsSuffix(d, h) <=> \E n \in 1..Len(h) : d = SubSeq(h, n, Len(h))
  <1>1. Len(h) \in Nat /\ Len(d) \in Nat /\ Len(d) > 0
        /\ h = [i \in 1..Len(h) |-> h[i]] /\ d = [i \in 1..Len(d) |-> d[i]]
    OBVIOUS
  <1>2. IsSuffix(d, h) <=>
          /\ Len(d) <= Len(h)
          /\ \A i \in 1..Len(d) : d[Len(d) - i + 1] = h[Len(h) - i + 1]
    <2>1. /\ Reverse(d) \in Seq(S) /\ Len(Reverse(d)) = Len(d)
          /\ \A i \in 1..Len(d) : Reverse(d)[i] = d[Len(d) - i + 1]
      BY <1>1 DEF Reverse
    <2>2. /\ Reverse(h) \in Seq(S) /\ Len(Reverse(h)) = Len(h)
          /\ \A i \in 1..Len(h) : Reverse(h)[i] = h[Len(h) - i + 1]
      BY <1>1 DEF Reverse
    <2>3. IsSuffix(d, h) <=>
            /\ Len(d) <= Len(h)
            /\ SubSeq(Reverse(d), 1, Len(d)) = SubSeq(Reverse(h), 1, Len(d))
      BY <2>1, <2>2 DEF IsSuffix, IsPrefix
    <2> HIDE DEF Reverse
    <2> DEFINE s == Reverse(d)
               t == Reverse(h)
    <2> HIDE DEF s, t
    <2>4. /\ SubSeq(s, 1, Len(d)) = [i \in 1..Len(d) |-> s[i]]
          /\ SubSeq(t, 1, Len(d)) = [i \in 1..Len(d) |-> t[i]]
      BY <1>1
    <2>5. SubSeq(s, 1, Len(d)) = SubSeq(t, 1, Len(d)) <=> \A i \in 1..Len(d) : s[i] = t[i]
      <3>1. ASSUME SubSeq(s, 1, Len(d)) = SubSeq(t, 1, Len(d)), NEW i \in 1..Len(d)
            PROVE  s[i] = t[i]
        <4>1. s[i] = SubSeq(s, 1, Len(d))[i] /\ t[i] = SubSeq(t, 1, Len(d))[i]
          BY <2>4, Zenon
        <4> QED
          BY <3>1, <4>1
      <3>2. ASSUME \A i \in 1..Len(d) : s[i] = t[i]
            PROVE  SubSeq(s, 1, Len(d)) = SubSeq(t, 1, Len(d))
        <4>1. [i \in 1..Len(d) |-> s[i]] = [i \in 1..Len(d) |-> t[i]]
          BY <3>2, Zenon
        <4> QED
          BY <2>4, <4>1
      <3> QED
        BY <3>1, <3>2
    <2>6. IsSuffix(d, h) <=> Len(d) <= Len(h) /\ \A i \in 1..Len(d) : s[i] = t[i]
      BY <2>3, <2>5 DEF s, t
    <2>7. ASSUME Len(d) <= Len(h), NEW i \in 1..Len(d)
          PROVE  s[i] = d[Len(d) - i + 1] /\ t[i] = h[Len(h) - i + 1]
      <3>1. i \in 1..Len(h)
        BY <1>1, <2>7
      <3> QED
        BY <2>1, <2>2, <3>1 DEF s, t
    <2> QED
      BY <2>6, <2>7
  <1>3. ASSUME NEW n \in 1..Len(h)
        PROVE  d = SubSeq(h, n, Len(h)) <=>
                 /\ Len(d) = Len(h) - n + 1
                 /\ \A i \in 1..Len(d) : d[i] = h[n + i - 1]
    <2>1. /\ SubSeq(h, n, Len(h)) \in Seq(S) /\ Len(SubSeq(h, n, Len(h))) = Len(h) - n + 1
          /\ \A i \in 1..(Len(h) - n + 1) : SubSeq(h, n, Len(h))[i] = h[n + i - 1]
      BY <1>1
    <2> DEFINE s == SubSeq(h, n, Len(h))
    <2> HIDE DEF s
    <2>2. d = s <=> Len(d) = Len(s) /\ \A i \in 1..Len(d) : d[i] = s[i]
      BY <2>1, SeqEqual DEF s
    <2> QED
      BY <2>1, <2>2 DEF s
  <1>4. ASSUME IsSuffix(d, h) PROVE \E n \in 1..Len(h) : d = SubSeq(h, n, Len(h))
    <2> DEFINE n == Len(h) - Len(d) + 1
    <2>1. n \in 1..Len(h) /\ Len(d) = Len(h) - n + 1
      BY <1>1, <1>2, <1>4
    <2>2. ASSUME NEW i \in 1..Len(d) PROVE d[i] = h[n + i - 1]
      <3>1. PICK j \in 1..Len(d) : j = Len(d) - i + 1
        BY <1>1
      <3>2. d[Len(d) - j + 1] = h[Len(h) - j + 1]
        BY <1>2, <1>4
      <3>3. Len(d) - j + 1 = i /\ Len(h) - j + 1 = n + i - 1
        BY <1>1, <3>1
      <3> QED
        BY <3>2, <3>3
    <2> HIDE DEF n
    <2> QED
      BY <1>3, <2>1, <2>2
  <1>5. ASSUME NEW n \in 1..Len(h), d = SubSeq(h, n, Len(h)) PROVE IsSuffix(d, h)
    <2>1. Len(d) = Len(h) - n + 1 /\ \A i \in 1..Len(d) : d[i] = h[n + i - 1]
      BY <1>3, <1>5
    <2>2. ASSUME NEW i \in 1..Len(d) PROVE d[Len(d) - i + 1] = h[Len(h) - i + 1]
      <3>1. PICK j \in 1..Len(d) : j = Len(d) - i + 1
        BY <1>1
      <3>2. d[j] = h[n + j - 1] /\ n + j - 1 = Len(h) - i + 1
        BY <1>1, <2>1, <3>1
      <3> QED
        BY <3>1, <3>2
    <2>3. Len(d) <= Len(h)
      BY <1>1, <2>1
    <2> QED
      BY <1>2, <2>2, <2>3
  <1> QED
    BY <1>4, <1>5

\* The ends of a name that has no blank label: none of them ends in a blank.
LEMMA EndsOfName ==
  ASSUME NEW S, NEW blank \in S, NEW h \in Seq(S \ {blank})
  PROVE  /\ h \in Seq(S) /\ Len(h) \in Nat
         /\ \A n \in 1..Len(h) : Len(SubSeq(h, n, Len(h))) = Len(h) - n + 1
         /\ \A d \in Seq(S) : \A n \in 1..Len(h) : SubSeq(h, n, Len(h)) # Append(d, blank)
  <1>1. h \in Seq(S) /\ Len(h) \in Nat
    <2>1. S \ {blank} \subseteq S
      OBVIOUS
    <2> QED
      BY <2>1, SeqMonotonic, LenProperties
  <1>2. \A k \in 1..Len(h) : h[k] \in S /\ h[k] # blank
    BY ElementOfSeq
  <1>3. ASSUME NEW n \in 1..Len(h)
        PROVE  /\ Len(SubSeq(h, n, Len(h))) = Len(h) - n + 1
               /\ \A i \in 1..(Len(h) - n + 1) : SubSeq(h, n, Len(h))[i] = h[n + i - 1]
    <2>1. n \in Int /\ Len(h) \in Int /\ n <= Len(h) /\ \A i \in n..Len(h) : h[i] \in S
      BY <1>1, <1>2
    <2> QED
      BY <2>1, SubSeqProperties
  <1>4. ASSUME NEW d \in Seq(S), NEW n \in 1..Len(h), SubSeq(h, n, Len(h)) = Append(d, blank)
        PROVE  FALSE
    <2>1. /\ Len(d) \in Nat /\ Len(Append(d, blank)) = Len(d) + 1
          /\ Append(d, blank)[Len(d) + 1] = blank
      BY AppendProperties, LenProperties
    <2>2. Len(d) + 1 = Len(h) - n + 1 /\ Len(d) + 1 \in 1..(Len(h) - n + 1)
          /\ n + (Len(d) + 1) - 1 = Len(h) /\ Len(h) \in 1..Len(h)
      BY <1>1, <1>3, <1>4, <2>1
    <2>3. SubSeq(h, n, Len(h))[Len(d) + 1] = h[Len(h)]
      BY <1>3, <2>2
    <2> QED
      BY <1>2, <1>4, <2>1, <2>2, <2>3
  <1> QED
    BY <1>1, <1>3, <1>4

\* The names a host falls under, and what has one of them as its host.
LEMMA NamesOver ==
  ASSUME NEW i \in Indicator, IsHost(i)
  PROVE  /\ DOMAIN ParentDomains(i.value) = 1..Len(i.value.of)
         /\ Len(i.value.of) \in Nat
         /\ \A n \in DOMAIN ParentDomains(i.value) :
              Len(ParentDomains(i.value)[n]) = Len(i.value.of) - n + 1
         /\ \A w \in Held :
              (\E n \in DOMAIN ParentDomains(i.value) : ParentDomains(i.value)[n] = Host(w))
                <=> w.as # "urldot" /\ Under(i.value, w.of)
         /\ \A d \in Seq(Labels \cup {""}) \ {<<>>} :
              Under(i.value, d) <=> \E n \in DOMAIN ParentDomains(i.value) : ParentDomains(i.value)[n] = d
  <1>1. PICK h : h = i.value.of
    OBVIOUS
  <1>2. i.value \in Value /\ i.value.as # "urldot"
    BY DEF Indicator, IsHost
  <1>3. h \in Seq(Labels)
    <2>1. h \in Names
      BY <1>1, <1>2 DEF Value
    <2> QED
      BY <2>1, DetectionAssumption
  <1>4. PICK blank : blank = ""
    OBVIOUS
  <1>5. PICK S : S = Labels \cup {""}
    OBVIOUS
  <1>6. blank \in S
    BY <1>4, <1>5
  <1>7. h \in Seq(S \ {blank})
    <2>1. Labels = S \ {blank}
      BY <1>4, <1>5, DetectionAssumption
    <2> QED
      BY <1>3, <2>1
  <1>8. /\ h \in Seq(S) /\ Len(h) \in Nat
        /\ \A n \in 1..Len(h) : Len(SubSeq(h, n, Len(h))) = Len(h) - n + 1
        /\ \A d \in Seq(S) : \A n \in 1..Len(h) : SubSeq(h, n, Len(h)) # Append(d, blank)
    BY ONLY <1>6, <1>7, EndsOfName
  <1>9. /\ DOMAIN ParentDomains(i.value) = 1..Len(h)
        /\ \A n \in 1..Len(h) : ParentDomains(i.value)[n] = SubSeq(h, n, Len(h))
    BY <1>1, <1>2 DEF ParentDomains, Host
  <1>10. ASSUME NEW d \in Seq(S) \ {<<>>}
         PROVE  Under(i.value, d) <=> \E n \in 1..Len(h) : SubSeq(h, n, Len(h)) = d
    <2>1. IsSuffix(d, h) <=> \E n \in 1..Len(h) : d = SubSeq(h, n, Len(h))
      BY <1>8, SuffixIsEnd
    <2> QED
      BY <1>1, <2>1 DEF Under
  <1>11. ASSUME NEW w \in [of : Seq(S) \ {<<>>}, as : Forms]
         PROVE  (\E n \in 1..Len(h) : SubSeq(h, n, Len(h)) = Host(w))
                  <=> w.as # "urldot" /\ Under(i.value, w.of)
    <2>1. w.of \in Seq(S) \ {<<>>}
      OBVIOUS
    <2>2. CASE w.as # "urldot"
      BY <1>10, <2>1, <2>2 DEF Host
    <2>3. CASE w.as = "urldot"
      <3>1. Host(w) = Append(w.of, blank)
        BY <1>4, <2>3 DEF Host
      <3> QED
        BY <1>8, <2>1, <2>3, <3>1
    <2> QED
      BY <2>2, <2>3
  <1> DEFINE W == [of : Seq(S) \ {<<>>}, as : Forms]
             Q == Seq(S) \ {<<>>}
  <1>12. /\ W = Held
         /\ Q = Seq(Labels \cup {""}) \ {<<>>}
    BY <1>5, Zenon DEF Held
  <1>13. /\ \A w \in W : (\E n \in 1..Len(h) : SubSeq(h, n, Len(h)) = Host(w))
                           <=> w.as # "urldot" /\ Under(i.value, w.of)
         /\ \A d \in Q : Under(i.value, d) <=> \E n \in 1..Len(h) : SubSeq(h, n, Len(h)) = d
    BY <1>10, <1>11, Zenon
  <1> HIDE DEF W, Q
  <1>14. /\ \A w \in W : (\E n \in DOMAIN ParentDomains(i.value) : ParentDomains(i.value)[n] = Host(w))
                           <=> w.as # "urldot" /\ Under(i.value, w.of)
         /\ \A d \in Q : Under(i.value, d) <=> \E n \in DOMAIN ParentDomains(i.value) : ParentDomains(i.value)[n] = d
    BY <1>9, <1>13, Zenon
  <1>15. \A n \in DOMAIN ParentDomains(i.value) : Len(ParentDomains(i.value)[n]) = Len(h) - n + 1
    BY <1>8, <1>9, Zenon
  <1> QED
    BY <1>1, <1>8, <1>9, <1>12, <1>14, <1>15, Zenon

\* What names and hashes are made of, and what the feeds name.
LEMMA ValueIsHeld == Value \subseteq Held
  <1> SUFFICES ASSUME NEW v \in Value PROVE v \in Held
    OBVIOUS
  <1>1. v.of \in Names /\ v.as \in Forms /\ v = [of |-> v.of, as |-> v.as]
    BY DEF Value
  <1>2. v.of \in Seq(Labels) \ {<<>>}
    BY <1>1, DetectionAssumption
  <1>3. Labels \subseteq Labels \cup {""}
    OBVIOUS
  <1>4. v.of \in Seq(Labels \cup {""}) \ {<<>>}
    BY <1>2, <1>3, SeqMonotonic
  <1> QED
    BY <1>1, <1>4 DEF Held

LEMMA SentIsTyped ==
  /\ Sent \subseteq [type : STRING, value : Value]
  /\ \A p \in Sent : p.type \in {"ip", "hash"} => p.value.as \in {"plain", "odd"}
  /\ \A p \in Sent : Key(p) \in Keys
  <1>1. ASSUME NEW f \in Feeds PROVE Range(f) \subseteq [type : STRING, value : Value]
    <2>1. f \in Seq([type : STRING, value : Value])
      BY DetectionAssumption
    <2> QED
      BY <2>1, RangeOfSeq
  <1> QED
    BY <1>1, DetectionAssumption DEF Sent, Keys

\* The row an indicator is kept in.
LEMMA KeyOf ==
  ASSUME NEW T, NEW i \in [type : T, value : Held]
  PROVE  /\ Key(i).type = i.type
         /\ i.type = "domain" => Key(i).value = Plain(Host(i.value))
         /\ i.type = "hash" /\ i.value.as \in {"plain", "odd"} =>
              Key(i) = [type |-> "hash", value |-> Plain(i.value.of)]
         /\ i.type = "ip" => Key(i) = i
  <1>1. PICK w : w = Normalize(i.type, i.value)
    OBVIOUS
  <1>2. Key(i) = [type |-> i.type, value |-> w]
    <2>1. i = [type |-> i.type, value |-> i.value]
      OBVIOUS
    <2>2. Key(i) = [i EXCEPT !.value = w]
      BY <1>1 DEF Key
    <2> QED
      BY <2>1, <2>2
  <1>3. i.type = "domain" => w = Plain(Host(i.value))
    BY <1>1 DEF Normalize
  <1>4. i.type = "hash" /\ i.value.as \in {"plain", "odd"} => w = Plain(i.value.of)
    <2>1. PICK v \in Held : v = i.value
      OBVIOUS
    <2>2. v = [of |-> v.of, as |-> v.as]
      BY DEF Held
    <2>3. CASE i.type = "hash" /\ v.as = "odd"
      BY <1>1, <2>1, <2>3 DEF Normalize
    <2>4. CASE i.type = "hash" /\ v.as = "plain"
      BY <1>1, <2>1, <2>2, <2>4 DEF Normalize, Plain
    <2> QED
      BY <2>1, <2>3, <2>4
  <1>5. i.type = "ip" => w = i.value
    BY <1>1 DEF Normalize
  <1>6. i.type = "ip" => Key(i) = i
    BY <1>2, <1>5
  <1> QED
    BY <1>2, <1>3, <1>4, <1>6

\* lookup() finds a row exactly for what something promised catches.
LEMMA KnownIffPromised ==
  ASSUME EngineTypeOK, LiveIsPromised, NEW i \in Indicator,
         IsHost(i) \/ (i.type \in {"ip", "hash"} /\ i.value.as \in {"plain", "odd"})
  PROVE  Known(i) <=> \E p \in promised : Catches(p, i)
  <1>1. i = [type |-> i.type, value |-> i.value] /\ i.value \in Held
    BY ValueIsHeld DEF Indicator
  <1>2. ASSUME NEW p \in promised
        PROVE  /\ p \in Sent /\ p \in [type : STRING, value : Held] /\ Key(p) \in Keys
               /\ p.value \in Held /\ iocs[Key(p)] = "live"
               /\ p.type \in {"ip", "hash"} => p.value.as \in {"plain", "odd"}
    <2>1. p \in Sent
      BY DEF EngineTypeOK
    <2>2. /\ p \in [type : STRING, value : Held] /\ Key(p) \in Keys
          /\ p.type \in {"ip", "hash"} => p.value.as \in {"plain", "odd"}
      BY <2>1, SentIsTyped, ValueIsHeld
    <2>3. iocs[Key(p)] = "live"
      <3>1. Withdrawn(Key(p)) # {}
        BY DEF Withdrawn
      <3> QED
        BY <2>2, <3>1, Zenon DEF LiveIsPromised
    <2>4. p.value \in Held
      BY <2>2
    <2> QED
      BY <2>1, <2>2, <2>3, <2>4, Zenon
  <1>3. ASSUME NEW k \in Keys, iocs[k] = "live" PROVE \E p \in promised : Key(p) = k
    BY <1>3 DEF LiveIsPromised, Withdrawn
  <1>4. CASE IsHost(i)
    <2>1. i.type \in {"domain", "url"} /\ i.type \notin {"ip", "hash"} /\ i.value.as # "bad"
      BY <1>4 DEF IsHost
    <2>2. Known(i) <=> \E k \in Keys :
                         /\ iocs[k] = "live" /\ k.type = "domain"
                         /\ \E n \in DOMAIN ParentDomains(i.value) : k.value = Plain(ParentDomains(i.value)[n])
      BY <2>1, Zenon DEF Known
    <2>3. ASSUME NEW p \in promised
          PROVE  Catches(p, i) <=>
                   /\ Key(p).type = "domain"
                   /\ \E n \in DOMAIN ParentDomains(i.value) : Key(p).value = Plain(ParentDomains(i.value)[n])
      <3>1. Key(p).type = p.type /\ (p.type = "domain" => Key(p).value = Plain(Host(p.value)))
        BY <1>2, KeyOf
      <3>2. (\E n \in DOMAIN ParentDomains(i.value) : ParentDomains(i.value)[n] = Host(p.value))
              <=> p.value.as # "urldot" /\ Under(i.value, p.value.of)
        BY <1>2, <1>4, NamesOver DEF Held
      <3>3. \A a, b : Plain(a) = Plain(b) <=> a = b
        BY DEF Plain
      <3>4. Catches(p, i) <=> p.type = "domain" /\ p.value.as # "urldot" /\ Under(i.value, p.value.of)
        BY <1>4, <2>1 DEF Catches
      <3> QED
        BY <3>1, <3>2, <3>3, <3>4, Zenon
    <2> QED
      BY <1>2, <1>3, <2>2, <2>3, Zenon
  <1>5. CASE i.type = "hash" /\ i.value.as \in {"plain", "odd"}
    <2>1. Known(i) <=> \E k \in Keys : iocs[k] = "live" /\ k = Key(i)
      BY <1>5 DEF Known
    <2>2. Key(i) = [type |-> "hash", value |-> Plain(i.value.of)]
      BY <1>1, <1>5, KeyOf DEF Indicator
    <2>3. ASSUME NEW p \in promised PROVE Catches(p, i) <=> Key(p) = Key(i)
      <3>1. Key(p).type = p.type
            /\ (p.type = "hash" => Key(p) = [type |-> "hash", value |-> Plain(p.value.of)])
        BY <1>2, KeyOf
      <3>2. Catches(p, i) <=> p.type = "hash" /\ p.value.of = i.value.of
        BY <1>5 DEF Catches, IsHost
      <3>3. Key(p) = Key(i) => p.type = "hash"
        BY <2>2, <3>1
      <3> QED
        BY <2>2, <3>1, <3>2, <3>3 DEF Plain
    <2> QED
      BY <1>2, <1>3, <2>1, <2>3, Zenon
  <1>6. CASE i.type = "ip"
    <2>1. Known(i) <=> \E k \in Keys : iocs[k] = "live" /\ k = Key(i)
      BY <1>6 DEF Known
    <2>2. Key(i) = i
      BY <1>1, <1>6, KeyOf DEF Indicator
    <2>3. ASSUME NEW p \in promised PROVE Catches(p, i) <=> Key(p) = Key(i)
      <3>1. Key(p).type = p.type /\ (p.type = "ip" => Key(p) = p)
        BY <1>2, KeyOf
      <3>2. p = [type |-> p.type, value |-> p.value]
        BY <1>2
      <3>3. Catches(p, i) <=> p.type = "ip" /\ p.value = i.value
        BY <1>6 DEF Catches, IsHost
      <3>4. p = i <=> p.type = i.type /\ p.value = i.value
        BY <1>1, <3>2
      <3>5. Key(p) = Key(i) => p.type = "ip"
        BY <1>6, <2>2, <3>1
      <3> QED
        BY <1>6, <2>2, <3>1, <3>3, <3>4, <3>5
    <2> QED
      BY <1>2, <1>3, <2>1, <2>3, Zenon
  <1> QED
    BY <1>4, <1>5, <1>6

-------------------------------------------------------------------------------
(* The detection engine: the blocklist.                                    *)

\* The domains listed, but for those kept as URLs whose host ends in a dot.
ListedHosts == {b.value.of : b \in {c \in blocked : c.kind = "domain" /\ c.value.as # "urldot"}}

\* host_matches_any() finds the longest of the listed domains a host is under.
LEMMA MatchedIsLongest ==
  ASSUME EngineTypeOK, NEW i \in Indicator, IsHost(i)
  PROVE  /\ \A d \in ListedHosts : Under(i.value, d) => Blocking(i) # {}
         /\ Blocking(i) # {} =>
              /\ Matched(i) \in ListedHosts /\ Under(i.value, Matched(i))
              /\ \A c \in ListedHosts : Under(i.value, c) => Len(c) <= Len(Matched(i))
  <1> DEFINE above == ParentDomains(i.value)
             len == Len(i.value.of)
  <1>1. /\ DOMAIN above = 1..len /\ len \in Nat
        /\ \A n \in DOMAIN above : Len(above[n]) = len - n + 1
    BY NamesOver, Zenon
  <1>2. \A w \in Held :
          (\E n \in DOMAIN above : above[n] = Host(w)) <=> w.as # "urldot" /\ Under(i.value, w.of)
    BY NamesOver, Zenon
  <1>3. Blocking(i) = {n \in DOMAIN above : above[n] \in BlockedHosts}
    BY DEF Blocking, IsHost
  <1> HIDE DEF above, len
  <1>4. ASSUME NEW b \in blocked PROVE b.value \in Held
    BY DEF EngineTypeOK, Listed
  <1>5. ASSUME NEW n \in Blocking(i)
        PROVE  n \in 1..len /\ above[n] \in ListedHosts /\ Under(i.value, above[n])
    <2>1. n \in DOMAIN above /\ above[n] \in BlockedHosts
      BY <1>3
    <2>2. PICK b \in blocked : b.kind = "domain" /\ above[n] = Host(b.value)
      BY <2>1 DEF BlockedHosts, BlockedValues
    <2>3. b.value.as # "urldot" /\ Under(i.value, b.value.of)
      BY <1>2, <1>4, <2>1, <2>2, Zenon
    <2>4. above[n] = b.value.of
      BY <2>2, <2>3 DEF Host
    <2> QED
      BY <1>1, <2>1, <2>2, <2>3, <2>4 DEF ListedHosts
  <1>6. ASSUME NEW d \in ListedHosts, Under(i.value, d)
        PROVE  \E n \in Blocking(i) : above[n] = d
    <2>1. PICK b \in blocked : b.kind = "domain" /\ b.value.as # "urldot" /\ d = b.value.of
      BY DEF ListedHosts
    <2>2. PICK n \in DOMAIN above : above[n] = Host(b.value)
      BY <1>2, <1>4, <1>6, <2>1, Zenon
    <2>3. Host(b.value) = d /\ Host(b.value) \in BlockedHosts
      BY <2>1 DEF Host, BlockedHosts, BlockedValues
    <2> QED
      BY <1>3, <2>2, <2>3
  <1>7. ASSUME Blocking(i) # {}
        PROVE  /\ Matched(i) \in ListedHosts /\ Under(i.value, Matched(i))
               /\ \A c \in ListedHosts : Under(i.value, c) => Len(c) <= Len(Matched(i))
    <2> DEFINE f == First(Blocking(i))
    <2>1. f \in Blocking(i) /\ \A m \in Blocking(i) : f <= m
      <3>1. Blocking(i) \in SUBSET (1..len)
        BY <1>5
      <3> QED
        BY <1>1, <1>7, <3>1, FirstOfPositions
    <2>2. Matched(i) = above[f]
      BY DEF Matched, above
    <2> HIDE DEF f
    <2>3. ASSUME NEW c \in ListedHosts, Under(i.value, c)
          PROVE  Len(c) <= Len(above[f])
      <3>1. PICK n \in Blocking(i) : above[n] = c
        BY <1>6, <2>3
      <3> QED
        BY <1>1, <1>5, <2>1, <3>1
    <2> QED
      BY <1>5, <2>1, <2>2, <2>3
  <1> QED
    BY <1>6, <1>7

\* The first of the indicators that name a blocked domain names it in the detections.
LEMMA MatchesAreNamed ==
  ASSUME NEW seen \in Seq(Indicator)
  PROVE  /\ DOMAIN seen = 1..Len(seen) /\ Range(seen) \subseteq Indicator
         /\ NewMatches(seen) \subseteq {n \in 1..Len(seen) : Blocking(seen[n]) # {}}
         /\ \A n \in 1..Len(seen) : Blocking(seen[n]) # {} =>
              \E m \in NewMatches(seen) : Matched(seen[m]) = Matched(seen[n])
         /\ \A m, n \in NewMatches(seen) : Matched(seen[m]) = Matched(seen[n]) => m = n
  <1>1. DOMAIN seen = 1..Len(seen) /\ Len(seen) \in Nat
    OBVIOUS
  <1>2. Range(seen) \subseteq Indicator
    BY RangeOfSeq
  <1>3. \A n : n \in NewMatches(seen) <=>
          /\ n \in 1..Len(seen) /\ Blocking(seen[n]) # {}
          /\ \A m \in 1..(n - 1) : Blocking(seen[m]) # {} => Matched(seen[m]) # Matched(seen[n])
    BY <1>1, Zenon DEF NewMatches
  <1>4. ASSUME NEW n \in 1..Len(seen), Blocking(seen[n]) # {}
        PROVE  \E m \in NewMatches(seen) : Matched(seen[m]) = Matched(seen[n])
    <2> DEFINE same == {m \in 1..Len(seen) : Blocking(seen[m]) # {} /\ Matched(seen[m]) = Matched(seen[n])}
    <2>1. same \in SUBSET (1..Len(seen)) /\ n \in same
      BY <1>4
    <2>2. First(same) \in same /\ \A m \in same : First(same) <= m
      BY <1>1, <2>1, FirstOfPositions
    <2>3. PICK f : f = First(same)
      OBVIOUS
    <2>4. f \in 1..Len(seen) /\ Blocking(seen[f]) # {} /\ Matched(seen[f]) = Matched(seen[n])
      BY <2>2, <2>3
    <2>5. ASSUME NEW m \in 1..(f - 1), Blocking(seen[m]) # {}
          PROVE  Matched(seen[m]) # Matched(seen[f])
      <3>1. m \in 1..Len(seen) /\ ~ (f <= m)
        BY <1>1, <2>4
      <3> QED
        BY <2>2, <2>3, <2>4, <2>5, <3>1
    <2> QED
      BY <1>3, <2>4, <2>5
  <1>5. ASSUME NEW m \in NewMatches(seen), NEW n \in NewMatches(seen), m < n
        PROVE  Matched(seen[m]) # Matched(seen[n])
    <2>1. m \in 1..(n - 1) /\ Blocking(seen[m]) # {}
      BY <1>1, <1>3, <1>5
    <2> QED
      BY <1>3, <2>1
  <1>6. ASSUME NEW m \in NewMatches(seen), NEW n \in NewMatches(seen), m # n
        PROVE  Matched(seen[m]) # Matched(seen[n])
    <2>1. m \in Int /\ n \in Int
      BY <1>1, <1>3
    <2>2. m < n \/ n < m
      BY <1>6, <2>1
    <2> QED
      BY <1>5, <2>2
  <1> QED
    BY <1>1, <1>2, <1>3, <1>4, <1>6

-------------------------------------------------------------------------------
(* The detection engine: the invariant.                                    *)

LEMMA EditedKeeps ==
  ASSUME EngineInv, Edited
  PROVE  edits' \in 0..MaxEdits /\ RaisedIsCurrent'
  <1>1. edits' \in 0..MaxEdits
    <2>1. MaxEdits \in Nat /\ edits \in 0..MaxEdits
      BY DetectionAssumption, Zenon DEF EngineInv, EngineTypeOK
    <2>2. edits < MaxEdits /\ edits' = edits + 1
      BY DEF Edited
    <2> QED
      BY ONLY <2>1, <2>2
  <1> QED
    BY <1>1 DEF Edited, RaisedIsCurrent

LEMMA InitIsGood == ASSUME EngineInit PROVE EngineInv
  <1>1. EngineTypeOK
    <2>1. 0 \in 0..MaxEdits
      <3>1. MaxEdits \in Nat
        BY DetectionAssumption, Zenon
      <3> QED
        BY ONLY <3>1
    <2>2. /\ rules = {} /\ iocs = [k \in Keys |-> "none"] /\ blocked = {}
          /\ at = [t \in Threads |-> <<>>] /\ edits = 0 /\ promised = {}
      BY DEF EngineInit
    <2> QED
      BY <2>1, <2>2 DEF EngineTypeOK
  <1>2. LiveIsPromised
    <2> SUFFICES ASSUME NEW k \in Keys PROVE iocs[k] # "live" /\ Withdrawn(k) = {}
      BY Zenon DEF LiveIsPromised
    <2> QED
      BY DEF EngineInit, Withdrawn
  <1> QED
    BY <1>1, <1>2 DEF EngineInit, EngineInv, RaisedIsCurrent

LEMMA LiveUnchanged ==
  ASSUME LiveIsPromised, iocs' = iocs, promised' = promised
  PROVE  LiveIsPromised'
  BY DEF LiveIsPromised, Withdrawn

LEMMA RulesKeep ==
  ASSUME EngineInv, NEW r \in RuleRows, CreateRule(r) \/ DeleteRule(r)
  PROVE  EngineInv'
  <1>1. Edited /\ iocs' = iocs /\ promised' = promised /\ blocked' = blocked /\ at' = at
    BY DEF CreateRule, DeleteRule
  <1>2. rules' \subseteq RuleRows
    BY DEF CreateRule, DeleteRule, EngineInv, EngineTypeOK
  <1>3. EngineTypeOK'
    BY <1>1, <1>2, EditedKeeps DEF EngineInv, EngineTypeOK
  <1> QED
    BY <1>1, <1>3, EditedKeeps, LiveUnchanged DEF EngineInv

LEMMA BlocklistKeeps ==
  ASSUME EngineInv,
         (\E s \in Listings : AddBlocklist(s) \/ BlockDomain(s)) \/ (\E b \in blocked : DeleteBlocklist(b))
  PROVE  EngineInv'
  <1>1. Edited /\ iocs' = iocs /\ promised' = promised /\ rules' = rules /\ at' = at
    BY DEF AddBlocklist, BlockDomain, List, DeleteBlocklist
  <1>2. \A s \in Listings : s \in [kind : STRING, value : Value] /\ s \in Listed
    BY DetectionAssumption, ValueIsHeld DEF Listed
  <1>3. ASSUME NEW v \in Value PROVE Plain(Host(v)) \in Held
    <2>1. v \in Held
      BY ValueIsHeld
    <2>2. Host(v) \in Seq(Labels \cup {""}) \ {<<>>}
      <3>1. v.of \in Seq(Labels \cup {""}) \ {<<>>}
        BY <2>1 DEF Held
      <3>2. PICK blank \in Labels \cup {""} : blank = ""
        OBVIOUS
      <3>3. Append(v.of, blank) \in Seq(Labels \cup {""}) \ {<<>>}
        <4>1. PICK S : S = Labels \cup {""}
          OBVIOUS
        <4>2. v.of \in Seq(S) /\ blank \in S
          BY <3>1, <3>2, <4>1
        <4>3. \A d \in Seq(S) : Append(d, blank) \in Seq(S) /\ Append(d, blank) # <<>>
          BY ONLY <4>2, AppendProperties
        <4> QED
          BY <4>1, <4>2, <4>3
      <3> QED
        BY <3>1, <3>2, <3>3 DEF Host
    <2> QED
      BY <2>2 DEF Plain, Held, Forms
  <1>4. blocked' \subseteq Listed
    <2>1. blocked \subseteq Listed
      BY DEF EngineInv, EngineTypeOK
    <2>2. ASSUME NEW s \in Listings, AddBlocklist(s) PROVE blocked' \subseteq Listed
      <3> DEFINE entry == [s EXCEPT !.value = IF s.kind = "domain" THEN Plain(Host(@)) ELSE @]
      <3>1. entry \in Listed
        BY <1>2, <1>3, ValueIsHeld DEF Listed
      <3>2. blocked' = blocked \cup {entry}
        BY <2>2 DEF AddBlocklist, List
      <3> QED
        BY <2>1, <3>1, <3>2
    <2>3. ASSUME NEW s \in Listings, BlockDomain(s) PROVE blocked' \subseteq Listed
      BY <1>2, <2>1, <2>3 DEF BlockDomain, List
    <2>4. ASSUME NEW b \in blocked, DeleteBlocklist(b) PROVE blocked' \subseteq Listed
      BY <2>1, <2>4 DEF DeleteBlocklist
    <2> QED
      BY <2>2, <2>3, <2>4
  <1>5. EngineTypeOK'
    BY <1>1, <1>4, EditedKeeps DEF EngineInv, EngineTypeOK
  <1> QED
    BY <1>1, <1>5, EditedKeeps, LiveUnchanged DEF EngineInv

\* What an import has read.
LEMMA ImportIsTyped ==
  ASSUME EngineInv, NEW t \in Threads, at[t] # <<>>
  PROVE  /\ at[t] = <<at[t][1]>> /\ at[t][1].feed \in Feeds /\ at[t][1].known \subseteq Keys
         /\ \A n \in DOMAIN at[t][1].feed : at[t][1].feed[n] \in Sent
  <1>1. at[t] \in {<<>>} \cup {<<r>> : r \in Import}
    BY DEF EngineInv, EngineTypeOK
  <1>2. PICK r \in Import : at[t] = <<r>>
    BY <1>1
  <1>3. at[t][1] = r /\ r.feed \in Feeds /\ r.known \subseteq Keys
    BY <1>2 DEF Import
  <1>4. \A n \in DOMAIN r.feed : r.feed[n] \in Sent
    BY <1>3 DEF Sent, Range
  <1> QED
    BY <1>2, <1>3, <1>4

LEMMA ImportReadKeeps ==
  ASSUME EngineInv, NEW t \in Threads, NEW f \in Feeds, ImportRead(t, f)
  PROVE  EngineInv'
  <1>1. Edited /\ rules' = rules /\ iocs' = iocs /\ blocked' = blocked /\ promised' = promised
    BY DEF ImportRead, tables
  <1>2. PICK r : r = [feed |-> f, known |-> Present \cap {Key(f[n]) : n \in Valid(f)}]
    OBVIOUS
  <1>3. r \in Import
    BY <1>2 DEF Import, Present
  <1>4. at' = [at EXCEPT ![t] = <<r>>]
    BY <1>2 DEF ImportRead
  <1>5. at' \in [Threads -> {<<>>} \cup {<<q>> : q \in Import}]
    BY <1>3, <1>4 DEF EngineInv, EngineTypeOK
  <1>6. EngineTypeOK'
    BY <1>1, <1>5, EditedKeeps DEF EngineInv, EngineTypeOK
  <1> QED
    BY <1>1, <1>6, EditedKeeps, LiveUnchanged DEF EngineInv

\* What an import writes is live, and promised.
LEMMA RowsAreLive ==
  ASSUME EngineTypeOK, LiveIsPromised, NEW written \in SUBSET Sent,
         iocs' = RowsWith({Key(i) : i \in written}), promised' = promised \cup written
  PROVE  /\ iocs' \in [Keys -> {"none", "live", "expired"}]
         /\ promised' \subseteq Sent
         /\ LiveIsPromised'
  <1>1. iocs' \in [Keys -> {"none", "live", "expired"}] /\ promised' \subseteq Sent
    BY DEF EngineTypeOK, RowsWith
  <1>2. ASSUME NEW k \in Keys
        PROVE  iocs'[k] = "live" <=> \E i \in promised' : Key(i) = k
    <2>1. iocs'[k] = "live" <=> iocs[k] = "live" \/ \E i \in written : Key(i) = k
      BY DEF RowsWith
    <2>2. iocs[k] = "live" <=> \E i \in promised : Key(i) = k
      BY DEF LiveIsPromised, Withdrawn
    <2> QED
      BY <2>1, <2>2
  <1> QED
    BY <1>1, <1>2 DEF LiveIsPromised, Withdrawn

LEMMA ImportCommitKeeps ==
  ASSUME EngineInv, NEW t \in Threads, ImportCommit(t)
  PROVE  EngineInv'
  <1> DEFINE feed == at[t][1].feed
             known == at[t][1].known
             gone == known \ Present
             written == {i \in {feed[n] : n \in Valid(feed)} : Key(i) \notin gone}
  <1>1. /\ at[t] # <<>> /\ raised' = <<>>
        /\ at' = [at EXCEPT ![t] = <<>>]
        /\ rules' = rules /\ blocked' = blocked /\ edits' = edits
        /\ \/ iocs' = iocs /\ promised' = promised
           \/ iocs' = RowsWith({Key(i) : i \in written}) /\ promised' = promised \cup written
    BY Zenon DEF ImportCommit
  <1>2. written \in SUBSET Sent
    BY <1>1, ImportIsTyped DEF Valid
  <1> HIDE DEF written
  <1>3. /\ iocs' \in [Keys -> {"none", "live", "expired"}]
        /\ promised' \subseteq Sent
        /\ LiveIsPromised'
    <2>1. CASE iocs' = iocs /\ promised' = promised
      BY <2>1, LiveUnchanged DEF EngineInv, EngineTypeOK
    <2>2. CASE iocs' = RowsWith({Key(i) : i \in written}) /\ promised' = promised \cup written
      BY <1>2, <2>2, RowsAreLive DEF EngineInv
    <2> QED
      BY <1>1, <2>1, <2>2
  <1>4. at' \in [Threads -> {<<>>} \cup {<<r>> : r \in Import}]
    BY <1>1 DEF EngineInv, EngineTypeOK
  <1>5. EngineTypeOK'
    BY <1>1, <1>3, <1>4 DEF EngineInv, EngineTypeOK
  <1>6. RaisedIsCurrent'
    BY <1>1 DEF RaisedIsCurrent
  <1> QED
    BY <1>3, <1>5, <1>6 DEF EngineInv

\* A row that is deleted, or expires, takes what was promised of it along.
LEMMA RowsGoKeeps ==
  ASSUME EngineInv, NEW k \in Keys, DeleteIOC(k) \/ Expire(k)
  PROVE  EngineInv'
  <1>1. /\ rules' = rules /\ blocked' = blocked /\ at' = at
        /\ edits' \in 0..MaxEdits /\ RaisedIsCurrent'
    <2>1. CASE DeleteIOC(k)
      BY <2>1, EditedKeeps DEF DeleteIOC
    <2>2. CASE Expire(k)
      BY <2>2 DEF Expire, RaisedIsCurrent, EngineInv, EngineTypeOK
    <2> QED
      BY <2>1, <2>2
  <1>2. PICK was \in {"none", "expired"} : iocs' = [iocs EXCEPT ![k] = was]
    BY DEF DeleteIOC, Expire
  <1>3. promised' = {i \in promised : Key(i) # k}
    BY DEF DeleteIOC, Expire, Withdrawn
  <1>4. iocs' \in [Keys -> {"none", "live", "expired"}] /\ promised' \subseteq Sent
    BY <1>2, <1>3 DEF EngineInv, EngineTypeOK
  <1>5. ASSUME NEW l \in Keys PROVE iocs'[l] = "live" <=> \E i \in promised' : Key(i) = l
    <2>1. iocs[l] = "live" <=> \E i \in promised : Key(i) = l
      BY DEF EngineInv, LiveIsPromised, Withdrawn
    <2>2. l # k => iocs'[l] = iocs[l]
      BY <1>2 DEF EngineInv, EngineTypeOK
    <2>3. iocs'[k] # "live"
      BY <1>2 DEF EngineInv, EngineTypeOK
    <2> QED
      BY <1>3, <2>1, <2>2, <2>3
  <1>6. LiveIsPromised'
    BY <1>5 DEF LiveIsPromised, Withdrawn
  <1>7. EngineTypeOK'
    BY <1>1, <1>4 DEF EngineInv, EngineTypeOK
  <1> QED
    BY <1>1, <1>6, <1>7 DEF EngineInv

LEMMA EvaluateKeeps ==
  ASSUME EngineInv, NEW e \in Events, NEW fire \in SUBSET rules, EvaluateEvent(e, fire)
  PROVE  EngineInv'
  <1>1. /\ rules' = rules /\ iocs' = iocs /\ blocked' = blocked
        /\ at' = at /\ edits' = edits /\ promised' = promised
    BY DEF EvaluateEvent, tables
  <1>2. /\ raised'[1].event = e
        /\ ~ Stops(e) => /\ raised'[1].iocs = EvaluateIOCs(e.seen)
                         /\ raised'[1].domains = BlocklistDomains(e.seen)
    BY DEF EvaluateEvent
  <1>3. \A s : EvaluateIOCs(s)' = EvaluateIOCs(s)
    BY <1>1 DEF EvaluateIOCs, Known
  <1>4. \A s : BlocklistDomains(s)' = BlocklistDomains(s)
    BY <1>1 DEF BlocklistDomains, NewMatches, Matched, Blocking, BlockedHosts, BlockedValues
  <1>7. Stops(e)' = Stops(e)
    BY <1>1 DEF Stops, BlockedValues
  <1>5. RaisedIsCurrent'
    BY <1>2, <1>3, <1>4, <1>7 DEF RaisedIsCurrent
  <1>6. EngineTypeOK'
    BY <1>1 DEF EngineInv, EngineTypeOK
  <1> QED
    BY <1>1, <1>5, <1>6, LiveUnchanged DEF EngineInv

LEMMA UnchangedKeeps == ASSUME EngineInv, UNCHANGED engineVars PROVE EngineInv'
  <1>1. /\ rules' = rules /\ iocs' = iocs /\ blocked' = blocked /\ at' = at
        /\ raised' = raised /\ edits' = edits /\ promised' = promised
    BY DEF engineVars, tables
  <1>2. \A s : EvaluateIOCs(s)' = EvaluateIOCs(s)
    BY <1>1 DEF EvaluateIOCs, Known
  <1>3. \A s : BlocklistDomains(s)' = BlocklistDomains(s)
    BY <1>1 DEF BlocklistDomains, NewMatches, Matched, Blocking, BlockedHosts, BlockedValues
  <1>6. \A e : Stops(e)' = Stops(e)
    BY <1>1 DEF Stops, BlockedValues
  <1>4. RaisedIsCurrent'
    BY <1>1, <1>2, <1>3, <1>6 DEF RaisedIsCurrent, EngineInv
  <1>5. EngineTypeOK'
    BY <1>1 DEF EngineInv, EngineTypeOK
  <1> QED
    BY <1>1, <1>4, <1>5, LiveUnchanged DEF EngineInv

\* Every step of the engine keeps the invariant.
THEOREM EngineIsInductive == EngineSpec => []EngineInv
  <1>1. EngineInit => EngineInv
    BY InitIsGood
  <1>2. EngineInv /\ [EngineNext]_engineVars => EngineInv'
    <2> SUFFICES ASSUME EngineInv, [EngineNext]_engineVars PROVE EngineInv'
      OBVIOUS
    <2>1. CASE UNCHANGED engineVars
      BY <2>1, UnchangedKeeps
    <2>2. ASSUME NEW r \in RuleRows, CreateRule(r) \/ DeleteRule(r) PROVE EngineInv'
      BY <2>2, RulesKeep
    <2>3. ASSUME NEW t \in Threads, ImportCommit(t) PROVE EngineInv'
      BY <2>3, ImportCommitKeeps
    <2>4. ASSUME NEW t \in Threads, NEW f \in Feeds, ImportRead(t, f) PROVE EngineInv'
      BY <2>4, ImportReadKeeps
    <2>5. ASSUME NEW k \in Keys, DeleteIOC(k) \/ Expire(k) PROVE EngineInv'
      BY <2>5, RowsGoKeeps
    <2>6. ASSUME (\E s \in Listings : AddBlocklist(s) \/ BlockDomain(s)) \/ (\E b \in blocked : DeleteBlocklist(b))
          PROVE  EngineInv'
      BY <2>6, BlocklistKeeps
    <2>7. ASSUME NEW e \in Events, NEW fire \in SUBSET rules, EvaluateEvent(e, fire) PROVE EngineInv'
      BY <2>7, EvaluateKeeps
    <2> QED
      BY <2>1, <2>2, <2>3, <2>4, <2>5, <2>6, <2>7, Zenon DEF EngineNext, Handlers
  <1> QED
    BY <1>1, <1>2, PTL DEF EngineSpec

\* For any feeds, names and interleaving of imports, an event that does not stop the engine
\* raises exactly the indicators that successful imports name, and none deleted or expired:
\* hosts under a domain and hashes however either is written, addresses only as the feed
\* writes them (normalize(), import_iocs(), lookup()).
THEOREM EngineIndicatorsSurface == EngineSpec => []ImportedIndicatorsSurface
  <1>1. EngineInv => ImportedIndicatorsSurface
    <2> SUFFICES ASSUME EngineInv, raised # <<>>, ~ Stops(raised[1].event),
                        NEW n \in DOMAIN raised[1].event.seen,
                        \/ IsHost(raised[1].event.seen[n])
                        \/ raised[1].event.seen[n].type \in {"ip", "hash"}
                 PROVE  n \in raised[1].iocs <=> \E p \in promised : Catches(p, raised[1].event.seen[n])
      BY Zenon DEF ImportedIndicatorsSurface
    <2>1. PICK e \in Events : e = raised[1].event
      BY DEF EngineInv, RaisedIsCurrent
    <2>2. PICK i : i = e.seen[n]
      OBVIOUS
    <2>3. e.seen \in Seq(Indicator)
      BY DetectionAssumption
    <2>4. i \in Indicator /\ i \in Range(e.seen)
      <3>1. n \in DOMAIN e.seen
        BY <2>1
      <3> QED
        BY <2>2, <2>3, <3>1 DEF Range
    <2>5. i.type \in {"ip", "hash"} => i.value.as \in {"plain", "odd"}
      BY <2>4, DetectionAssumption
    <2>6. n \in raised[1].iocs <=> Known(i)
      BY <2>1, <2>2 DEF EngineInv, RaisedIsCurrent, EvaluateIOCs
    <2>7. IsHost(i) \/ (i.type \in {"ip", "hash"} /\ i.value.as \in {"plain", "odd"})
      BY <2>1, <2>2, <2>5
    <2>8. Known(i) <=> \E p \in promised : Catches(p, i)
      BY <2>4, <2>7, KnownIffPromised DEF EngineInv
    <2> QED
      BY <2>1, <2>2, <2>6, <2>8
  <1> QED
    BY <1>1, EngineIsInductive, PTL

\* For any blocklist and events, an event names, once each, the longest of the blocked
\* domains its hosts are under, unless the blocklist or the event's batch has a domain in
\* which no host is found (host_matches_any(), _evaluate_blocklist_domains()).
THEOREM EngineBlockedHostsSurface == EngineSpec => []BlockedHostsSurface
  <1>1. EngineInv => BlockedHostsSurface
    <2> SUFFICES ASSUME EngineInv, raised # <<>>, ~ Stops(raised[1].event)
                 PROVE  BlockedHostsSurface
      BY DEF BlockedHostsSurface
    <2>1. PICK e \in Events : e = raised[1].event
      BY DEF EngineInv, RaisedIsCurrent
    <2>2. PICK seen \in Seq(Indicator) : seen = e.seen
      BY DetectionAssumption
    <2>3. PICK named : named = raised[1].domains
      OBVIOUS
    <2>4. named = [n \in NewMatches(seen) |-> Matched(seen[n])]
      BY <2>1, <2>2, <2>3 DEF EngineInv, RaisedIsCurrent, BlocklistDomains
    <2>5. DOMAIN named = NewMatches(seen) /\ \A n \in NewMatches(seen) : named[n] = Matched(seen[n])
      BY <2>4
    <2> DEFINE hosts == {i \in Range(seen) : IsHost(i)}
               Over(i) == {d \in ListedHosts : Under(i.value, d)}
    <2>6. ASSUME NEW i \in hosts
          PROVE  /\ i \in Indicator /\ IsHost(i) /\ (Over(i) # {} => Blocking(i) # {})
                 /\ Blocking(i) # {} => Matched(i) \in Over(i) /\ \A c \in Over(i) : Len(c) <= Len(Matched(i))
      <3>1. i \in Indicator /\ IsHost(i)
        BY MatchesAreNamed
      <3> QED
        BY <3>1, MatchedIsLongest DEF EngineInv
    <2>7. ASSUME NEW i \in hosts, Over(i) # {}
          PROVE  \E d \in Over(i) : d \in Range(named) /\ \A c \in Over(i) : Len(c) <= Len(d)
      <3>1. PICK n \in 1..Len(seen) : i = seen[n]
        BY MatchesAreNamed DEF Range
      <3>2. PICK m \in NewMatches(seen) : Matched(seen[m]) = Matched(i)
        BY <2>6, <2>7, <3>1, MatchesAreNamed
      <3>3. Matched(i) \in Range(named)
        BY <2>5, <3>2 DEF Range
      <3> QED
        BY <2>6, <2>7, <3>3
    <2>8. ASSUME hosts = Range(seen), NEW d \in Range(named)
          PROVE  \E i \in hosts : d \in Over(i)
      <3>1. PICK n \in NewMatches(seen) : d = Matched(seen[n])
        BY <2>5 DEF Range
      <3>2. Blocking(seen[n]) # {} /\ seen[n] \in hosts
        BY <2>8, MatchesAreNamed DEF Range
      <3> QED
        BY <2>6, <3>1, <3>2
    <2>9. IsInjective(named)
      BY <2>5, MatchesAreNamed DEF IsInjective
    <2> HIDE DEF hosts, Over
    <2>10. /\ \A i \in hosts : Over(i) # {} =>
                 \E d \in Over(i) : d \in Range(named) /\ \A c \in Over(i) : Len(c) <= Len(d)
           /\ hosts = Range(seen) => \A d \in Range(named) : \E i \in hosts : d \in Over(i)
           /\ IsInjective(named)
      BY <2>7, <2>8, <2>9, Zenon
    <2> QED
      BY <2>1, <2>2, <2>3, <2>10, Zenon DEF BlockedHostsSurface, hosts, Over, ListedHosts
  <1> QED
    BY <1>1, EngineIsInductive, PTL

===============================================================================
