------------------------ MODULE QuarantineStoreProofs ------------------------
(***************************************************************************)
(* Proofs about QuarantineStore, for every set of files and any number of  *)
(* quarantines, restores and faults.  Two arguments share StoreInv: that   *)
(* the store agrees with the list a job is about to write, and with the    *)
(* manifest but for the one id of a job that has moved its file; and that  *)
(* the server's item, the commands not yet handled and the events not yet  *)
(* delivered together make what the entry says, which holds as long as a   *)
(* restore was asked for once at most: two of one id may be answered by a  *)
(* restore and by a failure, and the last answer would count.              *)
(***************************************************************************)
EXTENDS QuarantineStore, FiniteSetTheorems, TLAPS

-------------------------------------------------------------------------------
(* Sequences, and the shape of a job.                                      *)

\* A set of positions has a last one.
LEMMA LastOfPositions ==
  ASSUME NEW n \in Nat, NEW ks \in SUBSET (1..n), ks # {}
  PROVE  LastOf(ks) \in ks
  <1> DEFINE T == {k..n : k \in ks}
             R == StrictSubsetOrdering(1..n)
             F == FiniteSubsetsOf(1..n)
  <1>1. IsWellFoundedOn(R, F)
    BY FS_StrictSubsetOrderingWellFounded
  <1>2. T \subseteq F
    <2> SUFFICES ASSUME NEW k \in ks PROVE k..n \in F
      OBVIOUS
    <2>1. k \in Int /\ n \in Int /\ k..n \in SUBSET (1..n)
      OBVIOUS
    <2>2. IsFiniteSet(k..n)
      BY <2>1, FS_Interval
    <2> QED
      BY <2>1, <2>2 DEF FiniteSubsetsOf
  <1>3. T # {}
    OBVIOUS
  <1> HIDE DEF R, F
  <1>4. PICK x \in T : \A y \in T : <<y, x>> \notin R
    BY <1>1, <1>2, <1>3, WFMin
  <1>5. PICK k \in ks : x = k..n
    BY <1>4
  <1>6. ASSUME NEW j \in ks PROVE j <= k
    <2> SUFFICES ASSUME k < j PROVE FALSE
      OBVIOUS
    <2>1. /\ (j..n) \in SUBSET (1..n) /\ (k..n) \in SUBSET (1..n)
          /\ (j..n) \subseteq (k..n) /\ k \in (k..n) /\ k \notin (j..n)
      OBVIOUS
    <2>2. <<j..n, k..n>> \in R
      BY <2>1 DEF R, StrictSubsetOrdering
    <2> QED
      BY <1>4, <1>5, <2>2
  <1> QED
    BY <1>6 DEF LastOf

LEMMA JobShape ==
  ASSUME TypeOK
  PROVE  \/ Quiet /\ job.step = "none"
         \/ /\ ~ Quiet
            /\ job \in [step : {"moved", "opened", "written"}, entries : Seq(Entry), event : Event]
            /\ job.step \in {"moved", "opened", "written"}
            /\ job.entries \in Seq(Entry) /\ job.event \in Event /\ job.event.id \in Id
  <1>1. CASE job = NoJob
    BY <1>1 DEF NoJob, Quiet
  <1>2. CASE job \in [step : {"moved", "opened", "written"}, entries : Seq(Entry), event : Event]
    BY <1>2 DEF NoJob, Quiet, Event
  <1> QED
    BY <1>1, <1>2 DEF TypeOK, Job

\* What a command is.
LEMMA CommandedIff ==
  ASSUME NEW i
  PROVE  /\ Commanded(i) <=> \/ \E k \in DOMAIN pending : pending[k] = i
                             \/ \E k \in DOMAIN todo : todo[k] = i
         /\ i \in ToSet(todo) <=> \E k \in DOMAIN todo : todo[k] = i
         /\ i \in ToSet(pending) <=> \E k \in DOMAIN pending : pending[k] = i
  BY DEF Commanded, ToSet

\* An entry is mirrored still if nothing has changed for its id.
LEMMA MirrorsKept ==
  ASSUME NEW e \in Entry, Mirrors(e),
         e.id \notin unheard' =>
           /\ e.id \notin unheard
           /\ items'[e.id] = items[e.id] /\ asked'[e.id] = asked[e.id]
           /\ e.id \in told' => e.id \in told
           /\ Announced(e.id) => Announced(e.id)'
           /\ Commanded(e.id)' = Commanded(e.id)
           /\ Restoring(e.id)' = Restoring(e.id)
           /\ Outcomes(e.id)' = Outcomes(e.id)
           /\ \A k \in Outcomes(e.id) : outbox'[k] = outbox[k]
  PROVE  Mirrors(e)'
  BY DEF Mirrors

LEMMA StoreInit == Init => StoreInv
  <1> SUFFICES ASSUME Init PROVE StoreInv
    OBVIOUS
  <1>1. TypeOK
    <2>1. MaxTaken \in Nat /\ MaxDrops \in Nat /\ MaxFaults \in Nat
      BY StoreAssumption
    <2>2. job \in Job
      BY DEF Init, Job
    <2>3. scan \in [on : BOOLEAN, new : SUBSET Files, listed : SUBSET Files]
      BY DEF Init, NoScan
    <2>4. manifest \in Seq(Entry) /\ todo \in Seq(Id) /\ pending \in Seq(Id)
          /\ outbox \in Seq(Event)
      BY DEF Init
    <2>5. taken \in 0..MaxTaken /\ drops \in 0..MaxDrops /\ faults \in 0..MaxFaults
      BY <2>1 DEF Init
    <2>6. /\ store \in [Id -> Files \cup {"none"}] /\ asked \in [Id -> Nat]
          /\ items \in [Id -> {"none", "quarantined", "restore_requested", "restored"}]
      BY DEF Init
    <2>7. /\ origin \subseteq Files /\ baselined \in BOOLEAN /\ seen \subseteq Files
          /\ told \subseteq Id /\ cut \subseteq Id /\ unheard \subseteq Id
      BY DEF Init
    <2> QED
      BY <2>2, <2>3, <2>4, <2>5, <2>6, <2>7 DEF TypeOK
  <1>2. StoreAgrees
    BY DEF Init, StoreAgrees, Sound, Quiet, NoJob
  <1>3. EventsSound
    BY DEF Init, EventsSound, Quiet
  <1>4. AskedOnce
    BY DEF Init, AskedOnce, Commanded, Outcomes, Restoring, Quiet, ToSet
  <1>5. EntriesMirrored
    BY DEF Init, EntriesMirrored, Current, Quiet
  <1> QED
    BY <1>1, <1>2, <1>3, <1>4, <1>5 DEF StoreInv

-------------------------------------------------------------------------------
(* The host and the drop monitor.                                          *)

\* What the properties speak of does not change.
LEMMA SameKeeps ==
  ASSUME StoreInv, TypeOK',
         UNCHANGED <<store, manifest, job, todo, pending, outbox, told, items, taken, asked,
                     cut, unheard>>
  PROVE  StoreInv'
  <1>1. StoreAgrees'
    BY DEF StoreInv, StoreAgrees, Sound, Agrees, Held, Quiet
  <1>2. EventsSound'
    BY DEF StoreInv, EventsSound, Quiet
  <1>3. AskedOnce'
    BY DEF StoreInv, AskedOnce, Commanded, Outcomes, Restoring, Single, Quiet
  <1>4. EntriesMirrored'
    BY DEF StoreInv, EntriesMirrored, Current, Mirrors, Announced, Commanded, Outcomes,
       Restoring, Quiet
  <1> QED
    BY <1>1, <1>2, <1>3, <1>4 DEF StoreInv

LEMMA MonitorKeeps ==
  ASSUME StoreInv, ScanBaseline \/ ScanStart \/ ScanEnd \/ \E f \in Files : Drop(f)
  PROVE  StoreInv'
  <1> USE DEF host, server, monitor, bounds
  <1>0. TypeOK
    BY DEF StoreInv
  <1>1. TypeOK'
    <2>1. CASE ScanBaseline
      BY <1>0, <2>1 DEF ScanBaseline, TypeOK
    <2>2. CASE ScanStart
      BY <1>0, <2>2 DEF ScanStart, TypeOK
    <2>3. CASE ScanEnd
      BY <1>0, <2>3 DEF ScanEnd, TypeOK, NoScan
    <2>4. ASSUME NEW f \in Files, Drop(f) PROVE TypeOK'
      BY <1>0, <2>4, StoreAssumption DEF Drop, TypeOK
    <2> QED
      BY <2>1, <2>2, <2>3, <2>4
  <1>2. UNCHANGED <<store, manifest, job, todo, pending, outbox, told, items, taken, asked,
                    cut, unheard>>
    BY DEF ScanBaseline, ScanStart, ScanEnd, Drop
  <1> QED
    BY <1>1, <1>2, SameKeeps

-------------------------------------------------------------------------------
(* QuarantineManager.                                                      *)

\* A list with one more entry.
LEMMA AppendPositions ==
  ASSUME NEW S, NEW list \in Seq(S), NEW x \in S
  PROVE  /\ Append(list, x) \in Seq(S)
         /\ DOMAIN Append(list, x) = DOMAIN list \cup {Len(list) + 1}
         /\ Len(list) + 1 \notin DOMAIN list
         /\ \A k \in DOMAIN list : Append(list, x)[k] = list[k]
         /\ Append(list, x)[Len(list) + 1] = x
  OBVIOUS

LEMMA TakeKeeps ==
  ASSUME StoreInv, Quiet, NEW f \in Files, NEW source \in Source, Take(f, source),
         NEW n, n = taken + 1,
         scan' \in [on : BOOLEAN, new : SUBSET Files, listed : SUBSET Files], UNCHANGED todo
  PROVE  StoreInv'
  <1> DEFINE entry == [id |-> n, file |-> f, source |-> source, status |-> "quarantined"]
             event == [action |-> "quarantined", id |-> n, source |-> source]
             list == Append(manifest, entry)
  <1> USE DEF monitor, server
  <1>0. TypeOK /\ StoreAgrees /\ EventsSound /\ AskedOnce /\ EntriesMirrored
    BY DEF StoreInv
  <1>1. /\ taken < MaxTaken /\ taken' = n
        /\ origin' = origin \ {f}
        /\ store' = [store EXCEPT ![n] = f]
        /\ job' = [step |-> "moved", entries |-> list, event |-> event]
        /\ UNCHANGED <<manifest, baselined, seen, outbox, told, items, pending, drops, asked,
                       faults, cut, unheard, todo>>
    BY DEF Take, Listed
  <1>2. /\ taken \in Nat /\ MaxTaken \in Nat /\ n \in Id /\ n \in Nat
        /\ manifest \in Seq(Entry) /\ store \in [Id -> Files \cup {"none"}]
    BY <1>0, <1>1, StoreAssumption DEF TypeOK, Id
  <1>3. entry \in Entry /\ event \in Event
    BY <1>2 DEF Entry, Event
  <1>4. /\ entry.id = n /\ entry.status = "quarantined" /\ entry.source = source
        /\ event.id = n /\ event.action = "quarantined" /\ event.source = source
    OBVIOUS
  <1>5. /\ job'.step = "moved" /\ job'.entries = list /\ job'.event = event /\ Quiet' = FALSE
        /\ job' \in Job
    <2>1. list \in Seq(Entry)
      BY <1>2, <1>3, AppendPositions
    <2> HIDE DEF list, event
    <2> QED
      BY <1>1, <1>3, <2>1 DEF Quiet, NoJob, Job
  <1> HIDE DEF event, entry
  <1>6. /\ DOMAIN list = DOMAIN manifest \cup {Len(manifest) + 1}
        /\ Len(manifest) + 1 \notin DOMAIN manifest
        /\ \A k \in DOMAIN manifest : list[k] = manifest[k]
        /\ list[Len(manifest) + 1] = entry
    BY <1>2, <1>3, AppendPositions
  <1> HIDE DEF list
  <1>7. TypeOK'
    <2>1. store' \in [Id -> Files \cup {"none"}] /\ taken' \in 0..MaxTaken
      BY <1>1, <1>2
    <2> QED
      BY <1>0, <1>1, <1>5, <2>1 DEF TypeOK
  <1>8. \A k \in DOMAIN manifest : manifest[k].id <= taken /\ manifest[k].id \in Nat
    <2>1. \A k \in DOMAIN manifest : manifest[k] \in Entry
      BY <1>2
    <2>2. \A k \in DOMAIN manifest : manifest[k].id \in Nat
      BY <2>1 DEF Entry, Id
    <2> QED
      BY <1>0, <2>2 DEF StoreAgrees, Sound
  <1>9. StoreAgrees'
    <2>1. Sound(manifest)'
      BY <1>0, <1>1, <1>2, <1>8 DEF StoreAgrees, Sound
    <2>2. Sound(job.entries)'
      BY <1>0, <1>1, <1>2, <1>4, <1>5, <1>6, <1>8 DEF StoreAgrees, Sound
    <2>3. ASSUME NEW i \in (1..taken) PROVE Agrees(manifest, i)' /\ Agrees(job.entries, i)'
      <3>1. i # n /\ i \in Id /\ store'[i] = store[i]
        BY <1>1, <1>2 DEF Id
      <3>2. Held(list, i) <=> Held(manifest, i)
        BY <1>4, <1>6, <3>1 DEF Held
      <3>3. Agrees(manifest, i)
        BY <1>0 DEF StoreAgrees
      <3> QED
        BY <1>1, <1>5, <3>1, <3>2, <3>3 DEF Agrees, Held
    <2>4. Agrees(job.entries, n)'
      <3>1. store'[n] = f /\ f # "none"
        BY <1>1, <1>2, StoreAssumption
      <3>2. Held(list, n)
        BY <1>4, <1>6 DEF Held
      <3> QED
        BY <1>1, <1>5, <3>1, <3>2 DEF Agrees, Held
    <2>5. \A i \in (1..taken)' : i \in 1..taken \/ i = n
      BY <1>1, <1>2
    <2>6. job'.event.id = n
      BY <1>4, <1>5
    <2>7. \A i \in (1..taken)' : Agrees(job.entries, i)'
      BY <2>3, <2>4, <2>5
    <2>8. \A i \in ((1..taken) \ {job.event.id})' : Agrees(manifest, i)'
      BY <2>3, <2>5, <2>6
    <2> QED
      BY <1>1, <1>2, <1>5, <2>1, <2>2, <2>6, <2>7, <2>8 DEF StoreAgrees
  <1>10. EventsSound'
    <2>1. \A i \in Id : i \in Nat /\ (i > taken' => i > taken)
      BY <1>1, <1>2 DEF Id
    <2>2. \A k \in DOMAIN outbox : outbox[k].id <= taken'
      <3>1. \A k \in DOMAIN outbox : outbox[k] \in Event
        BY <1>0 DEF TypeOK
      <3>2. \A k \in DOMAIN outbox : outbox[k].id \in Nat
        BY <2>1, <3>1 DEF Event
      <3> QED
        BY <1>0, <1>1, <1>2, <3>2 DEF EventsSound
    <2> QED
      BY <1>0, <1>1, <1>4, <1>5, <2>1, <2>2 DEF EventsSound
  <1>11. \A i \in Id : /\ Restoring(i) = FALSE /\ Restoring(i)' = FALSE /\ Outcomes(i)' = Outcomes(i)
                      /\ Commanded(i)' = Commanded(i)
    BY <1>1, <1>4, <1>5 DEF Restoring, Outcomes, Commanded
  <1>12. AskedOnce'
    BY <1>0, <1>1, <1>11 DEF AskedOnce, Single
  <1>13. EntriesMirrored'
    <2> SUFFICES ASSUME NEW e \in Entry, Current(e)' PROVE Mirrors(e)'
      BY DEF EntriesMirrored
    <2>1. \/ \E k \in DOMAIN manifest : manifest[k] = e
          \/ e = entry
      BY <1>1, <1>5, <1>6 DEF Current
    <2>2. CASE \E k \in DOMAIN manifest : manifest[k] = e
      <3>1. Mirrors(e)
        BY <1>0, <2>2 DEF EntriesMirrored, Current, Quiet, NoJob
      <3>2. Announced(e.id) => Announced(e.id)'
        BY <1>1 DEF Announced
      <3>3. e.id \in Id
        BY DEF Entry
      <3> QED
        <4>1. /\ Commanded(e.id)' = Commanded(e.id) /\ Restoring(e.id)' = Restoring(e.id)
              /\ Outcomes(e.id)' = Outcomes(e.id)
          BY <1>11, <3>3
        <4> QED
          BY <1>1, <3>1, <3>2, <4>1, MirrorsKept
    <2>3. CASE e = entry
      <3>1. items'[n] = "none" /\ asked'[n] = 0 /\ n \notin told'
        BY <1>0, <1>1, <1>2 DEF EventsSound
      <3>2. source = "mirrored" => Announced(n)'
        BY <1>5 DEF Announced, Announcement, event
      <3>3. ~ Commanded(n)' /\ Outcomes(n)' = {} /\ Restoring(n)' = FALSE
        BY <1>0, <1>1, <1>2, <1>11, <3>1 DEF AskedOnce
      <3> QED
        BY <1>4, <2>3, <3>1, <3>2, <3>3 DEF Mirrors
    <2> QED
      BY <2>1, <2>2, <2>3
  <1> QED
    BY <1>7, <1>9, <1>10, <1>12, <1>13 DEF StoreInv

LEMMA TakersKeep ==
  ASSUME StoreInv, NEW f \in Files,
         TakeDropped(f) \/ \E source \in Source : TakeOther(f, source)
  PROVE  StoreInv'
  <1> USE DEF host, server, monitor, bounds, Quiet
  <1>0. TypeOK
    BY DEF StoreInv
  <1>3. PICK n : n = taken + 1
    OBVIOUS
  <1>1. CASE TakeDropped(f)
    <2>1. scan' \in [on : BOOLEAN, new : SUBSET Files, listed : SUBSET Files]
      BY <1>0, <1>1 DEF TakeDropped, TypeOK
    <2>2. CASE f \in origin
      BY <1>1, <1>3, <2>1, <2>2, TakeKeeps DEF TakeDropped, Source
    <2>3. CASE f \notin origin
      <3>1. TypeOK'
        BY <1>0, <1>1, <2>1, <2>3 DEF TakeDropped, TypeOK
      <3> QED
        BY <1>1, <2>3, <3>1, SameKeeps DEF TakeDropped
    <2> QED
      BY <2>2, <2>3
  <1>2. ASSUME NEW source \in Source, TakeOther(f, source) PROVE StoreInv'
    BY <1>0, <1>2, <1>3, TakeKeeps DEF TakeOther, TypeOK
  <1> QED
    BY <1>1, <1>2

\* Nothing of the store, the manifest and the job under way changes.
LEMMA StoreAgreesKept ==
  ASSUME StoreAgrees, UNCHANGED <<store, manifest, job, taken, cut>>
  PROVE  StoreAgrees'
  BY DEF StoreAgrees, Sound, Agrees, Held, Quiet

\* What is left of a queue once its head is taken.
LEMMA TailPositions ==
  ASSUME NEW S, NEW list \in Seq(S), list # <<>>
  PROVE  /\ Head(list) \in S /\ Tail(list) \in Seq(S)
         /\ 1 \in DOMAIN list /\ list[1] = Head(list)
         /\ DOMAIN Tail(list) = 1..(Len(list) - 1)
         /\ \A k \in DOMAIN Tail(list) : /\ k + 1 \in DOMAIN list /\ k + 1 # 1
                                         /\ Tail(list)[k] = list[k + 1]
         /\ \A k \in DOMAIN list : k = 1 \/ (k - 1 \in DOMAIN Tail(list) /\ list[k] = Tail(list)[k - 1])
  OBVIOUS

\* The head of todo is handled: its id is commanded no more, if it was asked for once.
LEMMA HandledHead ==
  ASSUME TypeOK, EventsSound, AskedOnce, todo # <<>>, NEW i, i = Head(todo),
         todo' = Tail(todo), UNCHANGED <<pending, asked>>
  PROVE  /\ i \in Id /\ asked[i] > 0 /\ i <= taken /\ Commanded(i)
         /\ todo' \in Seq(Id)
         /\ \A j \in Id : /\ Commanded(j)' => Commanded(j)
                          /\ j # i => Commanded(j)' = Commanded(j)
                          /\ asked[j] = 1 =>
                               /\ Single(pending, j)' /\ Single(todo, j)'
                               /\ (j \in ToSet(todo))' => (j \notin ToSet(pending))'
         /\ asked[i] = 1 => Outcomes(i) = {} /\ ~ Restoring(i) /\ ~ Commanded(i)'
  <1>1. todo \in Seq(Id) /\ pending \in Seq(Id)
    BY DEF TypeOK
  <1>2. /\ Head(todo) \in Id /\ Tail(todo) \in Seq(Id)
        /\ 1 \in DOMAIN todo /\ todo[1] = Head(todo)
        /\ DOMAIN Tail(todo) = 1..(Len(todo) - 1)
        /\ \A k \in DOMAIN Tail(todo) : /\ k + 1 \in DOMAIN todo /\ k + 1 # 1
                                        /\ Tail(todo)[k] = todo[k + 1]
        /\ \A k \in DOMAIN todo :
             k = 1 \/ (k - 1 \in DOMAIN Tail(todo) /\ todo[k] = Tail(todo)[k - 1])
    BY <1>1, TailPositions
  <1>3. i \in ToSet(todo)
    BY <1>2, CommandedIff
  <1>4. i \in Id /\ Commanded(i) /\ asked[i] > 0
    BY <1>2, <1>3 DEF Commanded, AskedOnce
  <1>5. i <= taken
    <2>1. i \in Nat /\ taken \in Nat
      BY <1>4, StoreAssumption DEF Id, TypeOK
    <2> QED
      BY <1>4, <2>1 DEF EventsSound
  <1>6. \A j \in Id : (j \in ToSet(todo))' => j \in ToSet(todo)
    <2> SUFFICES ASSUME NEW j \in Id, (j \in ToSet(todo))' PROVE j \in ToSet(todo)
      OBVIOUS
    <2>1. PICK k \in DOMAIN Tail(todo) : Tail(todo)[k] = j
      BY DEF ToSet
    <2> QED
      BY <1>2, <2>1 DEF ToSet
  <1>7. \A j \in Id : j # i /\ j \in ToSet(todo) => (j \in ToSet(todo))'
    <2> SUFFICES ASSUME NEW j \in Id, j # i, j \in ToSet(todo) PROVE j \in ToSet(Tail(todo))
      BY DEF ToSet
    <2>1. PICK k \in DOMAIN todo : todo[k] = j
      BY DEF ToSet
    <2> QED
      BY <1>2, <2>1 DEF ToSet
  <1>8. \A j \in Id : (j \in ToSet(pending))' = (j \in ToSet(pending))
    BY DEF ToSet
  <1>9. ASSUME NEW j \in Id, asked[j] = 1
        PROVE  /\ Single(pending, j)' /\ Single(todo, j)'
               /\ (j \in ToSet(todo))' => (j \notin ToSet(pending))'
    <2>1. /\ Single(pending, j) /\ Single(todo, j)
          /\ j \in ToSet(todo) => j \notin ToSet(pending)
      BY <1>9 DEF AskedOnce
    <2>2. Single(pending, j)'
      BY <2>1 DEF Single
    <2>3. Single(todo, j)'
      <3> SUFFICES ASSUME NEW k \in DOMAIN Tail(todo), NEW l \in DOMAIN Tail(todo),
                          Tail(todo)[k] = j, Tail(todo)[l] = j
                   PROVE  k = l
        BY DEF Single
      <3>1. k + 1 = l + 1 /\ k \in Int /\ l \in Int
        BY <1>2, <2>1 DEF Single
      <3> QED
        BY <3>1
    <2> QED
      BY <1>6, <1>8, <2>1, <2>2, <2>3
  <1>10. ASSUME asked[i] = 1 PROVE Outcomes(i) = {} /\ ~ Restoring(i) /\ ~ Commanded(i)'
    <2>1. /\ Single(todo, i) /\ i \notin ToSet(pending) /\ Outcomes(i) = {} /\ ~ Restoring(i)
      BY <1>3, <1>4, <1>10 DEF AskedOnce
    <2>2. i \notin ToSet(Tail(todo))
      <3> SUFFICES ASSUME NEW k \in DOMAIN Tail(todo), Tail(todo)[k] = i PROVE FALSE
        BY DEF ToSet
      <3> QED
        BY <1>2, <2>1 DEF Single
    <2> QED
      BY <2>1, <2>2 DEF Commanded, ToSet
  <1> QED
    BY <1>2, <1>4, <1>5, <1>6, <1>7, <1>8, <1>9, <1>10 DEF Commanded

LEMMA RestoreFailsKeeps == ASSUME StoreInv, RestoreFails PROVE StoreInv'
  <1> USE DEF host, monitor, server, bounds
  <1>0. TypeOK /\ StoreAgrees /\ EventsSound /\ AskedOnce /\ EntriesMirrored
    BY DEF StoreInv
  <1>1. PICK i : i = Head(todo)
    OBVIOUS
  <1>2. PICK ev : ev = [action |-> "restore_failed", id |-> i, source |-> "mirrored"]
    OBVIOUS
  <1>3. PICK m : m = Len(outbox) + 1
    OBVIOUS
  <1>4. /\ job = NoJob /\ todo # <<>> /\ todo' = Tail(todo) /\ outbox' = Append(outbox, ev)
        /\ UNCHANGED <<origin, store, manifest, job, scan, baselined, seen, told, items, pending,
                       taken, drops, asked, faults, cut, unheard>>
    BY <1>1, <1>2 DEF RestoreFails
  <1>5. /\ i \in Id /\ asked[i] > 0 /\ i <= taken /\ Commanded(i)
        /\ todo' \in Seq(Id)
        /\ \A j \in Id : /\ Commanded(j)' => Commanded(j)
                         /\ j # i => Commanded(j)' = Commanded(j)
                         /\ asked[j] = 1 =>
                              /\ Single(pending, j)' /\ Single(todo, j)'
                              /\ (j \in ToSet(todo))' => (j \notin ToSet(pending))'
        /\ asked[i] = 1 => Outcomes(i) = {} /\ ~ Restoring(i) /\ ~ Commanded(i)'
    BY <1>0, <1>1, <1>4, HandledHead
  <1>6. ev \in Event /\ ev.id = i /\ ev.action = "restore_failed" /\ ev.source = "mirrored"
    BY <1>2, <1>5 DEF Event, Source
  <1>7. /\ outbox' \in Seq(Event) /\ DOMAIN outbox' = DOMAIN outbox \cup {m}
        /\ m \notin DOMAIN outbox
        /\ \A k \in DOMAIN outbox : outbox'[k] = outbox[k]
        /\ outbox'[m] = ev
    <2>1. outbox \in Seq(Event)
      BY <1>0 DEF TypeOK
    <2> QED
      BY <1>3, <1>4, <1>6, <2>1, AppendPositions
  <1>8. TypeOK'
    BY <1>0, <1>4, <1>5, <1>7 DEF TypeOK
  <1>9. StoreAgrees'
    BY <1>0, <1>4, StoreAgreesKept
  <1>10. EventsSound'
    BY <1>0, <1>4, <1>5, <1>6, <1>7 DEF EventsSound, Quiet
  <1>11. \A j \in Id : /\ Restoring(j)' = FALSE /\ Restoring(j) = FALSE
                       /\ j # i => Outcomes(j)' = Outcomes(j)
                       /\ Outcomes(i)' = Outcomes(i) \cup {m}
    BY <1>4, <1>6, <1>7 DEF Restoring, Outcomes, Quiet
  <1>12. AskedOnce'
    <2> SUFFICES ASSUME NEW j \in Id
                 PROVE  /\ Commanded(j)' \/ Outcomes(j)' # {} \/ Restoring(j)' => asked'[j] > 0
                        /\ asked'[j] = 1 =>
                             /\ Single(pending, j)' /\ Single(todo, j)'
                             /\ (j \in ToSet(todo))' => (j \notin ToSet(pending))'
                             /\ Commanded(j)' => Outcomes(j)' = {} /\ ~ Restoring(j)'
      BY DEF AskedOnce
    <2>1. asked'[j] = asked[j]
      BY <1>4
    <2>2. CASE j = i
      BY <1>5, <1>11, <2>1, <2>2
    <2>3. CASE j # i
      BY <1>0, <1>5, <1>11, <2>1, <2>3 DEF AskedOnce
    <2> QED
      BY <2>2, <2>3
  <1>13. EntriesMirrored'
    <2> SUFFICES ASSUME NEW e \in Entry, Current(e)' PROVE Mirrors(e)'
      BY DEF EntriesMirrored
    <2>1. Mirrors(e)
      BY <1>0, <1>4 DEF EntriesMirrored, Current, Quiet
    <2>2. e.id \in Id /\ e.status \in {"quarantined", "restored"}
      BY DEF Entry
    <2>3. Announced(e.id) => Announced(e.id)'
      BY <1>4, <1>7 DEF Announced, Quiet
    <2>4. CASE e.id # i
      <3>1. /\ Commanded(e.id)' = Commanded(e.id) /\ Restoring(e.id)' = Restoring(e.id)
            /\ Outcomes(e.id)' = Outcomes(e.id)
        BY <1>5, <1>11, <2>2, <2>4
      <3>2. \A k \in Outcomes(e.id) : outbox'[k] = outbox[k]
        BY <1>7 DEF Outcomes
      <3> QED
        BY <1>4, <2>1, <2>3, <3>1, <3>2, MirrorsKept
    <2>5. CASE e.id = i
      <3> SUFFICES ASSUME e.source = "mirrored", i \notin unheard, asked[i] <= 1
                   PROVE  /\ items[i] = "none" => Announced(i)'
                          /\ i \in told \/ asked[i] > 0 => items[i] # "none"
                          /\ e.status = "quarantined"
                          /\ items[i] # "restored" /\ ~ Restoring(i)'
                          /\ \A k \in Outcomes(i)' : outbox'[k].action = "restore_failed"
                          /\ Outcomes(i)' # {}
        BY <1>4, <2>5 DEF Mirrors
      <3>1. /\ items[i] = "none" => Announced(i)
            /\ i \in told \/ asked[i] > 0 => items[i] # "none"
            /\ e.status = "quarantined" => items[i] # "restored"
            /\ e.status = "restored" => ~ Commanded(i)
        BY <2>1, <2>5 DEF Mirrors
      <3>2. asked[i] = 1
        <4>1. asked[i] \in Nat
          BY <1>0, <1>5 DEF TypeOK
        <4> QED
          BY <1>5, <4>1
      <3>3. Outcomes(i)' = {m}
        BY <1>5, <1>11, <3>2
      <3> QED
        BY <1>5, <1>6, <1>7, <1>11, <2>2, <2>3, <2>5, <3>1, <3>3
    <2> QED
      BY <2>4, <2>5
  <1> QED
    BY <1>8, <1>9, <1>10, <1>12, <1>13 DEF StoreInv

LEMMA RestoreStartKeeps == ASSUME StoreInv, RestoreStart PROVE StoreInv'
  <1> USE DEF host, monitor, server, bounds
  <1>0. TypeOK /\ StoreAgrees /\ EventsSound /\ AskedOnce /\ EntriesMirrored
    BY DEF StoreInv
  <1>1. PICK i : i = Head(todo)
    OBVIOUS
  <1>2. PICK p \in Restorable(i) :
          /\ store[i] # "none"
          /\ origin' = origin \cup {manifest[p].file}
          /\ store' = [store EXCEPT ![i] = "none"]
          /\ job' = [step |-> "moved", entries |-> Restored(p),
                     event |-> [action |-> "restored", id |-> i, source |-> "mirrored"]]
    BY <1>1 DEF RestoreStart
  <1>3. PICK ev : ev = [action |-> "restored", id |-> i, source |-> "mirrored"]
    OBVIOUS
  <1>4. PICK list : list = Restored(p)
    OBVIOUS
  <1>5. /\ job = NoJob /\ todo # <<>> /\ todo' = Tail(todo)
        /\ UNCHANGED <<manifest, scan, baselined, seen, outbox, told, items, pending,
                       taken, drops, asked, faults, cut, unheard>>
    BY DEF RestoreStart
  <1>6. /\ i \in Id /\ asked[i] > 0 /\ i <= taken /\ Commanded(i)
        /\ todo' \in Seq(Id)
        /\ \A j \in Id : /\ Commanded(j)' => Commanded(j)
                         /\ j # i => Commanded(j)' = Commanded(j)
                         /\ asked[j] = 1 =>
                              /\ Single(pending, j)' /\ Single(todo, j)'
                              /\ (j \in ToSet(todo))' => (j \notin ToSet(pending))'
        /\ asked[i] = 1 => Outcomes(i) = {} /\ ~ Restoring(i) /\ ~ Commanded(i)'
    BY <1>0, <1>1, <1>5, HandledHead
  <1>7. ev \in Event /\ ev.id = i /\ ev.action = "restored" /\ ev.source = "mirrored"
    BY <1>3, <1>6 DEF Event, Source
  <1>8. /\ p \in DOMAIN manifest /\ manifest[p].id = i /\ manifest[p].status = "quarantined"
        /\ manifest \in Seq(Entry) /\ manifest[p] \in Entry
        /\ \A l \in DOMAIN manifest : manifest[l].id = i => l = p
    <2>1. manifest \in Seq(Entry)
      BY <1>0 DEF TypeOK
    <2>2. p \in DOMAIN manifest /\ manifest[p].id = i /\ manifest[p].status = "quarantined"
      BY DEF Restorable
    <2>3. Sound(manifest)
      BY <1>0 DEF StoreAgrees
    <2> QED
      BY <2>1, <2>2, <2>3 DEF Sound
  <1>9. /\ list \in Seq(Entry) /\ DOMAIN list = DOMAIN manifest
        /\ \A l \in DOMAIN manifest : l # p => list[l] = manifest[l]
        /\ list[p].id = i /\ list[p].status = "restored" /\ list[p].source = manifest[p].source
    <2>1. list = [manifest EXCEPT ![p] = [manifest[p] EXCEPT !.status = "restored"]]
      BY <1>4, <1>8 DEF Restored
    <2>2. PICK e : e = [manifest[p] EXCEPT !.status = "restored"]
      OBVIOUS
    <2>3. e \in Entry /\ e.id = i /\ e.status = "restored" /\ e.source = manifest[p].source
      <3>1. PICK o : o = manifest[p]
        OBVIOUS
      <3>2. o \in Entry /\ o.id = i /\ e = [o EXCEPT !.status = "restored"]
        BY <1>8, <2>2, <3>1
      <3>3. e = [id |-> o.id, file |-> o.file, source |-> o.source, status |-> "restored"]
        BY <3>2 DEF Entry
      <3>4. o.id \in Id /\ o.file \in Files /\ o.source \in Source
        BY <3>2 DEF Entry
      <3>5. e \in Entry
        BY <3>3, <3>4 DEF Entry
      <3>6. e.id = o.id /\ e.status = "restored" /\ e.source = o.source
        BY <3>3
      <3> QED
        BY <3>1, <3>2, <3>5, <3>6
    <2>4. list = [manifest EXCEPT ![p] = e]
      BY <2>1, <2>2
    <2>5. list \in Seq(Entry) /\ DOMAIN list = DOMAIN manifest
      BY <1>8, <2>3, <2>4
    <2>6. list[p] = e /\ \A l \in DOMAIN manifest : l # p => list[l] = manifest[l]
      BY <1>8, <2>4
    <2> QED
      BY <2>3, <2>5, <2>6
  <1>10. /\ job'.step = "moved" /\ job'.entries = list /\ job'.event = ev /\ Quiet' = FALSE
         /\ job' \in Job
    BY <1>2, <1>3, <1>4, <1>7, <1>9 DEF Quiet, NoJob, Job
  <1>11. TypeOK'
    <2>1. origin' \subseteq Files
      BY <1>0, <1>2, <1>8 DEF TypeOK, Entry
    <2>2. store' \in [Id -> Files \cup {"none"}]
      BY <1>0, <1>2, <1>6 DEF TypeOK
    <2> QED
      BY <1>0, <1>5, <1>6, <1>10, <2>1, <2>2 DEF TypeOK
  <1>12. \A l \in DOMAIN manifest : list[l].id = manifest[l].id
    BY <1>8, <1>9
  <1>13. StoreAgrees'
    <2>1. Sound(manifest)' /\ Sound(job.entries)'
      BY <1>0, <1>5, <1>9, <1>10, <1>12 DEF StoreAgrees, Sound
    <2>2. ASSUME NEW j \in 1..taken, j # i
          PROVE  Agrees(manifest, j)' /\ Agrees(job.entries, j)'
      <3>1. store'[j] = store[j]
        BY <1>0, <1>2, <2>2 DEF TypeOK
      <3>2. Held(list, j) <=> Held(manifest, j)
        BY <1>8, <1>9, <2>2 DEF Held
      <3>3. Agrees(manifest, j)
        BY <1>0, <1>5 DEF StoreAgrees, Quiet
      <3> QED
        BY <1>5, <1>10, <3>1, <3>2, <3>3 DEF Agrees, Held
    <2>3. Agrees(job.entries, i)'
      <3>1. store'[i] = "none"
        BY <1>0, <1>2, <1>6 DEF TypeOK
      <3>2. ~ Held(list, i)
        BY <1>8, <1>9 DEF Held
      <3> QED
        BY <1>10, <3>1, <3>2 DEF Agrees, Held
    <2> QED
      BY <1>5, <1>6, <1>7, <1>10, <2>1, <2>2, <2>3 DEF StoreAgrees
  <1>14. EventsSound'
    BY <1>0, <1>5, <1>7, <1>10 DEF EventsSound, Quiet
  <1>15. \A j \in Id : /\ Restoring(j) = FALSE /\ Outcomes(j)' = Outcomes(j)
                       /\ Restoring(j)' = (j = i)
    BY <1>5, <1>7, <1>10 DEF Restoring, Outcomes, Quiet
  <1>16. AskedOnce'
    <2> SUFFICES ASSUME NEW j \in Id
                 PROVE  /\ Commanded(j)' \/ Outcomes(j)' # {} \/ Restoring(j)' => asked'[j] > 0
                        /\ asked'[j] = 1 =>
                             /\ Single(pending, j)' /\ Single(todo, j)'
                             /\ (j \in ToSet(todo))' => (j \notin ToSet(pending))'
                             /\ Commanded(j)' => Outcomes(j)' = {} /\ ~ Restoring(j)'
      BY DEF AskedOnce
    <2>1. asked'[j] = asked[j]
      BY <1>5
    <2>2. CASE j = i
      BY <1>6, <1>15, <2>1, <2>2
    <2>3. CASE j # i
      BY <1>0, <1>6, <1>15, <2>1, <2>3 DEF AskedOnce
    <2> QED
      BY <2>2, <2>3
  <1>17. EntriesMirrored'
    <2> SUFFICES ASSUME NEW e \in Entry, Current(e)' PROVE Mirrors(e)'
      BY DEF EntriesMirrored
    <2>1. e.id \in Id
      BY DEF Entry
    <2>2. PICK l \in DOMAIN manifest : \/ manifest[l] = e /\ e.id # i
                                       \/ list[l] = e
      BY <1>5, <1>7, <1>9, <1>10 DEF Current
    <2>3. \A k \in DOMAIN manifest : Mirrors(manifest[k])
      <3>1. \A k \in DOMAIN manifest : manifest[k] \in Entry
        BY <1>8
      <3> QED
        BY <1>0, <1>5, <3>1 DEF EntriesMirrored, Current, NoJob
    <2>4. ASSUME NEW j PROVE Announced(j) => Announced(j)'
      BY <1>5 DEF Announced, Quiet
    <2>5. CASE e.id # i
      <3>1. manifest[l] = e
        BY <1>9, <2>2, <2>5
      <3>2. /\ Commanded(e.id)' = Commanded(e.id) /\ Restoring(e.id)' = Restoring(e.id)
            /\ Outcomes(e.id)' = Outcomes(e.id)
        BY <1>6, <1>15, <2>1, <2>5
      <3> QED
        BY <1>5, <2>3, <2>4, <3>1, <3>2, MirrorsKept
    <2>6. CASE e.id = i
      <3>1. l = p /\ e = list[p]
        BY <1>8, <1>12, <2>2, <2>6
      <3> SUFFICES ASSUME manifest[p].source = "mirrored", i \notin unheard, asked[i] <= 1
                   PROVE  /\ items[i] = "none" => Announced(i)'
                          /\ i \in told \/ asked[i] > 0 => items[i] # "none"
                          /\ asked[i] > 0 /\ ~ Commanded(i)'
                          /\ \A k \in Outcomes(i)' : outbox'[k].action = "restored"
                          /\ Restoring(i)'
        BY <1>5, <1>9, <2>6, <3>1 DEF Mirrors
      <3>2. /\ items[i] = "none" => Announced(i)
            /\ i \in told \/ asked[i] > 0 => items[i] # "none"
        BY <1>8, <2>3 DEF Mirrors
      <3>3. asked[i] = 1
        <4>1. asked[i] \in Nat
          BY <1>0, <1>6 DEF TypeOK
        <4> QED
          BY <1>6, <4>1
      <3> QED
        BY <1>6, <1>15, <2>4, <3>2, <3>3
    <2> QED
      BY <2>5, <2>6
  <1> QED
    BY <1>11, <1>13, <1>14, <1>16, <1>17 DEF StoreInv

\* The manifest is emptied, then written.
LEMMA ManifestKeeps == ASSUME StoreInv, ManifestOpen \/ ManifestWrite PROVE StoreInv'
  <1> USE DEF server, monitor, bounds
  <1>0. TypeOK /\ StoreAgrees /\ EventsSound /\ AskedOnce /\ EntriesMirrored
    BY DEF StoreInv
  <1>1. /\ job.step \in {"moved", "opened"}
        /\ job' = [job EXCEPT !.step = IF job.step = "moved" THEN "opened" ELSE "written"]
        /\ manifest' = IF job.step = "moved" THEN <<>> ELSE job.entries
        /\ UNCHANGED <<origin, store, scan, baselined, seen, todo, outbox, told, items, pending,
                       taken, drops, asked, faults, cut, unheard>>
    BY DEF ManifestOpen, ManifestWrite
  <1>2. /\ job \in [step : {"moved", "opened", "written"}, entries : Seq(Entry), event : Event]
        /\ ~ Quiet /\ job.entries \in Seq(Entry)
    BY <1>0, <1>1, JobShape
  <1>3. /\ job'.entries = job.entries /\ job'.event = job.event /\ Quiet' = FALSE
        /\ job' \in Job
        /\ job'.step = IF job.step = "moved" THEN "opened" ELSE "written"
    BY <1>1, <1>2 DEF Quiet, NoJob, Job
  <1>4. TypeOK'
    BY <1>0, <1>1, <1>2, <1>3 DEF TypeOK
  <1>5. StoreAgrees'
    <2>1. Sound(job.entries) /\ \A i \in 1..taken : Agrees(job.entries, i)
      BY <1>0, <1>2 DEF StoreAgrees
    <2>2. Sound(job.entries)' /\ Sound(manifest)'
      BY <1>1, <1>3, <2>1 DEF Sound
    <2>3. \A i \in 1..taken : Agrees(job.entries, i)'
      BY <1>1, <1>3, <2>1 DEF Agrees, Held
    <2>4. job'.event.id <= taken'
      BY <1>0, <1>1, <1>2, <1>3 DEF StoreAgrees
    <2> QED
      BY <1>1, <1>3, <2>2, <2>3, <2>4 DEF StoreAgrees
  <1>6. EventsSound'
    BY <1>0, <1>1, <1>2, <1>3 DEF EventsSound
  <1>7. \A i : Restoring(i)' = Restoring(i) /\ Outcomes(i)' = Outcomes(i)
               /\ Commanded(i)' = Commanded(i) /\ (Announced(i) => Announced(i)')
    BY <1>1, <1>2, <1>3 DEF Restoring, Outcomes, Commanded, Announced
  <1>8. AskedOnce'
    BY <1>0, <1>1, <1>7 DEF AskedOnce, Single
  <1>9. EntriesMirrored'
    <2> SUFFICES ASSUME NEW e \in Entry, Current(e)' PROVE Mirrors(e)'
      BY DEF EntriesMirrored
    <2>1. \E k \in DOMAIN job.entries : job.entries[k] = e
      BY <1>1, <1>3 DEF Current
    <2>2. Mirrors(e)
      BY <1>0, <1>2, <2>1 DEF EntriesMirrored, Current
    <2> QED
      BY <1>1, <1>7, <2>2, MirrorsKept
  <1> QED
    BY <1>4, <1>5, <1>6, <1>8, <1>9 DEF StoreInv

LEMMA JobDoneKeeps == ASSUME StoreInv, JobDone PROVE StoreInv'
  <1> USE DEF host, server, monitor, bounds
  <1>0. TypeOK /\ StoreAgrees /\ EventsSound /\ AskedOnce /\ EntriesMirrored
    BY DEF StoreInv
  <1>1. PICK ev : ev = job.event
    OBVIOUS
  <1>2. PICK m : m = Len(outbox) + 1
    OBVIOUS
  <1>3. /\ job.step = "written" /\ job' = NoJob /\ outbox' = Append(outbox, ev)
        /\ UNCHANGED <<origin, store, manifest, scan, baselined, seen, todo, told, items, pending,
                       taken, drops, asked, faults, cut, unheard>>
    BY <1>1 DEF JobDone
  <1>4. /\ ~ Quiet /\ Quiet' = TRUE /\ job' \in Job
        /\ ev \in Event /\ ev.id \in Id /\ ev.action \in {"quarantined", "restored", "restore_failed"}
        /\ manifest = job.entries
    <2>1. ~ Quiet /\ job.event \in Event /\ job.event.id \in Id
      BY <1>0, <1>3, JobShape
    <2> QED
      BY <1>0, <1>1, <1>3, <2>1 DEF Quiet, Job, Event, StoreAgrees
  <1>5. /\ outbox' \in Seq(Event) /\ DOMAIN outbox' = DOMAIN outbox \cup {m}
        /\ m \notin DOMAIN outbox
        /\ \A k \in DOMAIN outbox : outbox'[k] = outbox[k]
        /\ outbox'[m] = ev
    <2>1. outbox \in Seq(Event)
      BY <1>0 DEF TypeOK
    <2> QED
      BY <1>2, <1>3, <1>4, <2>1, AppendPositions
  <1>6. TypeOK'
    BY <1>0, <1>3, <1>4, <1>5 DEF TypeOK
  <1>7. job'.step = "none"
    BY <1>3 DEF NoJob
  <1>8. StoreAgrees'
    <2>1. Sound(manifest) /\ \A i \in 1..taken : Agrees(manifest, i)
      BY <1>0, <1>4 DEF StoreAgrees
    <2>2. Sound(manifest)' /\ \A i \in (1..taken)' : Agrees(manifest, i)'
      BY <1>3, <2>1 DEF Sound, Agrees, Held
    <2> QED
      BY <1>4, <1>7, <2>2 DEF StoreAgrees
  <1>9. EventsSound'
    <2>1. ev.id <= taken
      BY <1>0, <1>1, <1>4 DEF StoreAgrees
    <2>2. ev.action # "quarantined" => ev.action = "restored" /\ ev.source = "mirrored"
      BY <1>0, <1>1, <1>4 DEF EventsSound
    <2> QED
      BY <1>0, <1>3, <1>4, <1>5, <2>1, <2>2 DEF EventsSound
  <1>10. \A i : /\ Restoring(i) = (ev.id = i /\ ev.action # "quarantined")
                /\ Restoring(i)' = FALSE
                /\ Outcomes(i)' = IF Restoring(i) THEN Outcomes(i) \cup {m} ELSE Outcomes(i)
                /\ Commanded(i)' = Commanded(i)
                /\ Announced(i) => Announced(i)'
    <2>1. \A i : Announced(i) => Announced(i)'
      BY <1>1, <1>3, <1>4, <1>5 DEF Announced
    <2>2. \A i : Restoring(i) = (ev.id = i /\ ev.action # "quarantined")
      BY <1>1, <1>4 DEF Restoring
    <2>3. \A i : Restoring(i)' = FALSE
      BY <1>4 DEF Restoring
    <2>4. \A i : Outcomes(i)' = IF Restoring(i) THEN Outcomes(i) \cup {m} ELSE Outcomes(i)
      <3> SUFFICES ASSUME NEW i
                   PROVE  Outcomes(i)' = IF Restoring(i) THEN Outcomes(i) \cup {m} ELSE Outcomes(i)
        OBVIOUS
      <3>1. CASE Restoring(i)
        BY <1>5, <2>2, <3>1 DEF Outcomes
      <3>2. CASE ~ Restoring(i)
        BY <1>5, <2>2, <3>2 DEF Outcomes
      <3> QED
        BY <3>1, <3>2
    <2>5. \A i : Commanded(i)' = Commanded(i)
      BY <1>3 DEF Commanded
    <2> QED
      BY <2>1, <2>2, <2>3, <2>4, <2>5
  <1>11. AskedOnce'
    <2> SUFFICES ASSUME NEW j \in Id
                 PROVE  /\ Commanded(j)' \/ Outcomes(j)' # {} \/ Restoring(j)' => asked'[j] > 0
                        /\ asked'[j] = 1 =>
                             /\ Single(pending, j)' /\ Single(todo, j)'
                             /\ (j \in ToSet(todo))' => (j \notin ToSet(pending))'
                             /\ Commanded(j)' => Outcomes(j)' = {} /\ ~ Restoring(j)'
      BY DEF AskedOnce
    <2>1. /\ asked'[j] = asked[j]
          /\ Single(pending, j)' = Single(pending, j) /\ Single(todo, j)' = Single(todo, j)
          /\ (j \in ToSet(todo))' = (j \in ToSet(todo))
          /\ (j \in ToSet(pending))' = (j \in ToSet(pending))
      BY <1>3 DEF Single
    <2> QED
      BY <1>0, <1>10, <2>1 DEF AskedOnce
  <1>12. EntriesMirrored'
    <2> SUFFICES ASSUME NEW e \in Entry, Current(e)' PROVE Mirrors(e)'
      BY DEF EntriesMirrored
    <2>1. \E k \in DOMAIN job.entries : job.entries[k] = e
      BY <1>3, <1>4 DEF Current
    <2>2. Mirrors(e)
      BY <1>0, <1>4, <2>1 DEF EntriesMirrored, Current
    <2>3. CASE ~ Restoring(e.id)
      <3>1. \A k \in Outcomes(e.id) : outbox'[k] = outbox[k]
        BY <1>5 DEF Outcomes
      <3>2. Restoring(e.id)' = Restoring(e.id)
        BY <1>10, <2>3 DEF Restoring
      <3> QED
        BY <1>3, <1>10, <2>2, <2>3, <3>1, <3>2, MirrorsKept
    <2>4. CASE Restoring(e.id)
      <3>1. PICK i : i = e.id
        OBVIOUS
      <3> SUFFICES ASSUME e.source = "mirrored", i \notin unheard, asked[i] <= 1
                   PROVE  /\ items[i] = "none" => Announced(i)'
                          /\ i \in told \/ asked[i] > 0 => items[i] # "none"
                          /\ e.status # "quarantined"
                          /\ asked[i] > 0 /\ ~ Commanded(i)'
                          /\ \A k \in Outcomes(i)' : outbox'[k].action = "restored"
                          /\ Outcomes(i)' # {}
        BY <1>3, <3>1 DEF Mirrors
      <3>2. /\ items[i] = "none" => Announced(i)
            /\ i \in told \/ asked[i] > 0 => items[i] # "none"
            /\ e.status # "quarantined"
        BY <2>2, <2>4, <3>1 DEF Mirrors
      <3>3. e.status = "restored"
        BY <3>2 DEF Entry
      <3>4. /\ asked[i] > 0 /\ ~ Commanded(i)
            /\ \A k \in Outcomes(i) : outbox[k].action = "restored"
        BY <2>2, <3>1, <3>3 DEF Mirrors
      <3>5. ev.action = "restored"
        BY <1>0, <1>1, <1>4, <1>10, <2>4 DEF EventsSound
      <3>6. Outcomes(i)' = Outcomes(i) \cup {m}
        BY <1>10, <2>4, <3>1
      <3>7. \A k \in Outcomes(i) : outbox'[k] = outbox[k]
        BY <1>5 DEF Outcomes
      <3> QED
        BY <1>5, <1>10, <3>2, <3>4, <3>5, <3>6, <3>7
    <2> QED
      BY <2>3, <2>4
  <1> QED
    BY <1>6, <1>8, <1>9, <1>11, <1>12 DEF StoreInv

\* A death or a disk error: what it may have cut is in cut, what is lost in unheard.
LEMMA AbandonKeeps ==
  ASSUME StoreInv, ManifestFails \/ Crash
  PROVE  StoreInv'
  <1> USE DEF host, server, monitor
  <1>0. TypeOK /\ StoreAgrees /\ EventsSound /\ AskedOnce /\ EntriesMirrored
    BY DEF StoreInv
  <1>1. /\ Abandon
        /\ faults < MaxFaults /\ faults' = faults + 1
        /\ UNCHANGED <<origin, store, manifest, outbox, told, items, pending, taken, drops, asked>>
        /\ UNCHANGED <<baselined, seen>> \/ (baselined' = FALSE /\ seen' = {})
    BY DEF ManifestFails, Crash, Fail
  <1>2. /\ job' = NoJob /\ scan' = NoScan /\ todo' = <<>>
        /\ cut \subseteq cut' /\ unheard \subseteq unheard'
        /\ \A i \in ToSet(todo) : i \in unheard'
        /\ job.step \in {"moved", "opened"} => job.event.id \in cut'
        /\ job.step = "opened" => \A k \in DOMAIN job.entries : job.entries[k].id \in cut'
        /\ ~ Quiet => job.event.id \in unheard'
    BY <1>1 DEF Abandon, Quiet
  <1>3. Quiet' = TRUE /\ job'.step = "none" /\ job' \in Job
    BY <1>2 DEF Quiet, NoJob, Job
  <1>4. TypeOK'
    <2>1. cut' \subseteq Id
      <3>1. job.step \in {"moved", "opened"} => job.event.id \in Id
        BY <1>0, JobShape
      <3>2. ASSUME job.step = "opened", NEW k \in DOMAIN job.entries
            PROVE  job.entries[k].id \in Id
        <4>1. job.entries \in Seq(Entry)
          BY <1>0, <3>2, JobShape
        <4>2. job.entries[k] \in Entry
          BY <4>1
        <4> QED
          BY <4>2 DEF Entry
      <3>3. cut \subseteq Id
        BY <1>0 DEF TypeOK
      <3>4. cut' = cut \cup (IF job.step \in {"moved", "opened"} THEN {job.event.id} ELSE {})
                       \cup (IF job.step = "opened"
                             THEN {job.entries[k].id : k \in DOMAIN job.entries} ELSE {})
        BY <1>1 DEF Abandon
      <3> QED
        BY <3>1, <3>2, <3>3, <3>4
    <2>2. unheard' \subseteq Id
      <3>1. ToSet(todo) \subseteq Id
        BY <1>0 DEF ToSet, TypeOK
      <3>2. ~ Quiet => job.event.id \in Id
        BY <1>0, JobShape
      <3>3. unheard \subseteq Id
        BY <1>0 DEF TypeOK
      <3> QED
        BY <1>1, <3>1, <3>2, <3>3 DEF Abandon, Quiet
    <2>3. faults' \in 0..MaxFaults
      BY <1>0, <1>1, StoreAssumption DEF TypeOK
    <2>4. scan' \in [on : BOOLEAN, new : SUBSET Files, listed : SUBSET Files]
      BY <1>2 DEF NoScan
    <2>5. baselined' \in BOOLEAN /\ seen' \subseteq Files
      BY <1>0, <1>1 DEF TypeOK
    <2>6. todo' \in Seq(Id)
      BY <1>2
    <2> QED
      BY <1>0, <1>1, <1>3, <2>1, <2>2, <2>3, <2>4, <2>5, <2>6 DEF TypeOK
  <1>5. StoreAgrees'
    <2>1. Sound(manifest)'
      BY <1>0, <1>1 DEF StoreAgrees, Sound
    <2>2. ASSUME NEW i \in 1..taken, i \notin cut'
          PROVE  store[i] # "none" <=> Held(manifest, i)
      <3>1. i \notin cut
        BY <1>2, <2>2
      <3>2. CASE Quiet \/ job.step = "written"
        BY <1>0, <3>1, <3>2 DEF StoreAgrees, Agrees
      <3>3. CASE job.step = "moved"
        BY <1>0, <1>2, <2>2, <3>1, <3>3 DEF StoreAgrees, Agrees
      <3>4. CASE job.step = "opened"
        <4>1. manifest = <<>> /\ Agrees(job.entries, i)
          BY <1>0, <3>4, JobShape DEF StoreAgrees
        <4>2. ~ Held(manifest, i) /\ ~ Held(job.entries, i)
          BY <1>2, <2>2, <3>4, <4>1 DEF Held
        <4> QED
          BY <3>1, <4>1, <4>2 DEF Agrees
      <3> QED
        BY <1>0, <3>2, <3>3, <3>4, JobShape
    <2>3. \A i \in (1..taken)' : Agrees(manifest, i)'
      BY <1>1, <2>2 DEF Agrees, Held
    <2> QED
      BY <1>3, <2>1, <2>3 DEF StoreAgrees
  <1>6. EventsSound'
    BY <1>0, <1>1, <1>3 DEF EventsSound
  <1>7. \A i : /\ Restoring(i)' = FALSE /\ Outcomes(i)' = Outcomes(i)
               /\ Commanded(i)' => Commanded(i)
               /\ i \notin ToSet(todo) => Commanded(i)' = Commanded(i)
    BY <1>1, <1>2, <1>3 DEF Restoring, Outcomes, Commanded, ToSet
  <1>8. AskedOnce'
    <2>1. \A i : i \notin ToSet(todo)'
      BY <1>2 DEF ToSet
    <2>2. \A i : Single(todo, i)' /\ Single(pending, i)' = Single(pending, i)
      BY <1>1, <1>2 DEF Single
    <2> QED
      BY <1>0, <1>1, <1>7, <2>1, <2>2 DEF AskedOnce
  <1>9. EntriesMirrored'
    <2> SUFFICES ASSUME NEW e \in Entry, Current(e)' PROVE Mirrors(e)'
      BY DEF EntriesMirrored
    <2>1. \E k \in DOMAIN manifest : manifest[k] = e
      BY <1>1, <1>3 DEF Current
    <2> SUFFICES ASSUME e.id \notin unheard' PROVE Mirrors(e)'
      BY DEF Mirrors
    <2>2. e.id \notin unheard /\ e.id \notin ToSet(todo) /\ (~ Quiet => job.event.id # e.id)
      BY <1>2
    <2>3. Mirrors(e)
      <3>1. job.step = "moved" => ~ Quiet
        BY <1>0, JobShape
      <3> QED
        BY <1>0, <2>1, <2>2, <3>1 DEF EntriesMirrored, Current
    <2>4. Announced(e.id) => Announced(e.id)'
      BY <1>1, <2>2 DEF Announced, Announcement
    <2>5. Restoring(e.id) = FALSE
      BY <2>2 DEF Restoring
    <2> QED
      BY <1>1, <1>7, <2>2, <2>3, <2>4, <2>5, MirrorsKept
  <1> QED
    BY <1>4, <1>5, <1>6, <1>8, <1>9 DEF StoreInv

-------------------------------------------------------------------------------
(* Commands and events.                                                    *)

\* Nothing but the items, the events and the commands changes: the same lists are current.
LEMMA CurrentKept ==
  ASSUME UNCHANGED <<manifest, job>>, NEW e, Current(e)'
  PROVE  Current(e)
  BY DEF Current, Quiet

LEMMA AskKeeps ==
  ASSUME StoreInv, NEW i \in Id, RequestRestore(i) \/ RespondRestore(i)
  PROVE  StoreInv'
  <1> USE DEF host, monitor, bounds
  <1>0. TypeOK /\ StoreAgrees /\ EventsSound /\ AskedOnce /\ EntriesMirrored
    BY DEF StoreInv
  <1>1. PICK m : m = Len(pending) + 1
    OBVIOUS
  <1>2. PICK n : n = asked[i] + 1
    OBVIOUS
  <1>3. /\ pending' = Append(pending, i) /\ asked' = [asked EXCEPT ![i] = n]
        /\ UNCHANGED <<origin, store, manifest, job, scan, baselined, seen, todo, outbox, told,
                       taken, drops, faults, cut, unheard>>
    BY <1>2 DEF RequestRestore, RespondRestore, Ask
  <1>4. \/ items' = items /\ i \in told
        \/ items' = [items EXCEPT ![i] = "restore_requested"] /\ items[i] \notin {"none", "restored"}
    BY DEF RequestRestore, RespondRestore, MayRequest
  <1>5. /\ asked \in [Id -> Nat] /\ pending \in Seq(Id) /\ asked[i] \in Nat /\ n \in Nat
        /\ asked'[i] = n /\ \A j \in Id : j # i => asked'[j] = asked[j]
        /\ items \in [Id -> {"none", "quarantined", "restore_requested", "restored"}]
        /\ \A j \in Id : j # i => items'[j] = items[j]
    BY <1>0, <1>2, <1>3, <1>4 DEF TypeOK
  <1>6. /\ pending' \in Seq(Id) /\ DOMAIN pending' = DOMAIN pending \cup {m}
        /\ m \notin DOMAIN pending
        /\ \A k \in DOMAIN pending : pending'[k] = pending[k]
        /\ pending'[m] = i
    BY <1>1, <1>3, <1>5, AppendPositions
  <1>7. TypeOK'
    <2>1. items' \in [Id -> {"none", "quarantined", "restore_requested", "restored"}]
      BY <1>4, <1>5
    <2>2. asked' \in [Id -> Nat]
      BY <1>3, <1>5
    <2> QED
      BY <1>0, <1>3, <1>6, <2>1, <2>2 DEF TypeOK
  <1>8. StoreAgrees'
    BY <1>0, <1>3, StoreAgreesKept
  <1>9. i <= taken
    <2>1. i \in Nat /\ taken \in Nat
      BY StoreAssumption, <1>0 DEF Id, TypeOK
    <2> QED
      BY <1>0, <1>4, <2>1 DEF EventsSound
  <1>10. EventsSound'
    <2>1. \A j \in Id : j > taken => j # i
      <3>1. \A j \in Id : j \in Nat
        BY DEF Id
      <3>2. taken \in Nat
        BY <1>0, StoreAssumption DEF TypeOK
      <3> QED
        BY <1>9, <3>1, <3>2
    <2>2. \A j \in Id : j > taken' => asked'[j] = 0 /\ items'[j] = "none" /\ j \notin told'
      BY <1>0, <1>3, <1>5, <2>1 DEF EventsSound
    <2> QED
      BY <1>0, <1>3, <2>2 DEF EventsSound, Quiet
  <1>11. \A j : /\ Restoring(j)' = Restoring(j) /\ Outcomes(j)' = Outcomes(j)
                /\ (Announced(j) => Announced(j)')
                /\ (j \in ToSet(todo))' = (j \in ToSet(todo))
                /\ (j \in ToSet(pending))' = (j \in ToSet(pending) \/ j = i)
                /\ Commanded(j)' = (Commanded(j) \/ j = i)
    <2>1. \A j : (j \in ToSet(pending))' = (j \in ToSet(pending) \/ j = i)
      BY <1>6 DEF ToSet
    <2>2. \A j : (j \in ToSet(todo))' = (j \in ToSet(todo))
      BY <1>3
    <2> QED
      BY <1>3, <2>1, <2>2 DEF Restoring, Outcomes, Announced, Commanded, Quiet
  <1>12. asked[i] = 0 => ~ Commanded(i) /\ Outcomes(i) = {} /\ ~ Restoring(i)
    BY <1>0 DEF AskedOnce
  <1>13. AskedOnce'
    <2> SUFFICES ASSUME NEW j \in Id
                 PROVE  /\ Commanded(j)' \/ Outcomes(j)' # {} \/ Restoring(j)' => asked'[j] > 0
                        /\ asked'[j] = 1 =>
                             /\ Single(pending, j)' /\ Single(todo, j)'
                             /\ (j \in ToSet(todo))' => (j \notin ToSet(pending))'
                             /\ Commanded(j)' => Outcomes(j)' = {} /\ ~ Restoring(j)'
      BY DEF AskedOnce
    <2>1. CASE j = i
      <3>1. asked'[i] > 0 /\ (asked'[i] = 1 => asked[i] = 0)
        BY <1>2, <1>5
      <3> SUFFICES ASSUME asked[i] = 0
                   PROVE  /\ Single(pending, i)' /\ Single(todo, i)'
                          /\ i \notin ToSet(todo)
                          /\ Outcomes(i) = {} /\ ~ Restoring(i)
        BY <1>11, <2>1, <3>1
      <3>2. i \notin ToSet(todo) /\ i \notin ToSet(pending)
        BY <1>12 DEF Commanded
      <3>3. Single(pending, i)'
        BY <1>6, <3>2 DEF Single, ToSet
      <3>4. Single(todo, i)'
        BY <1>3, <3>2 DEF Single, ToSet
      <3> QED
        BY <1>12, <3>2, <3>3, <3>4
    <2>2. CASE j # i
      <3>1. Single(pending, j) => Single(pending, j)'
        BY <1>6, <2>2 DEF Single
      <3>2. Single(todo, j) => Single(todo, j)'
        BY <1>3 DEF Single
      <3> QED
        BY <1>0, <1>5, <1>11, <2>2, <3>1, <3>2 DEF AskedOnce
    <2> QED
      BY <2>1, <2>2
  <1>14. EntriesMirrored'
    <2> SUFFICES ASSUME NEW e \in Entry, Current(e)' PROVE Mirrors(e)'
      BY DEF EntriesMirrored
    <2>1. Mirrors(e)
      BY <1>0, <1>3, CurrentKept DEF EntriesMirrored
    <2>2. e.id \in Id /\ e.status \in {"quarantined", "restored"}
      BY DEF Entry
    <2>3. CASE e.id # i
      <3>1. Commanded(e.id)' = Commanded(e.id)
        BY <1>11, <2>3 DEF Commanded
      <3>2. /\ Restoring(e.id)' = Restoring(e.id) /\ Outcomes(e.id)' = Outcomes(e.id)
            /\ Announced(e.id) => Announced(e.id)'
        BY <1>11
      <3> QED
        BY <1>3, <1>5, <2>1, <2>2, <2>3, <3>1, <3>2, MirrorsKept
    <2>4. CASE e.id = i
      <3> SUFFICES ASSUME e.source = "mirrored", i \notin unheard, n <= 1
                   PROVE  /\ e.status = "quarantined"
                          /\ items'[i] \notin {"none", "restored"}
                          /\ Outcomes(i)' = {} /\ ~ Restoring(i)' /\ Commanded(i)'
        BY <1>3, <1>5, <2>4 DEF Mirrors
      <3>1. asked[i] = 0
        BY <1>2, <1>5
      <3>2. e.status = "quarantined"
        <4> SUFFICES ASSUME e.status = "restored" PROVE FALSE
          BY <2>2
        <4>1. asked[i] > 0
          BY <1>5, <2>1, <2>4, <3>1 DEF Mirrors
        <4> QED
          BY <3>1, <4>1
      <3>3. /\ i \in told => items[i] # "none"
            /\ items[i] # "restored"
        BY <2>1, <2>4, <3>1, <3>2 DEF Mirrors
      <3>4. items'[i] \notin {"none", "restored"}
        BY <1>4, <1>5, <3>3
      <3> QED
        BY <1>11, <1>12, <3>1, <3>2, <3>4
    <2> QED
      BY <2>3, <2>4
  <1> QED
    BY <1>7, <1>8, <1>10, <1>13, <1>14 DEF StoreInv

LEMMA CheckinKeeps == ASSUME StoreInv, Checkin \/ CheckinLost PROVE StoreInv'
  <1> USE DEF host, monitor, bounds
  <1>0. TypeOK /\ StoreAgrees /\ EventsSound /\ AskedOnce /\ EntriesMirrored
    BY DEF StoreInv
  <1>1. /\ pending' = <<>>
        /\ UNCHANGED <<origin, store, manifest, job, scan, baselined, seen, outbox, told, items,
                       taken, drops, asked, cut>>
        /\ \/ todo = <<>> /\ todo' = pending /\ UNCHANGED <<unheard, faults>>
           \/ /\ todo' = todo /\ unheard' = unheard \cup ToSet(pending)
              /\ faults < MaxFaults /\ faults' = faults + 1
    BY DEF Checkin, CheckinLost, Fail
  <1>2. TypeOK'
    <2>1. ToSet(pending) \subseteq Id
      BY <1>0 DEF ToSet, TypeOK
    <2>2. unheard' \subseteq Id
      BY <1>0, <1>1, <2>1 DEF TypeOK
    <2>3. faults' \in 0..MaxFaults
      BY <1>0, <1>1, StoreAssumption DEF TypeOK
    <2>4. todo' \in Seq(Id) /\ pending' \in Seq(Id)
      BY <1>0, <1>1 DEF TypeOK
    <2> QED
      BY <1>0, <1>1, <2>2, <2>3, <2>4 DEF TypeOK
  <1>3. StoreAgrees'
    BY <1>0, <1>1, StoreAgreesKept
  <1>4. EventsSound'
    BY <1>0, <1>1 DEF EventsSound, Quiet
  <1>5. \A j : /\ Restoring(j)' = Restoring(j) /\ Outcomes(j)' = Outcomes(j)
               /\ (Announced(j) => Announced(j)')
               /\ Commanded(j)' => Commanded(j)
               /\ (j \notin ToSet(pending))'
               /\ Commanded(j)' = Commanded(j) \/ j \in unheard'
    <2>1. \A j : (j \notin ToSet(pending))'
      BY <1>1 DEF ToSet
    <2>2. \A j : Commanded(j)' = Commanded(j) \/ j \in unheard'
      BY <1>1 DEF Commanded, ToSet
    <2>3. \A j : Commanded(j)' => Commanded(j)
      BY <1>1 DEF Commanded, ToSet
    <2> QED
      BY <1>1, <2>1, <2>2, <2>3 DEF Restoring, Outcomes, Announced, Quiet
  <1>6. \A j : Single(pending, j)' /\ (Single(pending, j) /\ Single(todo, j) => Single(todo, j)')
    BY <1>1 DEF Single
  <1>7. AskedOnce'
    BY <1>0, <1>1, <1>5, <1>6 DEF AskedOnce
  <1>8. EntriesMirrored'
    <2> SUFFICES ASSUME NEW e \in Entry, Current(e)' PROVE Mirrors(e)'
      BY DEF EntriesMirrored
    <2>1. Mirrors(e)
      BY <1>0, <1>1, CurrentKept DEF EntriesMirrored
    <2>2. e.id \notin unheard' => e.id \notin unheard /\ Commanded(e.id)' = Commanded(e.id)
      BY <1>1, <1>5
    <2> QED
      BY <1>1, <1>5, <2>1, <2>2, MirrorsKept
  <1> QED
    BY <1>2, <1>3, <1>4, <1>7, <1>8 DEF StoreInv

\* What a batch makes of an item: nothing, or what one of its events says.
LEMMA SyncedItem ==
  ASSUME TypeOK, Sync(outbox), NEW i \in Id
  PROVE  /\ Mirrored(outbox, i) = {} => items'[i] = items[i]
         /\ Mirrored(outbox, i) # {} =>
              \E k \in Mirrored(outbox, i) : items'[i] = MirroredStatus(outbox[k])
  <1>1. outbox \in Seq(Event)
    BY DEF TypeOK
  <1>2. Len(outbox) \in Nat /\ DOMAIN outbox = 1..Len(outbox)
    BY <1>1
  <1>3. Mirrored(outbox, i) \in SUBSET (1..Len(outbox))
    BY <1>2 DEF Mirrored
  <1>4. items'[i] = IF Mirrored(outbox, i) = {} THEN items[i]
                    ELSE MirroredStatus(outbox[LastOf(Mirrored(outbox, i))])
    BY DEF Sync
  <1>5. Mirrored(outbox, i) # {} => LastOf(Mirrored(outbox, i)) \in Mirrored(outbox, i)
    BY <1>2, <1>3, LastOfPositions
  <1> QED
    BY <1>4, <1>5

LEMMA DeliverKeeps == ASSUME StoreInv, Deliver \/ DeliverUnacknowledged PROVE StoreInv'
  <1> USE DEF host, monitor, bounds
  <1>0. TypeOK /\ StoreAgrees /\ EventsSound /\ AskedOnce /\ EntriesMirrored
    BY DEF StoreInv
  <1>1. /\ job = NoJob /\ Sync(outbox) /\ outbox' \in {<<>>, outbox}
        /\ UNCHANGED <<origin, store, manifest, job, scan, baselined, seen, todo, pending,
                       taken, drops, asked, cut, unheard>>
        /\ \/ faults' = faults
           \/ faults < MaxFaults /\ faults' = faults + 1
    BY DEF Deliver, DeliverUnacknowledged, Fail
  <1>2. Quiet /\ Quiet' = TRUE /\ outbox \in Seq(Event)
    BY <1>0, <1>1 DEF Quiet, TypeOK
  <1>3. \A k \in DOMAIN outbox : outbox[k] \in Event /\ outbox[k].id \in Id
                                 /\ outbox[k].action \in {"quarantined", "restored", "restore_failed"}
    <2>1. \A k \in DOMAIN outbox : outbox[k] \in Event
      BY <1>2
    <2> QED
      BY <2>1 DEF Event
  <1>4. told' = told \cup {outbox[k].id : k \in DOMAIN outbox}
    BY <1>1 DEF Sync
  <1>5. TypeOK'
    <2>1. told' \subseteq Id
      BY <1>0, <1>3, <1>4 DEF TypeOK
    <2>2. items' \in [Id -> {"none", "quarantined", "restore_requested", "restored"}]
      <3>1. \A i \in Id : items'[i] \in {"none", "quarantined", "restore_requested", "restored"}
        <4> SUFFICES ASSUME NEW i \in Id
                     PROVE  items'[i] \in {"none", "quarantined", "restore_requested", "restored"}
          OBVIOUS
        <4>1. items[i] \in {"none", "quarantined", "restore_requested", "restored"}
          BY <1>0 DEF TypeOK
        <4>2. \A k : MirroredStatus(outbox[k]) \in {"quarantined", "restored"}
          BY DEF MirroredStatus
        <4> QED
          BY <1>0, <1>1, <4>1, <4>2, SyncedItem
      <3>2. items' = [i \in Id |-> IF Mirrored(outbox, i) = {} THEN items[i]
                                   ELSE MirroredStatus(outbox[LastOf(Mirrored(outbox, i))])]
        BY <1>1 DEF Sync
      <3>3. DOMAIN items' = Id /\ items' = [i \in Id |-> items'[i]]
        BY <3>2
      <3> QED
        BY <3>1, <3>3
    <2>3. faults' \in 0..MaxFaults
      BY <1>0, <1>1, StoreAssumption DEF TypeOK
    <2>4. outbox' \in Seq(Event)
      <3>1. CASE outbox' = <<>>
        BY <3>1
      <3>2. CASE outbox' = outbox
        BY <1>2, <3>2
      <3> QED
        BY <1>1, <3>1, <3>2
    <2> QED
      BY <1>0, <1>1, <2>1, <2>2, <2>3, <2>4 DEF TypeOK
  <1>6. StoreAgrees'
    BY <1>0, <1>1, StoreAgreesKept
  <1>7. EventsSound'
    <2>1. ASSUME NEW i \in Id, i > taken PROVE asked'[i] = 0 /\ items'[i] = "none" /\ i \notin told'
      <3>1. asked[i] = 0 /\ items[i] = "none" /\ i \notin told
        BY <1>0, <2>1 DEF EventsSound
      <3>2. i \in Nat /\ taken \in Nat
        BY <1>0, StoreAssumption DEF Id, TypeOK
      <3>3. \A k \in DOMAIN outbox : outbox[k].id # i
        <4> SUFFICES ASSUME NEW k \in DOMAIN outbox, outbox[k].id = i PROVE FALSE
          OBVIOUS
        <4>1. i <= taken
          BY <1>0 DEF EventsSound
        <4> QED
          BY <2>1, <3>2, <4>1
      <3>4. Mirrored(outbox, i) = {}
        BY <3>3 DEF Mirrored
      <3>5. items'[i] = items[i]
        BY <1>0, <1>1, <3>4, SyncedItem
      <3> QED
        BY <1>1, <1>4, <3>1, <3>3, <3>5
    <2> QED
      BY <1>0, <1>1, <1>2, <2>1 DEF EventsSound
  <1>8. \A j : /\ Restoring(j) = FALSE /\ Restoring(j)' = FALSE
               /\ Outcomes(j)' \subseteq Outcomes(j)
               /\ \A k \in Outcomes(j)' : outbox'[k] = outbox[k]
               /\ Commanded(j)' = Commanded(j)
    <2>1. \A j : Restoring(j) = FALSE /\ Restoring(j)' = FALSE
      BY <1>2 DEF Restoring
    <2>2. \A j : Outcomes(j)' \subseteq Outcomes(j) /\ \A k \in Outcomes(j)' : outbox'[k] = outbox[k]
      <3>1. CASE outbox' = <<>>
        BY <3>1 DEF Outcomes
      <3>2. CASE outbox' = outbox
        BY <3>2 DEF Outcomes
      <3> QED
        BY <1>1, <3>1, <3>2
    <2> QED
      BY <1>1, <2>1, <2>2 DEF Commanded
  <1>9. AskedOnce'
    BY <1>0, <1>1, <1>8 DEF AskedOnce, Single
  <1>10. EntriesMirrored'
    <2> SUFFICES ASSUME NEW e \in Entry, Current(e)' PROVE Mirrors(e)'
      BY DEF EntriesMirrored
    <2>1. Mirrors(e)
      BY <1>0, <1>1, CurrentKept DEF EntriesMirrored
    <2>2. PICK i : i = e.id
      OBVIOUS
    <2>3. i \in Id /\ e.status \in {"quarantined", "restored"}
      BY <2>2 DEF Entry
    <2> SUFFICES ASSUME e.source = "mirrored", i \notin unheard, asked[i] <= 1
                 PROVE  /\ items'[i] # "none"
                        /\ e.status = "quarantined" =>
                             /\ items'[i] # "restored"
                             /\ \A k \in Outcomes(i)' : outbox'[k].action = "restore_failed"
                             /\ items'[i] = "restore_requested" => Commanded(i)'
                        /\ e.status = "restored" =>
                             /\ asked[i] > 0 /\ ~ Commanded(i)'
                             /\ \A k \in Outcomes(i)' : outbox'[k].action = "restored"
                             /\ items'[i] = "restored"
      BY <1>1, <1>8, <2>2 DEF Mirrors
    <2>4. /\ items[i] = "none" => Announced(i)
          /\ i \in told \/ asked[i] > 0 => items[i] # "none"
          /\ e.status = "quarantined" =>
               /\ items[i] # "restored"
               /\ \A k \in Outcomes(i) : outbox[k].action = "restore_failed"
               /\ items[i] = "restore_requested" => Commanded(i) \/ Outcomes(i) # {}
          /\ e.status = "restored" =>
               /\ asked[i] > 0 /\ ~ Commanded(i)
               /\ \A k \in Outcomes(i) : outbox[k].action = "restored"
               /\ items[i] = "restored" \/ Outcomes(i) # {}
      BY <1>8, <2>1, <2>2 DEF Mirrors
    <2>5. CASE items[i] = "none"
      <3>1. Outcomes(i) = {}
        BY <1>0, <2>3, <2>4, <2>5 DEF AskedOnce
      <3>2. PICK k \in DOMAIN outbox : outbox[k] = Announcement(i)
        BY <1>2, <2>4, <2>5 DEF Announced
      <3>3. outbox[k].id = i /\ outbox[k].action = "quarantined" /\ outbox[k].source = "mirrored"
        BY <3>2 DEF Announcement
      <3>4. k \in Mirrored(outbox, i)
        BY <2>5, <3>3 DEF Mirrored, Changes
      <3>5. PICK l \in Mirrored(outbox, i) : items'[i] = MirroredStatus(outbox[l])
        BY <1>0, <1>1, <2>3, <3>4, SyncedItem
      <3>6. outbox[l].action = "quarantined"
        BY <2>5 DEF Mirrored, Changes
      <3>7. items'[i] = "quarantined"
        BY <3>5, <3>6 DEF MirroredStatus
      <3> QED
        BY <1>8, <2>3, <2>4, <2>5, <3>1, <3>7
    <2>6. CASE items[i] # "none"
      <3>1. Mirrored(outbox, i) = Outcomes(i)
        BY <1>0, <2>6 DEF Mirrored, Changes, Outcomes, EventsSound
      <3>2. CASE Outcomes(i) = {}
        <4>1. items'[i] = items[i]
          BY <1>0, <1>1, <2>3, <3>1, <3>2, SyncedItem
        <4> QED
          BY <1>8, <2>4, <2>6, <3>2, <4>1
      <3>3. CASE Outcomes(i) # {}
        <4>1. PICK k \in Outcomes(i) : items'[i] = MirroredStatus(outbox[k])
          BY <1>0, <1>1, <2>3, <3>1, <3>3, SyncedItem
        <4>2. items'[i] = IF e.status = "restored" THEN "restored" ELSE "quarantined"
          BY <2>3, <2>4, <4>1 DEF MirroredStatus
        <4>3. \A l \in Outcomes(i)' : l \in Outcomes(i) /\ outbox'[l] = outbox[l]
          BY <1>8
        <4> QED
          BY <1>8, <2>3, <2>4, <4>2, <4>3
      <3> QED
        BY <3>2, <3>3
    <2> QED
      BY <2>5, <2>6
  <1> QED
    BY <1>5, <1>6, <1>7, <1>9, <1>10 DEF StoreInv

-------------------------------------------------------------------------------
(* The theorems.                                                           *)

\* Every step keeps the invariant: the store agrees with the manifest, or with the
\* list about to replace it, and what the server has of a file the monitors took, with
\* the commands and events on their way, agrees with its entry.
THEOREM StoreIsInductive == Spec => []StoreInv
  <1>1. StoreInv /\ [Next]_vars => StoreInv'
    <2> SUFFICES ASSUME StoreInv, [Next]_vars PROVE StoreInv'
      OBVIOUS
    <2>1. ASSUME NEW f \in Files, Drop(f) PROVE StoreInv'
      BY <2>1, MonitorKeeps
    <2>2. ASSUME NEW f \in Files, TakeDropped(f) \/ \E source \in Source : TakeOther(f, source)
          PROVE  StoreInv'
      BY <2>2, TakersKeep
    <2>3. CASE ScanBaseline \/ ScanStart \/ ScanEnd
      BY <2>3, MonitorKeeps
    <2>4. CASE RestoreStart
      BY <2>4, RestoreStartKeeps
    <2>5. CASE RestoreFails
      BY <2>5, RestoreFailsKeeps
    <2>6. CASE ManifestOpen \/ ManifestWrite
      BY <2>6, ManifestKeeps
    <2>7. CASE JobDone
      BY <2>7, JobDoneKeeps
    <2>8. CASE ManifestFails \/ Crash
      BY <2>8, AbandonKeeps
    <2>9. ASSUME NEW i \in Id, RequestRestore(i) \/ RespondRestore(i) PROVE StoreInv'
      BY <2>9, AskKeeps
    <2>10. CASE Checkin \/ CheckinLost
      BY <2>10, CheckinKeeps
    <2>11. CASE Deliver \/ DeliverUnacknowledged
      BY <2>11, DeliverKeeps
    <2>12. CASE UNCHANGED vars
      <3>1. TypeOK'
        BY <2>12 DEF vars, host, monitor, server, bounds, StoreInv, TypeOK
      <3> QED
        BY <2>12, <3>1, SameKeeps DEF vars, host, monitor, server, bounds
    <2> QED
      BY <2>1, <2>2, <2>3, <2>4, <2>5, <2>6, <2>7, <2>8, <2>9, <2>10, <2>11, <2>12 DEF Next
  <1> QED
    BY <1>1, StoreInit, PTL DEF Spec

\* A file that quarantine() has moved can be restored, and a file that restore() has
\* moved back is listed so, whatever deaths and disk errors there were, but for the ids
\* a death or an error has cut.
THEOREM StoreAlwaysMatchesManifest == Spec => []StoreMatchesManifest
  <1>1. StoreInv => StoreMatchesManifest
    <2> SUFFICES ASSUME StoreInv, Quiet, NEW i \in 1..taken, i \notin cut
                 PROVE  store[i] # "none" <=> Restorable(i) # {}
      BY DEF StoreMatchesManifest
    <2>1. store[i] # "none" <=> Held(manifest, i)
      BY DEF StoreInv, StoreAgrees, Agrees
    <2>2. Held(manifest, i) <=> Restorable(i) # {}
      BY DEF Held, Restorable
    <2> QED
      BY <2>1, <2>2
  <1> QED
    BY <1>1, StoreIsInductive, PTL

\* Once everything has arrived, the dashboard's status of a file the drop monitor or
\* the watchdog took is the one the agent's manifest gives, unless something about it
\* was lost or its restore was asked for twice.
THEOREM MirrorAlwaysTellsTruth == Spec => []MirrorTellsTruth
  <1>1. StoreInv => MirrorTellsTruth
    <2> SUFFICES ASSUME StoreInv, Quiet, outbox = <<>>, todo = <<>>, pending = <<>>,
                        NEW k \in DOMAIN manifest, NEW e, e = manifest[k],
                        e.source = "mirrored", e.id \notin unheard, ~ (asked[e.id] > 1)
                 PROVE  items[e.id] = e.status
      BY DEF MirrorTellsTruth
    <2>1. TypeOK
      BY DEF StoreInv
    <2>2. e \in Entry
      BY <2>1 DEF TypeOK
    <2>3. /\ e.id \in Id /\ e.status \in {"quarantined", "restored"}
          /\ asked[e.id] \in Nat
          /\ items[e.id] \in {"none", "quarantined", "restore_requested", "restored"}
      BY <2>1, <2>2 DEF Entry, TypeOK
    <2>4. Mirrors(e)
      BY <2>2 DEF StoreInv, EntriesMirrored, Current, Quiet, NoJob
    <2>5. ~ Announced(e.id) /\ ~ Commanded(e.id) /\ Outcomes(e.id) = {} /\ ~ Restoring(e.id)
      BY DEF Announced, Commanded, Outcomes, Restoring, ToSet
    <2>6. asked[e.id] <= 1
      BY <2>3
    <2> QED
      BY <2>3, <2>4, <2>5, <2>6 DEF Mirrors
  <1> QED
    BY <1>1, StoreIsInductive, PTL

===============================================================================
