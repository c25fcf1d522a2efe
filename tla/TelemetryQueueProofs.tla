------------------------ MODULE TelemetryQueueProofs --------------------------
(***************************************************************************)
(* Proofs about TelemetryQueue, for every capacity, number of events, of   *)
(* failures and of crashes.  The argument: every queue of events (buffer,  *)
(* spool, request under way) is ordered and lacks no event older than one  *)
(* it holds, unless that event is gone; a request is outstanding only      *)
(* while flush() waits with its snapshot still in the buffer.              *)
(***************************************************************************)
EXTENDS TelemetryQueue, SequenceTheorems, FunctionTheorems, FiniteSetTheorems, TLAPS

-------------------------------------------------------------------------------
(* Sequences and the sets of their elements.                               *)

\* The elements of a sequence, by position.
LEMMA ElemIff ==
    ASSUME NEW S, NEW s \in Seq(S), NEW x
    PROVE  x \in ToSet(s) <=> \E i \in 1..Len(s) : s[i] = x
  BY LenProperties DEF ToSet

LEMMA ElemsInSet ==
    ASSUME NEW S, NEW s \in Seq(S)
    PROVE  ToSet(s) \subseteq S
  BY ElemIff, ElementOfSeq

LEMMA ElemsEmpty == ToSet(<<>>) = {}
  BY DEF ToSet

LEMMA ElemsAppend ==
    ASSUME NEW S, NEW s \in Seq(S), NEW e \in S
    PROVE  ToSet(Append(s, e)) = ToSet(s) \cup {e}
  <1> DEFINE a == Append(s, e)
  <1>1. /\ a \in Seq(S)
        /\ Len(a) = Len(s) + 1
        /\ \A i \in 1..Len(s) : a[i] = s[i]
        /\ a[Len(s) + 1] = e
    BY AppendProperties
  <1>2. Len(s) \in Nat
    BY LenProperties
  <1>3. ASSUME NEW x PROVE x \in ToSet(a) <=> x \in ToSet(s) \/ x = e
    <2> HIDE DEF a
    <2>1. x \in ToSet(a) <=> \E i \in 1..Len(a) : a[i] = x
      BY <1>1, ElemIff
    <2>2. x \in ToSet(s) <=> \E i \in 1..Len(s) : s[i] = x
      BY ElemIff
    <2> QED BY <1>1, <1>2, <2>1, <2>2
  <1> QED BY <1>3

LEMMA ElemsConcat ==
    ASSUME NEW S, NEW s \in Seq(S), NEW t \in Seq(S)
    PROVE  ToSet(s \o t) = ToSet(s) \cup ToSet(t)
  <1> DEFINE c == s \o t
  <1>1. /\ c \in Seq(S)
        /\ Len(c) = Len(s) + Len(t)
        /\ \A i \in 1..Len(s) + Len(t) :
              c[i] = IF i =< Len(s) THEN s[i] ELSE t[i - Len(s)]
    BY ConcatProperties
  <1>2. Len(s) \in Nat /\ Len(t) \in Nat
    BY LenProperties
  <1> HIDE DEF c
  <1>3. ASSUME NEW x PROVE x \in ToSet(c) <=> x \in ToSet(s) \/ x \in ToSet(t)
    <2>1. x \in ToSet(c) <=> \E i \in 1..Len(c) : c[i] = x
      BY <1>1, ElemIff
    <2>2. /\ x \in ToSet(s) <=> \E i \in 1..Len(s) : s[i] = x
          /\ x \in ToSet(t) <=> \E i \in 1..Len(t) : t[i] = x
      BY ElemIff
    <2>3. ASSUME NEW i \in 1..Len(t) PROVE i + Len(s) \in 1..Len(c) /\ c[i + Len(s)] = t[i]
      <3> DEFINE j == i + Len(s)
      <3>1. j \in 1..Len(s) + Len(t) /\ ~ (j =< Len(s)) /\ j - Len(s) = i
        BY <1>2
      <3> HIDE DEF j
      <3>2. c[j] = t[i] /\ j \in 1..Len(c)
        BY <1>1, <3>1
      <3> QED BY <3>2 DEF j
    <2>4. ASSUME NEW i \in 1..Len(s) PROVE i \in 1..Len(c) /\ c[i] = s[i]
      BY <1>1, <1>2
    <2>5. ASSUME NEW i \in 1..Len(c)
          PROVE  \/ i \in 1..Len(s) /\ c[i] = s[i]
                 \/ i - Len(s) \in 1..Len(t) /\ c[i] = t[i - Len(s)]
      BY <1>1, <1>2
    <2> QED BY <2>1, <2>2, <2>3, <2>4, <2>5
  <1> QED BY <1>3 DEF c

\* Dropping the first d elements.
LEMMA SuffixProperties ==
    ASSUME NEW S, NEW q \in Seq(S), NEW d \in 0..Len(q)
    PROVE  LET s == SubSeq(q, d + 1, Len(q))
           IN  /\ s \in Seq(S)
               /\ Len(s) = Len(q) - d
               /\ \A i \in 1..Len(s) : s[i] = q[i + d]
               /\ ToSet(s) \subseteq ToSet(q)
  <1> DEFINE s == SubSeq(q, d + 1, Len(q))
  <1>1. Len(q) \in Nat /\ \A i \in 1..Len(q) : q[i] \in S
    BY LenProperties, ElementOfSeq
  <1>2. \A i \in (d + 1)..Len(q) : q[i] \in S
    BY <1>1
  <1>3. /\ s \in Seq(S)
        /\ Len(s) = IF d + 1 =< Len(q) THEN Len(q) - (d + 1) + 1 ELSE 0
        /\ \A i \in 1..(Len(q) - (d + 1) + 1) : s[i] = q[(d + 1) + i - 1]
    BY <1>1, <1>2, SubSeqProperties
  <1>4. Len(s) = Len(q) - d
    BY <1>1, <1>3
  <1>5. \A i \in 1..Len(s) : s[i] = q[i + d] /\ i + d \in 1..Len(q)
    BY <1>1, <1>3, <1>4
  <1>6. ToSet(s) \subseteq ToSet(q)
    <2> HIDE DEF s
    <2> QED BY <1>3, <1>5, ElemIff
  <1> QED BY <1>3, <1>4, <1>5, <1>6

\* A suffix of an ordered sequence is ordered.
LEMMA SuffixOrdered ==
    ASSUME NEW q \in Seq(Event), NEW d \in 0..Len(q), Ordered(q)
    PROVE  Ordered(SubSeq(q, d + 1, Len(q)))
  <1> DEFINE s == SubSeq(q, d + 1, Len(q))
  <1>1. Len(s) = Len(q) - d /\ \A i \in 1..Len(s) : s[i] = q[i + d]
    BY SuffixProperties
  <1>2. Len(q) \in Nat
    BY LenProperties
  <1> HIDE DEF s
  <1>3. Ordered(s)
    BY <1>1, <1>2 DEF Ordered
  <1> QED BY <1>3 DEF s

-------------------------------------------------------------------------------
(* The bounded deque.                                                      *)

\* KeepNewest drops a prefix, and nothing from a queue that fits.
LEMMA KeepNewestProperties ==
    ASSUME NEW q \in Seq(Event)
    PROVE  /\ KeepNewest(q) \in Seq(Event)
           /\ Len(KeepNewest(q)) =< MaxBuffer
           /\ Len(q) =< MaxBuffer => KeepNewest(q) = q
           /\ Len(q) > MaxBuffer =>
                /\ Len(q) - MaxBuffer \in 0..Len(q)
                /\ KeepNewest(q) = SubSeq(q, (Len(q) - MaxBuffer) + 1, Len(q))
  <1>1. Len(q) \in Nat /\ MaxBuffer \in Nat
    BY LenProperties, QueueAssumption
  <1>2. CASE Len(q) =< MaxBuffer
    BY <1>1, <1>2 DEF KeepNewest
  <1>3. CASE Len(q) > MaxBuffer
    <2> DEFINE d == Len(q) - MaxBuffer
    <2>1. d \in 0..Len(q)
      BY <1>1, <1>3
    <2>2. KeepNewest(q) = SubSeq(q, d + 1, Len(q))
      BY <1>3 DEF KeepNewest
    <2>3. /\ SubSeq(q, d + 1, Len(q)) \in Seq(Event)
          /\ Len(SubSeq(q, d + 1, Len(q))) = Len(q) - d
      BY <2>1, SuffixProperties
    <2> QED BY <1>1, <1>3, <2>1, <2>2, <2>3
  <1> QED BY <1>1, <1>2, <1>3

\* The newest element survives, since a deque has room for one.
LEMMA PushKeepsNewest ==
    ASSUME NEW q \in Seq(Event), NEW e \in Event
    PROVE  e \in ToSet(KeepNewest(Append(q, e)))
  <1> DEFINE a == Append(q, e)
             d == Len(a) - MaxBuffer
             k == KeepNewest(a)
  <1>1. a \in Seq(Event) /\ Len(a) = Len(q) + 1 /\ a[Len(a)] = e
    BY AppendProperties
  <1>2. Len(q) \in Nat /\ MaxBuffer \in Nat \ {0}
    BY LenProperties, QueueAssumption
  <1> HIDE DEF a
  <1>3. k \in Seq(Event)
    BY <1>1, KeepNewestProperties
  <1>4. ASSUME Len(a) =< MaxBuffer PROVE e \in ToSet(k)
    <2>1. k = a
      BY <1>1, <1>4, KeepNewestProperties
    <2>2. Len(a) \in 1..Len(a)
      BY <1>1, <1>2
    <2>3. e \in ToSet(a)
      BY <1>1, <2>2, ElemIff
    <2> QED BY <2>1, <2>3
  <1>5. ASSUME Len(a) > MaxBuffer PROVE e \in ToSet(k)
    <2>1. d \in 0..Len(a) /\ k = SubSeq(a, d + 1, Len(a))
      BY <1>1, <1>5, KeepNewestProperties
    <2>2. Len(k) = Len(a) - d /\ \A i \in 1..Len(k) : k[i] = a[i + d]
      BY <1>1, <2>1, SuffixProperties
    <2> HIDE DEF k
    <2>3. Len(k) = MaxBuffer /\ MaxBuffer + d = Len(a)
      BY <1>1, <1>2, <2>2
    <2>4. MaxBuffer \in 1..Len(k)
      BY <1>2, <2>3
    <2>5. k[MaxBuffer] = e
      BY <1>1, <2>2, <2>3, <2>4
    <2> QED BY <1>3, <2>4, <2>5, ElemIff
  <1>6. e \in ToSet(k)
    BY <1>1, <1>2, <1>4, <1>5
  <1> QED BY <1>6 DEF a

-------------------------------------------------------------------------------
(* Sound queues.                                                           *)

LEMMA SoundEmpty ==
    ASSUME NEW n, NEW G
    PROVE  Sound(<<>>, n, G)
  BY ElemsEmpty DEF Sound, Ordered

LEMMA SoundMonotone ==
    ASSUME NEW q, NEW n \in Nat, NEW m \in Nat, NEW G, NEW H,
           Sound(q, n, G), n =< m, G \subseteq H
    PROVE  Sound(q, m, H)
  BY DEF Sound

\* A new event may join a queue once every older one is in it or in G.
LEMMA SoundAppend ==
    ASSUME NEW q \in Seq(Event), NEW n \in Nat, NEW G,
           Sound(q, n, G), n + 1 \in Event, 1..n \subseteq ToSet(q) \cup G
    PROVE  Sound(Append(q, n + 1), n + 1, G)
  <1> DEFINE a == Append(q, n + 1)
  <1>1. /\ a \in Seq(Event)
        /\ Len(a) = Len(q) + 1
        /\ \A i \in 1..Len(q) : a[i] = q[i]
        /\ a[Len(q) + 1] = n + 1
    BY AppendProperties
  <1>2. ToSet(a) = ToSet(q) \cup {n + 1}
    BY ElemsAppend
  <1>3. Len(q) \in Nat
    BY LenProperties
  <1>4. \A i \in 1..Len(q) : q[i] \in 1..n
    BY ElemIff DEF Sound
  <1> HIDE DEF a
  <1>5. Ordered(a)
    BY <1>1, <1>3, <1>4 DEF Ordered, Sound
  <1>6. ToSet(a) \subseteq 1..(n + 1)
    BY <1>2 DEF Sound
  <1>7. ASSUME NEW f \in ToSet(a), NEW e \in 1..f PROVE e \in ToSet(a) \cup G
    <2>1. CASE f \in ToSet(q)
      BY <1>2, <2>1 DEF Sound
    <2>2. CASE f = n + 1
      <3>1. e \in 1..n \/ e = n + 1
        BY <2>2
      <3> QED BY <1>2, <3>1
    <2> QED BY <1>2, <2>1, <2>2
  <1>8. Sound(a, n + 1, G)
    BY <1>5, <1>6, <1>7 DEF Sound
  <1> QED BY <1>8 DEF a

\* A queue stays sound when a prefix is dropped whose events join G.
LEMMA SoundSuffix ==
    ASSUME NEW q \in Seq(Event), NEW n, NEW d \in 0..Len(q), NEW G, NEW H,
           Sound(q, n, G), G \subseteq H,
           ToSet(q) \ ToSet(SubSeq(q, d + 1, Len(q))) \subseteq H
    PROVE  Sound(SubSeq(q, d + 1, Len(q)), n, H)
  <1>1. Ordered(SubSeq(q, d + 1, Len(q)))
    BY SuffixOrdered DEF Sound
  <1>2. ToSet(SubSeq(q, d + 1, Len(q))) \subseteq ToSet(q)
    BY SuffixProperties
  <1> QED BY <1>1, <1>2 DEF Sound

\* Storing a sound batch keeps first arrivals in order.
LEMMA InOrderConcat ==
    ASSUME NEW s \in Seq(Event), NEW b \in Seq(Event), NEW D, NEW n,
           InOrder(s, D), Sound(b, n, ToSet(s) \cup D)
    PROVE  InOrder(s \o b, D)
  <1> DEFINE c == s \o b
  <1>1. /\ c \in Seq(Event)
        /\ Len(c) = Len(s) + Len(b)
        /\ \A i \in 1..Len(s) + Len(b) :
              c[i] = IF i =< Len(s) THEN s[i] ELSE b[i - Len(s)]
    BY ConcatProperties
  <1>2. Len(s) \in Nat /\ Len(b) \in Nat
    BY LenProperties
  <1>3. \A i \in 1..Len(b) : b[i] \in Event
    BY ElementOfSeq
  <1> HIDE DEF c
  <1>4. ASSUME NEW j \in 1..Len(c), NEW e \in 1..(c[j] - 1), e \notin D
        PROVE  \E i \in 1..(j - 1) : c[i] = e
    <2>1. CASE j =< Len(s)
      <3>1. c[j] = s[j] /\ j \in 1..Len(s)
        BY <1>1, <1>2, <2>1
      <3>2. PICK i \in 1..(j - 1) : s[i] = e
        BY <1>4, <3>1 DEF InOrder
      <3> QED BY <1>1, <1>2, <2>1, <3>2
    <2>2. CASE j > Len(s)
      <3> DEFINE k == j - Len(s)
      <3>1. k \in 1..Len(b) /\ c[j] = b[k]
        BY <1>1, <1>2, <2>2
      <3>2. b[k] \in ToSet(b) /\ b[k] \in Nat /\ e \in 1..b[k] /\ e < b[k]
        BY <1>3, <3>1, ElemIff DEF Event
      <3>3. e \in ToSet(b) \/ e \in ToSet(s)
        BY <1>4, <3>2 DEF Sound
      <3>4. CASE e \in ToSet(b)
        <4>1. PICK i \in 1..Len(b) : b[i] = e
          BY <3>4, ElemIff
        <4>2. i < k
          <5>1. ~ (k < i)
            BY <3>1, <3>2, <4>1, <1>3 DEF Sound, Ordered, Event
          <5>2. k # i
            BY <3>2, <4>1
          <5> QED BY <1>2, <3>1, <5>1, <5>2
        <4>3. i + Len(s) \in 1..(j - 1) /\ i + Len(s) \in 1..Len(s) + Len(b)
          BY <1>2, <1>1, <3>1, <4>1, <4>2
        <4>4. c[i + Len(s)] = b[(i + Len(s)) - Len(s)]
          BY <1>1, <1>2, <4>1, <4>3
        <4>5. (i + Len(s)) - Len(s) = i
          BY <1>2
        <4> QED BY <4>1, <4>3, <4>4, <4>5
      <3>5. CASE e \in ToSet(s)
        <4>1. PICK i \in 1..Len(s) : s[i] = e
          BY <3>5, ElemIff
        <4>2. i \in 1..(j - 1) /\ c[i] = e
          BY <1>1, <1>2, <2>2, <4>1
        <4> QED BY <4>2
      <3> QED BY <3>3, <3>4, <3>5
    <2> QED BY <1>1, <1>2, <2>1, <2>2
  <1>5. InOrder(c, D)
    BY <1>4 DEF InOrder
  <1> QED BY <1>5 DEF c

-------------------------------------------------------------------------------
(* Type correctness.                                                       *)

LEMMA TypeInit == Init => TypeOK
  <1> SUFFICES ASSUME Init PROVE TypeOK
    OBVIOUS
  <1>1. captured \in 0..MaxEvents /\ crashes \in 0..MaxCrashes /\ epoch \in Nat
    BY QueueAssumption DEF Init
  <1>2. /\ buffer \in Seq(Event) /\ Len(buffer) =< MaxBuffer
        /\ spool \in Seq(Event) /\ Len(spool) =< MaxBuffer
        /\ batch \in Seq(Event) /\ stored \in Seq(Event)
    BY QueueAssumption DEF Init
  <1>3. net \subseteq Request /\ evicted \subseteq Event /\ wiped \subseteq Event
    BY DEF Init
  <1>4. pc \in PC /\ reply \in {"none", "ok", "refused"}
    BY DEF Init, PC
  <1>5. dirty \in BOOLEAN /\ stuck \in BOOLEAN
    BY DEF Init
  <1> QED BY <1>1, <1>2, <1>3, <1>4, <1>5 DEF TypeOK

LEMMA TypeNext == TypeOK /\ [Next]_vars => TypeOK'
  <1> SUFFICES ASSUME TypeOK, [Next]_vars PROVE TypeOK'
    OBVIOUS
  <1> USE QueueAssumption DEF TypeOK
  <1>1. CASE Emit
    <2>1. captured + 1 \in Event /\ captured' \in 0..MaxEvents
      BY <1>1 DEF Emit, Event
    <2>2. Append(buffer, captured + 1) \in Seq(Event)
      BY <2>1, AppendProperties
    <2>3. buffer' \in Seq(Event) /\ Len(buffer') =< MaxBuffer
      BY <1>1, <2>2, KeepNewestProperties DEF Emit, Push
    <2>4. evicted' \subseteq Event
      BY <1>1, ElemsInSet DEF Emit
    <2>5. pc' \in PC
      BY <1>1 DEF Emit, Persist, PC
    <2> QED BY <1>1, <2>1, <2>3, <2>4, <2>5 DEF Emit
  <1>2. CASE SpoolOpen
    <2>1. spool' \in Seq(Event) /\ Len(spool') =< MaxBuffer /\ pc' \in PC
      BY <1>2 DEF SpoolOpen, PC
    <2> QED BY <1>2, <2>1 DEF SpoolOpen, historyVars
  <1>3. CASE SpoolWrite
    <2>1. pc' \in PC
      BY <1>3 DEF SpoolWrite, PC
    <2>2. dirty' \in BOOLEAN
      BY <1>3 DEF SpoolWrite
    <2> QED BY <1>3, <2>1, <2>2 DEF SpoolWrite
  <1>4. CASE SpoolFail
    <2>1. pc' \in PC
      BY <1>4 DEF SpoolFail, PC
    <2>2. dirty' \in BOOLEAN
      BY <1>4 DEF SpoolFail
    <2> QED BY <1>4, <2>1, <2>2 DEF SpoolFail
  <1>5. CASE FlushStart
    <2>1. net' \subseteq Request /\ pc' \in PC
      BY <1>5 DEF FlushStart, Request, PC
    <2> QED BY <1>5, <2>1 DEF FlushStart, historyVars
  <1>6. CASE FlushAcked
    <2>1. buffer' \in Seq(Event) /\ Len(buffer') =< MaxBuffer
      <3>1. Len(batch) \in Nat /\ Len(buffer) \in Nat
        BY LenProperties
      <3>2. CASE Len(batch) =< Len(buffer)
        BY <1>6, <3>1, <3>2, SuffixProperties DEF FlushAcked, Unsent
      <3>3. CASE Len(batch) > Len(buffer)
        <4>1. SubSeq(buffer, Len(batch) + 1, Len(buffer)) = <<>>
          BY <3>1, <3>3, SubSeqEmpty
        <4> QED BY <1>6, <4>1 DEF FlushAcked, Unsent
      <3> QED BY <3>1, <3>2, <3>3
    <2>2. batch' \in Seq(Event) /\ pc' \in PC
      BY <1>6 DEF FlushAcked, Persist, PC
    <2> QED BY <1>6, <2>1, <2>2 DEF FlushAcked, historyVars
  <1>7. CASE FlushFailed \/ FlushRefused
    <2>1. batch' = <<>> /\ pc' = "idle"
      BY <1>7 DEF FlushFailed, FlushRefused
    <2>2. epoch' \in Nat
      BY <1>7 DEF FlushFailed, FlushRefused
    <2>3. batch' \in Seq(Event) /\ pc' \in PC
      BY <2>1 DEF PC
    <2> QED BY <1>7, <2>2, <2>3 DEF FlushFailed, FlushRefused, historyVars
  <1>8. CASE Crash
    <2>1. /\ buffer' \in Seq(Event) /\ Len(buffer') =< MaxBuffer
          /\ batch' \in Seq(Event)
          /\ pc' \in PC
          /\ epoch' \in Nat
          /\ crashes' \in 0..MaxCrashes
      BY <1>8 DEF Crash, PC
    <2>2. wiped' \subseteq Event
      BY <1>8, ElemsInSet DEF Crash
    <2> QED BY <1>8, <2>1, <2>2 DEF Crash
  <1>9. CASE Restart
    <2>1. buffer' \in Seq(Event) /\ Len(buffer') =< MaxBuffer /\ pc' \in PC
      BY <1>9, KeepNewestProperties DEF Restart, Recovered, PC
    <2>2. dirty' \in BOOLEAN
      BY <1>9 DEF Restart
    <2> QED BY <1>9, <2>1, <2>2 DEF Restart
  <1>10. ASSUME NEW r \in net, Server(r) PROVE TypeOK'
    <2>1. r.batch \in Seq(Event)
      BY DEF Request
    <2>2. stored \o r.batch \in Seq(Event)
      BY <2>1, ConcatProperties
    <2>3. CASE ServerStore(r)
      BY <2>2, <2>3 DEF ServerStore, agentVars, historyVars
    <2>4. CASE ServerStoreThenError(r)
      BY <2>2, <2>4 DEF ServerStoreThenError, agentVars, historyVars
    <2>5. CASE ServerStoreThenRaise(r)
      BY <2>2, <2>5 DEF ServerStoreThenRaise, agentVars, historyVars
    <2>6. CASE ServerRefuse(r)
      BY <2>6 DEF ServerRefuse, agentVars, historyVars
    <2>7. CASE LoseRequest(r)
      BY <2>7 DEF LoseRequest, agentVars, historyVars
    <2> QED BY <1>10, <2>3, <2>4, <2>5, <2>6, <2>7 DEF Server
  <1>11. CASE UNCHANGED vars
    BY <1>11 DEF vars, agentVars, historyVars
  <1>12. CASE Jam
    BY <1>12 DEF Jam, agentVars, historyVars
  <1> QED BY <1>1, <1>2, <1>3, <1>4, <1>5, <1>6, <1>7, <1>8, <1>9, <1>10, <1>11, <1>12 DEF Next, Agent

\* Every variable keeps a value of its kind, and neither buffer nor spool ever
\* exceeds MAX_BUFFER.
THEOREM TypeCorrect == Spec => []TypeOK
  BY TypeInit, TypeNext, PTL DEF Spec

-------------------------------------------------------------------------------
(* The inductive invariant.                                                *)

LEMMA InvInit == Init => IInv
  <1> SUFFICES ASSUME Init PROVE IInv
    OBVIOUS
  <1>1. TypeOK
    BY TypeInit
  <1>2. ToSet(stored) = {} /\ Gone = {}
    BY ElemsEmpty DEF Init, Gone
  <1>3. QueuesSound
    <2>1. Queues = {<<>>}
      BY DEF Init, Queues
    <2> QED BY <2>1, SoundEmpty DEF QueuesSound
  <1>4. HistorySound /\ NoEventVanishes
    BY <1>2 DEF HistorySound, NoEventVanishes, Init
  <1>5. OneOutstanding /\ Mirrored
    BY DEF OneOutstanding, Mirrored, Init
  <1>6. ArrivalInOrder
    BY DEF ArrivalInOrder, InOrder, Init
  <1> QED BY <1>1, <1>3, <1>4, <1>5, <1>6 DEF IInv

\* Nothing that is gone comes back, and no capture is undone.
LEMMA GoneGrows == TypeOK /\ Next => Gone \subseteq Gone' /\ captured =< captured'
  <1> SUFFICES ASSUME TypeOK, Next PROVE Gone \subseteq Gone' /\ captured =< captured'
    OBVIOUS
  <1>1. captured \in Nat
    BY QueueAssumption DEF TypeOK
  <1>2. CASE Agent \/ Jam \/ Crash \/ Restart
    BY <1>1, <1>2 DEF Agent, Jam, Emit, SpoolOpen, SpoolWrite, SpoolFail, FlushStart, FlushAcked,
                 FlushFailed, FlushRefused, Crash, Restart, Gone, historyVars
  <1>3. ASSUME NEW r \in net, Server(r) PROVE Gone \subseteq Gone' /\ captured =< captured'
    <2>1. ToSet(stored \o r.batch) = ToSet(stored) \cup ToSet(r.batch)
      BY ElemsConcat DEF TypeOK, Request
    <2>2. /\ UNCHANGED <<captured, evicted, wiped>>
          /\ stored' = stored \/ stored' = stored \o r.batch
      BY <1>3 DEF Server, ServerStore, ServerStoreThenRaise, ServerStoreThenError,
               ServerRefuse, LoseRequest, historyVars
    <2>3. ToSet(stored) \subseteq ToSet(stored')
      BY <2>1, <2>2
    <2> QED BY <1>1, <2>2, <2>3 DEF Gone
  <1> QED BY <1>2, <1>3 DEF Next

LEMMA EmitInv == IInv /\ Emit => IInv'
  <1> SUFFICES ASSUME IInv, Emit PROVE IInv'
    OBVIOUS
  <1> DEFINE n == captured + 1
             a == Append(buffer, n)
             left == ToSet(buffer) \ ToSet(buffer')
  <1> USE DEF Emit
  <1>1. TypeOK /\ TypeOK'
    BY TypeNext DEF IInv, Next, Agent
  <1>2. n \in Event /\ n \in Nat /\ captured \in Nat /\ captured < n
    BY <1>1, QueueAssumption DEF TypeOK, Event
  <1>3. buffer' = KeepNewest(a) /\ a \in Seq(Event) /\ ToSet(a) = ToSet(buffer) \cup {n}
    BY <1>1, <1>2, AppendProperties, ElemsAppend DEF Push, TypeOK
  <1>4. n \in ToSet(buffer')
    BY <1>1, <1>2, <1>3, PushKeepsNewest DEF TypeOK
  <1>5. Gone' = Gone \cup left
    BY DEF Gone
  <1>6. Sound(buffer, captured, Gone)
    BY DEF IInv, QueuesSound, Queues
  <1>7. 1..captured \subseteq ToSet(buffer) \cup Gone
    BY DEF IInv, NoEventVanishes, Custody, Gone
  <1>8. Sound(a, n, Gone)
    BY <1>1, <1>2, <1>6, <1>7, SoundAppend DEF TypeOK
  <1>9. Sound(buffer', n, Gone')
    <2>1. ToSet(a) \ ToSet(buffer') \subseteq Gone'
      BY <1>3, <1>4, <1>5
    <2>2. CASE Len(a) =< MaxBuffer
      <3>1. buffer' = a
        BY <1>3, <2>2, KeepNewestProperties
      <3> HIDE DEF a, n
      <3> QED BY <1>2, <1>5, <1>8, <3>1, SoundMonotone
    <2>3. CASE Len(a) > MaxBuffer
      <3> DEFINE d == Len(a) - MaxBuffer
      <3>1. d \in 0..Len(a) /\ buffer' = SubSeq(a, d + 1, Len(a))
        BY <1>3, <2>3, KeepNewestProperties
      <3>2. Gone \subseteq Gone' /\ ToSet(a) \ ToSet(SubSeq(a, d + 1, Len(a))) \subseteq Gone'
        BY <1>5, <2>1, <3>1
      <3>3. a \in Seq(Event) /\ Sound(a, n, Gone)
        BY <1>3, <1>8
      <3> HIDE DEF a, d, n, left
      <3>4. Sound(SubSeq(a, d + 1, Len(a)), n, Gone')
        BY <3>1, <3>2, <3>3, SoundSuffix
      <3> QED BY <3>1, <3>4
    <2>4. Len(a) \in Nat /\ MaxBuffer \in Nat
      BY <1>3, LenProperties, QueueAssumption
    <2> QED BY <2>2, <2>3, <2>4
  <1>10. QueuesSound'
    <2>1. ASSUME NEW q \in Queues PROVE Sound(q, captured', Gone')
      BY <1>2, <1>5, SoundMonotone DEF IInv, QueuesSound
    <2>2. Queues' \subseteq Queues \cup {buffer'}
      BY DEF Queues
    <2> QED BY <1>9, <2>1, <2>2 DEF QueuesSound
  <1>11. HistorySound'
    <2>1. Gone \subseteq 1..captured /\ ToSet(buffer) \subseteq 1..captured
      BY <1>6 DEF IInv, HistorySound, Sound
    <2>2. 1..captured \subseteq 1..n /\ captured' = n
      BY <1>2
    <2>3. Gone' \subseteq 1..captured
      BY <1>5, <2>1
    <2>4. Gone' \subseteq 1..captured'
      BY <2>2, <2>3
    <2> QED BY <2>4 DEF HistorySound
  <1>12. OneOutstanding'
    BY DEF IInv, OneOutstanding, Persist
  <1>13. Mirrored'
    BY DEF Mirrored, Persist
  <1>14. NoEventVanishes'
    <2>1. ASSUME NEW e \in 1..n PROVE e \in ToSet(buffer') \cup Gone'
      <3>1. e \in 1..captured \/ e = n
        BY <1>2
      <3> QED BY <1>4, <1>5, <1>7, <3>1
    <2> QED BY <2>1 DEF NoEventVanishes, Custody, Gone, Persist
  <1>15. ArrivalInOrder'
    BY DEF IInv, ArrivalInOrder, InOrder
  <1> QED BY <1>1, <1>10, <1>11, <1>12, <1>13, <1>14, <1>15 DEF IInv

\* A step that makes up no queue keeps the queues sound.
LEMMA QueuesKept ==
    IInv /\ Next /\ Queues' \subseteq Queues \cup {<<>>} => QueuesSound'
  <1> SUFFICES ASSUME IInv, Next, Queues' \subseteq Queues \cup {<<>>} PROVE QueuesSound'
    OBVIOUS
  <1>1. Gone \subseteq Gone' /\ captured =< captured'
    BY GoneGrows DEF IInv
  <1>2. captured \in Nat /\ captured' \in Nat
    BY TypeNext, QueueAssumption DEF IInv, TypeOK
  <1>3. ASSUME NEW q \in Queues' PROVE Sound(q, captured', Gone')
    <2>1. CASE q \in Queues
      <3>1. Sound(q, captured, Gone)
        BY <2>1 DEF IInv, QueuesSound
      <3> QED BY <1>1, <1>2, <3>1, SoundMonotone
    <2>2. CASE q = <<>>
      BY <2>2, SoundEmpty
    <2> QED BY <1>3, <2>1, <2>2
  <1> QED BY <1>3 DEF QueuesSound

LEMMA SpoolInv == IInv /\ (SpoolOpen \/ SpoolWrite \/ SpoolFail) => IInv'
  <1> SUFFICES ASSUME IInv, SpoolOpen \/ SpoolWrite \/ SpoolFail PROVE IInv'
    OBVIOUS
  <1>1. TypeOK /\ TypeOK'
    BY TypeNext DEF IInv, Next, Agent
  <1>2. /\ UNCHANGED <<buffer, batch, net, reply, stored, epoch, captured, evicted, wiped>>
        /\ pc \in {"open", "write"} /\ pc' \in {"write", "idle"}
    BY DEF SpoolOpen, SpoolWrite, SpoolFail, historyVars
  <1>3. spool' \in {spool, buffer, <<>>}
    BY DEF SpoolOpen, SpoolWrite, SpoolFail
  <1>4. QueuesSound'
    <2>1. Queues' \subseteq Queues \cup {<<>>}
      BY <1>2, <1>3 DEF Queues
    <2> QED BY <2>1, QueuesKept DEF Next, Agent
  <1>5. HistorySound' /\ ArrivalInOrder'
    BY <1>2 DEF IInv, HistorySound, Gone, ArrivalInOrder, InOrder
  <1>6. OneOutstanding'
    BY <1>2 DEF IInv, OneOutstanding
  <1>7. Mirrored'
    BY <1>2 DEF Mirrored, SpoolOpen, SpoolWrite, SpoolFail
  <1>8. NoEventVanishes'
    BY <1>2 DEF IInv, NoEventVanishes, Custody
  <1> QED BY <1>1, <1>4, <1>5, <1>6, <1>7, <1>8 DEF IInv

LEMMA FlushStartInv == IInv /\ FlushStart => IInv'
  <1> SUFFICES ASSUME IInv, FlushStart PROVE IInv'
    OBVIOUS
  <1> DEFINE r == [epoch |-> epoch, batch |-> buffer]
  <1>1. TypeOK /\ TypeOK'
    BY TypeNext DEF IInv, Next, Agent
  <1>2. /\ UNCHANGED <<buffer, spool, stored, epoch, captured, evicted, wiped, dirty>>
        /\ pc = "idle" /\ pc' = "posting" /\ reply' = "none"
        /\ batch' = buffer /\ net' = net \cup {r}
    BY DEF FlushStart, historyVars
  <1>3. QueuesSound'
    <2>1. Queues' \subseteq Queues \cup {<<>>}
      BY <1>2 DEF Queues
    <2> QED BY <2>1, QueuesKept DEF Next, Agent
  <1>4. HistorySound' /\ ArrivalInOrder'
    BY <1>2 DEF IInv, HistorySound, Gone, ArrivalInOrder, InOrder
  <1>5. OneOutstanding'
    <2>1. ASSUME NEW x \in net'
          PROVE  x.epoch =< epoch' /\ (x.epoch = epoch' => x.batch = batch')
      <3>1. CASE x \in net
        BY <1>2, <3>1 DEF IInv, OneOutstanding
      <3>2. CASE x = r
        BY <1>1, <1>2, <3>2 DEF TypeOK
      <3> QED BY <1>2, <3>1, <3>2
    <2> QED BY <1>2, <2>1 DEF OneOutstanding
  <1>6. Mirrored'
    BY <1>2 DEF IInv, Mirrored
  <1>7. NoEventVanishes'
    BY <1>2 DEF IInv, NoEventVanishes, Custody
  <1> QED BY <1>1, <1>3, <1>4, <1>5, <1>6, <1>7 DEF IInv

\* What is popped after a 200 is the whole buffer, which the server holds.
LEMMA FlushAckedInv == IInv /\ FlushAcked => IInv'
  <1> SUFFICES ASSUME IInv, FlushAcked PROVE IInv'
    OBVIOUS
  <1>1. TypeOK /\ TypeOK'
    BY TypeNext DEF IInv, Next, Agent
  <1>2. /\ UNCHANGED <<spool, net, stored, epoch, captured, evicted, wiped>>
        /\ pc = "posting" /\ pc' = "open" /\ reply = "ok" /\ reply' = "none"
        /\ batch = buffer /\ ToSet(batch) \subseteq ToSet(stored)
    BY DEF IInv, OneOutstanding, FlushAcked, Persist, historyVars
  <1>3. buffer' = <<>>
    <2>1. buffer \in Seq(Event) /\ Len(buffer) \in Nat
      BY <1>1, LenProperties DEF TypeOK
    <2>2. SubSeq(buffer, Len(buffer) + 1, Len(buffer)) = <<>>
      BY <2>1, SubSeqEmpty
    <2> QED BY <1>2, <2>2 DEF FlushAcked, Unsent
  <1>4. QueuesSound'
    <2>1. Queues' \subseteq Queues \cup {<<>>}
      BY <1>2, <1>3 DEF Queues
    <2> QED BY <2>1, QueuesKept DEF Next, Agent
  <1>5. HistorySound' /\ ArrivalInOrder'
    BY <1>2 DEF IInv, HistorySound, Gone, ArrivalInOrder, InOrder
  <1>6. OneOutstanding'
    BY <1>2 DEF IInv, OneOutstanding
  <1>7. Mirrored'
    BY <1>2 DEF Mirrored
  <1>8. NoEventVanishes'
    BY <1>2 DEF IInv, NoEventVanishes, Custody
  <1> QED BY <1>1, <1>4, <1>5, <1>6, <1>7, <1>8 DEF IInv

LEMMA FlushEndInv == IInv /\ (FlushFailed \/ FlushRefused) => IInv'
  <1> SUFFICES ASSUME IInv, FlushFailed \/ FlushRefused PROVE IInv'
    OBVIOUS
  <1>1. TypeOK /\ TypeOK'
    BY TypeNext DEF IInv, Next, Agent
  <1>2. /\ UNCHANGED <<buffer, spool, net, stored, captured, evicted, wiped, dirty>>
        /\ pc = "posting" /\ pc' = "idle" /\ reply' = "none"
        /\ \/ epoch' = epoch + 1
           \/ epoch' = epoch /\ reply = "refused"
    BY DEF FlushFailed, FlushRefused, historyVars
  <1>3. QueuesSound'
    <2>1. Queues' \subseteq Queues \cup {<<>>}
      BY <1>2 DEF Queues
    <2> QED BY <2>1, QueuesKept DEF Next, Agent
  <1>4. HistorySound' /\ ArrivalInOrder'
    BY <1>2 DEF IInv, HistorySound, Gone, ArrivalInOrder, InOrder
  <1>5. OneOutstanding'
    <2>1. ASSUME NEW x \in net' PROVE x.epoch =< epoch' /\ x.epoch # epoch'
      <3>1. x \in net /\ x.epoch \in Nat /\ epoch \in Nat
        BY <1>1, <1>2 DEF TypeOK, Request
      <3>2. x.epoch =< epoch /\ (x.epoch = epoch => reply = "none")
        BY <3>1 DEF IInv, OneOutstanding
      <3> QED BY <1>2, <3>1, <3>2
    <2> QED BY <1>2, <2>1 DEF OneOutstanding
  <1>6. Mirrored'
    BY <1>2 DEF IInv, Mirrored
  <1>7. NoEventVanishes'
    BY <1>2 DEF IInv, NoEventVanishes, Custody
  <1> QED BY <1>1, <1>3, <1>4, <1>5, <1>6, <1>7 DEF IInv

LEMMA CrashInv == IInv /\ Crash => IInv'
  <1> SUFFICES ASSUME IInv, Crash PROVE IInv'
    OBVIOUS
  <1> DEFINE lost == ToSet(buffer) \ ToSet(spool)
  <1>1. TypeOK /\ TypeOK'
    BY TypeNext DEF IInv, Next
  <1>2. /\ UNCHANGED <<spool, net, stored, captured, evicted>>
        /\ wiped' = wiped \cup lost
        /\ buffer' = <<>> /\ reply' = "none" /\ pc # "down" /\ pc' = "down"
        /\ epoch' = IF pc = "posting" THEN epoch + 1 ELSE epoch
    BY DEF Crash
  <1>3. QueuesSound'
    <2>1. Queues' \subseteq Queues \cup {<<>>}
      BY <1>2 DEF Queues
    <2> QED BY <2>1, QueuesKept DEF Next
  <1>4. HistorySound'
    <2>1. Gone' = Gone \cup lost
      BY <1>2 DEF Gone
    <2>2. ToSet(buffer) \subseteq 1..captured
      BY DEF IInv, QueuesSound, Queues, Sound
    <2> QED BY <1>2, <2>1, <2>2 DEF IInv, HistorySound
  <1>5. OneOutstanding'
    <2>1. ASSUME NEW x \in net' PROVE x.epoch =< epoch' /\ x.epoch # epoch'
      <3>1. x \in net /\ x.epoch \in Nat /\ epoch \in Nat
        BY <1>1, <1>2 DEF TypeOK, Request
      <3>2. x.epoch =< epoch /\ (x.epoch = epoch => pc = "posting")
        BY <3>1 DEF IInv, OneOutstanding
      <3> QED BY <1>2, <3>1, <3>2
    <2> QED BY <1>2, <2>1 DEF OneOutstanding
  <1>6. Mirrored'
    BY <1>2 DEF Mirrored
  <1>7. NoEventVanishes'
    BY <1>2 DEF IInv, NoEventVanishes, Custody
  <1>8. ArrivalInOrder'
    <2>1. InOrder(stored, evicted \cup wiped)
      BY DEF IInv, ArrivalInOrder
    <2>2. stored' = stored /\ evicted \cup wiped \subseteq evicted' \cup wiped'
      BY <1>2
    <2> QED BY <2>1, <2>2 DEF ArrivalInOrder, InOrder
  <1> QED BY <1>1, <1>3, <1>4, <1>5, <1>6, <1>7, <1>8 DEF IInv

LEMMA RestartInv == IInv /\ Restart => IInv'
  <1> SUFFICES ASSUME IInv, Restart PROVE IInv'
    OBVIOUS
  <1>1. TypeOK /\ TypeOK'
    BY TypeNext DEF IInv, Next
  <1>2. buffer' = spool
    BY <1>1, KeepNewestProperties DEF TypeOK, Restart, Recovered
  <1>3. /\ UNCHANGED <<batch, spool, net, reply, stored, epoch, captured, evicted, wiped>>
        /\ pc = "down" /\ pc' = "idle"
    BY DEF Restart
  <1>4. QueuesSound'
    <2>1. Queues' \subseteq Queues \cup {<<>>}
      BY <1>2, <1>3 DEF Queues
    <2> QED BY <2>1, QueuesKept DEF Next
  <1>5. HistorySound' /\ ArrivalInOrder'
    BY <1>3 DEF IInv, HistorySound, Gone, ArrivalInOrder, InOrder
  <1>6. OneOutstanding'
    BY <1>3 DEF IInv, OneOutstanding
  <1>7. Mirrored'
    BY <1>2, <1>3 DEF Mirrored
  <1>8. NoEventVanishes'
    BY <1>2, <1>3 DEF IInv, NoEventVanishes, Custody
  <1> QED BY <1>1, <1>4, <1>5, <1>6, <1>7, <1>8 DEF IInv

LEMMA ServerInv == ASSUME NEW r \in net PROVE IInv /\ Server(r) => IInv'
  <1> SUFFICES ASSUME IInv, Server(r) PROVE IInv'
    OBVIOUS
  <1>1. TypeOK /\ TypeOK' /\ Next
    BY TypeNext DEF IInv, Next
  <1>2. UNCHANGED <<pc, buffer, batch, spool, epoch, captured, evicted, wiped, dirty>>
    BY DEF Server, ServerStore, ServerStoreThenRaise, ServerStoreThenError, ServerRefuse, LoseRequest,
           agentVars, historyVars
  <1>3. net' = net \ {r}
    BY DEF Server, ServerStore, ServerStoreThenRaise, ServerStoreThenError, ServerRefuse, LoseRequest
  <1>4. stored' = stored \/ stored' = stored \o r.batch
    BY DEF Server, ServerStore, ServerStoreThenRaise, ServerStoreThenError, ServerRefuse, LoseRequest
  <1>5. stored \in Seq(Event) /\ r.batch \in Seq(Event) /\ r.epoch \in Nat /\ epoch \in Nat
    BY <1>1 DEF TypeOK, Request
  <1>6. ToSet(stored \o r.batch) = ToSet(stored) \cup ToSet(r.batch)
    BY <1>5, ElemsConcat
  <1>7. Sound(r.batch, captured, Gone)
    BY DEF IInv, QueuesSound, Queues
  <1>8. QueuesSound'
    <2>1. Queues' \subseteq Queues \cup {<<>>}
      BY <1>2, <1>3 DEF Queues
    <2> QED BY <1>1, <2>1, QueuesKept
  <1>9. HistorySound'
    <2>1. Gone' \subseteq Gone \cup ToSet(r.batch)
      BY <1>2, <1>4, <1>6 DEF Gone
    <2> QED BY <1>2, <1>7, <2>1 DEF IInv, HistorySound, Sound
  <1>10. OneOutstanding'
    <2>1. ToSet(stored) \subseteq ToSet(stored')
      BY <1>4, <1>6
    <2>2. reply' = reply \/ Outstanding(r)
      BY DEF Server, ServerStore, ServerStoreThenRaise, ServerStoreThenError, ServerRefuse, LoseRequest
    <2>3. ASSUME NEW x \in net'
          PROVE  /\ x.epoch =< epoch'
                 /\ x.epoch = epoch' => pc' = "posting" /\ reply' = "none" /\ x.batch = batch'
      <3>1. x \in net /\ x # r
        BY <1>3
      <3>2. /\ x.epoch =< epoch
            /\ x.epoch = epoch => pc = "posting" /\ reply = "none" /\ x.batch = batch
        BY <3>1 DEF IInv, OneOutstanding
      <3>3. ~ (Outstanding(r) /\ x.epoch = epoch)
        <4>1. SUFFICES ASSUME r.epoch = epoch, x.epoch = epoch PROVE FALSE
          BY DEF Outstanding
        <4>2. r.batch = x.batch
          BY <3>2, <4>1 DEF IInv, OneOutstanding
        <4>3. r \in Request /\ x \in Request
          BY <1>1, <3>1 DEF TypeOK
        <4>4. r = x
          BY <4>1, <4>2, <4>3 DEF Request
        <4> QED BY <3>1, <4>4
      <3> QED BY <1>2, <2>2, <3>2, <3>3
    <2>4. reply' = "ok" => ToSet(batch') \subseteq ToSet(stored')
      <3>1. CASE ServerStore(r) /\ Outstanding(r)
        <4>1. r.batch = batch
          BY <3>1 DEF IInv, OneOutstanding, Outstanding
        <4> QED BY <1>2, <1>6, <3>1, <4>1 DEF ServerStore
      <3>2. CASE ~ (ServerStore(r) /\ Outstanding(r))
        <4>1. reply' # "ok" \/ reply' = reply
          BY <3>2 DEF Server, ServerStore, ServerStoreThenRaise, ServerStoreThenError, ServerRefuse, LoseRequest
        <4> QED BY <1>2, <2>1, <4>1 DEF IInv, OneOutstanding
      <3> QED BY <3>1, <3>2
    <2> QED BY <1>2, <2>3, <2>4 DEF IInv, OneOutstanding
  <1>11. Mirrored'
    BY <1>2 DEF IInv, Mirrored
  <1>12. NoEventVanishes'
    <2>1. ToSet(stored) \subseteq ToSet(stored')
      BY <1>4, <1>6
    <2> QED BY <1>2, <2>1 DEF IInv, NoEventVanishes, Custody
  <1>13. ArrivalInOrder'
    <2>1. InOrder(stored, evicted \cup wiped)
      BY DEF IInv, ArrivalInOrder
    <2>2. Sound(r.batch, captured, ToSet(stored) \cup (evicted \cup wiped))
      BY <1>7 DEF Gone, Sound
    <2>3. InOrder(stored \o r.batch, evicted \cup wiped)
      BY <1>5, <2>1, <2>2, InOrderConcat
    <2> QED BY <1>2, <1>4, <2>1, <2>3 DEF ArrivalInOrder
  <1> QED BY <1>1, <1>8, <1>9, <1>10, <1>11, <1>12, <1>13 DEF IInv

LEMMA InvNext == IInv /\ [Next]_vars => IInv'
  <1> SUFFICES ASSUME IInv, [Next]_vars PROVE IInv'
    OBVIOUS
  <1>1. CASE Agent
    BY <1>1, EmitInv, SpoolInv, FlushStartInv, FlushAckedInv, FlushEndInv DEF Agent
  <1>2. CASE Crash \/ Restart
    BY <1>2, CrashInv, RestartInv
  <1>3. CASE \E r \in net : Server(r)
    BY <1>3, ServerInv
  <1>4. CASE Jam \/ UNCHANGED vars
    <2>1. UNCHANGED <<pc, buffer, batch, spool, net, reply, stored, epoch, captured, evicted,
                      wiped, dirty>>
      BY <1>4 DEF Jam, vars, agentVars, historyVars
    <2>2. TypeOK'
      BY TypeNext DEF IInv
    <2>3. QueuesSound' /\ HistorySound'
      BY <2>1 DEF IInv, QueuesSound, Queues, HistorySound, Gone
    <2>4. OneOutstanding' /\ Mirrored'
      BY <2>1 DEF IInv, OneOutstanding, Mirrored
    <2>5. NoEventVanishes' /\ ArrivalInOrder'
      BY <2>1 DEF IInv, NoEventVanishes, Custody, ArrivalInOrder, InOrder
    <2> QED BY <2>2, <2>3, <2>4, <2>5 DEF IInv
  <1> QED BY <1>1, <1>2, <1>3, <1>4 DEF Next

LEMMA Invariance == Spec => []IInv
  BY InvInit, InvNext, PTL DEF Spec

\* No captured event vanishes: it is in the agent's custody, on the server, evicted
\* by the full deque, or lost with the memory of a process that died.
THEOREM NothingVanishes == Spec => []NoEventVanishes
  <1>1. IInv => NoEventVanishes
    BY DEF IInv
  <1> QED BY <1>1, Invariance, PTL

\* Whatever is retried, delayed or overtaken, the server first hears of the events
\* in the order of their capture.
THEOREM FirstArrivalsOrdered == Spec => []ArrivalInOrder
  <1>1. IInv => ArrivalInOrder
    BY DEF IInv
  <1> QED BY <1>1, Invariance, PTL

\* A death of the process loses events only inside save_queue() or after a write of
\* the spool that failed.
THEOREM CrashLossBounded == Spec => CrashLosesOnlyUnspooled
  <1>1. IInv /\ [Next]_vars => [wiped' # wiped => pc \in {"open", "write"} \/ dirty]_vars
    <2> SUFFICES ASSUME IInv, Next, wiped' # wiped, ~ dirty PROVE pc \in {"open", "write"}
      OBVIOUS
    <2>1. Crash
      BY DEF Next, Agent, Jam, Emit, SpoolOpen, SpoolWrite, SpoolFail, FlushStart, FlushAcked,
             FlushFailed, FlushRefused, Restart, Server, ServerStore, ServerStoreThenRaise,
             ServerStoreThenError, ServerRefuse, LoseRequest, historyVars
    <2>2. spool # buffer
      BY <2>1 DEF Crash
    <2>3. pc \in PC /\ pc # "down"
      BY <2>1 DEF IInv, TypeOK, Crash
    <2> QED BY <2>2, <2>3 DEF IInv, Mirrored, PC
  <1> QED BY <1>1, Invariance, PTL DEF Spec, CrashLosesOnlyUnspooled

-------------------------------------------------------------------------------
(* TelemetryQueue implements EventCustody.                                 *)

\* An ordered queue holds no event twice.
LEMMA OrderedCardinality ==
    ASSUME NEW q \in Seq(Event), Ordered(q)
    PROVE  Cardinality(ToSet(q)) = Len(q)
  <1> DEFINE f == [i \in 1..Len(q) |-> q[i]]
  <1>1. Len(q) \in Nat /\ \A i \in 1..Len(q) : q[i] \in Nat
    <2>1. Event \subseteq Nat
      BY DEF Event
    <2>2. Len(q) \in Nat /\ \A i \in 1..Len(q) : q[i] \in Event
      BY LenProperties, ElementOfSeq
    <2> QED BY <2>1, <2>2
  <1>2. f \in [1..Len(q) -> ToSet(q)]
    BY ElemIff
  <1>3. \A i, j \in 1..Len(q) : f[i] = f[j] => i = j
    <2> SUFFICES ASSUME NEW i \in 1..Len(q), NEW j \in 1..Len(q), q[i] = q[j] PROVE i = j
      OBVIOUS
    <2>1. ~ (i < j) /\ ~ (j < i)
      BY <1>1 DEF Ordered
    <2> QED BY <1>1, <2>1
  <1>4. \A x \in ToSet(q) : \E i \in 1..Len(q) : f[i] = x
    BY ElemIff
  <1>5. f \in Bijection(1..Len(q), ToSet(q))
    <2> HIDE DEF f
    <2> QED BY <1>2, <1>3, <1>4, Fun_IsBij
  <1>6. ExistsBijection(1..Len(q), ToSet(q))
    BY <1>5 DEF ExistsBijection
  <1> QED BY <1>1, <1>6, FS_CountingElements

\* What KeepNewest drops is older than what it keeps.
LEMMA DroppedAreOlder ==
    ASSUME NEW a \in Seq(Event), Ordered(a),
           NEW e \in ToSet(a) \ ToSet(KeepNewest(a)), NEW f \in ToSet(KeepNewest(a))
    PROVE  e < f
  <1> DEFINE d == Len(a) - MaxBuffer
             k == KeepNewest(a)
  <1>1. Len(a) \in Nat /\ MaxBuffer \in Nat
    BY LenProperties, QueueAssumption
  <1>2. Len(a) > MaxBuffer
    <2>1. k # a
      OBVIOUS
    <2> QED BY <1>1, <2>1, KeepNewestProperties
  <1>3. d \in 0..Len(a) /\ k = SubSeq(a, d + 1, Len(a))
    BY <1>2, KeepNewestProperties
  <1>4. k \in Seq(Event) /\ Len(k) = Len(a) - d /\ \A i \in 1..Len(k) : k[i] = a[i + d]
    BY <1>3, SuffixProperties
  <1>5. PICK i \in 1..Len(a) : a[i] = e
    BY ElemIff
  <1> HIDE DEF k
  <1>6. PICK j \in 1..Len(k) : k[j] = f
    BY <1>4, ElemIff DEF k
  <1>7. i =< d
    <2> SUFFICES ASSUME i > d PROVE FALSE
      BY <1>1, <1>3
    <2>1. i - d \in 1..Len(k) /\ (i - d) + d = i
      BY <1>1, <1>3, <1>4
    <2>2. k[i - d] = e
      BY <1>4, <1>5, <2>1
    <2>3. e \in ToSet(k)
      BY <1>4, <2>1, <2>2, ElemIff
    <2> QED BY <2>3 DEF k
  <1>8. j + d \in 1..Len(a) /\ i < j + d /\ a[j + d] = f
    BY <1>1, <1>3, <1>4, <1>6, <1>7
  <1> QED BY <1>5, <1>8 DEF Ordered

\* The abstract log counts as this module does.
LEMMA SameCardinality ==
    ASSUME NEW S
    PROVE  Log!Cardinality(S) = Cardinality(S)
  BY DEF Log!Cardinality, Cardinality

LEMMA LogInit == Init => Log!CInit
  BY ElemsEmpty DEF Init, Log!CInit, Custody

LEMMA EmitCaptures == IInv /\ Emit => Log!CNext
  <1> SUFFICES ASSUME IInv, Emit PROVE Log!CNext
    OBVIOUS
  <1> DEFINE n == captured + 1
             a == Append(buffer, n)
             out == ToSet(buffer) \ ToSet(buffer')
  <1>1. TypeOK /\ buffer \in Seq(Event) /\ Sound(buffer, captured, Gone)
    BY DEF IInv, TypeOK, QueuesSound, Queues
  <1>2. n \in Event /\ captured \in Nat
    BY <1>1, QueueAssumption DEF Emit, TypeOK, Event
  <1>3. /\ buffer' = KeepNewest(a) /\ a \in Seq(Event)
        /\ ToSet(a) = ToSet(buffer) \cup {n} /\ Len(a) = Len(buffer) + 1
    BY <1>1, <1>2, AppendProperties, ElemsAppend DEF Emit, Push
  <1>4. n \in ToSet(buffer')
    BY <1>1, <1>2, <1>3, PushKeepsNewest
  <1>5. Sound(a, n, Gone)
    <2>1. 1..captured \subseteq ToSet(buffer) \cup Gone
      BY DEF IInv, NoEventVanishes, Custody, Gone, Emit
    <2> QED BY <1>1, <1>2, <2>1, SoundAppend
  <1>7. Custody = buffer /\ Custody' = buffer'
    BY DEF Custody, Emit, Persist
  <1>8. ToSet(buffer') \subseteq ToSet(buffer) \cup {n}
    <2>1. CASE Len(a) =< MaxBuffer
      BY <1>3, <2>1, KeepNewestProperties
    <2>2. CASE Len(a) > MaxBuffer
      <3>1. /\ Len(a) - MaxBuffer \in 0..Len(a)
            /\ buffer' = SubSeq(a, (Len(a) - MaxBuffer) + 1, Len(a))
        BY <1>3, <2>2, KeepNewestProperties
      <3> HIDE DEF a, n
      <3>2. ToSet(buffer') \subseteq ToSet(a)
        BY <1>3, <3>1, SuffixProperties
      <3> QED BY <1>3, <3>2
    <2>3. Len(a) \in Nat /\ MaxBuffer \in Nat
      BY <1>3, LenProperties, QueueAssumption
    <2> QED BY <2>1, <2>2, <2>3
  <1>9. out # {} => Cardinality(ToSet(buffer)) >= MaxBuffer
    <2> SUFFICES ASSUME out # {} PROVE Cardinality(ToSet(buffer)) >= MaxBuffer
      OBVIOUS
    <2>1. buffer' # a
      BY <1>3
    <2>2. Len(a) > MaxBuffer
      <3>1. Len(a) \in Nat /\ MaxBuffer \in Nat
        BY <1>3, LenProperties, QueueAssumption
      <3> HIDE DEF a
      <3> QED BY <1>3, <2>1, <3>1, KeepNewestProperties
    <2>3. Cardinality(ToSet(buffer)) = Len(buffer)
      BY <1>1, OrderedCardinality DEF Sound
    <2>4. Len(buffer) \in Nat /\ MaxBuffer \in Nat
      BY <1>1, LenProperties, QueueAssumption
    <2> QED BY <1>3, <2>2, <2>3, <2>4
  <1>10. ASSUME NEW e \in out, NEW f \in ToSet(buffer) \ out PROVE e < f
    <2>1. e \in ToSet(a) \ ToSet(KeepNewest(a)) /\ f \in ToSet(KeepNewest(a))
      BY <1>3
    <2>2. Ordered(a) /\ a \in Seq(Event)
      BY <1>3, <1>5 DEF Sound
    <2> HIDE DEF a, out
    <2> QED BY <2>1, <2>2, DroppedAreOlder
  <1>11. Log!Capture(out)
    <2>1. captured' = captured + 1 /\ ToSet(stored)' = ToSet(stored)
      BY DEF Emit
    <2>2. (evicted \cup wiped)' = (evicted \cup wiped) \cup out
      BY DEF Emit
    <2>3. ToSet(Custody)' = (ToSet(Custody) \ out) \cup {captured + 1}
      BY <1>4, <1>7, <1>8
    <2>4. out \subseteq ToSet(Custody)
      BY <1>7
    <2>5. out # {} => Cardinality(ToSet(Custody)) >= MaxBuffer
      BY <1>7, <1>9
    <2>6. \A e \in out, f \in ToSet(Custody) \ out : e < f
      BY <1>7, <1>10
    <2> HIDE DEF out
    <2> QED BY <2>1, <2>2, <2>3, <2>4, <2>5, <2>6, SameCardinality DEF Log!Capture
  <1> QED BY <1>7, <1>11 DEF Log!CNext

\* Every other step of the agent leaves the log alone or releases what the server holds.
LEMMA AgentReleases ==
    IInv /\ Agent /\ ~ Emit => Log!CNext \/ UNCHANGED Log!cvars
  <1> SUFFICES ASSUME IInv, Agent, ~ Emit PROVE Log!CNext \/ UNCHANGED Log!cvars
    OBVIOUS
  <1>1. /\ UNCHANGED <<captured, stored, evicted, wiped>>
        /\ pc # "down" /\ pc' # "down"
    BY DEF Agent, SpoolOpen, SpoolWrite, SpoolFail, FlushStart, FlushAcked, FlushFailed,
           FlushRefused, Persist, historyVars
  <1>2. Custody = buffer /\ Custody' = buffer'
    BY <1>1 DEF Custody
  <1>3. CASE ~ FlushAcked
    <2>1. buffer' = buffer
      BY <1>3 DEF Agent, SpoolOpen, SpoolWrite, SpoolFail, FlushStart, FlushFailed, FlushRefused
    <2> QED BY <1>1, <1>2, <2>1 DEF Log!cvars
  <1>4. CASE FlushAcked
    <2> DEFINE S == ToSet(buffer) \ ToSet(buffer')
    <2>1. batch = buffer /\ ToSet(buffer) \subseteq ToSet(stored)
      BY <1>4 DEF IInv, OneOutstanding, FlushAcked
    <2>2. buffer' = <<>>
      <3>1. buffer \in Seq(Event) /\ Len(buffer) \in Nat
        BY LenProperties DEF IInv, TypeOK
      <3>2. SubSeq(buffer, Len(buffer) + 1, Len(buffer)) = <<>>
        BY <3>1, SubSeqEmpty
      <3> QED BY <1>4, <2>1, <3>2 DEF FlushAcked, Unsent
    <2>3. Log!Release(S)
      BY <1>1, <1>2, <2>1, <2>2, ElemsEmpty DEF Log!Release
    <2> QED BY <1>2, <2>3 DEF Log!CNext
  <1> QED BY <1>3, <1>4

LEMMA CrashDies == IInv /\ Crash => Log!CNext
  <1> SUFFICES ASSUME IInv, Crash PROVE Log!CNext
    OBVIOUS
  <1>1. Custody = buffer /\ Custody' = spool
    BY DEF Custody, Crash
  <1>2. ToSet(spool) \subseteq 1..captured
    BY DEF IInv, QueuesSound, Queues, Sound
  <1>3. ToSet(spool) \subseteq ToSet(Custody) \cup ToSet(stored) \cup (evicted \cup wiped)
    BY <1>2 DEF IInv, NoEventVanishes
  <1>4. /\ UNCHANGED <<captured, stored>>
        /\ (evicted \cup wiped)' = (evicted \cup wiped) \cup (ToSet(Custody) \ ToSet(spool))
    BY <1>1 DEF Crash
  <1>5. Log!Die(ToSet(spool))
    BY <1>1, <1>3, <1>4 DEF Log!Die
  <1> QED BY <1>2, <1>5 DEF Log!CNext

LEMMA RestartStutters == IInv /\ Restart => UNCHANGED Log!cvars
  <1> SUFFICES ASSUME IInv, Restart PROVE UNCHANGED Log!cvars
    OBVIOUS
  <1>1. buffer' = spool
    BY KeepNewestProperties DEF IInv, TypeOK, Restart, Recovered
  <1>2. Custody' = Custody
    BY <1>1 DEF Custody, Restart
  <1> QED BY <1>2 DEF Restart, Log!cvars

LEMMA ServerDelivers ==
    ASSUME NEW r \in net
    PROVE  IInv /\ Server(r) => Log!CNext \/ UNCHANGED Log!cvars
  <1> SUFFICES ASSUME IInv, Server(r) PROVE Log!CNext \/ UNCHANGED Log!cvars
    OBVIOUS
  <1> DEFINE S == ToSet(r.batch)
  <1>1. UNCHANGED <<pc, buffer, spool, captured, evicted, wiped>>
    BY DEF Server, ServerStore, ServerStoreThenRaise, ServerStoreThenError, ServerRefuse, LoseRequest,
           agentVars, historyVars
  <1>2. Custody' = Custody
    BY <1>1 DEF Custody
  <1>3. CASE stored' = stored
    BY <1>1, <1>2, <1>3 DEF Log!cvars
  <1>4. CASE stored' = stored \o r.batch
    <2>1. ToSet(stored') = ToSet(stored) \cup S
      BY <1>4, ElemsConcat DEF IInv, TypeOK, Request
    <2>2. Sound(r.batch, captured, Gone)
      BY DEF IInv, QueuesSound, Queues
    <2>3. S \subseteq 1..captured /\ captured \in Nat
      BY <2>2, QueueAssumption DEF Sound, IInv, TypeOK
    <2>4. ASSUME NEW e \in S, NEW f \in 1..captured, f < e
          PROVE  f \in S \cup ToSet(stored) \cup (evicted \cup wiped)
      <3>1. f \in 1..e
        BY <2>3, <2>4
      <3> QED BY <2>2, <3>1 DEF Sound, Gone
    <2>5. Log!Deliver(S)
      BY <1>1, <1>2, <2>1, <2>3, <2>4 DEF Log!Deliver
    <2> QED BY <2>3, <2>5 DEF Log!CNext
  <1>5. stored' = stored \/ stored' = stored \o r.batch
    BY DEF Server, ServerStore, ServerStoreThenRaise, ServerStoreThenError, ServerRefuse, LoseRequest
  <1> QED BY <1>3, <1>4, <1>5

\* The buffer, the spool, the requests and the replies together implement the abstract
\* log: only a full buffer gives up events, and the oldest ones; the server receives
\* the events in order; a popped event is one the server holds.
THEOREM PipelineImplementsLog == Spec => ImplementsLog
  <1>1. Init => Log!CInit
    BY LogInit
  <1>2. IInv /\ [Next]_vars => [Log!CNext]_(Log!cvars)
    <2> SUFFICES ASSUME IInv, [Next]_vars PROVE Log!CNext \/ UNCHANGED Log!cvars
      OBVIOUS
    <2>1. CASE Agent
      BY <2>1, EmitCaptures, AgentReleases
    <2>2. CASE Crash \/ Restart
      BY <2>2, CrashDies, RestartStutters
    <2>3. CASE \E r \in net : Server(r)
      BY <2>3, ServerDelivers
    <2>4. CASE Jam \/ UNCHANGED vars
      BY <2>4 DEF Jam, vars, agentVars, historyVars, Log!cvars, Custody
    <2> QED BY <2>1, <2>2, <2>3, <2>4 DEF Next
  <1> QED BY <1>1, <1>2, Invariance, PTL DEF Spec, ImplementsLog, Log!CSpec

===============================================================================
