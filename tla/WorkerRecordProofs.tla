------------------------- MODULE WorkerRecordProofs -------------------------
(***************************************************************************)
(* What the monitor says about the Workers of the pool, while clocks work: *)
(* proofs for any executions, assignments and processes, any pipe capacity *)
(* and any number of heartbeats.  They build on WorkerPoolProofs.          *)
(***************************************************************************)
EXTENDS WorkerPoolProofs

-----------------------------------------------------------------------------
(* The two halves of a queue, as sequences of heartbeats and a sentinel *)

NoEnd(s)   == \A i \in 1 .. Len(s) : s[i] # Sentinel
NoBeats(s) == \A i \in 1 .. Len(s) : s[i] = Sentinel
EndLast(s) == \A i \in 1 .. Len(s) : s[i] = Sentinel => i = Len(s)

\* If s holds heartbeats, n is the last of them.
LastBeat(s, n) ==
    \A i \in 1 .. Len(s) :
        s[i] # Sentinel /\ (\A j \in i + 1 .. Len(s) : s[j] = Sentinel) => s[i] = n

\* The buffer f and the pipe b of a process in state st that has sent n
\* heartbeats.  Nothing follows the sentinel, and the heartbeat nearest to the
\* sender is the last one, unless a kill has taken it.
Queue(st, n, f, b) ==
    /\ st \in {"none", "boot", "run"} => NoEnd(f) /\ NoEnd(b)
    /\ EndLast(f) /\ EndLast(b)
    /\ NoEnd(b) \/ f = <<>>
    /\ st = "none" => f = <<>> /\ b = <<>>
    /\ st = "exited" => f = <<>>
    /\ st # "killed" => LastBeat(f, n) /\ (NoBeats(f) => LastBeat(b, n))

QInv == \A p \in Pid : Queue(pstate[p], sent[p], feed[p], pipe[p])

LEMMA EmptyQueue ==
  /\ NoEnd(<<>>) /\ NoBeats(<<>>) /\ EndLast(<<>>)
  /\ \A n : LastBeat(<<>>, n)
BY DEF NoEnd, NoBeats, EndLast, LastBeat

LEMMA Appended ==
  ASSUME NEW s \in Seq(Payload), NEW x \in Payload
  PROVE  /\ NoEnd(Append(s, x)) <=> NoEnd(s) /\ x # Sentinel
         /\ NoBeats(Append(s, x)) <=> NoBeats(s) /\ x = Sentinel
         /\ NoEnd(s) => EndLast(Append(s, x))
         /\ \A n : LastBeat(Append(s, x), n)
                     <=> IF x = Sentinel THEN LastBeat(s, n) ELSE x = n
<1>. DEFINE a == Append(s, x)
<1>1. /\ Len(s) \in Nat /\ Len(a) = Len(s) + 1 /\ a[Len(s) + 1] = x
      /\ \A i \in 1 .. Len(s) : a[i] = s[i]
  <2>. HIDE DEF Payload
  <2>. QED BY AppendProperties, LenProperties
<1>. HIDE DEF a
<1>2. NoEnd(a) <=> NoEnd(s) /\ x # Sentinel
  BY <1>1 DEF NoEnd
<1>3. NoBeats(a) <=> NoBeats(s) /\ x = Sentinel
  BY <1>1 DEF NoBeats
<1>4. NoEnd(s) => EndLast(a)
  BY <1>1 DEF NoEnd, EndLast
<1>5. ASSUME NEW n, x # Sentinel PROVE LastBeat(a, n) <=> x = n
  BY <1>1, <1>5 DEF LastBeat
<1>6. ASSUME NEW n, x = Sentinel PROVE LastBeat(a, n) <=> LastBeat(s, n)
  <2>1. ASSUME NEW i \in 1 .. Len(s)
        PROVE  (\A j \in i + 1 .. Len(a) : a[j] = Sentinel)
                 <=> (\A j \in i + 1 .. Len(s) : s[j] = Sentinel)
    BY <1>1, <1>6
  <2>. QED BY <1>1, <1>6, <2>1 DEF LastBeat
<1>. QED BY <1>2, <1>3, <1>4, <1>5, <1>6 DEF a

LEMMA Taken ==
  ASSUME NEW s \in Seq(Payload), s # <<>>
  PROVE  /\ Head(s) \in Payload /\ Tail(s) \in Seq(Payload)
         /\ NoEnd(s) => NoEnd(Tail(s)) /\ Head(s) # Sentinel
         /\ NoBeats(s) <=> NoBeats(Tail(s)) /\ Head(s) = Sentinel
         /\ EndLast(s) => EndLast(Tail(s)) /\ (Head(s) = Sentinel => Tail(s) = <<>>)
         /\ \A n : LastBeat(s, n) =>
               /\ LastBeat(Tail(s), n)
               /\ NoBeats(Tail(s)) /\ Head(s) # Sentinel => Head(s) = n
<1>. DEFINE t == Tail(s)
<1>1. /\ Head(s) \in Payload /\ t \in Seq(Payload)
      /\ Len(s) \in Nat /\ Len(t) = Len(s) - 1 /\ Len(t) \in Nat /\ Len(s) > 0
      /\ \A i \in 1 .. Len(t) : t[i] = s[i + 1]
      /\ \A j \in 2 .. Len(s) : j - 1 \in 1 .. Len(t) /\ s[j] = t[j - 1]
      /\ s[1] = Head(s)
  <2>. HIDE DEF Payload
  <2>1. Head(s) = s[1] /\ Len(s) \in Nat /\ Len(s) > 0
    BY EmptySeq, LenProperties
  <2>2. /\ Head(s) \in Payload /\ t \in Seq(Payload) /\ Len(t) = Len(s) - 1
        /\ \A i \in 1 .. Len(t) : t[i] = s[i + 1]
    BY HeadTailProperties
  <2>3. ASSUME NEW j \in 2 .. Len(s) PROVE j - 1 \in 1 .. Len(t) /\ s[j] = t[j - 1]
    BY <2>1, <2>2
  <2>. HIDE DEF t
  <2>. QED BY <2>1, <2>2, <2>3
<1>2. t = <<>> <=> Len(t) = 0
  <2>. HIDE DEF Payload, t
  <2>. QED BY <1>1, EmptySeq
<1>. HIDE DEF t
<1>3. NoEnd(s) => NoEnd(t) /\ Head(s) # Sentinel
  BY <1>1 DEF NoEnd
<1>4. NoBeats(s) <=> NoBeats(t) /\ Head(s) = Sentinel
  <2>1. NoBeats(s) => NoBeats(t) /\ Head(s) = Sentinel
    BY <1>1 DEF NoBeats
  <2>2. ASSUME NoBeats(t), Head(s) = Sentinel, NEW j \in 1 .. Len(s)
        PROVE  s[j] = Sentinel
    <3>1. CASE j = 1
      BY <1>1, <2>2, <3>1
    <3>2. CASE j # 1
      BY <1>1, <2>2, <3>2 DEF NoBeats
    <3>. QED BY <3>1, <3>2
  <2>. QED BY <2>1, <2>2 DEF NoBeats
<1>5. EndLast(s) => EndLast(t) /\ (Head(s) = Sentinel => t = <<>>)
  BY <1>1, <1>2 DEF EndLast
<1>6. ASSUME NEW n, LastBeat(s, n)
      PROVE  LastBeat(t, n) /\ (NoBeats(t) /\ Head(s) # Sentinel => Head(s) = n)
  <2>1. NoBeats(t) /\ Head(s) # Sentinel => Head(s) = n
    <3>1. NoBeats(t) => \A j \in 2 .. Len(s) : s[j] = Sentinel
      BY <1>1 DEF NoBeats
    <3>2. 1 \in 1 .. Len(s) /\ 1 + 1 = 2
      BY <1>1
    <3>. QED BY <1>1, <1>6, <3>1, <3>2 DEF LastBeat
  <2>2. ASSUME NEW i \in 1 .. Len(t), t[i] # Sentinel,
               \A j \in i + 1 .. Len(t) : t[j] = Sentinel
        PROVE  t[i] = n
    <3>1. i + 1 \in 1 .. Len(s) /\ s[i + 1] = t[i]
      BY <1>1
    <3>2. ASSUME NEW j \in (i + 1) + 1 .. Len(s) PROVE s[j] = Sentinel
      <4>1. j \in 2 .. Len(s) /\ j - 1 \in i + 1 .. Len(t)
        BY <1>1
      <4>. QED BY <1>1, <2>2, <4>1
    <3>. QED BY <1>6, <2>2, <3>1, <3>2 DEF LastBeat
  <2>. QED BY <2>1, <2>2 DEF LastBeat
<1>. QED BY <1>1, <1>3, <1>4, <1>5, <1>6 DEF t

\* What one step of a process, its feeder or the Parent does to a queue.
LEMMA PutQueue ==
  ASSUME NEW st \in {"boot", "run"}, NEW n \in 0 .. MaxBeats,
         NEW f \in Seq(Payload), NEW b, Queue(st, n, f, b)
  PROVE  /\ n < MaxBeats => Queue("run", n + 1, Append(f, n + 1), b)
         /\ Queue("closing", n, Append(f, Sentinel), b)
<1>1. NoEnd(f) /\ NoEnd(b) /\ EndLast(b) /\ LastBeat(f, n) /\ (NoBeats(f) => LastBeat(b, n))
  BY DEF Queue
<1>2. ASSUME n < MaxBeats PROVE Queue("run", n + 1, Append(f, n + 1), b)
  <2>1. n + 1 \in Payload /\ n + 1 # Sentinel
    BY <1>2, PoolAssumption DEF Payload, Sentinel
  <2>2. /\ NoEnd(Append(f, n + 1)) /\ EndLast(Append(f, n + 1))
        /\ ~NoBeats(Append(f, n + 1)) /\ LastBeat(Append(f, n + 1), n + 1)
    <3>. HIDE DEF Payload, Sentinel
    <3>. QED BY <1>1, <2>1, Appended
  <2>. QED BY <1>1, <2>2 DEF Queue
<1>3. Queue("closing", n, Append(f, Sentinel), b)
  <2>1. Sentinel \in Payload
    BY PoolAssumption DEF Payload, Sentinel
  <2>2. /\ EndLast(Append(f, Sentinel)) /\ LastBeat(Append(f, Sentinel), n)
        /\ NoBeats(Append(f, Sentinel)) => NoBeats(f)
    <3>. HIDE DEF Payload, Sentinel
    <3>. QED BY <1>1, <2>1, Appended
  <2>. QED BY <1>1, <2>2 DEF Queue
<1>. QED BY <1>2, <1>3

LEMMA FeedQueue ==
  ASSUME NEW st, NEW n, NEW f \in Seq(Payload), NEW b \in Seq(Payload),
         f # <<>>, Queue(st, n, f, b)
  PROVE  Queue(st, n, Tail(f), Append(b, Head(f)))
<1>. HIDE DEF Payload, Sentinel
<1>1. /\ Head(f) \in Payload
      /\ NoEnd(f) => NoEnd(Tail(f)) /\ Head(f) # Sentinel
      /\ NoBeats(f) <=> NoBeats(Tail(f)) /\ Head(f) = Sentinel
      /\ EndLast(f) => EndLast(Tail(f)) /\ (Head(f) = Sentinel => Tail(f) = <<>>)
      /\ LastBeat(f, n) => /\ LastBeat(Tail(f), n)
                           /\ NoBeats(Tail(f)) /\ Head(f) # Sentinel => Head(f) = n
  BY Taken
<1>2. /\ NoEnd(Append(b, Head(f))) <=> NoEnd(b) /\ Head(f) # Sentinel
      /\ NoEnd(b) => EndLast(Append(b, Head(f)))
      /\ LastBeat(Append(b, Head(f)), n)
           <=> IF Head(f) = Sentinel THEN LastBeat(b, n) ELSE Head(f) = n
  BY <1>1, Appended
<1>. QED BY <1>1, <1>2 DEF Queue

LEMMA DrainQueue ==
  ASSUME NEW st, NEW n, NEW f, NEW b \in Seq(Payload), b # <<>>, Queue(st, n, f, b)
  PROVE  Queue(st, n, f, Tail(b))
<1>. HIDE DEF Payload, Sentinel
<1>1. /\ NoEnd(b) => NoEnd(Tail(b))
      /\ EndLast(b) => EndLast(Tail(b))
      /\ LastBeat(b, n) => LastBeat(Tail(b), n)
  BY Taken
<1>. QED BY <1>1 DEF Queue

LEMMA KillQueue ==
  ASSUME NEW st, NEW n, NEW f, NEW b, Queue(st, n, f, b)
  PROVE  Queue("killed", n, <<>>, b)
BY EmptyQueue DEF Queue

LEMMA QueueStep == CInv /\ QInv /\ [Next]_vars => QInv'
<1>. SUFFICES ASSUME CInv, QInv, [Next]_vars PROVE QInv'
  OBVIOUS
<1>0. /\ pstate \in [Pid -> {"none"} \cup Alive \cup Dead]
      /\ sent \in [Pid -> 0 .. MaxBeats]
      /\ feed \in [Pid -> Seq(Payload)] /\ pipe \in [Pid -> Seq(Payload)]
      /\ \A p \in Pid : pstate[p] \in {"none", "boot"} => sent[p] = 0
      /\ slot \in [Exec -> Pid \cup {None}] /\ spawned \in Pid \cup {None}
      /\ target \in Exec \cup {None} /\ todo \subseteq Slots
      /\ spawned # None <=> pc \in Starting \ {"spawn"}
      /\ target # None <=> pc \in OnTarget
      /\ target # None => slot[target] # None
  BY DEF CInv, TypeOK, CallShape, TargetShape, BootShape
<1>. HIDE DEF CInv
<1>1. ASSUME NEW p \in Pid, Queue(pstate'[p], sent'[p], feed'[p], pipe'[p]),
             \A q \in Pid \ {p} : /\ pstate'[q] = pstate[q] /\ sent'[q] = sent[q]
                                  /\ feed'[q] = feed[q] /\ pipe'[q] = pipe[q]
      PROVE  QInv'
  BY <1>1 DEF QInv
<1>2. ASSUME NEW p \in Pid
      PROVE  /\ Queue(pstate[p], sent[p], feed[p], pipe[p])
             /\ sent[p] \in 0 .. MaxBeats /\ feed[p] \in Seq(Payload)
             /\ pipe[p] \in Seq(Payload)
  BY <1>0 DEF QInv
<1>3. ASSUME NEW p \in Pid, Kill(p), UNCHANGED <<sent, pipe>> PROVE QInv'
  <2>1. Queue("killed", sent[p], <<>>, pipe[p])
    BY <1>2, KillQueue
  <2>2. Queue(pstate'[p], sent'[p], feed'[p], pipe'[p])
    BY <1>0, <1>3, <2>1 DEF Kill
  <2>. QED BY <1>0, <1>1, <1>3, <2>2 DEF Kill
<1>4. ASSUME NEW p \in Pid, Forget(p) PROVE QInv'
  <2>1. Queue("none", 0, <<>>, <<>>)
    BY EmptyQueue DEF Queue
  <2>2. Queue(pstate'[p], sent'[p], feed'[p], pipe'[p])
    BY <1>0, <1>4, <2>1 DEF Forget
  <2>. QED BY <1>0, <1>1, <1>4, <2>2 DEF Forget
<1>5. ASSUME NEW p \in Pid, Boot(p) \/ Beat(p) PROVE QInv'
  <2>1. sent[p] < MaxBeats
    BY <1>0, <1>5, PoolAssumption DEF Boot, Beat
  <2>2. Queue("run", sent[p] + 1, Append(feed[p], sent[p] + 1), pipe[p])
    BY <1>2, <1>5, <2>1, PutQueue DEF Boot, Beat
  <2>3. Queue(pstate'[p], sent'[p], feed'[p], pipe'[p])
    BY <1>0, <1>5, <2>2 DEF Boot, Beat, PutBeat, Put
  <2>. QED BY <1>0, <1>1, <1>5, <2>3 DEF Boot, Beat, PutBeat, Put
<1>6. ASSUME NEW p \in Pid, Finish(p) PROVE QInv'
  <2>1. Queue("closing", sent[p], Append(feed[p], Sentinel), pipe[p])
    BY <1>2, <1>6, PutQueue DEF Finish
  <2>2. Queue(pstate'[p], sent'[p], feed'[p], pipe'[p])
    BY <1>0, <1>6, <2>1 DEF Finish, Put
  <2>. QED BY <1>0, <1>1, <1>6, <2>2 DEF Finish, Put
<1>7. ASSUME NEW p \in Pid, Feed(p) PROVE QInv'
  <2>1. Queue(pstate[p], sent[p], Tail(feed[p]), Append(pipe[p], Head(feed[p])))
    BY <1>2, <1>7, FeedQueue DEF Feed
  <2>2. Queue(pstate'[p], sent'[p], feed'[p], pipe'[p])
    BY <1>0, <1>7, <2>1 DEF Feed
  <2>. QED BY <1>0, <1>1, <1>7, <2>2 DEF Feed
<1>8. ASSUME NEW p \in Pid, Exit(p) PROVE QInv'
  <2>1. Queue("exited", sent[p], feed[p], pipe[p])
    BY <1>2, <1>8 DEF Exit, Queue
  <2>2. Queue(pstate'[p], sent'[p], feed'[p], pipe'[p])
    BY <1>0, <1>8, <2>1 DEF Exit
  <2>. QED BY <1>0, <1>1, <1>8, <2>2 DEF Exit
<1>9. ASSUME NEW p \in Pid, Crash(p) PROVE QInv'
  BY <1>3, <1>9 DEF Crash
<1>10. ASSUME NEW p \in Pid, Spawn(p) PROVE QInv'
  <2>1. Queue("boot", sent[p], feed[p], pipe[p])
    BY <1>2, <1>10 DEF Spawn, Queue
  <2>2. Queue(pstate'[p], sent'[p], feed'[p], pipe'[p])
    BY <1>0, <1>10, <2>1 DEF Spawn
  <2>. QED BY <1>0, <1>1, <1>10, <2>2 DEF Spawn
<1>11. CASE UNCHANGED <<pstate, sent, feed, pipe>>
  BY <1>11 DEF QInv
<1>12. CASE AbortStops
  BY <1>0, <1>3, <1>11, <1>12 DEF AbortStops, Starting
<1>13. CASE Unwind
  BY <1>0, <1>4, <1>13 DEF Unwind, Starting
<1>14. CASE DrainOne
  <2>1. slot[target] \in Pid
    BY <1>0, <1>14 DEF DrainOne, OnTarget
  <2>2. Queue(pstate[slot[target]], sent[slot[target]], feed[slot[target]],
              Tail(pipe[slot[target]]))
    BY <1>2, <1>14, <2>1, DrainQueue DEF DrainOne
  <2>3. Queue(pstate'[slot[target]], sent'[slot[target]], feed'[slot[target]],
              pipe'[slot[target]])
    BY <1>0, <1>14, <2>1, <2>2 DEF DrainOne
  <2>. QED BY <1>0, <1>1, <1>14, <2>1, <2>3 DEF DrainOne
<1>15. ASSUME NEW e \in Exec, StopWorker(e) PROVE QInv'
  <2>1. slot[e] \in Pid
    BY <1>0, <1>15 DEF StopWorker, Slots
  <2>. QED BY <1>3, <1>11, <1>15, <2>1 DEF StopWorker
<1>16. CASE Finalize
  BY <1>0, <1>4, <1>16 DEF Finalize, OnTarget
<1>17. CASE \/ SpawnFails \/ RegisterWorker \/ RegisterFails \/ AbortKeeps
            \/ DrainEnds \/ Classify \/ JoinReturns \/ JoinTimesOut
            \/ FinalizeFails \/ BeginShutdown \/ UNCHANGED vars
            \/ \E a \in Assignment : Reserve(a)
            \/ \E e \in Exec : \/ StopFails(e) \/ BeginDrain(e) \/ BeginStatus(e)
                               \/ StatusNoSlot(e) \/ BeginReap(e) \/ BeginReapFor(e)
  <2>1. UNCHANGED <<pstate, sent, feed, pipe>>
    BY <1>17 DEF SpawnFails, RegisterWorker, RegisterFails, AbortKeeps, DrainEnds,
       Classify, JoinReturns, JoinTimesOut, FinalizeFails, BeginShutdown, Reserve,
       StopFails, BeginDrain, BeginStatus, StatusNoSlot, BeginReap, BeginReapFor,
       Begin, workerVars, vars
  <2>. QED BY <1>11, <2>1
<1>. HIDE DEF QInv, vars
<1>. QED BY <1>5, <1>6, <1>7, <1>8, <1>9, <1>10, <1>12, <1>13, <1>14, <1>15,
            <1>16, <1>17 DEF Next, WorkerStep, CallStep, CallBegins

-----------------------------------------------------------------------------
(* The records of the Workers the pool owns *)

\* A process that has put its sentinel and had it read has nothing left to say.
Over(st, f, b) == st \in Dead \/ (st = "closing" /\ f = <<>> /\ b = <<>>)

\* Unless heartbeats were lost or rejected, what has been read of them ends
\* with number k.
UpTo(st, n, f, b, err, k) ==
    ~err /\ st # "killed" /\ NoBeats(f) /\ NoBeats(b) => k = n

EndedIsOver ==
    \A e \in Slots : records[e].exited =>
        Over(pstate[slot[e]], feed[slot[e]], pipe[slot[e]])

LatestIsLast ==
    \A e \in Slots :
        UpTo(pstate[slot[e]], sent[slot[e]], feed[slot[e]], pipe[slot[e]],
             hbError[slot[e]], records[e].latest)

\* start() has read nothing of its process yet, may register it, and unwinds
\* with the record it has just made.
Starts ==
    /\ spawned # None => UpTo(pstate[spawned], sent[spawned], feed[spawned],
                              pipe[spawned], FALSE, 0)
    /\ pc = "register" => MayRegister(request.exec)
    /\ pc = "abort" => records[request.exec] = NewRecord(spawned)

Drained == pc = "finalize" => pipe[slot[target]] = <<>>

RInv ==
    /\ RecordOfSlot
    /\ EndedIsOver
    /\ NoRejectionWhileAlive
    /\ LatestIsLast
    /\ Starts
    /\ Drained

\* What the steps of a process and of a signal leave true of its queue.
Keeps(p) ==
    /\ pstate[p] \in Dead => pstate'[p] \in Dead /\ pipe'[p] = pipe[p]
    /\ Over(pstate[p], feed[p], pipe[p]) => Over(pstate'[p], feed'[p], pipe'[p])
    /\ \A err, k : UpTo(pstate[p], sent[p], feed[p], pipe[p], err, k) =>
                   UpTo(pstate'[p], sent'[p], feed'[p], pipe'[p], err, k)

\* What the control invariant says, without the definitions it is made of.
LEMMA Shapes ==
  ASSUME CInv
  PROVE  /\ pstate \in [Pid -> {"none"} \cup Alive \cup Dead]
         /\ sent \in [Pid -> 0 .. MaxBeats] /\ hbError \in [Pid -> BOOLEAN]
         /\ feed \in [Pid -> Seq(Payload)] /\ pipe \in [Pid -> Seq(Payload)]
         /\ records \in [Exec -> Record \cup {None}]
         /\ \A p \in Pid : pstate[p] \in {"none", "boot"} => sent[p] = 0
         /\ slot \in [Exec -> Pid \cup {None}] /\ spawned \in Pid \cup {None}
         /\ request \in Assignment \cup {None} /\ target \in Exec \cup {None}
         /\ request # None => request.exec \in Exec /\ slot[request.exec] = None
         /\ request # None <=> pc \in Starting
         /\ spawned # None <=> pc \in Starting \ {"spawn"}
         /\ spawned # None => pstate[spawned] # "none"
         /\ target # None <=> pc \in OnTarget
         /\ todo \subseteq Slots
         /\ target # None => target \in Slots
         /\ pc \in {"finalDrain", "finalize"} => pstate[slot[target]] \in Dead
         /\ \A e \in Slots : /\ e \in Exec /\ slot[e] \in Pid
                             /\ slot[e] # spawned /\ pstate[slot[e]] # "none"
         /\ \A d, e \in Slots : d # e => slot[d] # slot[e]
BY PoolAssumption DEF CInv, TypeOK, CallShape, StartShape, TargetShape, SlotShape,
   BootShape, Slots

\* Steps that read nothing and register nobody.
LEMMA QuietStep ==
  ASSUME CInv, CInv', RInv, UNCHANGED <<slot, spawned, request, records, hbError>>,
         \A p \in Pid : Keeps(p),
         pc' \in {"register", "abort"} => pc' = pc, Drained'
  PROVE  RInv'
<1>. HIDE DEF CInv
<1>1. RecordOfSlot'
  BY DEF RInv, RecordOfSlot, Slots
<1>2. EndedIsOver'
  BY Shapes DEF RInv, EndedIsOver, Keeps, Slots
<1>3. NoRejectionWhileAlive'
  BY DEF RInv, NoRejectionWhileAlive, Keeps
<1>4. LatestIsLast'
  BY Shapes DEF RInv, LatestIsLast, Keeps, Slots
<1>5. Starts'
  BY Shapes DEF RInv, Starts, Keeps, MayRegister, NewRecord
<1>. QED BY <1>1, <1>2, <1>3, <1>4, <1>5 DEF RInv

LEMMA WorkerKeeps ==
  ASSUME CInv, QInv, NEW p \in Pid, WorkerStep(p) \/ Crash(p)
  PROVE  \A q \in Pid : Keeps(q)
<1>0. /\ pstate \in [Pid -> {"none"} \cup Alive \cup Dead]
      /\ sent \in [Pid -> 0 .. MaxBeats]
      /\ feed \in [Pid -> Seq(Payload)] /\ pipe \in [Pid -> Seq(Payload)]
  BY Shapes
<1>. HIDE DEF CInv
<1>1. ASSUME Keeps(p), \A q \in Pid \ {p} : /\ pstate'[q] = pstate[q]
                                            /\ sent'[q] = sent[q]
                                            /\ feed'[q] = feed[q]
                                            /\ pipe'[q] = pipe[q]
      PROVE  \A q \in Pid : Keeps(q)
  BY <1>1 DEF Keeps
<1>2. CASE Boot(p) \/ Beat(p)
  <2>1. sent[p] + 1 \in Payload /\ sent[p] + 1 # Sentinel
    BY <1>0, <1>2, PoolAssumption, Shapes DEF Boot, Beat, Payload, Sentinel
  <2>2. ~NoBeats(Append(feed[p], sent[p] + 1))
    <3>. HIDE DEF Payload, Sentinel
    <3>. QED BY <1>0, <2>1, Appended
  <2>3. Keeps(p)
    BY <1>0, <1>2, <2>2 DEF Keeps, Over, UpTo, Boot, Beat, PutBeat, Put, Dead
  <2>. QED BY <1>0, <1>1, <1>2, <2>3 DEF Boot, Beat, PutBeat, Put
<1>3. CASE Finish(p)
  <2>1. NoBeats(Append(feed[p], Sentinel)) => NoBeats(feed[p])
    <3>1. Sentinel \in Payload
      BY PoolAssumption DEF Payload, Sentinel
    <3>. HIDE DEF Payload, Sentinel
    <3>. QED BY <1>0, <3>1, Appended
  <2>2. Keeps(p)
    BY <1>0, <1>3, <2>1 DEF Keeps, Over, UpTo, Finish, Put, Dead
  <2>. QED BY <1>0, <1>1, <1>3, <2>2 DEF Finish, Put
<1>4. CASE Feed(p)
  <2>1. NoBeats(Tail(feed[p])) /\ NoBeats(Append(pipe[p], Head(feed[p])))
          => NoBeats(feed[p]) /\ NoBeats(pipe[p])
    <3>. HIDE DEF Payload, Sentinel
    <3>. QED BY <1>0, <1>4, Appended, Taken DEF Feed
  <2>2. Keeps(p)
    BY <1>0, <1>4, <2>1 DEF Keeps, Over, UpTo, Feed, Alive, Dead
  <2>. QED BY <1>0, <1>1, <1>4, <2>2 DEF Feed
<1>5. CASE Exit(p)
  <2>1. Keeps(p)
    BY <1>0, <1>5 DEF Keeps, Over, UpTo, Exit, Dead
  <2>. QED BY <1>0, <1>1, <1>5, <2>1 DEF Exit
<1>6. CASE Crash(p)
  <2>1. Keeps(p)
    BY <1>0, <1>6 DEF Keeps, Over, UpTo, Crash, Kill, Dead
  <2>. QED BY <1>0, <1>1, <1>6, <2>1 DEF Crash, Kill
<1>. QED BY <1>2, <1>3, <1>4, <1>5, <1>6 DEF WorkerStep

LEMMA SignalKeeps ==
  ASSUME CInv, NEW p \in Pid, UNCHANGED <<sent, pipe>>,
         (pstate[p] \in Alive /\ Kill(p)) \/ UNCHANGED <<pstate, feed>>
  PROVE  \A q \in Pid : Keeps(q)
<1>0. /\ pstate \in [Pid -> {"none"} \cup Alive \cup Dead]
      /\ feed \in [Pid -> Seq(Payload)]
  BY Shapes
<1>. HIDE DEF CInv
<1>. SUFFICES ASSUME NEW q \in Pid PROVE Keeps(q)
  OBVIOUS
<1>1. \/ pstate'[q] = "killed" /\ feed'[q] = <<>> /\ pstate[q] \in Alive
      \/ pstate'[q] = pstate[q] /\ feed'[q] = feed[q]
  BY <1>0 DEF Kill
<1>. QED BY <1>1 DEF Keeps, Over, UpTo, Dead, Alive

-----------------------------------------------------------------------------
(* The steps that read a queue, register a process or give one up *)

\* No other process has a queue that changes.
OthersStay(p) ==
    \A q \in Pid \ {p} : /\ pstate'[q] = pstate[q] /\ sent'[q] = sent[q]
                         /\ feed'[q] = feed[q] /\ pipe'[q] = pipe[q]
                         /\ hbError'[q] = hbError[q]

LEMMA SpawnRecords ==
  ASSUME CInv, QInv, LInv, RInv, NEW p \in Pid, Spawn(p) PROVE RInv'
<1>. HIDE DEF CInv
<1>1. /\ pstate[p] = "none" /\ sent[p] = 0 /\ \A e \in Slots : slot[e] # p
      /\ pstate' = [pstate EXCEPT ![p] = "boot"] /\ spawned' = p /\ pc' = "register"
      /\ UNCHANGED <<sent, feed, pipe, hbError, slot, records, request, target>>
      /\ spawned = None /\ request # None
  BY Shapes DEF Spawn, leaseVars, Starting
<1>2. RecordOfSlot'
  BY <1>1 DEF RInv, RecordOfSlot, Slots
<1>3. EndedIsOver' /\ LatestIsLast'
  BY <1>1, Shapes DEF RInv, EndedIsOver, LatestIsLast, Slots
<1>4. NoRejectionWhileAlive'
  BY <1>1, Shapes DEF RInv, NoRejectionWhileAlive, Dead
<1>5. Starts'
  <2>1. MayRegister(request.exec)
    <3>1. /\ request.exec \in Exec /\ slot[request.exec] = None
          /\ records[request.exec] # None => records[request.exec].pid \in Pid
      BY <1>1, Shapes DEF Record
    <3>. QED BY <1>1, <3>1, PoolAssumption DEF LInv, MayRegister
  <2>. QED BY <1>1, <2>1, Shapes DEF Starts, UpTo, MayRegister
<1>6. Drained'
  BY <1>1 DEF Drained
<1>. QED BY <1>2, <1>3, <1>4, <1>5, <1>6 DEF RInv

\* start() gives its process the slot, with a record of its own.
LEMMA KeepRecords ==
  ASSUME CInv, RInv, UNCHANGED <<workerVars, hbError>>,
         records'[request.exec] = NewRecord(spawned), request.exec \in Exec,
         \A e \in Exec \ {request.exec} : records'[e] = records[e],
         slot' = [slot EXCEPT ![request.exec] = spawned],
         spawned # None, spawned' = None, pc' = "idle"
  PROVE  RInv'
<1>. HIDE DEF CInv
<1>1. /\ Slots' = Slots \cup {request.exec}
      /\ \A e \in Slots : e \in Exec \ {request.exec} /\ slot'[e] = slot[e]
      /\ slot'[request.exec] = spawned
      /\ UNCHANGED <<pstate, sent, feed, pipe, hbError>>
  BY Shapes DEF Slots, workerVars, Starting
<1>2. RecordOfSlot'
  <2>1. NewRecord(spawned) # None /\ NewRecord(spawned).pid = spawned
    <3>1. spawned \in Pid /\ 0 \in 0 .. MaxBeats
      BY Shapes, PoolAssumption
    <3>2. NewRecord(spawned) \in Record
      BY <3>1 DEF NewRecord, Record
    <3>3. None \notin Record
      BY PoolAssumption DEF Record
    <3>. QED BY <3>2, <3>3 DEF NewRecord
  <2>. QED BY <1>1, <2>1 DEF RInv, RecordOfSlot
<1>3. EndedIsOver'
  BY <1>1 DEF RInv, EndedIsOver, NewRecord
<1>4. NoRejectionWhileAlive'
  BY <1>1 DEF RInv, NoRejectionWhileAlive
<1>5. LatestIsLast'
  <2>1. UpTo(pstate[spawned], sent[spawned], feed[spawned], pipe[spawned],
             hbError[spawned], 0)
    BY DEF RInv, Starts, UpTo
  <2>. QED BY <1>1, <2>1 DEF RInv, LatestIsLast, NewRecord
<1>6. Starts' /\ Drained'
  BY DEF Starts, Drained
<1>. QED BY <1>2, <1>3, <1>4, <1>5, <1>6 DEF RInv

\* The record of an execution that has no slot may change, or the process that
\* start() has stopped be given up.
LEMMA AbsentRecords ==
  ASSUME CInv, RInv, NEW e \in Exec, slot[e] = None, UNCHANGED slot,
         \A d \in Exec \ {e} : records'[d] = records[d],
         \/ UNCHANGED <<workerVars, hbError>>
         \/ spawned \in Pid /\ Forget(spawned),
         spawned' = None, pc' \in {"idle", "spawn"}
  PROVE  RInv'
<1>. HIDE DEF CInv
<1>1. \A d \in Slots : d # e /\ d \in Exec
  BY Shapes DEF Slots
<1>2. /\ Slots' = Slots
      /\ \A d \in Slots : records'[d] = records[d]
      /\ \A d \in Slots : /\ pstate'[slot[d]] = pstate[slot[d]]
                          /\ sent'[slot[d]] = sent[slot[d]]
                          /\ feed'[slot[d]] = feed[slot[d]]
                          /\ pipe'[slot[d]] = pipe[slot[d]]
                          /\ hbError'[slot[d]] = hbError[slot[d]]
  BY <1>1, Shapes DEF Slots, Forget, workerVars
<1>3. RecordOfSlot' /\ EndedIsOver' /\ LatestIsLast'
  BY <1>2 DEF RInv, RecordOfSlot, EndedIsOver, LatestIsLast
<1>4. NoRejectionWhileAlive'
  <2>1. ASSUME NEW p \in Pid
        PROVE  \/ pstate'[p] = pstate[p] /\ hbError'[p] = hbError[p]
               \/ hbError'[p] = FALSE
    BY Shapes DEF Forget, workerVars
  <2>. QED BY <2>1 DEF RInv, NoRejectionWhileAlive
<1>5. Starts' /\ Drained'
  BY DEF Starts, Drained
<1>. QED BY <1>3, <1>4, <1>5 DEF RInv

LEMMA RegisterFailsRecords ==
  ASSUME CInv, RInv, RegisterFails, ~ClockMayFail PROVE RInv'
<1>. HIDE DEF CInv
<1>1. /\ request.exec \in Exec /\ slot[request.exec] = None
      /\ MayRegister(request.exec) /\ pc' = "abort"
      /\ UNCHANGED <<pstate, sent, feed, pipe, hbError, slot, request, spawned>>
  BY Shapes DEF RegisterFails, RInv, Starts, workerVars, leaseVars, Starting
<1>2. records' = [records EXCEPT ![request.exec] = NewRecord(spawned)]
  BY <1>1 DEF RegisterFails, Register
<1>3. \A d \in Slots : d # request.exec /\ d \in Exec
  BY <1>1 DEF Slots
<1>4. /\ Slots' = Slots /\ \A d \in Slots : records'[d] = records[d]
      /\ records'[request.exec] = NewRecord(spawned)
  BY <1>1, <1>2, <1>3, Shapes DEF Slots
<1>5. RecordOfSlot' /\ EndedIsOver' /\ LatestIsLast' /\ NoRejectionWhileAlive'
  BY <1>1, <1>4 DEF RInv, RecordOfSlot, EndedIsOver, LatestIsLast,
                    NoRejectionWhileAlive
<1>6. Starts' /\ Drained'
  BY <1>1, <1>4 DEF RInv, Starts, Drained, NewRecord
<1>. QED BY <1>5, <1>6 DEF RInv

LEMMA FinalizeRecords == ASSUME CInv, RInv, Finalize PROVE RInv'
<1>. HIDE DEF CInv
<1>1. /\ target \in Slots /\ target \in Exec /\ slot[target] \in Pid
      /\ spawned = None /\ spawned' = None /\ pc' \in {"idle", "stop"}
  BY Shapes DEF Finalize, NextSlot, OnTarget, Starting
<1>2. /\ Slots' = Slots \ {target}
      /\ \A d \in Slots \ {target} : /\ slot'[d] = slot[d] /\ slot[d] # slot[target]
                                     /\ records'[d] = records[d]
  BY <1>1, Shapes DEF Finalize, MarkExited, Slots
<1>3. OthersStay(slot[target])
  BY <1>1, Shapes DEF Finalize, Forget, OthersStay
<1>4. RecordOfSlot' /\ EndedIsOver' /\ LatestIsLast'
  <2>1. \A d \in Slots \ {target} : slot[d] \in Pid \ {slot[target]}
    BY <1>2, Shapes
  <2>. QED BY <1>2, <1>3, <2>1 DEF RInv, RecordOfSlot, EndedIsOver, LatestIsLast,
                                   OthersStay
<1>5. NoRejectionWhileAlive'
  <2>1. hbError'[slot[target]] = FALSE
    BY <1>1, Shapes DEF Finalize, Forget
  <2>. QED BY <1>3, <2>1 DEF RInv, NoRejectionWhileAlive, OthersStay
<1>6. Starts' /\ Drained'
  BY <1>1 DEF Starts, Drained
<1>. QED BY <1>4, <1>5, <1>6 DEF RInv

\* How the monitor changes one record.
LEMMA Marked ==
  ASSUME CInv, NEW e \in Exec, records[e] # None, MarkExited(e)
  PROVE  /\ records'[e] # None /\ records'[e].exited
         /\ records'[e].pid = records[e].pid /\ records'[e].latest = records[e].latest
         /\ \A d \in Exec \ {e} : records'[d] = records[d]
<1>1. records \in [Exec -> Record \cup {None}] /\ records[e] \in Record
  BY Shapes
<1>2. records'[e] = [records[e] EXCEPT !.exited = TRUE]
  BY <1>1 DEF MarkExited
<1>3. None \notin Record
  BY PoolAssumption DEF Record
<1>4. [records[e] EXCEPT !.exited = TRUE] \in Record
  BY <1>1 DEF Record
<1>5. \A d \in Exec \ {e} : records'[d] = records[d]
  BY <1>1 DEF MarkExited
<1>. QED BY <1>1, <1>2, <1>3, <1>4, <1>5 DEF Record

LEMMA Noted ==
  ASSUME CInv, NEW e \in Exec, NEW p, NEW x \in 0 .. MaxBeats, Accept(e, p, x)
  PROVE  /\ records'[e] # None /\ ~records'[e].exited
         /\ records'[e].pid = records[e].pid /\ records'[e].latest = x
         /\ \A d \in Exec \ {e} : records'[d] = records[d]
<1>1. records \in [Exec -> Record \cup {None}] /\ records[e] \in Record
  BY Shapes DEF Accept
<1>2. records'[e] = [records[e] EXCEPT !.latest = x]
  BY <1>1 DEF Accept
<1>3. None \notin Record
  BY PoolAssumption DEF Record
<1>4. [records[e] EXCEPT !.latest = x] \in Record
  BY <1>1 DEF Record
<1>5. \A d \in Exec \ {e} : records'[d] = records[d]
  BY <1>1 DEF Accept
<1>. QED BY <1>1, <1>2, <1>3, <1>4, <1>5 DEF Record, Accept

LEMMA ClassifyRecords ==
  ASSUME CInv, CInv', RInv, Classify PROVE RInv'
<1>. HIDE DEF CInv
<1>1. /\ target \in Slots /\ target \in Exec /\ pc' = "idle"
      /\ UNCHANGED <<pstate, sent, feed, pipe, hbError, slot, spawned>>
      /\ spawned = None
  BY Shapes DEF Classify, CallEnds, workerVars, leaseVars, OnTarget, Starting
<1>2. CASE UNCHANGED records
  <2>1. (\A p \in Pid : Keeps(p)) /\ UNCHANGED request
    BY <1>1 DEF Keeps, Classify
  <2>. QED BY <1>1, <1>2, <2>1, QuietStep DEF Drained
<1>3. CASE records[target] # None /\ pstate[slot[target]] \in Dead /\ MarkExited(target)
  <2>1. /\ records'[target] # None
        /\ records'[target].pid = records[target].pid
        /\ records'[target].latest = records[target].latest
        /\ \A d \in Exec \ {target} : records'[d] = records[d]
    BY <1>1, <1>3, Marked
  <2>2. Slots' = Slots /\ \A d \in Slots : d \in Exec
    BY <1>1, Shapes DEF Slots
  <2>3. RecordOfSlot' /\ LatestIsLast' /\ NoRejectionWhileAlive'
    BY <1>1, <2>1, <2>2 DEF RInv, RecordOfSlot, LatestIsLast, NoRejectionWhileAlive
  <2>4. EndedIsOver'
    BY <1>1, <1>3, <2>1, <2>2 DEF RInv, EndedIsOver, Over
  <2>. QED BY <1>1, <2>3, <2>4 DEF RInv, Starts, Drained
<1>. QED BY <1>2, <1>3 DEF Classify

\* One payload or the sentinel is read.
LEMMA DrainRecords ==
  ASSUME CInv, QInv, RInv, DrainOne, ~ClockMayFail PROVE RInv'
<1>. DEFINE p == slot[target]
            x == Head(pipe[p])
<1>. HIDE DEF CInv
<1>1. /\ target \in Slots /\ target \in Exec /\ p \in Pid /\ pipe[p] # <<>>
      /\ pipe' = [pipe EXCEPT ![p] = Tail(@)]
      /\ UNCHANGED <<pstate, sent, feed, slot, spawned>>
      /\ spawned = None /\ pc \in Draining
  BY Shapes DEF DrainOne, leaseVars, OnTarget, Draining, Starting
<1>2. /\ x \in Payload /\ pipe'[p] = Tail(pipe[p])
      /\ NoEnd(pipe[p]) => x # Sentinel
      /\ NoBeats(pipe[p]) <=> NoBeats(Tail(pipe[p])) /\ x = Sentinel
      /\ EndLast(pipe[p]) => (x = Sentinel => Tail(pipe[p]) = <<>>)
      /\ LastBeat(pipe[p], sent[p]) =>
            (NoBeats(Tail(pipe[p])) /\ x # Sentinel => x = sent[p])
  <2>1. pipe[p] \in Seq(Payload) /\ pipe'[p] = Tail(pipe[p])
    BY <1>1, Shapes
  <2>. HIDE DEF Payload, Sentinel, p
  <2>. QED BY <1>1, <2>1, Taken
<1>3. Queue(pstate[p], sent[p], feed[p], pipe[p])
  BY <1>1 DEF QInv
<1>4. /\ Slots' = Slots
      /\ \A d \in Slots \ {target} : /\ d \in Exec /\ slot[d] \in Pid \ {p}
                                     /\ pipe'[slot[d]] = pipe[slot[d]]
  BY <1>1, Shapes DEF Slots
<1>5. records[target] # None /\ records[target].pid = p
  BY <1>1 DEF RInv, RecordOfSlot
<1>6. UNCHANGED <<pc, target>>
  BY <1>1, <1>5 DEF DrainOne, RecordSentinel, RecordPayload, NoLifecycle, Accept, Reject
<1>7. Starts' /\ Drained'
  BY <1>1, <1>6 DEF Starts, Drained, Draining
<1>8. CASE x = Sentinel
  <2>1. MarkExited(target) /\ UNCHANGED hbError
    BY <1>1, <1>5, <1>8 DEF DrainOne, RecordSentinel, NoLifecycle
  <2>2. /\ records'[target] # None
        /\ records'[target].pid = records[target].pid
        /\ records'[target].latest = records[target].latest
        /\ \A d \in Exec \ {target} : records'[d] = records[d]
    BY <1>1, <1>5, <2>1, Marked
  <2>3. Over(pstate[p], feed[p], Tail(pipe[p]))
    BY <1>1, <1>2, <1>3, <1>8, Shapes DEF Queue, Over, Alive, Dead
  <2>4. UpTo(pstate[p], sent[p], feed[p], pipe[p], hbError[p], records[target].latest)
          => UpTo(pstate[p], sent[p], feed[p], Tail(pipe[p]), hbError[p],
                  records[target].latest)
    BY <1>2, <1>8 DEF UpTo
  <2>. HIDE DEF p, x
  <2>5. RecordOfSlot' /\ NoRejectionWhileAlive'
    BY <1>1, <1>4, <2>1, <2>2 DEF RInv, RecordOfSlot, NoRejectionWhileAlive
  <2>6. EndedIsOver'
    BY <1>1, <1>2, <1>4, <2>2, <2>3 DEF RInv, EndedIsOver, p
  <2>7. LatestIsLast'
    BY <1>1, <1>2, <1>4, <2>1, <2>2, <2>4 DEF RInv, LatestIsLast, p
  <2>. QED BY <1>7, <2>5, <2>6, <2>7 DEF RInv
<1>9. CASE x # Sentinel /\ Accept(target, p, x)
  <2>1. /\ records'[target] # None /\ ~records'[target].exited
        /\ records'[target].pid = records[target].pid
        /\ records'[target].latest = x
        /\ \A d \in Exec \ {target} : records'[d] = records[d]
    BY <1>1, <1>2, <1>9, Noted DEF Payload
  <2>2. UNCHANGED hbError
    BY <1>9 DEF Accept
  <2>3. UpTo(pstate[p], sent[p], feed[p], Tail(pipe[p]), hbError[p], x)
    BY <1>2, <1>3, <1>9 DEF UpTo, Queue
  <2>. HIDE DEF p, x
  <2>4. RecordOfSlot' /\ NoRejectionWhileAlive'
    BY <1>1, <1>4, <2>1, <2>2 DEF RInv, RecordOfSlot, NoRejectionWhileAlive
  <2>5. EndedIsOver'
    BY <1>1, <1>4, <2>1 DEF RInv, EndedIsOver
  <2>6. LatestIsLast'
    BY <1>1, <1>2, <1>4, <2>1, <2>2, <2>3 DEF RInv, LatestIsLast, p
  <2>. QED BY <1>7, <2>4, <2>5, <2>6 DEF RInv
<1>10. CASE x # Sentinel /\ records[target].exited /\ Reject(p)
  <2>1. pstate[p] \in Dead
    BY <1>1, <1>10 DEF RInv, EndedIsOver, Over
  <2>2. /\ UNCHANGED records /\ hbError'[p] = TRUE
        /\ \A q \in Pid \ {p} : hbError'[q] = hbError[q]
    BY <1>1, <1>10, Shapes DEF Reject
  <2>. HIDE DEF p, x
  <2>3. RecordOfSlot'
    BY <1>1, <1>4, <2>2 DEF RInv, RecordOfSlot
  <2>4. NoRejectionWhileAlive'
    BY <1>1, <2>1, <2>2 DEF RInv, NoRejectionWhileAlive
  <2>5. EndedIsOver'
    BY <1>1, <1>4, <2>1, <2>2 DEF RInv, EndedIsOver, Over, p
  <2>6. LatestIsLast'
    BY <1>1, <1>4, <2>2 DEF RInv, LatestIsLast, UpTo, p
  <2>. QED BY <1>7, <2>3, <2>4, <2>5, <2>6 DEF RInv
<1>. QED BY <1>5, <1>8, <1>9, <1>10 DEF DrainOne, RecordPayload, NoLifecycle

-----------------------------------------------------------------------------
(* Every step keeps the records *)

LEMMA RecordStep ==
  ASSUME CInv, CInv', QInv, LInv, RInv, [Next]_vars, ~ClockMayFail
  PROVE  RInv'
<1>. HIDE DEF CInv, QInv
<1>1. ASSUME NEW p \in Pid, WorkerStep(p) \/ Crash(p) PROVE RInv'
  <2>1. \A q \in Pid : Keeps(q)
    BY <1>1, WorkerKeeps
  <2>2. UNCHANGED <<slot, spawned, request, records, hbError, pc, target>>
    BY <1>1 DEF WorkerStep, Boot, Beat, Finish, Feed, Exit, Crash, leaseVars, callVars
  <2>3. Drained'
    BY <2>1, <2>2, Shapes DEF RInv, Drained, Keeps, OnTarget
  <2>. QED BY <2>1, <2>2, <2>3, QuietStep
<1>2. ASSUME NEW p \in Pid, UNCHANGED <<sent, pipe>>,
             (pstate[p] \in Alive /\ Kill(p)) \/ UNCHANGED <<pstate, feed>>,
             UNCHANGED <<slot, spawned, request, records, hbError>>,
             pc' \notin {"register", "abort", "finalize"}
      PROVE  RInv'
  <2>1. \A q \in Pid : Keeps(q)
    BY <1>2, SignalKeeps
  <2>. QED BY <1>2, <2>1, QuietStep DEF Drained
<1>3. CASE AbortStops
  <2>1. spawned \in Pid
    BY <1>3, Shapes DEF AbortStops, Starting
  <2>. QED BY <1>2, <1>3, <2>1 DEF AbortStops, leaseVars
<1>4. ASSUME NEW e \in Exec, StopWorker(e) PROVE RInv'
  <2>1. slot[e] \in Pid
    BY <1>4, Shapes DEF StopWorker
  <2>. QED BY <1>2, <1>4, <2>1 DEF StopWorker, leaseVars
<1>5. ASSUME \/ DrainEnds \/ JoinReturns \/ JoinTimesOut \/ FinalizeFails
             \/ BeginShutdown \/ UNCHANGED vars
             \/ \E e \in Exec : \/ StopFails(e) \/ BeginDrain(e) \/ BeginStatus(e)
                                \/ BeginReap(e) \/ BeginReapFor(e)
      PROVE  RInv'
  <2>1. UNCHANGED <<pstate, sent, feed, pipe, slot, spawned, request, records, hbError>>
    BY <1>5 DEF DrainEnds, JoinReturns, JoinTimesOut, FinalizeFails, BeginShutdown,
       StopFails, BeginDrain, BeginStatus, BeginReap, BeginReapFor, Begin,
       workerVars, leaseVars, vars
  <2>2. \A q \in Pid : Keeps(q)
    BY <2>1 DEF Keeps
  <2>3. /\ pc' \in {"register", "abort"} => pc' = pc
        /\ Drained'
    <3>1. CASE DrainEnds
      BY <2>1, <3>1 DEF DrainEnds, CallEnds, Drained
    <3>2. CASE UNCHANGED vars
      BY <3>2 DEF vars, RInv, Drained
    <3>3. CASE ~DrainEnds /\ ~UNCHANGED vars
      <4>1. pc' \in {"idle", "finalDrain", "stop", "drain", "statusDrain", "join",
                     "joinFor"}
        BY <1>5, <3>3 DEF JoinReturns, JoinTimesOut, FinalizeFails, BeginShutdown,
           StopFails, BeginDrain, BeginStatus, BeginReap, BeginReapFor, Begin,
           CallEnds, NextSlot
      <4>. QED BY <4>1 DEF Drained
    <3>. QED BY <3>1, <3>2, <3>3
  <2>. QED BY <2>1, <2>2, <2>3, QuietStep
<1>6. ASSUME NEW a \in Assignment, Reserve(a) PROVE RInv'
  <2>1. /\ a.exec \in Exec /\ slot[a.exec] = None /\ spawned' = None /\ pc' = "spawn"
        /\ UNCHANGED <<workerVars, hbError, slot, records>>
    BY <1>6, Shapes, PoolAssumption DEF Reserve, Starting
  <2>. QED BY <2>1, AbsentRecords
<1>7. CASE SpawnFails
  <2>1. /\ request.exec \in Exec /\ slot[request.exec] = None
        /\ spawned' = None /\ pc' = "idle"
        /\ UNCHANGED <<workerVars, hbError, slot>>
    BY <1>7, Shapes DEF SpawnFails, StartReturns, Starting
  <2>2. \A d \in Exec \ {request.exec} : records'[d] = records[d]
    BY <1>7, Shapes DEF SpawnFails, Unregister
  <2>. QED BY <2>1, <2>2, AbsentRecords
<1>8. CASE Unwind
  <2>1. /\ request.exec \in Exec /\ slot[request.exec] = None
        /\ spawned \in Pid /\ spawned' = None /\ pc' = "idle"
        /\ Forget(spawned) /\ UNCHANGED slot
    BY <1>8, Shapes DEF Unwind, StartReturns, Starting
  <2>2. \A d \in Exec \ {request.exec} : records'[d] = records[d]
    BY <1>8, Shapes DEF Unwind, Unregister
  <2>. QED BY <2>1, <2>2, AbsentRecords
<1>9. ASSUME NEW e \in Exec, StatusNoSlot(e) PROVE RInv'
  <2>1. /\ slot[e] = None /\ spawned' = None /\ pc' = "idle"
        /\ UNCHANGED <<workerVars, hbError, slot>>
    BY <1>9, Shapes DEF StatusNoSlot, leaseVars, callVars, Starting
  <2>2. \A d \in Exec \ {e} : records'[d] = records[d]
    BY <1>9, Shapes DEF StatusNoSlot, MarkExited
  <2>. QED BY <2>1, <2>2, AbsentRecords
<1>10. CASE RegisterWorker \/ AbortKeeps
  <2>1. /\ request.exec \in Exec /\ spawned # None /\ spawned' = None /\ pc' = "idle"
        /\ slot' = [slot EXCEPT ![request.exec] = spawned]
        /\ UNCHANGED <<workerVars, hbError>>
    BY <1>10, Shapes DEF RegisterWorker, AbortKeeps, StartReturns, Starting
  <2>2. \/ Register(request.exec, spawned)
        \/ UNCHANGED records /\ records[request.exec] = NewRecord(spawned)
    BY <1>10 DEF RegisterWorker, AbortKeeps, RInv, Starts
  <2>3. /\ records'[request.exec] = NewRecord(spawned)
        /\ \A e \in Exec \ {request.exec} : records'[e] = records[e]
    BY <2>1, <2>2, Shapes DEF Register
  <2>. QED BY <2>1, <2>3, KeepRecords
<1>. HIDE DEF RInv, LInv, vars
<1>11. CASE CallStep
  BY <1>3, <1>4, <1>5, <1>7, <1>8, <1>10, <1>11, SpawnRecords, RegisterFailsRecords,
     DrainRecords, ClassifyRecords, FinalizeRecords DEF CallStep
<1>12. CASE CallBegins
  BY <1>5, <1>6, <1>9, <1>12 DEF CallBegins
<1>. QED BY <1>1, <1>5, <1>11, <1>12 DEF Next

LEMMA RecordsInitially == Init => QInv /\ RInv
<1>. SUFFICES ASSUME Init PROVE QInv /\ RInv
  OBVIOUS
<1>1. QInv
  BY EmptyQueue DEF Init, QInv, Queue
<1>2. Slots = {}
  BY DEF Init, Slots
<1>3. RInv
  BY <1>2 DEF Init, RInv, RecordOfSlot, EndedIsOver, NoRejectionWhileAlive,
              LatestIsLast, Starts, Drained
<1>. QED BY <1>1, <1>3

LEMMA RecordsInductive == ~ClockMayFail => (Spec => [](IInv /\ QInv /\ RInv))
<1>. SUFFICES ASSUME ~ClockMayFail PROVE Spec => [](IInv /\ QInv /\ RInv)
  OBVIOUS
<1>1. Init => QInv /\ RInv
  BY RecordsInitially
<1>2. IInv /\ IInv' /\ QInv /\ RInv /\ [Next]_vars => QInv' /\ RInv'
  <2>. HIDE DEF CInv, QInv, RInv, LInv, vars
  <2>. QED BY QueueStep, RecordStep DEF IInv
<1>. HIDE DEF IInv, QInv, RInv, vars
<1>. QED BY <1>1, <1>2, Inductive, PTL DEF Spec

-----------------------------------------------------------------------------
(* The theorems *)

\* While clocks work, the monitor follows the very process that has the slot.
THEOREM RecordFollowsSlot == ~ClockMayFail => (Spec => []RecordOfSlot)
<1>1. RInv => RecordOfSlot
  BY DEF RInv
<1>. HIDE DEF IInv, QInv, RInv, RecordOfSlot
<1>. QED BY <1>1, RecordsInductive, PTL

\* While clocks work, exited is said only of a Worker whose entrypoint is done.
THEOREM ExitedIsSound == ~ClockMayFail => (Spec => []ExitedVerdictSound)
<1>1. RInv => ExitedVerdictSound
  BY DEF RInv, EndedIsOver, Over, ExitedVerdictSound
<1>. HIDE DEF IInv, QInv, RInv, ExitedVerdictSound
<1>. QED BY <1>1, RecordsInductive, PTL

\* While clocks work, no heartbeat of a live Worker is rejected.
THEOREM LiveNeverRejected == ~ClockMayFail => (Spec => []NoRejectionWhileAlive)
<1>1. RInv => NoRejectionWhileAlive
  BY DEF RInv
<1>. HIDE DEF IInv, QInv, RInv, NoRejectionWhileAlive
<1>. QED BY <1>1, RecordsInductive, PTL

\* While clocks work, the record that outlives a Worker that ended by itself
\* and was reaped without a protocol error holds the last heartbeat it sent.
THEOREM LastBeatKept == ~ClockMayFail => (Spec => FinalHeartbeatKept)
<1>. DEFINE Step == \A e \in Slots :
               slot'[e] = None /\ pstate[slot[e]] = "exited" /\ ~hbError[slot[e]]
                   => records'[e].latest = sent[slot[e]]
<1>1. ASSUME IInv, IInv', QInv, RInv, [Next]_vars PROVE [Step]_vars
  <2>. SUFFICES ASSUME NEW e \in Slots, slot'[e] = None,
                       pstate[slot[e]] = "exited", ~hbError[slot[e]]
                PROVE  records'[e].latest = sent[slot[e]]
    OBVIOUS
  <2>0. CInv /\ OInv
    BY <1>1 DEF IInv
  <2>1. e \in Exec /\ slot[e] # None /\ slot[e] \in Pid
    BY <2>0, Shapes DEF Slots
  <2>2. Finalize /\ e = target
    <3>1. CASE Finalize
      BY <2>0, <2>1, <3>1, Shapes DEF Finalize
    <3>2. CASE RegisterWorker \/ AbortKeeps
      <4>1. slot'[e] = slot[e] \/ slot'[e] = spawned
        BY <2>0, <2>1, <3>2, Shapes DEF RegisterWorker, AbortKeeps
      <4>. QED BY <2>0, <2>1, <3>2, <4>1, Shapes DEF RegisterWorker, AbortKeeps, Starting
    <3>3. CASE UNCHANGED slot
      BY <2>1, <3>3
    <3>. HIDE DEF vars
    <3>4. ~Finalize /\ ~RegisterWorker /\ ~AbortKeeps => UNCHANGED slot
      <4>1. ASSUME NEW p \in Pid, WorkerStep(p) \/ Crash(p) \/ Spawn(p)
            PROVE  UNCHANGED slot
        BY <4>1 DEF WorkerStep, Boot, Beat, Finish, Feed, Exit, Crash, Spawn, leaseVars
      <4>2. ASSUME NEW d \in Exec,
                   \/ StopWorker(d) \/ StopFails(d) \/ BeginDrain(d) \/ BeginStatus(d)
                   \/ StatusNoSlot(d) \/ BeginReap(d) \/ BeginReapFor(d)
            PROVE  UNCHANGED slot
        BY <4>2 DEF StopWorker, StopFails, BeginDrain, BeginStatus, StatusNoSlot,
           BeginReap, BeginReapFor, Begin, leaseVars
      <4>3. ASSUME NEW a \in Assignment, Reserve(a) PROVE UNCHANGED slot
        BY <4>3 DEF Reserve
      <4>4. CASE \/ SpawnFails \/ RegisterFails \/ AbortStops \/ Unwind \/ DrainOne
                 \/ DrainEnds \/ Classify \/ JoinReturns \/ JoinTimesOut
                 \/ FinalizeFails \/ BeginShutdown
        BY <4>4 DEF SpawnFails, RegisterFails, AbortStops, Unwind, DrainOne, DrainEnds,
           Classify, JoinReturns, JoinTimesOut, FinalizeFails, BeginShutdown, leaseVars
      <4>5. CASE UNCHANGED vars
        BY <4>5 DEF vars
      <4>. QED BY <1>1, <4>1, <4>2, <4>3, <4>4, <4>5 DEF Next, CallStep, CallBegins
    <3>. QED BY <3>1, <3>2, <3>3, <3>4
  <2>3. feed[slot[e]] = <<>> /\ pipe[slot[e]] = <<>>
    BY <1>1, <2>1, <2>2 DEF Finalize, RInv, Drained, QInv, Queue
  <2>4. records[e].latest = sent[slot[e]]
    BY <1>1, <2>3, EmptyQueue DEF RInv, LatestIsLast, UpTo
  <2>5. records'[e].latest = records[e].latest
    BY <2>0, <2>1, <2>2, Marked DEF Finalize
  <2>. QED BY <2>4, <2>5
<1>. HIDE DEF IInv, QInv, RInv, vars
<1>. QED BY <1>1, Inductive, RecordsInductive, PTL DEF Spec, FinalHeartbeatKept
=============================================================================
