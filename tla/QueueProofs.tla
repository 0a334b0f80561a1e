----------------------------- MODULE QueueProofs -----------------------------
(***************************************************************************)
(* Proofs about PlatformQueue, for any missions, policy and bounds, however*)
(* tools overlap and die.  Nothing relates the document on disk to those   *)
(* the tools hold, so the invariant is about each document by itself: every*)
(* command, synchronisation and decision turns a sound one into a sound    *)
(* one.                                                                    *)
(***************************************************************************)
EXTENDS PlatformQueue, Counting

(* Distinct sequence numbers below the next one, and the bound.            *)
Sound(q) ==
  /\ q \in Document
  /\ \A m \in Known(q) : q.seq[m] < q.next
  /\ \A m, n \in Known(q) : q.seq[m] = q.seq[n] => m = n
  /\ Cardinality(Known(q)) <= MaxQueueEntries

AllSound ==
  /\ Sound(queue)
  /\ mem \in [Tools -> Document]
  /\ \A t \in Tools : Sound(mem[t])

(* The bound on the entries of queue.json.                                 *)
Bounded == Cardinality(Known(queue)) <= MaxQueueEntries

-----------------------------------------------------------------------------
(* The documents. *)

LEMMA KnownFinite ==
  ASSUME NEW q PROVE IsFiniteSet(Known(q)) /\ Known(q) \subseteq Missions
<1>1. Known(q) \subseteq Missions
  BY DEF Known
<1> QED BY <1>1, FS_Subset, QueueConstants

LEMMA EmptySound == Sound(Empty)
<1>1. Empty \in Document /\ Known(Empty) = {}
  BY DEF Empty, Document, States, Known, In
<1> QED BY <1>1, FS_EmptySet, QueueConstants DEF Sound

(* A document that changes states only, and adds no entry, stays sound.    *)
LEMMA StatesOnly ==
  ASSUME NEW q, Sound(q), NEW r \in Document,
         r.seq = q.seq, r.next = q.next, Known(r) \subseteq Known(q)
  PROVE  Sound(r)
<1>1. Cardinality(Known(r)) <= Cardinality(Known(q))
  BY KnownFinite, FS_Subset
<1>2. Cardinality(Known(r)) \in Nat /\ Cardinality(Known(q)) \in Nat
  BY KnownFinite, FS_CardinalityType
<1> QED BY <1>1, <1>2, QueueConstants DEF Sound

(* One entry, already known, changes its state.                            *)
LEMMA BecomeSound ==
  ASSUME NEW q, Sound(q), NEW m \in Known(q), NEW s \in States
  PROVE  Sound(Become(q, m, s))
<1>1. m \in Missions /\ q \in Document
  BY DEF Known, Sound
<1>2. Become(q, m, s) = [q EXCEPT !.state = [@ EXCEPT ![m] = s]]
  BY <1>1 DEF Become, Document
<1>3. /\ Become(q, m, s) \in Document
      /\ Become(q, m, s).seq = q.seq /\ Become(q, m, s).next = q.next
      /\ Become(q, m, s).state = [q.state EXCEPT ![m] = s]
  BY <1>1, <1>2 DEF Document
<1>4. Known(Become(q, m, s)) \subseteq Known(q)
  BY <1>1, <1>3 DEF Known, In, Document
<1> QED BY <1>3, <1>4, StatesOnly

(* A new entry takes the number none below it has.                         *)
LEMMA EnqueuedSound ==
  ASSUME NEW q, Sound(q), NEW m \in Missions PROVE Sound(Enqueued(q, m))
<1>0. q \in Document /\ q.next \in Nat
  BY DEF Sound, Document
<1>1. CASE q.state[m] \in {"CANCELLED", "FAILED"}
  <2>1. m \in Known(q)
    BY <1>1 DEF Known, In
  <2> QED BY <1>1, <2>1, BecomeSound DEF Enqueued, States
<1>2. CASE q.state[m] = "ABSENT" /\ Cardinality(Known(q)) < MaxQueueEntries
  <2> DEFINE r == Enqueued(q, m)
  <2>1. /\ r \in Document
        /\ r.state = [q.state EXCEPT ![m] = "QUEUED"]
        /\ r.seq = [q.seq EXCEPT ![m] = q.next]
        /\ r.next = q.next + 1
    <3> DEFINE b == [state |-> [q.state EXCEPT ![m] = "QUEUED"],
                     seq |-> q.seq, next |-> q.next]
    <3>1. Become(q, m, "QUEUED") = b
      BY <1>0 DEF Become, Document
    <3>2. r = [Become(q, m, "QUEUED") EXCEPT !.seq[m] = q.next, !.next = @ + 1]
      BY <1>2 DEF Enqueued
    <3>3. r = [b EXCEPT !.seq[m] = q.next, !.next = @ + 1]
      BY <3>1, <3>2
    <3>4. r = [state |-> [q.state EXCEPT ![m] = "QUEUED"],
               seq |-> [q.seq EXCEPT ![m] = q.next], next |-> q.next + 1]
      BY <3>3
    <3> QED BY <3>4, <1>0 DEF Document, States
  <2> HIDE DEF r
  <2>2. m \notin Known(q) /\ Known(r) = Known(q) \cup {m}
    BY <1>0, <1>2, <2>1 DEF Known, In, Document
  <2>3. \A n \in Known(q) : n # m /\ r.seq[n] = q.seq[n] /\ q.seq[n] \in Nat
    BY <1>0, <2>1, <2>2, KnownFinite DEF Document
  <2>4. r.seq[m] = q.next
    BY <1>0, <2>1 DEF Document
  <2>5. Cardinality(Known(r)) <= MaxQueueEntries
    <3>1. Cardinality(Known(r)) = Cardinality(Known(q)) + 1
      BY <2>2, KnownFinite, FS_AddElement
    <3>2. Cardinality(Known(q)) \in Nat
      BY KnownFinite, FS_CardinalityType
    <3> QED BY <3>1, <3>2, <1>2, QueueConstants
  <2>6. Sound(r)
    BY <1>0, <2>1, <2>2, <2>3, <2>4, <2>5 DEF Sound
  <2> QED BY <2>6 DEF r
<1>3. CASE /\ q.state[m] \notin {"CANCELLED", "FAILED"}
           /\ ~(q.state[m] = "ABSENT" /\ Cardinality(Known(q)) < MaxQueueEntries)
  <2>1. Enqueued(q, m) = q
    BY <1>3 DEF Enqueued
  <2> QED BY <2>1
<1> QED BY <1>1, <1>2, <1>3

LEMMA AppliedSound ==
  ASSUME NEW q, Sound(q), NEW m \in Missions, NEW command
  PROVE  Sound(Applied(q, command, m))
<1>1. CASE command = "enqueue"
  BY <1>1, EnqueuedSound DEF Applied
<1>2. CASE command # "enqueue"
  <2>1. \/ Applied(q, command, m) = q
        \/ /\ q.state[m] # "ABSENT"
           /\ \E s \in States : Applied(q, command, m) = Become(q, m, s)
    BY <1>2 DEF Applied, States
  <2> QED BY <2>1, BecomeSound DEF Known, In
<1> QED BY <1>1, <1>2

LEMMA SyncedSound ==
  ASSUME NEW q, Sound(q) PROVE Sound(Synced(q))
<1>1. q \in Document
  BY DEF Sound
<1>2. /\ Synced(q) \in Document
      /\ Synced(q).seq = q.seq /\ Synced(q).next = q.next
      /\ \A m \in Missions : q.state[m] = "ABSENT" => Synced(q).state[m] = "ABSENT"
  BY <1>1 DEF Synced, Document, States
<1>3. Known(Synced(q)) \subseteq Known(q)
  BY <1>2 DEF Known, In
<1> QED BY <1>2, <1>3, StatesOnly

LEMMA DecidedSound ==
  ASSUME NEW q, Sound(q), NEW down, NEW S \in SUBSET Candidates(q)
  PROVE  Sound(Decided(q, down, S))
<1>1. q \in Document
  BY DEF Sound
<1>2. Blocked(q, down, S) \subseteq Candidates(q)
  BY DEF Blocked
<1>3. \A m \in Candidates(q) : q.state[m] # "ABSENT"
  BY DEF Candidates, In
<1>4. /\ Decided(q, down, S) \in Document
      /\ Decided(q, down, S).seq = q.seq /\ Decided(q, down, S).next = q.next
      /\ \A m \in Missions :
           q.state[m] = "ABSENT" => Decided(q, down, S).state[m] = "ABSENT"
  BY <1>1, <1>2, <1>3 DEF Decided, Document, States
<1>5. Known(Decided(q, down, S)) \subseteq Known(q)
  BY <1>4 DEF Known, In
<1> QED BY <1>4, <1>5, StatesOnly

-----------------------------------------------------------------------------
(* The specification. *)

(* What a tool holds is replaced by a sound document.                      *)
LEMMA KeepSound ==
  ASSUME AllSound, NEW t \in Tools, NEW q, Sound(q), Keep(t, q)
  PROVE  mem' \in [Tools -> Document] /\ \A u \in Tools : Sound(mem'[u])
<1>1. q \in Document
  BY DEF Sound
<1> QED BY <1>1 DEF AllSound, Keep

LEMMA NextKeepsSound == ASSUME AllSound, [Next]_vars PROVE AllSound'
<1>1. ASSUME NEW t \in Tools, NEW command \in Commands, NEW m \in Missions,
             Load(t, command, m)
      PROVE  AllSound'
  <2>1. Sound(Applied(queue, command, m)) /\ queue' = queue
    BY <1>1, AppliedSound DEF Load, AllSound
  <2> QED BY <1>1, <2>1, KeepSound DEF Load, AllSound
<1>2. ASSUME NEW t \in Tools, NEW m \in Missions,
             NEW outcome \in Marks, Mark(t, m, outcome)
      PROVE  AllSound'
  <2>1. m \in Known(queue) /\ outcome \in States
    BY <1>2, QueueConstants DEF Mark
  <2>2. Sound(Become(queue, m, outcome)) /\ queue' = queue
    BY <1>2, <2>1, BecomeSound DEF Mark, AllSound
  <2> QED BY <1>2, <2>2, KeepSound DEF Mark, AllSound
<1>3. ASSUME NEW t \in Tools, Save(t) PROVE AllSound'
  BY <1>3, EmptySound, KeepSound DEF Save, Replace, Leave, AllSound
<1>4. ASSUME NEW t \in Tools, ScheduleLoad(t) PROVE AllSound'
  BY <1>4, KeepSound DEF ScheduleLoad, AllSound
<1>5. ASSUME NEW t \in Tools, ScheduleSync(t) PROVE AllSound'
  <2>1. Sound(Synced(mem[t])) /\ mem'[t] = Synced(mem[t])
    BY <1>5, SyncedSound DEF ScheduleSync, AllSound, Keep
  <2>2. Sound(queue')
    BY <1>5, <2>1 DEF ScheduleSync, Replace, AllSound
  <2> QED BY <1>5, <2>1, <2>2, KeepSound DEF ScheduleSync, AllSound
<1>6. ASSUME NEW t \in Tools, ScheduleSave(t) PROVE AllSound'
  <2>1. Sound(queue')
    BY <1>6, DecidedSound DEF ScheduleSave, Replace, AllSound
  <2> QED BY <1>6, <2>1, EmptySound, KeepSound DEF ScheduleSave, AllSound
<1>7. ASSUME NEW t \in Tools, ScheduleRecord(t) PROVE AllSound'
  BY <1>7, EmptySound, KeepSound DEF ScheduleRecord, Leave, AllSound
<1>8. ASSUME NEW t \in Tools, Dispatch(t) PROVE AllSound'
  BY <1>8, EmptySound, KeepSound DEF Dispatch, Leave, AllSound
<1>9. ASSUME NEW t \in Tools, Crash(t) PROVE AllSound'
  BY <1>9, EmptySound, KeepSound DEF Crash, Leave, AllSound
<1>10. ASSUME NEW m \in Missions, NEW readiness \in Readiness,
              Finish(m, readiness)
       PROVE  AllSound'
  BY <1>10 DEF Finish, local, AllSound
<1>11. CASE UNCHANGED vars
  BY <1>11 DEF vars, local, AllSound
<1> QED
  BY <1>1, <1>2, <1>3, <1>4, <1>5, <1>6, <1>7, <1>8, <1>9, <1>10, <1>11
  DEF Next, Begin, Step

THEOREM DocumentsSound == Spec => []AllSound
<1>1. Init => AllSound
  BY EmptySound DEF Init, AllSound, Sound
<1>2. AllSound /\ [Next]_vars => AllSound'
  BY NextKeepsSound
<1> QED BY <1>1, <1>2, PTL DEF Spec

(* "durable, restart-safe queue with a monotonic enqueue sequence"         *)
(* (platform/queue.py): no two missions of queue.json share a number.      *)
THEOREM SequenceNumbersDistinct == Spec => []SeqsDistinct
<1>1. AllSound => SeqsDistinct
  BY DEF AllSound, Sound, SeqsDistinct
<1> QED BY <1>1, DocumentsSound, PTL

(* enqueue's bound (MAX_QUEUE_ENTRIES) holds of the file, though commands  *)
(* that overlap each count the entries of the document they read.          *)
THEOREM QueueBounded == Spec => []Bounded
<1>1. AllSound => Bounded
  BY DEF AllSound, Sound, Bounded
<1> QED BY <1>1, DocumentsSound, PTL

-----------------------------------------------------------------------------
(* What surrounds the documents. *)

(* What AllSound does not type.                                            *)
WorldType ==
  /\ canonical \in [Missions -> {"live", "ready", "failed"}]
  /\ executing \in [Missions -> 0..MaxExecutions]
  /\ hand \in [Tools -> SUBSET Missions]

HistoryType ==
  /\ undelivered \subseteq Missions /\ dropped \subseteq Missions
  /\ disowned \in [Missions -> 0..MaxExecutions]
  /\ overtaken \in [Tools -> SUBSET Missions]

(* Only ScheduleSave, ScheduleRecord, Dispatch and Finish reach it: every  *)
(* other step empties a hand at most.                                      *)
LEMMA WorldTyped == ASSUME WorldType, [Next]_vars PROVE WorldType'
<1>1. ASSUME NEW t \in Tools, ScheduleSave(t) PROVE WorldType'
  <2>1. PICK S \in SUBSET Candidates(mem[t]) : Take(t, S)
    BY <1>1 DEF ScheduleSave
  <2>2. S \subseteq Missions
    BY DEF Candidates, In
  <2>3. hand' \in [Tools -> SUBSET Missions]
    BY <2>1, <2>2 DEF Take, WorldType
  <2> QED BY <1>1, <2>3 DEF ScheduleSave, WorldType, world
<1>2. ASSUME NEW t \in Tools, ScheduleRecord(t) PROVE WorldType'
  BY <1>2 DEF ScheduleRecord, Leave, Take, WorldType, world
<1>3. ASSUME NEW t \in Tools, Dispatch(t) PROVE WorldType'
  <2>1. PICK m \in hand[t] :
          /\ executing[m] < MaxExecutions
          /\ executing' = [executing EXCEPT ![m] = @ + 1]
          /\ IF hand[t] = {m} THEN Leave(t)
               ELSE Take(t, hand[t] \ {m}) /\ UNCHANGED <<pc, mem, overtaken>>
    BY <1>3 DEF Dispatch
  <2>2. m \in Missions
    BY DEF WorldType
  <2>3. executing' \in [Missions -> 0..MaxExecutions]
    BY <2>1, <2>2, QueueConstants DEF WorldType
  <2>4. hand' \in [Tools -> SUBSET Missions]
    BY <2>1 DEF Leave, Take, WorldType
  <2> QED BY <1>3, <2>3, <2>4 DEF Dispatch, WorldType
<1>4. ASSUME NEW m \in Missions, NEW readiness \in Readiness,
             Finish(m, readiness)
      PROVE  WorldType'
  <2>1. executing' \in [Missions -> 0..MaxExecutions]
    BY <1>4, QueueConstants DEF Finish, WorldType
  <2>2. canonical' \in [Missions -> {"live", "ready", "failed"}]
    BY <1>4, QueueConstants DEF Finish, WorldType
  <2> QED BY <1>4, <2>1, <2>2 DEF Finish, local, WorldType
<1>5. ASSUME NEW t \in Tools,
             Begin(t) \/ Save(t) \/ ScheduleSync(t) \/ Crash(t)
      PROVE  WorldType'
  BY <1>5 DEF Begin, Load, Mark, ScheduleLoad, Save, ScheduleSync, Crash, Leave,
     Take, world, WorldType
<1>6. CASE UNCHANGED vars
  BY <1>6 DEF vars, local, world, WorldType
<1> QED BY <1>1, <1>2, <1>3, <1>4, <1>5, <1>6 DEF Next, Step

LEMMA ReplaceTyped ==
  ASSUME WorldType, HistoryType, NEW q, Replace(q)
  PROVE  disowned' \in [Missions -> 0..MaxExecutions]
BY DEF Replace, WorldType, HistoryType

LEMMA LeaveTyped ==
  ASSUME HistoryType, NEW t \in Tools, Leave(t)
  PROVE  overtaken' \in [Tools -> SUBSET Missions]
BY DEF Leave, HistoryType

LEMMA HistoryTyped ==
  ASSUME WorldType, HistoryType, [Next]_vars PROVE HistoryType'
<1>1. ASSUME NEW t \in Tools, Begin(t) PROVE HistoryType'
  BY <1>1 DEF Begin, Load, Mark, ScheduleLoad, history, handing, HistoryType
<1>2. ASSUME NEW t \in Tools, Save(t) PROVE HistoryType'
  BY <1>2, ReplaceTyped, LeaveTyped DEF Save, handing, HistoryType
<1>3. ASSUME NEW t \in Tools, ScheduleSync(t) PROVE HistoryType'
  BY <1>3, ReplaceTyped DEF ScheduleSync, handing, HistoryType
<1>4. ASSUME NEW t \in Tools, ScheduleSave(t) PROVE HistoryType'
  <2>1. PICK S \in SUBSET Candidates(mem[t]) :
          undelivered' = undelivered \cup S /\ dropped' = dropped \ S
    BY <1>4 DEF ScheduleSave
  <2>2. S \subseteq Missions
    BY DEF Candidates, In
  <2>3. disowned' \in [Missions -> 0..MaxExecutions]
    BY <1>4, ReplaceTyped DEF ScheduleSave
  <2> QED BY <1>4, <2>1, <2>2, <2>3 DEF ScheduleSave, HistoryType
<1>5. ASSUME NEW t \in Tools, ScheduleRecord(t) PROVE HistoryType'
  BY <1>5, LeaveTyped DEF ScheduleRecord, HistoryType
<1>6. ASSUME NEW t \in Tools, Dispatch(t) PROVE HistoryType'
  BY <1>6, LeaveTyped DEF Dispatch, HistoryType
<1>7. ASSUME NEW t \in Tools, Crash(t) PROVE HistoryType'
  BY <1>7, LeaveTyped DEF Crash, HistoryType, WorldType
<1>8. ASSUME NEW m \in Missions, NEW readiness \in Readiness,
             Finish(m, readiness)
      PROVE  HistoryType'
  <2>1. disowned' \in [Missions -> 0..MaxExecutions]
    BY <1>8, QueueConstants DEF Finish, HistoryType
  <2>2. overtaken' \in [Tools -> SUBSET Missions]
    BY <1>8 DEF Finish, HistoryType
  <2> QED BY <1>8, <2>1, <2>2 DEF Finish, handing, HistoryType
<1>9. CASE UNCHANGED vars
  BY <1>9 DEF vars, history, handing, HistoryType
<1> QED BY <1>1, <1>2, <1>3, <1>4, <1>5, <1>6, <1>7, <1>8, <1>9 DEF Next, Step

(* TypeOK: every variable keeps its type, and the queue its bound, however *)
(* the tools of platform/queue.py overlap and die.                         *)
THEOREM TypeCorrect == Spec => []TypeOK
<1>1. Init => WorldType /\ HistoryType
  BY QueueConstants DEF Init, WorldType, HistoryType
<1>2. AllSound /\ WorldType /\ HistoryType => TypeOK
  BY DEF AllSound, Sound, WorldType, HistoryType, TypeOK
<1> QED BY <1>1, <1>2, WorldTyped, HistoryTyped, DocumentsSound, PTL DEF Spec

-----------------------------------------------------------------------------
(* Admitted work is handed over. *)

(* What is admitted and not handed over is in the hand of a tool that is   *)
(* about to, or was when that tool died.                                   *)
InHand ==
  \A m \in undelivered :
    \/ m \in dropped
    \/ \E t \in Tools : pc[t] \in {"record", "dispatch"} /\ m \in hand[t]

Labels == {"idle", "save", "sync", "decide", "record", "dispatch"}

PcType ==
  /\ pc \in [Tools -> Labels]
  /\ hand \in [Tools -> SUBSET Missions]
  /\ crashes \in Nat

LEMMA PcTyped == ASSUME WorldType, PcType, [Next]_vars PROVE PcType'
<1>1. WorldType'
  BY WorldTyped
<1>2. crashes' \in Nat
  BY DEF Next, Begin, Step, Load, Mark, Save, ScheduleLoad, ScheduleSync,
     ScheduleSave, ScheduleRecord, Dispatch, Finish, Crash, local, vars, PcType
<1>3. \/ pc' = pc
      \/ \E t \in Tools, label \in Labels : Goto(t, label)
  BY DEF Next, Begin, Step, Load, Mark, Save, ScheduleLoad, ScheduleSync,
     ScheduleSave, ScheduleRecord, Dispatch, Finish, Crash, Leave, local, vars,
     Labels
<1>4. pc' \in [Tools -> Labels]
  BY <1>3 DEF Goto, PcType
<1> QED BY <1>1, <1>2, <1>4 DEF PcType, WorldType

(* A tool that has nothing to hand over, and takes nothing, leaves it to   *)
(* those that have.                                                        *)
LEMMA OtherHands ==
  ASSUME PcType, InHand, NEW t \in Tools,
         pc[t] \notin {"record", "dispatch"},
         undelivered' = undelivered, dropped' = dropped,
         \A u \in Tools : u # t => pc'[u] = pc[u] /\ hand'[u] = hand[u]
  PROVE  InHand'
BY DEF InHand

LEMMA HandsKept == ASSUME PcType, InHand, [Next]_vars PROVE InHand'
<1>1. ASSUME NEW t \in Tools, Begin(t) \/ Save(t) \/ ScheduleSync(t)
      PROVE  InHand'
  BY <1>1, OtherHands DEF Begin, Load, Mark, ScheduleLoad, Save, ScheduleSync,
     MayBegin, Leave, Goto, Take, PcType, history, handing
<1>2. ASSUME NEW t \in Tools, ScheduleSave(t) PROVE InHand'
  <2>1. PICK S \in SUBSET Candidates(mem[t]) :
          /\ undelivered' = undelivered \cup S /\ dropped' = dropped \ S
          /\ Take(t, S)
    BY <1>2 DEF ScheduleSave
  <2>2. /\ pc[t] = "decide" /\ pc'[t] = "record" /\ hand'[t] = S
        /\ \A u \in Tools : u # t => pc'[u] = pc[u] /\ hand'[u] = hand[u]
    BY <1>2, <2>1 DEF ScheduleSave, Goto, Take, PcType
  <2> QED BY <2>1, <2>2 DEF InHand
<1>3. ASSUME NEW t \in Tools, ScheduleRecord(t) PROVE InHand'
  <2>1. CASE undelivered' = undelivered \ hand[t] /\ Leave(t)
    BY <1>3, <2>1 DEF ScheduleRecord, Leave, Goto, Take, InHand, PcType
  <2>2. CASE Goto(t, "dispatch") /\ UNCHANGED <<mem, hand, undelivered>>
    BY <1>3, <2>2 DEF ScheduleRecord, Goto, InHand, PcType
  <2> QED BY <1>3, <2>1, <2>2 DEF ScheduleRecord
<1>4. ASSUME NEW t \in Tools, Dispatch(t) PROVE InHand'
  <2>1. PICK m \in hand[t] :
          /\ undelivered' = undelivered \ {m}
          /\ IF hand[t] = {m} THEN Leave(t)
               ELSE Take(t, hand[t] \ {m}) /\ UNCHANGED <<pc, mem, overtaken>>
    BY <1>4 DEF Dispatch
  <2>2. dropped' = dropped
    BY <1>4 DEF Dispatch
  <2>3. \A u \in Tools : u # t => pc'[u] = pc[u] /\ hand'[u] = hand[u]
    BY <2>1 DEF Leave, Goto, Take, PcType
  <2>4. \A n \in hand[t] \ {m} : pc'[t] = pc[t] /\ n \in hand'[t]
    BY <2>1 DEF Take, PcType
  <2> QED BY <2>1, <2>2, <2>3, <2>4 DEF InHand
<1>5. ASSUME NEW t \in Tools, Crash(t) PROVE InHand'
  <2>1. \A u \in Tools : u # t => pc'[u] = pc[u] /\ hand'[u] = hand[u]
    BY <1>5 DEF Crash, Leave, Goto, Take, PcType
  <2> QED BY <1>5, <2>1 DEF Crash, InHand
<1>6. ASSUME NEW m \in Missions, NEW readiness \in Readiness,
             Finish(m, readiness)
      PROVE  InHand'
  BY <1>6 DEF Finish, local, handing, InHand
<1>7. CASE UNCHANGED vars
  BY <1>7 DEF vars, local, history, handing, InHand
<1> QED BY <1>1, <1>2, <1>3, <1>4, <1>5, <1>6, <1>7 DEF Next, Step

(* "admitted work is never silently lost" (platform/supervisor.py): every  *)
(* active mission is in the decision log and was handed to dispatch_fn     *)
(* once all is at rest, but for those a tool had in hand when it died or   *)
(* its dispatch_fn raised, also where tools overlap (platform/queue.py,    *)
(* schedule_once).                                                         *)
THEOREM AdmittedIsHandedOver == Spec => []SilentOnlyAfterCrash
<1>1. Init => WorldType /\ PcType /\ InHand
  <2> SUFFICES ASSUME Init PROVE WorldType /\ PcType /\ InHand
    OBVIOUS
  <2>1. WorldType
    BY QueueConstants DEF Init, WorldType
  <2>2. pc \in [Tools -> Labels]
    BY DEF Init, Labels
  <2>3. hand \in [Tools -> SUBSET Missions] /\ crashes \in Nat
    BY DEF Init
  <2> QED BY <2>1, <2>2, <2>3 DEF Init, PcType, InHand
<1>2. WorldType /\ PcType /\ InHand /\ [Next]_vars
        => WorldType' /\ PcType' /\ InHand'
  BY WorldTyped, PcTyped, HandsKept
<1>3. InHand => SilentOnlyAfterCrash
  BY DEF InHand, SilentOnlyAfterCrash, AtRest
<1> QED BY <1>1, <1>2, <1>3, PTL DEF Spec

-----------------------------------------------------------------------------
(* Tools that run one at a time. *)

(* A tool at work is the only one.                                         *)
Solo == \A t, u \in Tools : pc[t] # "idle" /\ pc[u] # "idle" => t = u

(* What a scheduler holds is the file.                                     *)
HoldsFile == \A t \in Tools : pc[t] \in {"sync", "decide"} => mem[t] = queue

AloneInv == AllSound /\ WorldType /\ PcType /\ Solo /\ HoldsFile

(* No command makes a mission active.                                      *)
LEMMA AppliedActive ==
  ASSUME NEW q, Sound(q), NEW m \in Missions, NEW command
  PROVE  In(Applied(q, command, m), {"ACTIVE"}) \subseteq In(q, {"ACTIVE"})
<1>1. q \in Document
  BY DEF Sound
<1>2. \A s \in States \ {"ACTIVE"} :
        In(Become(q, m, s), {"ACTIVE"}) \subseteq In(q, {"ACTIVE"})
  BY <1>1 DEF Become, In, Document
<1>3. In(Enqueued(q, m), {"ACTIVE"}) \subseteq In(q, {"ACTIVE"})
  <2>1. CASE q.state[m] \in {"CANCELLED", "FAILED"}
    BY <1>2, <2>1 DEF Enqueued, States
  <2>2. CASE q.state[m] = "ABSENT" /\ Cardinality(Known(q)) < MaxQueueEntries
    <3>1. Enqueued(q, m).state = Become(q, m, "QUEUED").state
      BY <1>1, <2>2 DEF Enqueued, Become, Document
    <3> QED BY <1>2, <3>1 DEF In, States
  <2>3. CASE Enqueued(q, m) = q
    BY <2>3
  <2> QED BY <2>1, <2>2, <2>3 DEF Enqueued
<1>4. \/ Applied(q, command, m) \in {q, Enqueued(q, m)}
      \/ \E s \in States \ {"ACTIVE"} : Applied(q, command, m) = Become(q, m, s)
  BY DEF Applied, States
<1> QED BY <1>2, <1>3, <1>4

(* Where every tool is used alone, a tool begins when all are idle.        *)
LEMMA BeginsAlone ==
  ASSUME Exclusive = Tools, NEW t \in Tools, MayBegin(t)
  PROVE  \A u \in Tools : pc[u] = "idle"
BY DEF MayBegin

(* The steps of the one tool at work, and of the missions meanwhile.       *)
LEMMA AloneKept ==
  ASSUME Exclusive = Tools, AloneInv, [Next]_vars PROVE AloneInv'
<1>0. AllSound' /\ WorldType' /\ PcType'
  BY NextKeepsSound, WorldTyped, PcTyped DEF AloneInv
<1>1. ASSUME NEW t \in Tools, Begin(t) PROVE Solo' /\ HoldsFile'
  <2>1. MayBegin(t) /\ queue' = queue
    BY <1>1 DEF Begin, Load, Mark, ScheduleLoad
  <2>2. \A u \in Tools : pc[u] = "idle"
    BY <2>1, BeginsAlone
  <2>3. \E label \in Labels : Goto(t, label)
    BY <1>1 DEF Begin, Load, Mark, ScheduleLoad, Labels
  <2>4. \A u \in Tools : u # t => pc'[u] = "idle"
    BY <2>2, <2>3 DEF Goto, AloneInv, PcType
  <2>5. Solo'
    BY <2>4 DEF Solo
  <2>6. pc'[t] \in {"sync", "decide"} => mem'[t] = queue
    BY <1>1 DEF Begin, Load, Mark, ScheduleLoad, Goto, Keep, AloneInv, PcType,
       AllSound
  <2> QED BY <2>1, <2>4, <2>5, <2>6 DEF HoldsFile
<1>2. ASSUME NEW t \in Tools, Step(t) \/ Crash(t) PROVE Solo' /\ HoldsFile'
  <2>1. pc[t] # "idle"
    BY <1>2 DEF Step, Crash, Save, ScheduleSync, ScheduleSave, ScheduleRecord,
       Dispatch
  <2>2. \A u \in Tools : u # t => pc[u] = "idle"
    BY <2>1 DEF AloneInv, Solo
  <2>3. \/ pc' = pc /\ pc[t] = "dispatch"
        \/ \E label \in {"idle", "record", "dispatch"} : Goto(t, label)
        \/ Goto(t, "decide") /\ ScheduleSync(t)
    BY <1>2 DEF Step, Crash, Save, ScheduleSync, ScheduleSave, ScheduleRecord,
       Dispatch, Leave
  <2>4. \A u \in Tools : u # t => pc'[u] = "idle"
    BY <2>2, <2>3 DEF Goto, AloneInv, PcType
  <2>5. Solo'
    BY <2>4 DEF Solo
  <2>6. CASE pc'[t] \in {"idle", "record", "dispatch"}
    BY <2>4, <2>5, <2>6 DEF HoldsFile
  <2>7. CASE Goto(t, "decide") /\ ScheduleSync(t)
    <3>1. pc'[t] = "decide" /\ mem[t] = queue
      BY <2>7 DEF ScheduleSync, Goto, AloneInv, PcType, HoldsFile
    <3>2. mem'[t] = queue'
      BY <2>7, <3>1 DEF ScheduleSync, Replace, Keep, AloneInv, AllSound
    <3> QED BY <2>4, <2>5, <3>1, <3>2 DEF HoldsFile
  <2> QED BY <2>3, <2>6, <2>7 DEF Goto, AloneInv, PcType
<1>3. ASSUME NEW m \in Missions, NEW readiness \in Readiness,
             Finish(m, readiness)
      PROVE  Solo' /\ HoldsFile'
  BY <1>3 DEF Finish, local, AloneInv, Solo, HoldsFile
<1>4. CASE UNCHANGED vars
  <2>1. queue' = queue /\ pc' = pc /\ mem' = mem
    BY <1>4 DEF vars, local
  <2>2. Solo'
    BY <2>1 DEF AloneInv, Solo
  <2>3. HoldsFile'
    BY <2>1 DEF AloneInv, HoldsFile
  <2> QED BY <1>0, <2>2, <2>3 DEF AloneInv
<1> QED BY <1>0, <1>1, <1>2, <1>3, <1>4 DEF Next, AloneInv

LEMMA AloneInit == Init => AloneInv
<1> SUFFICES ASSUME Init PROVE AloneInv
  OBVIOUS
<1>1. AllSound
  BY EmptySound DEF Init, AllSound, Sound
<1>2. WorldType
  BY QueueConstants DEF Init, WorldType
<1>3. PcType
  BY DEF Init, PcType, Labels
<1>4. Solo /\ HoldsFile
  BY DEF Init, Solo, HoldsFile
<1> QED BY <1>1, <1>2, <1>3, <1>4 DEF AloneInv

(* A command's document has no more missions active than the file.         *)
NoneActivated ==
  \A t \in Tools :
    pc[t] = "save" => In(mem[t], {"ACTIVE"}) \subseteq In(queue, {"ACTIVE"})

LEMMA MarkActive ==
  ASSUME NEW q, Sound(q), NEW m \in Missions, NEW s, s # "ACTIVE"
  PROVE  In(Become(q, m, s), {"ACTIVE"}) \subseteq In(q, {"ACTIVE"})
BY DEF Sound, Document, Become, In

LEMMA ActivatedBySchedulers ==
  ASSUME Exclusive = Tools, "ACTIVE" \notin Marks,
         AloneInv, NoneActivated, [Next]_vars
  PROVE  NoneActivated'
<1>1. ASSUME NEW t \in Tools, Begin(t) PROVE NoneActivated'
  <2>1. /\ MayBegin(t) /\ queue' = queue
        /\ \E label \in Labels : Goto(t, label)
    BY <1>1 DEF Begin, Load, Mark, ScheduleLoad, Labels
  <2>2. \A u \in Tools : u # t => pc'[u] = "idle"
    BY <2>1, BeginsAlone DEF Goto, AloneInv, PcType
  <2>3. pc'[t] = "save" =>
          In(mem'[t], {"ACTIVE"}) \subseteq In(queue, {"ACTIVE"})
    <3>1. ASSUME NEW command \in Commands, NEW m \in Missions,
                 Load(t, command, m)
          PROVE  In(mem'[t], {"ACTIVE"}) \subseteq In(queue, {"ACTIVE"})
      BY <3>1, AppliedActive DEF Load, Keep, AloneInv, AllSound
    <3>2. ASSUME NEW m \in Missions, NEW outcome \in Marks,
                 Mark(t, m, outcome)
          PROVE  In(mem'[t], {"ACTIVE"}) \subseteq In(queue, {"ACTIVE"})
      BY <3>2, MarkActive DEF Mark, Keep, AloneInv, AllSound
    <3>3. CASE ScheduleLoad(t)
      BY <3>3 DEF ScheduleLoad, Goto, AloneInv, PcType
    <3> QED BY <1>1, <3>1, <3>2, <3>3 DEF Begin
  <2> QED BY <2>1, <2>2, <2>3 DEF NoneActivated
<1>2. ASSUME NEW t \in Tools, Step(t) \/ Crash(t) PROVE NoneActivated'
  <2>1. pc[t] # "idle"
    BY <1>2 DEF Step, Crash, Save, ScheduleSync, ScheduleSave, ScheduleRecord,
       Dispatch
  <2>2. \/ pc' = pc /\ pc[t] = "dispatch"
        \/ \E label \in {"idle", "record", "dispatch", "decide"} : Goto(t, label)
    BY <1>2 DEF Step, Crash, Save, ScheduleSync, ScheduleSave, ScheduleRecord,
       Dispatch, Leave
  <2>3. \A u \in Tools : pc'[u] # "save"
    BY <2>1, <2>2 DEF Goto, AloneInv, Solo, PcType
  <2> QED BY <2>3 DEF NoneActivated
<1>3. ASSUME NEW m \in Missions, NEW readiness \in Readiness,
             Finish(m, readiness)
      PROVE  NoneActivated'
  BY <1>3 DEF Finish, local, NoneActivated, In
<1>4. CASE UNCHANGED vars
  <2>1. queue' = queue /\ pc' = pc /\ mem' = mem
    BY <1>4 DEF vars, local
  <2> QED BY <2>1 DEF NoneActivated, In
<1> QED BY <1>1, <1>2, <1>3, <1>4 DEF Next

(* What a scheduler has synchronised, chosen from and saved is the file,   *)
(* so what it admits has its dependencies done (platform/queue.py), as     *)
(* long as no caller of mark_state makes a mission active by itself.       *)
THEOREM DependenciesComeFirst ==
  ASSUME Exclusive = Tools, "ACTIVE" \notin Marks
  PROVE  Spec => DependenciesFirst
<1> DEFINE Admits == \A m \in In(queue', {"ACTIVE"}) \ In(queue, {"ACTIVE"}) :
                        Depends[m] \subseteq In(queue, {"DONE"})
<1>1. Init => AloneInv /\ NoneActivated
  BY AloneInit DEF Init, NoneActivated
<1>2. AloneInv /\ NoneActivated /\ [Next]_vars => AloneInv' /\ NoneActivated'
  BY AloneKept, ActivatedBySchedulers
<1>3. AloneInv /\ NoneActivated /\ [Next]_vars => Admits
  <2> SUFFICES ASSUME AloneInv, NoneActivated, [Next]_vars PROVE Admits
    OBVIOUS
  <2>1. ASSUME NEW t \in Tools, Save(t) PROVE Admits
    BY <2>1 DEF Save, Replace, NoneActivated
  <2>2. ASSUME NEW t \in Tools, ScheduleSync(t) PROVE Admits
    <3>1. In(Synced(queue), {"ACTIVE"}) \subseteq In(queue, {"ACTIVE"})
      BY DEF AloneInv, AllSound, Sound, Synced, In, Document
    <3>2. queue' \in {queue, Synced(queue)}
      BY <2>2 DEF ScheduleSync, Replace, AloneInv, HoldsFile
    <3> QED BY <3>1, <3>2
  <2>3. ASSUME NEW t \in Tools, ScheduleSave(t) PROVE Admits
    <3>1. mem[t] = queue
      BY <2>3 DEF ScheduleSave, AloneInv, HoldsFile
    <3>2. PICK down \in SUBSET Outages, S \in SUBSET Candidates(queue) :
            Selects(queue, down, S) /\ queue' = Decided(queue, down, S)
      BY <2>3, <3>1 DEF ScheduleSave, Replace
    <3>3. \A m \in In(queue', {"ACTIVE"}) : m \in S \/ m \in In(queue, {"ACTIVE"})
      BY <3>2 DEF Decided, In, AloneInv, AllSound, Sound, Document
    <3> QED BY <3>2, <3>3 DEF Selects, DependenciesDone
  <2>4. CASE queue' = queue
    BY <2>4
  <2> QED BY <2>1, <2>2, <2>3, <2>4
      DEF Next, Begin, Step, Load, Mark, ScheduleLoad, ScheduleRecord, Dispatch,
          Crash, Finish, vars
<1> QED BY <1>1, <1>2, <1>3, PTL DEF Spec, DependenciesFirst

-----------------------------------------------------------------------------
(* Executions. *)

(* About to be handed over.                                                *)
Offered(m) ==
  \E t \in Tools : pc[t] \in {"record", "dispatch"} /\ m \in hand[t]

(* But for what it had when it last ceased to be active, a mission has an  *)
(* execution only while it is active, and none while it is handed over.    *)
Accounted ==
  \A m \in Missions :
    /\ executing[m] <= disowned[m] + 1
    /\ queue.state[m] # "ACTIVE" => executing[m] <= disowned[m]
    /\ Offered(m) => queue.state[m] = "ACTIVE" /\ executing[m] <= disowned[m]

ExecInv == AloneInv /\ HistoryType /\ Accounted

(* A document is replaced, and what is in hand then has become active.     *)
LEMMA ReplaceAccounts ==
  ASSUME ExecInv, NEW q, Replace(q), executing' = executing,
         \A m \in Missions : Offered(m)' =>
            queue.state[m] # "ACTIVE" /\ q.state[m] = "ACTIVE"
  PROVE  Accounted'
<1>1. \A m \in Missions : executing[m] \in Nat /\ disowned[m] \in Nat
  BY QueueConstants DEF ExecInv, AloneInv, WorldType, HistoryType
<1>2. queue' = q
  BY DEF Replace
<1>3. \A m \in Missions :
        disowned'[m] = IF queue.state[m] = "ACTIVE" /\ q.state[m] # "ACTIVE"
                         THEN executing[m] ELSE disowned[m]
  BY DEF Replace
<1> QED BY <1>1, <1>2, <1>3 DEF ExecInv, Accounted

LEMMA BeginAccounts ==
  ASSUME Exclusive = Tools, ExecInv, NEW t \in Tools, Begin(t)
  PROVE  Accounted'
<1>1. /\ MayBegin(t) /\ queue' = queue /\ executing' = executing
      /\ disowned' = disowned
      /\ \E label \in {"save", "sync"} : Goto(t, label)
  BY DEF Begin, Load, Mark, ScheduleLoad, world, history
<1>2. \A u \in Tools : pc'[u] \notin {"record", "dispatch"}
  BY <1>1, BeginsAlone DEF Goto, ExecInv, AloneInv, PcType
<1> QED BY <1>1, <1>2 DEF ExecInv, Accounted, Offered

LEMMA StepAccounts ==
  ASSUME ExecInv, NEW t \in Tools, Step(t) \/ Crash(t)
  PROVE  Accounted'
<1> USE DEF ExecInv
<1>0. pc[t] # "idle"
  BY DEF Step, Crash, Save, ScheduleSync, ScheduleSave, ScheduleRecord, Dispatch
<1>1. \A u \in Tools : u # t => pc[u] = "idle"
  BY <1>0 DEF AloneInv, Solo
<1>2. \/ pc' = pc
      \/ \E label \in {"idle", "record", "dispatch", "decide"} : Goto(t, label)
  BY DEF Step, Crash, Save, ScheduleSync, ScheduleSave, ScheduleRecord,
     Dispatch, Leave
<1>3. \A u \in Tools : u # t => pc'[u] = "idle"
  BY <1>1, <1>2 DEF Goto, AloneInv, PcType
<1>4. \A m \in Missions : Offered(m)' <=>
        pc'[t] \in {"record", "dispatch"} /\ m \in hand'[t]
  BY <1>3 DEF Offered
<1>5. CASE Save(t)
  <2>1. pc'[t] = "idle"
    BY <1>5 DEF Save, Leave, Goto, AloneInv, PcType
  <2>2. \A m \in Missions : ~Offered(m)'
    BY <1>4, <2>1
  <2>3. Replace(mem[t]) /\ executing' = executing
    BY <1>5 DEF Save, world
  <2> QED BY <2>2, <2>3, ReplaceAccounts
<1>6. CASE ScheduleSync(t)
  <2>1. pc'[t] = "decide" /\ executing' = executing
    BY <1>6 DEF ScheduleSync, Goto, world, AloneInv, PcType
  <2>2. \A m \in Missions : ~Offered(m)'
    BY <1>4, <2>1
  <2>3. CASE Replace(Synced(mem[t]))
    BY <2>1, <2>2, <2>3, ReplaceAccounts
  <2>4. CASE UNCHANGED <<queue, disowned>>
    BY <2>1, <2>2, <2>4 DEF Accounted
  <2> QED BY <1>6, <2>3, <2>4 DEF ScheduleSync
<1>7. CASE ScheduleSave(t)
  <2>1. mem[t] = queue /\ executing' = executing
    BY <1>7 DEF ScheduleSave, AloneInv, HoldsFile, world
  <2>2. PICK down \in SUBSET Outages, S \in SUBSET Candidates(queue) :
          Replace(Decided(queue, down, S)) /\ Take(t, S)
    BY <1>7, <2>1 DEF ScheduleSave
  <2>3. hand'[t] = S
    BY <2>2 DEF Take, AloneInv, PcType
  <2>4. \A m \in Missions : Offered(m)' => m \in S
    BY <1>4, <2>3
  <2>5. \A m \in S : m \in Missions => /\ queue.state[m] # "ACTIVE"
                                    /\ Decided(queue, down, S).state[m] = "ACTIVE"
    BY DEF Candidates, In, Decided, AloneInv, AllSound, Sound, Document
  <2>6. \A m \in Missions : Offered(m)' =>
          /\ queue.state[m] # "ACTIVE"
          /\ Decided(queue, down, S).state[m] = "ACTIVE"
    BY <2>4, <2>5
  <2>7. Replace(Decided(queue, down, S))
    BY <2>2
  <2> QED BY <2>1, <2>6, <2>7, ReplaceAccounts
<1>8. CASE ScheduleRecord(t) \/ Crash(t)
  <2>1. UNCHANGED <<queue, executing, disowned>>
    BY <1>8 DEF ScheduleRecord, Crash, world
  <2>2. \/ pc[t] = "record" /\ pc'[t] = "dispatch" /\ hand' = hand
        \/ pc'[t] = "idle"
    BY <1>8 DEF ScheduleRecord, Crash, Leave, Goto, AloneInv, PcType
  <2>3. \A m \in Missions : Offered(m)' => Offered(m)
    BY <1>4, <2>2 DEF Offered
  <2> QED BY <2>1, <2>3 DEF Accounted
<1>9. CASE Dispatch(t)
  <2>1. PICK m \in hand[t] :
          /\ executing' = [executing EXCEPT ![m] = @ + 1]
          /\ IF hand[t] = {m} THEN Leave(t)
               ELSE Take(t, hand[t] \ {m}) /\ UNCHANGED <<pc, mem, overtaken>>
    BY <1>9 DEF Dispatch
  <2>2. UNCHANGED <<queue, disowned>> /\ pc[t] = "dispatch"
    BY <1>9 DEF Dispatch
  <2>3. m \in Missions /\ Offered(m) /\ executing[m] \in Nat /\ disowned[m] \in Nat
    BY <2>2, QueueConstants DEF AloneInv, WorldType, HistoryType, Offered
  <2>4. /\ executing'[m] = executing[m] + 1
        /\ \A n \in Missions : n # m => executing'[n] = executing[n]
    BY <2>1, <2>3 DEF AloneInv, WorldType
  <2>5. \/ pc'[t] = "idle"
        \/ pc'[t] = "dispatch" /\ hand'[t] = hand[t] \ {m}
    BY <2>1, <2>2 DEF Leave, Goto, Take, AloneInv, PcType
  <2>6. \A n \in Missions : Offered(n)' => n # m /\ Offered(n)
    BY <1>4, <2>2, <2>5 DEF Offered
  <2> QED BY <2>2, <2>3, <2>4, <2>6 DEF Accounted
<1> QED BY <1>5, <1>6, <1>7, <1>8, <1>9 DEF Step

(* One execution less, the disowned ones first.                            *)
LEMMA FinishAccounts ==
  ASSUME ExecInv, NEW m \in Missions, NEW readiness \in Readiness,
         Finish(m, readiness)
  PROVE  Accounted'
<1>1. UNCHANGED <<queue, pc, hand>>
  BY DEF Finish, local
<1>2. executing[m] \in Nat /\ disowned[m] \in Nat /\ executing[m] > 0
  BY QueueConstants DEF ExecInv, AloneInv, WorldType, HistoryType, Finish
<1>3. /\ executing'[m] = executing[m] - 1
      /\ disowned'[m] = IF disowned[m] > 0 THEN disowned[m] - 1 ELSE 0
      /\ \A n \in Missions : n # m => /\ executing'[n] = executing[n]
                                      /\ disowned'[n] = disowned[n]
  BY DEF Finish, ExecInv, AloneInv, WorldType, HistoryType
<1>4. \A n \in Missions : Offered(n)' <=> Offered(n)
  BY <1>1 DEF Offered
<1> QED BY <1>1, <1>2, <1>3, <1>4 DEF ExecInv, Accounted

(* schedule_once hands a mission over once for each time it becomes        *)
(* active, also where executions fail and are queued again and where       *)
(* commands stop running ones (platform/queue.py): it has a second         *)
(* execution only beside those it had when it last ceased to be active.    *)
THEOREM ExecutedOnceAtATime ==
  ASSUME Exclusive = Tools PROVE Spec => []ExecutedOnce
<1>1. Init => ExecInv
  <2> SUFFICES ASSUME Init PROVE ExecInv
    OBVIOUS
  <2>1. HistoryType
    BY QueueConstants DEF Init, HistoryType
  <2> QED BY <2>1, AloneInit DEF Init, ExecInv, Accounted, Offered
<1>2. ExecInv /\ [Next]_vars => ExecInv'
  <2> SUFFICES ASSUME ExecInv, [Next]_vars PROVE ExecInv'
    OBVIOUS
  <2>1. AloneInv' /\ HistoryType'
    BY AloneKept, HistoryTyped DEF ExecInv, AloneInv
  <2>2. CASE UNCHANGED vars
    <3>1. UNCHANGED <<queue, executing, disowned, pc, hand>>
      BY <2>2 DEF vars, world, local, history
    <3> QED BY <2>1, <3>1 DEF ExecInv, Accounted, Offered
  <2>3. CASE Next
    BY <2>1, <2>3, BeginAccounts, StepAccounts, FinishAccounts DEF Next, ExecInv
  <2> QED BY <2>2, <2>3
<1>3. ExecInv => ExecutedOnce
  BY DEF ExecInv, Accounted, ExecutedOnce
<1> QED BY <1>1, <1>2, <1>3, PTL DEF Spec

(* What a scheduler chooses from, and what it hands over, was live when it *)
(* synchronised.                                                           *)
SeenLive ==
  \A t \in Tools :
    /\ pc[t] = "decide" => \A m \in Candidates(mem[t]) :
         canonical[m] = "live" \/ m \in overtaken[t]
    /\ pc[t] \in {"record", "dispatch"} => \A m \in hand[t] :
         canonical[m] = "live" \/ m \in overtaken[t]

LiveInv == AllSound /\ WorldType /\ HistoryType /\ PcType /\ SeenLive

(* A tool's step leaves the others what they saw.                          *)
LEMMA OthersSee ==
  ASSUME LiveInv, NEW t \in Tools, canonical' = canonical,
         \A u \in Tools : u # t => /\ pc'[u] = pc[u] /\ mem'[u] = mem[u]
                                   /\ hand'[u] = hand[u]
                                   /\ overtaken'[u] = overtaken[u],
         pc'[t] = "decide" => \A m \in Candidates(mem'[t]) :
            canonical[m] = "live" \/ m \in overtaken'[t],
         pc'[t] \in {"record", "dispatch"} => \A m \in hand'[t] :
            canonical[m] = "live" \/ m \in overtaken'[t]
  PROVE  SeenLive'
BY DEF LiveInv, SeenLive, Candidates, In

LEMMA LiveKept == ASSUME LiveInv, [Next]_vars PROVE LiveInv'
<1>0. AllSound' /\ WorldType' /\ HistoryType' /\ PcType'
  BY NextKeepsSound, WorldTyped, HistoryTyped, PcTyped DEF LiveInv
<1>1. ASSUME NEW t \in Tools, Begin(t) \/ Save(t) \/ Crash(t) PROVE SeenLive'
  <2>1. canonical' = canonical /\ pc'[t] \in {"idle", "save", "sync"}
    BY <1>1 DEF Begin, Load, Mark, ScheduleLoad, Save, Crash, Leave, Goto, world,
       LiveInv, PcType
  <2>2. \A u \in Tools : u # t => pc'[u] = pc[u] /\ mem'[u] = mem[u]
    BY <1>1 DEF Begin, Load, Mark, ScheduleLoad, Save, Crash, Leave, Goto, Keep,
       LiveInv, AllSound, PcType
  <2>3. \A u \in Tools : u # t => hand'[u] = hand[u] /\ overtaken'[u] = overtaken[u]
    BY <1>1 DEF Begin, Load, Mark, ScheduleLoad, Save, Crash, Leave, Take, history,
       LiveInv, WorldType, HistoryType
  <2> QED BY <2>1, <2>2, <2>3, OthersSee
<1>2. ASSUME NEW t \in Tools, ScheduleSync(t) PROVE SeenLive'
  <2>1. /\ canonical' = canonical /\ pc'[t] = "decide"
        /\ mem'[t] = Synced(mem[t])
        /\ \A u \in Tools : u # t => /\ pc'[u] = pc[u] /\ mem'[u] = mem[u]
                                     /\ hand'[u] = hand[u]
                                     /\ overtaken'[u] = overtaken[u]
    BY <1>2 DEF ScheduleSync, Goto, Keep, world, LiveInv, AllSound, PcType
  <2>2. \A m \in Candidates(Synced(mem[t])) : canonical[m] = "live"
    BY DEF LiveInv, AllSound, Sound, Synced, Document, Candidates, In, States
  <2> QED BY <2>1, <2>2, OthersSee
<1>3. ASSUME NEW t \in Tools, ScheduleSave(t) PROVE SeenLive'
  <2>1. PICK S \in SUBSET Candidates(mem[t]) : Take(t, S)
    BY <1>3 DEF ScheduleSave
  <2>2. /\ canonical' = canonical /\ pc[t] = "decide" /\ pc'[t] = "record"
        /\ hand'[t] = S /\ overtaken' = overtaken
        /\ \A u \in Tools : u # t => /\ pc'[u] = pc[u] /\ mem'[u] = mem[u]
                                     /\ hand'[u] = hand[u]
    BY <1>3, <2>1 DEF ScheduleSave, Goto, Keep, Take, world, LiveInv, AllSound,
       PcType
  <2>3. \A m \in S : canonical[m] = "live" \/ m \in overtaken'[t]
    BY <2>2 DEF LiveInv, SeenLive
  <2> QED BY <2>2, <2>3, OthersSee
<1>4. ASSUME NEW t \in Tools, ScheduleRecord(t) PROVE SeenLive'
  <2>1. /\ canonical' = canonical /\ pc[t] = "record"
        /\ \/ pc'[t] = "idle"
           \/ pc'[t] = "dispatch" /\ hand' = hand /\ overtaken' = overtaken
        /\ \A u \in Tools : u # t => /\ pc'[u] = pc[u] /\ mem'[u] = mem[u]
                                     /\ hand'[u] = hand[u]
                                     /\ overtaken'[u] = overtaken[u]
    BY <1>4 DEF ScheduleRecord, Leave, Goto, Keep, Take, world, LiveInv, AllSound,
       HistoryType, PcType
  <2>2. pc'[t] = "dispatch" => \A m \in hand'[t] :
          canonical[m] = "live" \/ m \in overtaken'[t]
    BY <2>1 DEF LiveInv, SeenLive
  <2> QED BY <2>1, <2>2, OthersSee
<1>5. ASSUME NEW t \in Tools, Dispatch(t) PROVE SeenLive'
  <2>1. PICK m \in hand[t] :
          IF hand[t] = {m} THEN Leave(t)
          ELSE Take(t, hand[t] \ {m}) /\ UNCHANGED <<pc, mem, overtaken>>
    BY <1>5 DEF Dispatch
  <2>2. /\ canonical' = canonical /\ pc[t] = "dispatch"
        /\ \/ pc'[t] = "idle"
           \/ /\ pc'[t] = "dispatch" /\ hand'[t] \subseteq hand[t]
              /\ overtaken' = overtaken
        /\ \A u \in Tools : u # t => /\ pc'[u] = pc[u] /\ mem'[u] = mem[u]
                                     /\ hand'[u] = hand[u]
                                     /\ overtaken'[u] = overtaken[u]
    BY <1>5, <2>1 DEF Dispatch, Leave, Goto, Keep, Take, LiveInv, AllSound,
       HistoryType, PcType
  <2>3. pc'[t] = "dispatch" => \A n \in hand'[t] :
          canonical[n] = "live" \/ n \in overtaken'[t]
    BY <2>2 DEF LiveInv, SeenLive
  <2> QED BY <2>2, <2>3, OthersSee
<1>6. ASSUME NEW m \in Missions, NEW readiness \in Readiness,
             Finish(m, readiness)
      PROVE  SeenLive'
  <2>1. UNCHANGED <<pc, mem, hand>>
    BY <1>6 DEF Finish, local
  <2>2. \A n \in Missions : n # m => canonical'[n] = canonical[n]
    BY <1>6 DEF Finish, LiveInv, WorldType
  <2>3. \A t \in Tools :
          /\ overtaken[t] \subseteq overtaken'[t]
          /\ pc[t] \in {"decide", "record", "dispatch"} =>
               canonical'[m] = canonical[m] \/ m \in overtaken'[t]
    BY <1>6 DEF Finish
  <2>4. \A t \in Tools : Candidates(mem[t]) \subseteq Missions
                        /\ hand[t] \subseteq Missions
    BY DEF Candidates, In, LiveInv, WorldType
  <2> QED BY <2>1, <2>2, <2>3, <2>4 DEF LiveInv, SeenLive, Candidates, In
<1>7. CASE UNCHANGED vars
  <2>1. UNCHANGED <<canonical, pc, mem, hand, overtaken>>
    BY <1>7 DEF vars, world, local, history
  <2>2. SeenLive'
    BY <2>1 DEF LiveInv, SeenLive, Candidates, In
  <2> QED BY <1>0, <2>2 DEF LiveInv
<1> QED BY <1>0, <1>1, <1>2, <1>3, <1>4, <1>5, <1>6, <1>7 DEF Next, Step, LiveInv

(* "a mission already completed/ready in canonical state is never          *)
(* re-executed" (platform/queue.py): what is handed over was live when the *)
(* scheduler synchronised its document, however tools overlap and die and  *)
(* whatever the commands are.                                              *)
THEOREM TerminalNeverReexecuted == Spec => NeverReexecuted
<1> DEFINE Live == \A m \in Missions : executing'[m] > executing[m] =>
                     \/ canonical[m] = "live"
                     \/ \E t \in Tools :
                          m \in (hand[t] \ hand'[t]) \cap overtaken[t]
<1>1. Init => LiveInv
  <2> SUFFICES ASSUME Init PROVE LiveInv
    OBVIOUS
  <2>1. AloneInv
    BY AloneInit
  <2>2. HistoryType
    BY QueueConstants DEF Init, HistoryType
  <2> QED BY <2>1, <2>2 DEF Init, AloneInv, LiveInv, SeenLive
<1>2. LiveInv /\ [Next]_vars => LiveInv'
  BY LiveKept
<1>3. LiveInv /\ [Next]_vars => Live
  <2> SUFFICES ASSUME LiveInv, [Next]_vars PROVE Live
    OBVIOUS
  <2>0. \A m \in Missions : executing[m] \in Int
    BY QueueConstants DEF LiveInv, WorldType
  <2>1. ASSUME NEW t \in Tools, Dispatch(t) PROVE Live
    <3>1. PICK m \in hand[t] :
            /\ executing' = [executing EXCEPT ![m] = @ + 1]
            /\ IF hand[t] = {m} THEN Leave(t)
                 ELSE Take(t, hand[t] \ {m}) /\ UNCHANGED <<pc, mem, overtaken>>
      BY <2>1 DEF Dispatch
    <3>2. canonical[m] = "live" \/ m \in overtaken[t]
      BY <2>1 DEF Dispatch, LiveInv, SeenLive
    <3>3. m \notin hand'[t]
      BY <3>1 DEF Leave, Take, LiveInv, WorldType
    <3>4. \A n \in Missions : n # m => executing'[n] = executing[n]
      BY <3>1 DEF LiveInv, WorldType
    <3> QED BY <2>0, <3>2, <3>3, <3>4
  <2>2. ASSUME NEW m \in Missions, NEW readiness \in Readiness,
               Finish(m, readiness)
        PROVE  Live
    BY <2>0, <2>2 DEF Finish, LiveInv, WorldType
  <2>3. CASE executing' = executing
    BY <2>0, <2>3
  <2> QED BY <2>1, <2>2, <2>3
      DEF Next, Begin, Step, Load, Mark, ScheduleLoad, Save, ScheduleSync,
          ScheduleSave, ScheduleRecord, Crash, vars, world
<1> QED BY <1>1, <1>2, <1>3, PTL DEF Spec, NeverReexecuted

-----------------------------------------------------------------------------
(* The policy.  What a scheduler decides fits the policy because of what   *)
(* it read, however stale, so each document by itself keeps to it.         *)

Policy(q) ==
  LET act == In(q, {"ACTIVE"}) IN
  /\ Cardinality(act) <= MaxConcurrent
  /\ Total(Cpu, act) <= CpuSlots
  /\ Total(Gpu, act) <= GpuSlots

AllWithin == Policy(queue) /\ \A t \in Tools : Policy(mem[t])

(* Total counts the slots the missions take.                               *)
LEMMA TotalIs ==
  ASSUME NEW demand \in [Missions -> Nat], NEW S \in SUBSET Missions
  PROVE  /\ Total(demand, S) = Cardinality(Units(demand, S))
         /\ Total(demand, S) \in Nat
<1>1. IsFiniteSet(S) /\ \A m \in S : demand[m] \in Nat
  BY QueueConstants, FS_Subset
<1>2. MapThenSumSet(LAMBDA m : demand[m], S) = Cardinality(Units(demand, S))
  BY <1>1, SumCounts
<1> QED BY <1>1, <1>2, UnitsFinite DEF Total

(* Fewer active missions fit where more did.                               *)
LEMMA FewerActive ==
  ASSUME NEW q, NEW r, Policy(q), In(r, {"ACTIVE"}) \subseteq In(q, {"ACTIVE"})
  PROVE  Policy(r)
<1> DEFINE a == In(q, {"ACTIVE"})
           b == In(r, {"ACTIVE"})
<1>1. b \subseteq a /\ a \subseteq Missions /\ b \subseteq Missions /\ IsFiniteSet(a)
  BY QueueConstants, FS_Subset DEF In
<1>2. Cardinality(b) <= Cardinality(a) /\ {Cardinality(a), Cardinality(b)} \subseteq Nat
  BY <1>1, FS_Subset, FS_CardinalityType
<1>3. /\ Cpu \in [Missions -> Nat] /\ Gpu \in [Missions -> Nat]
      /\ {MaxConcurrent, CpuSlots, GpuSlots} \subseteq Nat
  BY QueueConstants
<1> HIDE DEF a, b
<1>4. ASSUME NEW demand \in [Missions -> Nat]
      PROVE  /\ Total(demand, b) <= Total(demand, a)
             /\ {Total(demand, a), Total(demand, b)} \subseteq Nat
  <2>1. Cardinality(Units(demand, b)) <= Cardinality(Units(demand, a))
    BY <1>1, UnitsOfFewer
  <2> QED BY <1>1, <2>1, TotalIs
<1>5. /\ Cardinality(a) <= MaxConcurrent
      /\ Total(Cpu, a) <= CpuSlots /\ Total(Gpu, a) <= GpuSlots
  BY DEF Policy, a
<1>6. /\ Cardinality(b) <= MaxConcurrent
      /\ Total(Cpu, b) <= CpuSlots /\ Total(Gpu, b) <= GpuSlots
  BY <1>2, <1>3, <1>4, <1>5
<1> QED BY <1>6 DEF Policy, b

(* The newest arrival.                                                     *)
LEMMA NewestIs ==
  ASSUME NEW T \in SUBSET Nat, IsFiniteSet(T), T # {} PROVE Max(T) \in Nat
<1> DEFINE R == {p \in Nat \X Nat : p[1] < p[2]}
<1>1. Ranks(R, T)
  BY DEF Ranks
<1>2. PICK n \in T : \A c \in T \ {n} : <<c, n>> \in R
  <2> HIDE DEF R
  <2> QED BY <1>1, LastRanked
<1>3. \A y \in T : n >= y
  <2>1. \A y \in T : y \in Nat /\ (y = n \/ <<y, n>> \in R)
    BY <1>2
  <2>2. \A y \in T : y = n \/ y < n
    BY <2>1
  <2> QED BY <2>1, <2>2
<1>4. Max(T) \in T
  BY <1>3 DEF Max
<1> QED BY <1>4

Ranking(q) ==
  {p \in Candidates(q) \X Candidates(q) : Before(q, p[1], p[2])}

(* The ranking of the candidates is total: sequence numbers break ties.    *)
LEMMA BeforeRanks ==
  ASSUME NEW q, Sound(q) PROVE Ranks(Ranking(q), Candidates(q))
<1> DEFINE C == Candidates(q)
           T == {q.seq[n] : n \in C}
<1>1. C \subseteq Missions /\ C \subseteq Known(q) /\ q.seq \in [Missions -> Nat]
  BY DEF Candidates, Known, In, Sound, Document
<1>2. \A m, n \in C : q.seq[m] \in Nat /\ (q.seq[m] = q.seq[n] => m = n)
  BY <1>1 DEF Sound
<1>3. ASSUME NEW m \in C PROVE Effective(q, m) \in Int
  <2>1. T \subseteq Nat /\ T # {}
    BY <1>2, <1>3
  <2>2. IsFiniteSet(T)
    <3> DEFINE f == [n \in C |-> q.seq[n]]
    <3>1. f \in Surjection(C, T)
      BY DEF Surjection
    <3>2. IsFiniteSet(C)
      BY <1>1, QueueConstants, FS_Subset
    <3> HIDE DEF f, T, C
    <3> QED BY <3>1, <3>2, FS_Surjection
  <2>3. Max(T) \in Nat
    <3> HIDE DEF T
    <3> QED BY <2>1, <2>2, NewestIs
  <2>4. Priority[m] \in Int /\ q.seq[m] \in Nat /\ MaxAgeBonus \in Nat
    BY <1>1, <1>3, QueueConstants
  <2>5. Effective(q, m) =
          Priority[m] + IF Max(T) - q.seq[m] < MaxAgeBonus
                        THEN Max(T) - q.seq[m] ELSE MaxAgeBonus
    BY DEF Effective
  <2> QED BY <2>3, <2>4, <2>5
<1> HIDE DEF C
<1>4. ASSUME NEW a \in C, NEW b \in C, NEW c \in C
      PROVE  /\ Before(q, a, b) /\ Before(q, b, c) => Before(q, a, c)
             /\ a # b => Before(q, a, b) \/ Before(q, b, a)
             /\ ~Before(q, a, a)
  BY <1>2, <1>3 DEF Before
<1>5. \A a, b \in C : <<a, b>> \in Ranking(q) <=> Before(q, a, b)
  BY DEF Ranking, C
<1>6. Ranks(Ranking(q), C)
  BY <1>4, <1>5 DEF Ranks
<1> QED BY <1>6 DEF C

(* What is selected fits beside what was active.                           *)
LEMMA SelectedWithin ==
  ASSUME NEW q, Sound(q), Policy(q), NEW down,
         NEW S \in SUBSET Candidates(q), Selects(q, down, S)
  PROVE  Policy(Decided(q, down, S))
<1> DEFINE A == In(q, {"ACTIVE"})
           R == Ranking(q)
<1>1. /\ A \subseteq Missions /\ S \subseteq Missions
      /\ IsFiniteSet(A) /\ IsFiniteSet(S)
  BY QueueConstants, FS_Subset DEF In, Candidates
<1>2. Ranks(R, S)
  BY BeforeRanks, RanksFewer
<1>3. \A m \in S : {n \in S : Before(q, n, m)} = Ahead(R, S, m)
  BY DEF Ahead, Ranking
<1>4. \A m \in S : Fits(q, Ahead(R, S, m), m)
  BY <1>3 DEF Selects
<1>5. /\ Cpu \in [Missions -> Nat] /\ Gpu \in [Missions -> Nat]
      /\ {MaxConcurrent, CpuSlots, GpuSlots} \subseteq Nat
  BY QueueConstants
<1>6. In(Decided(q, down, S), {"ACTIVE"}) \subseteq A \cup S
  BY DEF Sound, Document, Decided, In
<1> HIDE DEF R
<1>7. \A m \in S : /\ A \cup Ahead(R, S, m) \subseteq Missions
                   /\ Cardinality(A \cup Ahead(R, S, m)) < MaxConcurrent
                   /\ Total(Cpu, A \cup Ahead(R, S, m)) + Cpu[m] <= CpuSlots
                   /\ Gpu[m] > 0 =>
                        Total(Gpu, A \cup Ahead(R, S, m)) + Gpu[m] <= GpuSlots
  BY <1>1, <1>4 DEF Fits, Ahead
<1>8. /\ Cardinality(A) <= MaxConcurrent
      /\ Total(Cpu, A) <= CpuSlots /\ Total(Gpu, A) <= GpuSlots
  BY DEF Policy
<1> HIDE DEF A
<1>9. Cardinality(A \cup S) <= MaxConcurrent
  BY <1>1, <1>2, <1>5, <1>7, <1>8, EachInTurn
<1>10. ASSUME NEW demand \in [Missions -> Nat], NEW slots \in Nat,
              Total(demand, A) <= slots,
              \A m \in S : demand[m] > 0 =>
                Total(demand, A \cup Ahead(R, S, m)) + demand[m] <= slots
       PROVE  Total(demand, A \cup S) <= slots
  <2>1. \A m \in A \cup S : demand[m] \in Nat
    BY <1>1
  <2>2. Cardinality(Units(demand, A)) <= slots
    BY <1>1, <1>10, TotalIs
  <2>3. \A m \in S : demand[m] > 0 =>
          Cardinality(Units(demand, A \cup Ahead(R, S, m))) + demand[m] <= slots
    BY <1>7, <1>10, TotalIs
  <2>4. Cardinality(Units(demand, A \cup S)) <= slots
    BY <1>1, <1>2, <2>1, <2>2, <2>3, OneByOne
  <2> QED BY <1>1, <2>4, TotalIs
<1>11. Total(Cpu, A \cup S) <= CpuSlots
  BY <1>5, <1>7, <1>8, <1>10
<1>12. Total(Gpu, A \cup S) <= GpuSlots
  BY <1>5, <1>7, <1>8, <1>10
<1> DEFINE r == [state |-> [m \in Missions |-> IF m \in A \cup S THEN "ACTIVE" ELSE "DONE"]]
<1>13. In(r, {"ACTIVE"}) = A \cup S
  BY <1>1 DEF In
<1>14. Policy(r)
  <2> HIDE DEF r
  <2> QED BY <1>9, <1>11, <1>12, <1>13 DEF Policy
<1> QED BY <1>6, <1>13, <1>14, FewerActive DEF A

LEMMA EmptyWithin == Policy(Empty)
<1>1. In(Empty, {"ACTIVE"}) = {}
  BY DEF In, Empty
<1>2. Cardinality({}) = 0
  BY FS_EmptySet
<1>3. \A demand \in [Missions -> Nat] : Total(demand, {}) = 0
  <2> SUFFICES ASSUME NEW demand \in [Missions -> Nat] PROVE Total(demand, {}) = 0
    OBVIOUS
  <2>1. Units(demand, {}) = {}
    BY DEF Units
  <2> QED BY <1>2, <2>1, TotalIs
<1>4. /\ Cardinality({}) <= MaxConcurrent
      /\ Total(Cpu, {}) <= CpuSlots /\ Total(Gpu, {}) <= GpuSlots
  BY <1>2, <1>3, QueueConstants
<1> QED BY <1>1, <1>4 DEF Policy

(* What a tool holds is replaced by a document that keeps to the policy.   *)
LEMMA KeepWithin ==
  ASSUME AllSound, AllWithin, NEW t \in Tools, NEW q, Policy(q), Keep(t, q)
  PROVE  \A u \in Tools : Policy(mem'[u])
BY DEF AllSound, AllWithin, Keep

LEMMA NextKeepsWithin ==
  ASSUME "ACTIVE" \notin Marks, AllSound, AllWithin, [Next]_vars
  PROVE  AllWithin'
<1>1. ASSUME NEW t \in Tools, NEW command \in Commands, NEW m \in Missions,
             Load(t, command, m)
      PROVE  AllWithin'
  <2>1. Policy(Applied(queue, command, m)) /\ queue' = queue
    BY <1>1, AppliedActive, FewerActive DEF Load, AllSound, AllWithin
  <2> QED BY <1>1, <2>1, KeepWithin DEF Load, AllWithin
<1>2. ASSUME NEW t \in Tools, NEW m \in Missions,
             NEW outcome \in Marks, Mark(t, m, outcome)
      PROVE  AllWithin'
  <2>1. Policy(Become(queue, m, outcome)) /\ queue' = queue
    BY <1>2, MarkActive, FewerActive DEF Mark, AllSound, AllWithin
  <2> QED BY <1>2, <2>1, KeepWithin DEF Mark, AllWithin
<1>3. ASSUME NEW t \in Tools, Save(t) PROVE AllWithin'
  BY <1>3, EmptyWithin, KeepWithin DEF Save, Replace, Leave, AllWithin
<1>4. ASSUME NEW t \in Tools, ScheduleLoad(t) PROVE AllWithin'
  BY <1>4, KeepWithin DEF ScheduleLoad, AllWithin
<1>5. ASSUME NEW t \in Tools, ScheduleSync(t) PROVE AllWithin'
  <2>1. In(Synced(mem[t]), {"ACTIVE"}) \subseteq In(mem[t], {"ACTIVE"})
    BY DEF AllSound, Sound, Document, Synced, In
  <2>2. Policy(Synced(mem[t])) /\ mem'[t] = Synced(mem[t])
    BY <1>5, <2>1, FewerActive DEF ScheduleSync, AllSound, AllWithin, Keep
  <2> QED BY <1>5, <2>2, KeepWithin DEF ScheduleSync, Replace, AllWithin
<1>6. ASSUME NEW t \in Tools, ScheduleSave(t) PROVE AllWithin'
  <2>1. Policy(queue')
    BY <1>6, SelectedWithin DEF ScheduleSave, Replace, AllSound, AllWithin
  <2> QED BY <1>6, <2>1, EmptyWithin, KeepWithin DEF ScheduleSave, AllWithin
<1>7. ASSUME NEW t \in Tools, ScheduleRecord(t) PROVE AllWithin'
  BY <1>7, EmptyWithin, KeepWithin DEF ScheduleRecord, Leave, AllWithin
<1>8. ASSUME NEW t \in Tools, Dispatch(t) PROVE AllWithin'
  BY <1>8, EmptyWithin, KeepWithin DEF Dispatch, Leave, AllWithin
<1>9. ASSUME NEW t \in Tools, Crash(t) PROVE AllWithin'
  BY <1>9, EmptyWithin, KeepWithin DEF Crash, Leave, AllWithin
<1>10. ASSUME NEW m \in Missions, NEW readiness \in Readiness,
              Finish(m, readiness)
       PROVE  AllWithin'
  BY <1>10 DEF Finish, local, AllWithin
<1>11. CASE UNCHANGED vars
  BY <1>11 DEF vars, local, AllWithin
<1> QED
  BY <1>1, <1>2, <1>3, <1>4, <1>5, <1>6, <1>7, <1>8, <1>9, <1>10, <1>11
  DEF Next, Begin, Step

(* The active missions of queue.json never exceed the policy, for any      *)
(* missions, demands and number of tools, however these overlap and die    *)
(* (platform/queue.py, schedule_once), as long as no caller of mark_state  *)
(* makes a mission active by itself.                                       *)
THEOREM PolicyKept ==
  ASSUME "ACTIVE" \notin Marks PROVE Spec => []WithinPolicy
<1>1. Init => AllWithin
  BY EmptyWithin DEF Init, AllWithin
<1>2. AllSound /\ AllWithin /\ [Next]_vars => AllWithin'
  BY NextKeepsWithin
<1>3. AllWithin => WithinPolicy
  BY DEF AllWithin, Policy, WithinPolicy
<1> QED BY <1>1, <1>2, <1>3, DocumentsSound, PTL DEF Spec
=============================================================================
