----------------------------- MODULE RunsProofs -----------------------------
(***************************************************************************)
(* Proofs about the orchestrator, for every number of jobs and tools,      *)
(* every capacity, queue size, closed-document size and attempts limit:    *)
(* first about the operations as atomic steps (Runs), then about the tools *)
(* that perform them file by file and may die (RunsFiles), and that these  *)
(* implement those (RunsRefinement).                                       *)
(***************************************************************************)
EXTENDS RunsRefinement, TLAPS, FiniteSetTheorems

VARIABLE pass   \* of Runs; the files keep no trace of it

Atomic == INSTANCE Runs

-----------------------------------------------------------------------------
(* The helpers on the documents. *)

(* A bounded append keeps the bound, ends in the new record and otherwise  *)
(* holds old records, shifted by d (append_closed_record, store.py).       *)
LEMMA AppendClosedFacts ==
  ASSUME NEW c \in Seq(ClosedRecord), Len(c) <= MaxClosedRecords,
         NEW r \in ClosedRecord
  PROVE  LET a == AppendClosed(c, r)
             d == Len(c) + 1 - Len(a)
         IN  /\ a \in Seq(ClosedRecord)
             /\ Len(a) \in 1..MaxClosedRecords
             /\ a[Len(a)] = r
             /\ d \in {0, 1}
             /\ \A i \in 1..(Len(a) - 1) : i + d \in DOMAIN c /\ a[i] = c[i + d]
<1>1. CASE Len(c) < MaxClosedRecords
  BY <1>1, StoreConstants DEF AppendClosed
<1>2. CASE ~(Len(c) < MaxClosedRecords)
  <2>1. Len(c) = MaxClosedRecords /\ Len(c) >= 1 /\ c # <<>>
    BY <1>2, StoreConstants
  <2>2. /\ Tail(c) \in Seq(ClosedRecord) /\ Len(Tail(c)) = Len(c) - 1
        /\ \A i \in 1..(Len(c) - 1) : Tail(c)[i] = c[i + 1]
    BY <2>1
  <2> QED
    BY <1>2, <2>1, <2>2, StoreConstants DEF AppendClosed
<1> QED
  BY <1>1, <1>2

(* Enqueueing adds an entry of the right type with a new sequence number.  *)
LEMMA EnqueueType ==
  ASSUME NEW q \in QueueDoc, IsFiniteSet(q.entries), NEW j \in Jobs,
         NEW max \in 1..MaxAttemptsLimit, NEW attempts \in Nat,
         NEW spec \in BOOLEAN
  PROVE  /\ Enqueue(q, j, max, attempts, spec) \in QueueDoc
         /\ IsFiniteSet(Enqueue(q, j, max, attempts, spec).entries)
<1> DEFINE e == [job |-> j, seq |-> q.seq + 1, attempts |-> attempts,
                 max |-> max, spec |-> spec]
<1>1. e \in QueueEntry
  BY StoreConstants DEF QueueEntry, QueueDoc
<1>2. IsFiniteSet(q.entries \cup {e})
  BY FS_AddElement
<1> QED
  BY <1>1, <1>2 DEF Enqueue, QueueDoc

-----------------------------------------------------------------------------
(* The atomic operations, in the words of RunsStore. *)

LEMMA SameSize ==
  ASSUME NEW S
  PROVE  /\ Atomic!Cardinality(S) = Cardinality(S)
         /\ Promise!Cardinality(S) = Cardinality(S)
BY DEF Atomic!Cardinality, Promise!Cardinality, Cardinality

LEMMA SameFinite ==
  ASSUME NEW S
  PROVE  Atomic!IsFiniteSet(S) <=> IsFiniteSet(S)
BY DEF Atomic!IsFiniteSet, IsFiniteSet

LEMMA SubmitDoes ==
  ASSUME NEW j, NEW max, Atomic!Submit(j, max)
  PROVE  /\ pass = {} /\ pass' = pass
         /\ Enqueueable(queue, j, JobsOf(active))
         /\ queue' = Enqueue(queue, j, max, 0, TRUE)
         /\ spent' = [spent EXCEPT ![j] = 0]
         /\ UNCHANGED <<active, closed, live, lastPid>>
BY SameSize DEF Atomic!Submit, Atomic!Alone, Atomic!Enqueueable, Enqueueable,
       Atomic!JobsOf, JobsOf, Atomic!Enqueue, Enqueue

LEMMA StartDoes ==
  ASSUME NEW e, Atomic!Start(e)
  PROVE  /\ pass = {} /\ pass' = pass /\ Room(queue, active)
         /\ lastPid' = lastPid + 1
         /\ live' = live \cup {[job |-> e.job, pid |-> lastPid']}
         /\ active' = WithRecord(active, Started(e, lastPid'))
         /\ queue' = Remove(queue, e)
         /\ spent' = [spent EXCEPT ![e.job] = @ + 1]
         /\ UNCHANGED closed
BY SameSize DEF Atomic!Start, Atomic!Alone, Atomic!Room, Room, Atomic!JobsOf, JobsOf,
       Atomic!WithRecord, WithRecord, Atomic!Started, Started, Atomic!Remove, Remove

LEMMA ReapDoes ==
  ASSUME NEW r, NEW t, Atomic!Reap(r, t) \/ Atomic!ReapCut(r, t)
  PROVE  /\ r \notin pass /\ r.pid \notin LivePids
         /\ closed' = AppendClosed(closed, Closing(r, t))
         /\ UNCHANGED <<active, live, lastPid, spent>>
         /\ \/ /\ ~WillRequeue(r, t) /\ queue' = queue /\ pass' = pass \cup {r}
            \/ /\ WillRequeue(r, t) /\ Enqueueable(queue, r.job, {})
               /\ queue' = Requeue(queue, r) /\ pass' = pass \cup {r}
            \/ queue' = queue /\ pass' = {}
<1> USE DEF Atomic!LivePids, LivePids, Atomic!AppendClosed, AppendClosed,
            Atomic!Closing, Closing, Atomic!WillRequeue, WillRequeue
<1>1. CASE Atomic!Reap(r, t)
  BY <1>1, SameSize DEF Atomic!Reap, Atomic!Enqueueable, Enqueueable, Atomic!JobsOf, JobsOf,
              Atomic!Requeue, Requeue, Atomic!Enqueue, Enqueue
<1>2. CASE Atomic!ReapCut(r, t)
  BY <1>2 DEF Atomic!ReapCut
<1> QED
  BY <1>1, <1>2

LEMMA EndsDoes ==
  ASSUME Atomic!ReapEnds
  PROVE  /\ active' = active \ pass /\ pass' = {}
         /\ UNCHANGED <<queue, closed, live, lastPid, spent>>
BY DEF Atomic!ReapEnds

LEMMA CancelDoes ==
  ASSUME NEW r, Atomic!Cancel(r)
  PROVE  /\ pass = {} /\ pass' = pass
         /\ live' = {p \in live : p.pid # r.pid}
         /\ closed' = AppendClosed(closed, Closing(r, "cancelled"))
         /\ active' = active \ {r}
         /\ UNCHANGED <<queue, lastPid, spent>>
BY DEF Atomic!Cancel, Atomic!Alone, Atomic!AppendClosed, AppendClosed,
       Atomic!Closing, Closing

LEMMA ExitDoes ==
  ASSUME NEW p, Atomic!Exit(p)
  PROVE  /\ live' = live \ {p}
         /\ UNCHANGED <<queue, active, closed, lastPid, spent, pass>>
BY DEF Atomic!Exit

(* The documents' types, in the words of RunsStore. *)
LEMMA TypeIs ==
  Atomic!TypeOK <=> /\ queue \in QueueDoc /\ IsFiniteSet(queue.entries)
                    /\ active \in SUBSET ActiveRecord /\ IsFiniteSet(active)
                    /\ closed \in Seq(ClosedRecord) /\ Len(closed) <= MaxClosedRecords
                    /\ live \in SUBSET Process
                    /\ lastPid \in Nat
                    /\ spent \in [Jobs -> Nat]
                    /\ pass \in SUBSET active
BY SameFinite DEF Atomic!TypeOK, Atomic!QueueDoc, QueueDoc, Atomic!QueueEntry, QueueEntry,
       Atomic!ActiveRecord, ActiveRecord, Atomic!ClosedRecord, ClosedRecord,
       Atomic!Terminals, Terminals, Atomic!Process, Process

-----------------------------------------------------------------------------
(* Typing of the atomic orchestrator. *)

(* TypeOK: the documents stay well-formed, finite and bounded through      *)
(* every operation of the orchestrator.                                    *)
THEOREM TypeCorrect == Atomic!Spec => []Atomic!TypeOK
<1>1. Atomic!Init => Atomic!TypeOK
  <2> SUFFICES ASSUME Atomic!Init PROVE Atomic!TypeOK
    OBVIOUS
  <2>1. /\ queue = EmptyQueue /\ active = {} /\ closed = <<>> /\ live = {}
        /\ lastPid = 0 /\ spent = [j \in Jobs |-> 0] /\ pass = {}
    BY DEF Atomic!Init, Atomic!EmptyQueue, EmptyQueue
  <2>2. IsFiniteSet({})
    BY FS_EmptySet
  <2> QED
    BY <2>1, <2>2, TypeIs, StoreConstants DEF EmptyQueue, QueueDoc
<1>2. Atomic!TypeOK /\ [Atomic!Next]_Atomic!vars => Atomic!TypeOK'
  <2> SUFFICES ASSUME Atomic!TypeOK, [Atomic!Next]_Atomic!vars
               PROVE  /\ queue' \in QueueDoc /\ IsFiniteSet(queue'.entries)
                      /\ active' \in SUBSET ActiveRecord /\ IsFiniteSet(active')
                      /\ closed' \in Seq(ClosedRecord) /\ Len(closed') <= MaxClosedRecords
                      /\ live' \in SUBSET Process
                      /\ lastPid' \in Nat
                      /\ spent' \in [Jobs -> Nat]
                      /\ pass' \in SUBSET active'
    BY SameFinite DEF Atomic!TypeOK, Atomic!QueueDoc, QueueDoc, Atomic!QueueEntry, QueueEntry,
       Atomic!ActiveRecord, ActiveRecord, Atomic!ClosedRecord, ClosedRecord,
       Atomic!Terminals, Terminals, Atomic!Process, Process
  <2> DEFINE Good ==
        /\ queue' \in QueueDoc /\ IsFiniteSet(queue'.entries)
        /\ active' \in SUBSET ActiveRecord /\ IsFiniteSet(active')
        /\ closed' \in Seq(ClosedRecord) /\ Len(closed') <= MaxClosedRecords
        /\ live' \in SUBSET Process
        /\ lastPid' \in Nat
        /\ spent' \in [Jobs -> Nat]
        /\ pass' \in SUBSET active'
  <2> SUFFICES Good
    OBVIOUS
  <2> HIDE DEF Good
  <2>0. /\ queue \in QueueDoc /\ IsFiniteSet(queue.entries)
        /\ active \in SUBSET ActiveRecord /\ IsFiniteSet(active)
        /\ closed \in Seq(ClosedRecord) /\ Len(closed) <= MaxClosedRecords
        /\ live \in SUBSET Process
        /\ lastPid \in Nat
        /\ spent \in [Jobs -> Nat]
        /\ pass \in SUBSET active
    BY TypeIs
  <2>1. ASSUME NEW j \in Jobs, NEW max \in 1..MaxAttemptsLimit, Atomic!Submit(j, max)
        PROVE  Good
    <3>1. /\ queue' = Enqueue(queue, j, max, 0, TRUE)
          /\ spent' = [spent EXCEPT ![j] = 0] /\ pass' = pass
          /\ UNCHANGED <<active, closed, live, lastPid>>
      BY <2>1, SubmitDoes
    <3>2. queue' \in QueueDoc /\ IsFiniteSet(queue'.entries)
      BY <2>0, <3>1, EnqueueType
    <3> QED
      BY <2>0, <3>1, <3>2 DEF Good
  <2>2. ASSUME NEW e \in queue.entries, Atomic!Start(e) PROVE Good
    <3>0. /\ lastPid' = lastPid + 1 /\ pass = {} /\ pass' = pass /\ closed' = closed
          /\ live' = live \cup {[job |-> e.job, pid |-> lastPid']}
          /\ active' = WithRecord(active, Started(e, lastPid'))
          /\ queue' = Remove(queue, e)
          /\ spent' = [spent EXCEPT ![e.job] = @ + 1]
      BY <2>2, StartDoes
    <3>1. e \in QueueEntry /\ lastPid' \in Nat
      BY <2>0, <2>2, <3>0 DEF QueueDoc
    <3>2. queue' \in QueueDoc /\ IsFiniteSet(queue'.entries)
      <4>1. IsFiniteSet(queue.entries \ {e})
        BY <2>0, FS_RemoveElement
      <4> QED
        BY <2>0, <3>0, <4>1 DEF Remove, QueueDoc
    <3>3. Started(e, lastPid') \in ActiveRecord
      BY <3>1, StoreConstants DEF Started, ActiveRecord, QueueEntry
    <3>4. active' \in SUBSET ActiveRecord /\ IsFiniteSet(active')
      <4>1. IsFiniteSet({s \in active : s.job # Started(e, lastPid').job})
        BY <2>0, FS_Subset
      <4> QED
        BY <2>0, <3>0, <3>3, <4>1, FS_AddElement DEF WithRecord
    <3>5. live' \in SUBSET Process
      BY <2>0, <3>0, <3>1 DEF Process, QueueEntry
    <3>6. spent' \in [Jobs -> Nat]
      BY <2>0, <3>0, <3>1 DEF QueueEntry
    <3> QED
      BY <2>0, <3>0, <3>1, <3>2, <3>4, <3>5, <3>6 DEF Good
  <2>3. ASSUME NEW p \in live, Atomic!Exit(p) PROVE Good
    BY <2>0, <2>3, ExitDoes DEF Good
  <2>4. ASSUME NEW r \in active, NEW t \in {"done", "failed", "crashed"},
               Atomic!Reap(r, t) \/ Atomic!ReapCut(r, t)
        PROVE  Good
    <3>1. r \in ActiveRecord /\ Closing(r, t) \in ClosedRecord
      BY <2>0 DEF Closing, ActiveRecord, ClosedRecord, Terminals
    <3>2. closed' \in Seq(ClosedRecord) /\ Len(closed') <= MaxClosedRecords
      <4>1. closed' = AppendClosed(closed, Closing(r, t))
        BY <2>4, ReapDoes
      <4> QED
        BY <2>0, <3>1, <4>1, AppendClosedFacts, StoreConstants
    <3>3. queue' \in QueueDoc /\ IsFiniteSet(queue'.entries)
      <4>1. /\ r.job \in Jobs /\ r.max \in 1..MaxAttemptsLimit
            /\ r.attempts \in Nat
        BY <3>1 DEF ActiveRecord
      <4>2. /\ Requeue(queue, r) \in QueueDoc
            /\ IsFiniteSet(Requeue(queue, r).entries)
        BY <2>0, <4>1, EnqueueType DEF Requeue
      <4> QED
        BY <2>0, <2>4, <4>2, ReapDoes
    <3> QED
      BY <2>0, <2>4, <3>2, <3>3, ReapDoes DEF Good
  <2>5. CASE Atomic!ReapEnds
    <3>1. active' = active \ pass /\ pass' = {} /\ UNCHANGED <<queue, closed, live, lastPid, spent>>
      BY <2>5, EndsDoes
    <3>2. active \ pass \in SUBSET active /\ IsFiniteSet(active \ pass)
      BY <2>0, FS_Subset
    <3> QED
      BY <2>0, <3>1, <3>2 DEF Good
  <2>6. ASSUME NEW r \in active, Atomic!Cancel(r) PROVE Good
    <3>1. Closing(r, "cancelled") \in ClosedRecord
      BY <2>0 DEF Closing, ActiveRecord, ClosedRecord, Terminals
    <3>2. closed' \in Seq(ClosedRecord) /\ Len(closed') <= MaxClosedRecords
      <4>1. closed' = AppendClosed(closed, Closing(r, "cancelled"))
        BY <2>6, CancelDoes
      <4> QED
        BY <2>0, <3>1, <4>1, AppendClosedFacts, StoreConstants
    <3>3. active' \in SUBSET ActiveRecord /\ IsFiniteSet(active')
      BY <2>0, <2>6, FS_RemoveElement, CancelDoes
    <3> QED
      BY <2>0, <2>6, <3>2, <3>3, CancelDoes DEF Good
  <2>7. CASE UNCHANGED Atomic!vars
    BY <2>0, <2>7 DEF Atomic!vars, Good
  <2> QED
    BY <2>1, <2>2, <2>3, <2>4, <2>5, <2>6, <2>7 DEF Atomic!Next
<1> QED
  BY <1>1, <1>2, PTL DEF Atomic!Spec

-----------------------------------------------------------------------------
(* Identities, attempts and sequence numbers. *)

(* The inductive invariant, next to TypeOK.  OneHome makes the budget of an *)
(* entry and that of a record the same job's, so that Budget survives a     *)
(* start; SeqUnique needs every number handed out to lie below queue.seq;   *)
(* the dead stay dead because processes are numbered.                       *)
Numbered ==
  /\ \A r \in active : r.pid <= lastPid
  /\ \A r \in pass : r.pid \notin LivePids

IInv == Atomic!OneHome /\ Atomic!Budget /\ Atomic!SeqUnique /\ Numbered

(* The fields of the documents' records, for the arithmetic below.         *)
LEMMA FieldTypes ==
  ASSUME Atomic!TypeOK
  PROVE  /\ queue.seq \in Nat
         /\ \A e \in queue.entries :
              /\ e.job \in Jobs /\ e.seq \in Nat /\ e.attempts \in Nat
              /\ e.max \in 1..MaxAttemptsLimit
         /\ \A r \in active :
              /\ r.job \in Jobs /\ r.seq \in Nat /\ r.attempts \in Nat
              /\ r.max \in 1..MaxAttemptsLimit /\ r.pid \in Nat
         /\ \A i \in DOMAIN closed : closed[i].seq \in Nat
<1>1. queue.seq \in Nat /\ queue.entries \subseteq QueueEntry
  BY TypeIs DEF QueueDoc
<1>2. active \subseteq ActiveRecord
  BY TypeIs
<1>3. \A i \in DOMAIN closed : closed[i] \in ClosedRecord
  BY TypeIs
<1>4. \A c \in ClosedRecord : c.seq \in Nat
  BY DEF ClosedRecord
<1>5. \A e \in QueueEntry :
        /\ e.job \in Jobs /\ e.seq \in Nat /\ e.attempts \in Nat
        /\ e.max \in 1..MaxAttemptsLimit
  BY DEF QueueEntry
<1>6. \A r \in ActiveRecord :
        /\ r.job \in Jobs /\ r.seq \in Nat /\ r.attempts \in Nat
        /\ r.max \in 1..MaxAttemptsLimit /\ r.pid \in Nat
  BY DEF ActiveRecord
<1> QED
  BY <1>1, <1>2, <1>3, <1>4, <1>5, <1>6

(* A start replaces no record: admission found the entry's job inactive.   *)
LEMMA StartAddsRecord ==
  ASSUME NEW e \in queue.entries, Atomic!Start(e)
  PROVE  /\ active' = active \cup {Started(e, lastPid')}
         /\ \A r \in active : r.job # e.job
BY StartDoes DEF Room, WithRecord, Started, JobsOf

(* Closing a record gives closed.json its number, job and attempts, and    *)
(* nothing else that was not there.                                        *)
LEMMA ClosingKeepsSeqs ==
  ASSUME Atomic!TypeOK, Atomic!SeqUnique, NEW r \in active, NEW t \in Terminals,
         closed' = AppendClosed(closed, Closing(r, t))
  PROVE  \A i \in DOMAIN closed' :
           /\ closed'[i].seq \in Nat /\ closed'[i].seq <= queue.seq
           /\ \A k \in DOMAIN closed' : closed'[i].seq = closed'[k].seq =>
                closed'[i].job = closed'[k].job /\ closed'[i].attempts = closed'[k].attempts
           /\ \A e \in queue.entries : closed'[i].seq # e.seq
           /\ \A s \in active : closed'[i].seq = s.seq =>
                closed'[i].job = s.job /\ closed'[i].attempts = s.attempts
<1> DEFINE c == Closing(r, t)
           d == Len(closed) + 1 - Len(closed')
<1>1. /\ c \in ClosedRecord
      /\ c.seq = r.seq /\ c.job = r.job /\ c.attempts = r.attempts
  BY TypeIs DEF Closing, ActiveRecord, ClosedRecord
<1>2. closed \in Seq(ClosedRecord) /\ Len(closed) <= MaxClosedRecords
  BY TypeIs
<1>3. /\ closed' \in Seq(ClosedRecord)
      /\ closed'[Len(closed')] = c
      /\ d \in {0, 1}
      /\ \A i \in 1..(Len(closed') - 1) :
           i + d \in DOMAIN closed /\ closed'[i] = closed[i + d]
  BY <1>1, <1>2, AppendClosedFacts
<1>4. DOMAIN closed' = 1..Len(closed') /\ Len(closed') \in Nat
  BY <1>3
<1> HIDE DEF c, d
<1>5. \A i \in DOMAIN closed' :
        \/ /\ closed'[i].seq = r.seq /\ closed'[i].job = r.job
           /\ closed'[i].attempts = r.attempts
        \/ \E k \in DOMAIN closed : closed'[i] = closed[k]
  BY <1>1, <1>3, <1>4
<1>6. /\ \A s \in active : s.seq = r.seq => s = r
      /\ \A e \in queue.entries : e.seq # r.seq
      /\ r.seq \in Nat /\ r.seq <= queue.seq
      /\ \A k \in DOMAIN closed :
           /\ closed[k].seq = r.seq =>
                closed[k].job = r.job /\ closed[k].attempts = r.attempts
           /\ closed[k].seq \in Nat /\ closed[k].seq <= queue.seq
           /\ \A l \in DOMAIN closed : closed[k].seq = closed[l].seq =>
                closed[k].job = closed[l].job /\ closed[k].attempts = closed[l].attempts
           /\ \A e \in queue.entries : closed[k].seq # e.seq
           /\ \A s \in active : closed[k].seq = s.seq =>
                closed[k].job = s.job /\ closed[k].attempts = s.attempts
  BY FieldTypes DEF Atomic!SeqUnique
<1> SUFFICES ASSUME NEW i \in DOMAIN closed'
             PROVE  /\ closed'[i].seq \in Nat /\ closed'[i].seq <= queue.seq
                    /\ \A k \in DOMAIN closed' : closed'[i].seq = closed'[k].seq =>
                         /\ closed'[i].job = closed'[k].job
                         /\ closed'[i].attempts = closed'[k].attempts
                    /\ \A e \in queue.entries : closed'[i].seq # e.seq
                    /\ \A s \in active : closed'[i].seq = s.seq =>
                         closed'[i].job = s.job /\ closed'[i].attempts = s.attempts
  OBVIOUS
<1>7. CASE closed'[i].seq = r.seq /\ closed'[i].job = r.job /\ closed'[i].attempts = r.attempts
  BY <1>5, <1>6, <1>7
<1>8. CASE \E k \in DOMAIN closed : closed'[i] = closed[k]
  BY <1>5, <1>6, <1>8
<1> QED
  BY <1>5, <1>7, <1>8

-----------------------------------------------------------------------------
(* IInv, action by action. *)

LEMMA SubmitKeeps ==
  ASSUME Atomic!TypeOK, IInv, NEW j \in Jobs, NEW max \in 1..MaxAttemptsLimit,
         Atomic!Submit(j, max)
  PROVE  IInv'
<1> DEFINE e == [job |-> j, seq |-> queue.seq + 1, attempts |-> 0,
                 max |-> max, spec |-> TRUE]
<1>1. /\ queue'.entries = queue.entries \cup {e} /\ queue'.seq = queue.seq + 1
      /\ active' = active /\ closed' = closed /\ live' = live
      /\ lastPid' = lastPid /\ pass' = pass
      /\ spent' = [spent EXCEPT ![j] = 0]
  BY SubmitDoes DEF Enqueue
<1>2. /\ \A f \in queue.entries : f.job # j
      /\ \A r \in active : r.job # j
  <2>1. Enqueueable(queue, j, JobsOf(active))
    BY SubmitDoes
  <2> QED
    BY <2>1 DEF Enqueueable, JobsOf
<1>3. e.job = j /\ e.seq = queue.seq + 1 /\ e.attempts = 0 /\ e.max = max
  OBVIOUS
<1> HIDE DEF e
<1>4. Atomic!OneHome'
  BY <1>1, <1>2, <1>3 DEF IInv, Atomic!OneHome, Atomic!LivePids
<1>5. Atomic!Budget'
  BY <1>1, <1>2, <1>3, FieldTypes, TypeIs, StoreConstants DEF IInv, Atomic!Budget
<1>6. Atomic!SeqUnique'
  BY <1>1, <1>3, FieldTypes DEF IInv, Atomic!SeqUnique
<1>7. Numbered'
  BY <1>1 DEF IInv, Numbered, LivePids
<1> QED
  BY <1>4, <1>5, <1>6, <1>7 DEF IInv

LEMMA StartKeeps ==
  ASSUME Atomic!TypeOK, IInv, NEW e \in queue.entries, Atomic!Start(e)
  PROVE  IInv'
<1> DEFINE r == Started(e, lastPid')
           p == [job |-> e.job, pid |-> lastPid']
<1>1. /\ queue'.entries = queue.entries \ {e} /\ queue'.seq = queue.seq
      /\ active' = active \cup {r} /\ closed' = closed
      /\ live' = live \cup {p} /\ lastPid' = lastPid + 1
      /\ pass = {} /\ pass' = {}
      /\ spent' = [spent EXCEPT ![e.job] = @ + 1]
  BY StartAddsRecord, StartDoes, TypeIs DEF Remove, QueueDoc
<1>2. \A s \in active : s.job # e.job
  BY StartAddsRecord
<1>3. /\ r.job = e.job /\ r.seq = e.seq /\ r.attempts = e.attempts + 1
      /\ r.max = e.max /\ r.pid = lastPid' /\ p.pid = lastPid'
  BY DEF Started
<1>p. lastPid \in Nat
  BY TypeIs
<1> HIDE DEF r, p
<1>4. Atomic!OneHome'
  <2>1. \A f \in queue'.entries : f.job # e.job
    BY <1>1 DEF IInv, Atomic!OneHome
  <2>2. \A s \in active : s.pid \notin LivePids => s.pid \notin LivePids'
    BY <1>1, <1>3, <1>p, FieldTypes DEF IInv, Numbered, LivePids
  <2> QED
    BY <1>1, <1>2, <1>3, <2>1, <2>2 DEF IInv, Atomic!OneHome, Atomic!LivePids, LivePids
<1>5. Atomic!Budget'
  <2>1. \A f \in queue'.entries : f.job # e.job
    BY <1>1 DEF IInv, Atomic!OneHome
  <2>2. spent'[e.job] = e.attempts + 1 /\ e.attempts < e.max
    BY <1>1, FieldTypes, TypeIs DEF IInv, Atomic!Budget
  <2>3. \A j \in Jobs : j # e.job => spent'[j] = spent[j]
    BY <1>1, TypeIs
  <2> QED
    BY <1>1, <1>2, <1>3, <2>1, <2>2, <2>3, FieldTypes DEF IInv, Atomic!Budget
<1>6. Atomic!SeqUnique'
  BY <1>1, <1>3 DEF IInv, Atomic!SeqUnique
<1>7. Numbered'
  BY <1>1, <1>3, <1>p, FieldTypes DEF IInv, Numbered
<1> QED
  BY <1>4, <1>5, <1>6, <1>7 DEF IInv

LEMMA ReapKeeps ==
  ASSUME Atomic!TypeOK, IInv, NEW r \in active,
         NEW t \in {"done", "failed", "crashed"}, Atomic!Reap(r, t) \/ Atomic!ReapCut(r, t)
  PROVE  IInv'
<1>1. /\ closed' = AppendClosed(closed, Closing(r, t))
      /\ active' = active /\ spent' = spent /\ live' = live /\ lastPid' = lastPid
      /\ r.pid \notin LivePids
      /\ pass' = pass \cup {r} \/ pass' = {}
  BY ReapDoes
<1>2. \A i \in DOMAIN closed' :
        /\ closed'[i].seq \in Nat /\ closed'[i].seq <= queue.seq
        /\ \A k \in DOMAIN closed' : closed'[i].seq = closed'[k].seq =>
             closed'[i].job = closed'[k].job /\ closed'[i].attempts = closed'[k].attempts
        /\ \A e \in queue.entries : closed'[i].seq # e.seq
        /\ \A s \in active : closed'[i].seq = s.seq =>
             closed'[i].job = s.job /\ closed'[i].attempts = s.attempts
  BY <1>1, ClosingKeepsSeqs DEF IInv, Terminals
<1>3. Numbered'
  BY <1>1 DEF IInv, Numbered, LivePids
<1>4. CASE queue' = queue
  <2>1. Atomic!SeqUnique'
    BY <1>1, <1>2, <1>4 DEF IInv, Atomic!SeqUnique
  <2>2. Atomic!OneHome' /\ Atomic!Budget'
    BY <1>1, <1>4 DEF IInv, Atomic!OneHome, Atomic!LivePids, Atomic!Budget
  <2> QED
    BY <1>3, <2>1, <2>2 DEF IInv
<1>5. CASE queue' # queue
  <2> DEFINE e == [job |-> r.job, seq |-> queue.seq + 1,
                   attempts |-> r.attempts, max |-> r.max, spec |-> FALSE]
  <2>1. queue'.entries = queue.entries \cup {e} /\ queue'.seq = queue.seq + 1
    BY <1>5, ReapDoes DEF Requeue, Enqueue
  <2>2. /\ e.job = r.job /\ e.seq = queue.seq + 1 /\ e.attempts = r.attempts
        /\ e.max = r.max /\ e.spec = FALSE
    OBVIOUS
  <2>3. /\ r.attempts < r.max
        /\ \A f \in queue.entries : f.job # r.job
    BY <1>5, ReapDoes DEF WillRequeue, Enqueueable, JobsOf
  <2> HIDE DEF e
  <2>4. Atomic!OneHome'
    BY <1>1, <2>1, <2>2, <2>3 DEF IInv, Atomic!OneHome, Atomic!LivePids, LivePids
  <2>5. Atomic!Budget'
    BY <1>1, <2>1, <2>2, <2>3 DEF IInv, Atomic!Budget
  <2>6. Atomic!SeqUnique'
    <3>1. \A i \in DOMAIN closed' :
            /\ closed'[i].seq <= queue'.seq
            /\ \A f \in queue'.entries : closed'[i].seq # f.seq
      BY <1>2, <2>1, <2>2, FieldTypes
    <3>2. /\ \A f, g \in queue'.entries : f.seq = g.seq => f = g
          /\ \A f \in queue'.entries, s \in active' : f.seq # s.seq
          /\ \A f \in queue'.entries : f.seq <= queue'.seq
          /\ \A s \in active' : s.seq <= queue'.seq
      BY <1>1, <2>1, <2>2, FieldTypes DEF IInv, Atomic!SeqUnique
    <3> QED
      BY <1>1, <1>2, <3>1, <3>2 DEF IInv, Atomic!SeqUnique
  <2> QED
    BY <1>3, <2>4, <2>5, <2>6 DEF IInv
<1> QED
  BY <1>4, <1>5

LEMMA EndsKeeps ==
  ASSUME Atomic!TypeOK, IInv, Atomic!ReapEnds
  PROVE  IInv'
<1>1. /\ active' \subseteq active /\ pass' = {}
      /\ UNCHANGED <<queue, closed, live, lastPid, spent>>
  BY EndsDoes
<1> QED
  BY <1>1 DEF IInv, Atomic!OneHome, Atomic!LivePids, LivePids, Atomic!Budget,
              Atomic!SeqUnique, Numbered

LEMMA CancelKeeps ==
  ASSUME Atomic!TypeOK, IInv, NEW r \in active, Atomic!Cancel(r)
  PROVE  IInv'
<1>1. /\ closed' = AppendClosed(closed, Closing(r, "cancelled"))
      /\ active' \subseteq active /\ spent' = spent /\ queue' = queue
      /\ live' \subseteq live /\ lastPid' = lastPid /\ pass' = {}
  BY CancelDoes
<1>2. \A i \in DOMAIN closed' :
        /\ closed'[i].seq \in Nat /\ closed'[i].seq <= queue.seq
        /\ \A k \in DOMAIN closed' : closed'[i].seq = closed'[k].seq =>
             closed'[i].job = closed'[k].job /\ closed'[i].attempts = closed'[k].attempts
        /\ \A e \in queue.entries : closed'[i].seq # e.seq
        /\ \A s \in active : closed'[i].seq = s.seq =>
             closed'[i].job = s.job /\ closed'[i].attempts = s.attempts
  BY <1>1, ClosingKeepsSeqs DEF IInv, Terminals
<1>3. Atomic!SeqUnique'
  BY <1>1, <1>2 DEF IInv, Atomic!SeqUnique
<1> QED
  BY <1>1, <1>3 DEF IInv, Atomic!OneHome, Atomic!LivePids, LivePids, Atomic!Budget, Numbered

(* Identities, attempts and sequence numbers stay straight through every   *)
(* sequence of enqueues, starts, reaps, cut or not, and cancels.           *)
THEOREM Inductive == Atomic!Spec => []IInv
<1>1. Atomic!Init => IInv
  BY DEF Atomic!Init, Atomic!EmptyQueue, IInv, Atomic!OneHome, Atomic!Budget,
         Atomic!SeqUnique, Numbered
<1>2. Atomic!TypeOK /\ IInv /\ [Atomic!Next]_Atomic!vars => IInv'
  <2> SUFFICES ASSUME Atomic!TypeOK, IInv, [Atomic!Next]_Atomic!vars PROVE IInv'
    OBVIOUS
  <2>1. CASE \E j \in Jobs, max \in 1..MaxAttemptsLimit : Atomic!Submit(j, max)
    BY <2>1, SubmitKeeps
  <2>2. CASE \E e \in queue.entries : Atomic!Start(e)
    BY <2>2, StartKeeps
  <2>3. CASE \E p \in live : Atomic!Exit(p)
    <3>1. live' \subseteq live /\ UNCHANGED <<queue, active, closed, lastPid, spent, pass>>
      BY <2>3, ExitDoes
    <3> QED
      BY <3>1 DEF IInv, Atomic!OneHome, Atomic!LivePids, LivePids, Atomic!Budget,
                  Atomic!SeqUnique, Numbered
  <2>4. CASE \E r \in active, t \in {"done", "failed", "crashed"} :
               Atomic!Reap(r, t) \/ Atomic!ReapCut(r, t)
    BY <2>4, ReapKeeps
  <2>5. CASE Atomic!ReapEnds
    BY <2>5, EndsKeeps
  <2>6. CASE \E r \in active : Atomic!Cancel(r)
    BY <2>6, CancelKeeps
  <2>7. CASE UNCHANGED Atomic!vars
    BY <2>7 DEF Atomic!vars, IInv, Atomic!OneHome, Atomic!LivePids, LivePids,
                Atomic!Budget, Atomic!SeqUnique, Numbered
  <2> QED
    BY <2>1, <2>2, <2>3, <2>4, <2>5, <2>6, <2>7 DEF Atomic!Next
<1> QED
  BY <1>1, <1>2, TypeCorrect, PTL DEF Atomic!Spec

(* OneHome: an identity is in one document, once, but for the trace a cut  *)
(* pass of reap leaves (the DUPLICATE_IDENTITY rule of store.py and        *)
(* admission.py).                                                          *)
THEOREM IdentityHasOneHome == Atomic!Spec => []OneHome
<1>1. IInv => OneHome
  BY DEF IInv, OneHome, Atomic!OneHome, LivePids, Atomic!LivePids
<1> QED
  BY <1>1, Inductive, PTL

(* Budget: the attempts the documents count are the launches a job had,    *)
(* and they never exceed its budget (the bounded re-queue of reap).        *)
THEOREM AttemptsBounded == Atomic!Spec => []Budget
<1>1. IInv => Budget
  BY DEF IInv, Budget, Atomic!Budget
<1> QED
  BY <1>1, Inductive, PTL

(* SeqUnique: a sequence number names one attempt, as terminal_map assumes.*)
THEOREM SequenceNumbersUnique == Atomic!Spec => []Atomic!SeqUnique
BY Inductive, PTL DEF IInv

-----------------------------------------------------------------------------
(* Processes and capacity. *)

(* Accounted: every job process is named by a record of active.json.  A    *)
(* start replaces no record, a reap drops only the record of a dead        *)
(* process and a cancel only that of the group it terminated.              *)
THEOREM ProcessesAccounted == Atomic!Spec => []Atomic!Accounted
<1>1. Atomic!Init => Atomic!Accounted
  BY DEF Atomic!Init, Atomic!Accounted
<1>2. IInv /\ Atomic!Accounted /\ [Atomic!Next]_Atomic!vars => Atomic!Accounted'
  <2> SUFFICES ASSUME IInv, Atomic!Accounted, [Atomic!Next]_Atomic!vars
               PROVE  Atomic!Accounted'
    OBVIOUS
  <2> USE DEF Atomic!Accounted
  <2>1. ASSUME NEW j \in Jobs, NEW max \in 1..MaxAttemptsLimit, Atomic!Submit(j, max)
        PROVE  Atomic!Accounted'
    BY <2>1, SubmitDoes
  <2>2. ASSUME NEW e \in queue.entries, Atomic!Start(e) PROVE Atomic!Accounted'
    <3> DEFINE r == Started(e, lastPid')
               p == [job |-> e.job, pid |-> lastPid']
    <3>1. active' = active \cup {r} /\ live' = live \cup {p}
      BY <2>2, StartAddsRecord, StartDoes
    <3>2. r.job = p.job /\ r.pid = p.pid
      BY DEF Started
    <3> HIDE DEF r, p
    <3> QED
      BY <3>1, <3>2
  <2>3. ASSUME NEW p \in live, Atomic!Exit(p) PROVE Atomic!Accounted'
    BY <2>3, ExitDoes
  <2>4. ASSUME NEW r \in active, NEW t \in {"done", "failed", "crashed"},
               Atomic!Reap(r, t) \/ Atomic!ReapCut(r, t)
        PROVE  Atomic!Accounted'
    BY <2>4, ReapDoes
  <2>5. CASE Atomic!ReapEnds
    <3>1. active' = active \ pass /\ live' = live
      BY <2>5, EndsDoes
    <3> QED
      BY <3>1 DEF IInv, Numbered, LivePids
  <2>6. ASSUME NEW r \in active, Atomic!Cancel(r) PROVE Atomic!Accounted'
    <3>1. /\ active' = active \ {r} /\ live' = {p \in live : p.pid # r.pid}
      BY <2>6, CancelDoes
    <3> QED
      BY <3>1
  <2>7. CASE UNCHANGED Atomic!vars
    BY <2>7 DEF Atomic!vars
  <2> QED
    BY <2>1, <2>2, <2>3, <2>4, <2>5, <2>6, <2>7 DEF Atomic!Next
<1> QED
  BY <1>1, <1>2, Inductive, PTL DEF Atomic!Spec

(* WithinCapacity: active.json never holds more records than the capacity  *)
(* evaluate_admission was given.                                           *)
THEOREM CapacityRespected == Atomic!Spec => []Atomic!WithinCapacity
<1>0. Atomic!WithinCapacity <=> Cardinality(active) <= Capacity
  BY SameSize DEF Atomic!WithinCapacity
<1>1. Atomic!Init => Atomic!WithinCapacity
  BY <1>0, FS_EmptySet, StoreConstants DEF Atomic!Init
<1>2. Atomic!TypeOK /\ Atomic!WithinCapacity /\ [Atomic!Next]_Atomic!vars
        => Atomic!WithinCapacity'
  <2> SUFFICES ASSUME Atomic!TypeOK, Atomic!WithinCapacity, [Atomic!Next]_Atomic!vars
               PROVE  Cardinality(active') <= Capacity
    BY SameSize DEF Atomic!WithinCapacity
  <2>0. IsFiniteSet(active) /\ Cardinality(active) \in Nat /\ Cardinality(active) <= Capacity
    BY <1>0, FS_CardinalityType, TypeIs
  <2>1. ASSUME active' \subseteq active
        PROVE  Cardinality(active') <= Capacity
    <3>1. Cardinality(active') <= Cardinality(active) /\ Cardinality(active') \in Nat
      BY <2>0, <2>1, FS_Subset, FS_CardinalityType
    <3> QED
      BY <2>0, <3>1, StoreConstants
  <2>2. ASSUME NEW e \in queue.entries, Atomic!Start(e)
        PROVE  Cardinality(active') <= Capacity
    <3> DEFINE r == Started(e, lastPid')
    <3>1. active' = active \cup {r}
      BY <2>2, StartAddsRecord
    <3> HIDE DEF r
    <3>2. Cardinality(active \cup {r}) \in
            {Cardinality(active), Cardinality(active) + 1}
      BY <2>0, FS_AddElement
    <3>3. Cardinality(active) < Capacity
      BY <2>2, StartDoes DEF Room
    <3> QED
      BY <2>0, <3>1, <3>2, <3>3, StoreConstants
  <2>3. CASE UNCHANGED Atomic!vars
    BY <2>1, <2>3 DEF Atomic!vars
  <2>4. CASE Atomic!Next
    <3>1. CASE \E j \in Jobs, max \in 1..MaxAttemptsLimit : Atomic!Submit(j, max)
      BY <2>1, <3>1, SubmitDoes
    <3>2. CASE \E p \in live : Atomic!Exit(p)
      BY <2>1, <3>2, ExitDoes
    <3>3. CASE \E r \in active, t \in {"done", "failed", "crashed"} :
                 Atomic!Reap(r, t) \/ Atomic!ReapCut(r, t)
      BY <2>1, <3>3, ReapDoes
    <3>4. CASE Atomic!ReapEnds
      BY <2>1, <3>4, EndsDoes
    <3>5. CASE \E r \in active : Atomic!Cancel(r)
      BY <2>1, <3>5, CancelDoes
    <3> QED
      BY <2>2, <2>4, <3>1, <3>2, <3>3, <3>4, <3>5 DEF Atomic!Next
  <2> QED
    BY <2>3, <2>4
<1> QED
  BY <1>1, <1>2, TypeCorrect, PTL DEF Atomic!Spec

-----------------------------------------------------------------------------
(* What a step may never do. *)

(* FullQueueFrozen: once queue.json holds MaxQueueEntries entries neither  *)
(* a start, nor an enqueue, nor a re-queue changes it any more.            *)
THEOREM FullQueueStaysFull == Atomic!Spec => Atomic!FullQueueFrozen
<1>1. Atomic!TypeOK /\ [Atomic!Next]_Atomic!vars
        => (Atomic!Cardinality(queue.entries) >= MaxQueueEntries => UNCHANGED queue)
  <2> SUFFICES ASSUME Atomic!TypeOK, [Atomic!Next]_Atomic!vars,
                      Cardinality(queue.entries) >= MaxQueueEntries
               PROVE  UNCHANGED queue
    BY SameSize
  <2>1. ~(Cardinality(queue.entries) < MaxQueueEntries)
    BY FS_CardinalityType, StoreConstants, TypeIs
  <2>2. CASE UNCHANGED Atomic!vars
    BY <2>2 DEF Atomic!vars
  <2>3. CASE \E j \in Jobs, max \in 1..MaxAttemptsLimit : Atomic!Submit(j, max)
    BY <2>1, <2>3, SubmitDoes DEF Enqueueable
  <2>4. CASE \E e \in queue.entries : Atomic!Start(e)
    BY <2>1, <2>4, StartDoes DEF Room
  <2>5. CASE \E p \in live : Atomic!Exit(p)
    BY <2>5, ExitDoes
  <2>6. CASE \E r \in active, t \in {"done", "failed", "crashed"} :
               Atomic!Reap(r, t) \/ Atomic!ReapCut(r, t)
    BY <2>1, <2>6, ReapDoes DEF Enqueueable
  <2>7. CASE Atomic!ReapEnds
    BY <2>7, EndsDoes
  <2>8. CASE \E r \in active : Atomic!Cancel(r)
    BY <2>8, CancelDoes
  <2> QED
    BY <2>2, <2>3, <2>4, <2>5, <2>6, <2>7, <2>8 DEF Atomic!Next
<1> QED
  BY <1>1, TypeCorrect, PTL DEF Atomic!Spec, Atomic!FullQueueFrozen

(* NothingLost: an entry leaves the queue only for a record of the same    *)
(* attempt, a pass of reap closes whatever it deals with, and a record     *)
(* leaves active.json only after that or when it is cancelled.             *)
THEOREM NoAttemptLost == Atomic!Spec => Atomic!NothingLost
<1> DEFINE Closes(r) == \E i \in DOMAIN closed' :
                          closed'[i].seq = r.seq /\ closed'[i].job = r.job
           Kept ==
      /\ \A e \in queue.entries \ queue'.entries :
           \E r \in active' : r.job = e.job /\ r.seq = e.seq /\ r.max = e.max
      /\ \A r \in pass' \ pass : Closes(r)
      /\ \A r \in active \ active' : r \in pass \/ Closes(r)
<1>1. Atomic!TypeOK /\ [Atomic!Next]_Atomic!vars => Kept
  <2> SUFFICES ASSUME Atomic!TypeOK, [Atomic!Next]_Atomic!vars PROVE Kept
    OBVIOUS
  <2>0. ASSUME NEW r \in active, NEW t \in Terminals,
               closed' = AppendClosed(closed, Closing(r, t))
        PROVE  Closes(r)
    <3>1. Closing(r, t) \in ClosedRecord
      BY TypeIs DEF Closing, ActiveRecord, ClosedRecord
    <3>2. /\ closed' \in Seq(ClosedRecord) /\ Len(closed') \in 1..MaxClosedRecords
          /\ closed'[Len(closed')] = Closing(r, t)
      BY <2>0, <3>1, AppendClosedFacts, TypeIs
    <3>3. Len(closed') \in DOMAIN closed'
      BY <3>2
    <3> QED
      BY <3>2, <3>3 DEF Closing
  <2>1. ASSUME NEW j \in Jobs, NEW max \in 1..MaxAttemptsLimit, Atomic!Submit(j, max)
        PROVE  Kept
    BY <2>1, SubmitDoes DEF Enqueue
  <2>2. ASSUME NEW e \in queue.entries, Atomic!Start(e) PROVE Kept
    <3>1. active' = active \cup {Started(e, lastPid')} /\ pass' = pass
      BY <2>2, StartAddsRecord, StartDoes
    <3>2. queue'.entries = queue.entries \ {e}
      BY <2>2, StartDoes, TypeIs DEF Remove, QueueDoc
    <3> QED
      BY <3>1, <3>2 DEF Started
  <2>3. ASSUME NEW p \in live, Atomic!Exit(p) PROVE Kept
    BY <2>3, ExitDoes
  <2>4. ASSUME NEW r \in active, NEW t \in {"done", "failed", "crashed"},
               Atomic!Reap(r, t) \/ Atomic!ReapCut(r, t)
        PROVE  Kept
    <3>1. queue.entries \subseteq queue'.entries
      BY <2>4, ReapDoes DEF Requeue, Enqueue
    <3>2. Closes(r)
      BY <2>0, <2>4, ReapDoes DEF Terminals
    <3>3. active' = active /\ pass' \ pass \subseteq {r}
      BY <2>4, ReapDoes
    <3> HIDE DEF Closes
    <3> QED
      BY <3>1, <3>2, <3>3
  <2>5. CASE Atomic!ReapEnds
    BY <2>5, EndsDoes
  <2>6. ASSUME NEW r \in active, Atomic!Cancel(r) PROVE Kept
    <3>1. Closes(r)
      BY <2>0, <2>6, CancelDoes DEF Terminals
    <3>2. active' = active \ {r} /\ queue' = queue /\ pass' = pass
      BY <2>6, CancelDoes
    <3> HIDE DEF Closes
    <3> QED
      BY <3>1, <3>2
  <2>7. CASE UNCHANGED Atomic!vars
    BY <2>7 DEF Atomic!vars
  <2> HIDE DEF Kept
  <2> QED
    BY <2>1, <2>2, <2>3, <2>4, <2>5, <2>6, <2>7 DEF Atomic!Next
<1> QED
  BY <1>1, TypeCorrect, PTL DEF Atomic!Spec, Atomic!NothingLost

-----------------------------------------------------------------------------
(* The tools, file by file, when the operator runs a command only while    *)
(* nothing else runs; sessions and reconstructions may come at any time,   *)
(* the lock sees to it.  Any tool may die between any two of its steps.    *)

Serial == Clis \subseteq Exclusive

Memory ==
  [queue : QueueDoc, active : SUBSET ActiveRecord, closed : Seq(ClosedRecord),
   todo : SUBSET ActiveRecord, startQueue : QueueDoc,
   startActive : SUBSET ActiveRecord]

Documents ==
  /\ queue \in QueueDoc /\ IsFiniteSet(queue.entries)
  /\ active \in SUBSET ActiveRecord /\ IsFiniteSet(active)
  /\ closed \in Seq(ClosedRecord) /\ Len(closed) <= MaxClosedRecords
  /\ live \in SUBSET Process /\ IsFiniteSet(live)
  /\ lastPid \in Nat /\ spent \in [Jobs -> Nat] /\ crashes \in Nat

Places ==
  /\ lock \in Locking \cup {NoOne}
  /\ mem \in [Tools -> Memory]
  /\ DOMAIN pc = Tools /\ DOMAIN hand = Tools

(* At most one tool is at work, and one that takes the lock has it.        *)
Solo ==
  /\ \A t, u \in Tools : pc[t] # "idle" /\ pc[u] # "idle" => t = u
  /\ \A t \in Locking : pc[t] # "idle" => lock = t

(* enqueue: what it read is still there.                                   *)
Submits(t) ==
  /\ pc[t] \in {"enqueue", "enqueue_save"} =>
       hand[t].job \in Jobs /\ hand[t].max \in 1..MaxAttemptsLimit
  /\ pc[t] = "enqueue" => mem[t].active = active
  /\ pc[t] = "enqueue_save" =>
       /\ Enqueueable(queue, hand[t].job, JobsOf(active))
       /\ mem[t].queue = Enqueue(queue, hand[t].job, hand[t].max, 0, TRUE)

(* start_one, by itself or in a session: until its saves the files are     *)
(* what it read, and then what it made of them.                            *)
Starts(t) ==
  /\ pc[t] = "start" => t \in Sessions
  /\ pc[t] \in {"start", "start_decide", "launch"} /\ t \in Sessions =>
       mem[t].queue = queue /\ Resolved(closed, hand[t].job)
  /\ pc[t] \in {"start_decide", "launch"} => mem[t].startQueue = queue
  /\ pc[t] = "launch" => mem[t].startActive = active
  /\ pc[t] \in {"launch", "save_active"} => Room(queue, active)
  /\ pc[t] \in {"launch", "save_active", "save_queue"} => hand[t] \in queue.entries
  /\ pc[t] \in Starting =>
       /\ mem[t].startQueue = Remove(queue, hand[t])
       /\ spent[hand[t].job] <= hand[t].attempts + 1 + crashes
  /\ pc[t] = "save_active" =>
       mem[t].startActive = active \cup {Started(hand[t], lastPid)}
  /\ pc[t] = "save_queue" => Started(hand[t], lastPid) \in active

(* What a pass of reap has dealt with. *)
Out(t) == (active \ mem[t].active)
            \cup (IF pc[t] = "requeue" THEN {hand[t].record} ELSE {})

(* closed.json has a record of r among its n newest.                       *)
ClosedOf(c, r, n) ==
  \E i \in DOMAIN c : /\ c[i].job = r.job /\ c[i].seq = r.seq
                      /\ Len(c) - i < n

(* A pass of reap, and the rest of a session's cycle.                      *)
Reaps(t) ==
  /\ pc[t] \in Reaping \cup {"rebuild", "requeue", "session_decide", "session_save"} =>
       mem[t].queue = queue
  /\ pc[t] \in Reaping \cup {"requeue"} =>
       /\ mem[t].closed = closed
       /\ mem[t].active \subseteq active /\ mem[t].todo \subseteq mem[t].active
       /\ \A r \in mem[t].todo \cup Out(t) : r.pid \notin LivePids
       /\ \A r \in Out(t) : ClosedOf(closed, r, Cardinality(Out(t)))
  /\ pc[t] \in {"reap_close", "requeue"} =>
       /\ hand[t].record \in mem[t].todo
       /\ hand[t].terminal \in {"done", "failed", "crashed"}
  /\ pc[t] = "requeue" => WillRequeue(hand[t].record, hand[t].terminal)
  /\ pc[t] \in {"session_decide", "session_save"} => t \in Sessions
  /\ pc[t] = "session_decide" => mem[t].closed = closed /\ mem[t].active = active

Cancels(t) ==
  /\ pc[t] \in Cancelling \cup {"terminate"} =>
       mem[t].active = active /\ hand[t].record \in active
  /\ pc[t] \in Cancelling => hand[t].record.pid \notin LivePids
  /\ pc[t] = "cancel_close" => mem[t].closed = closed
  /\ pc[t] = "cancel_save" => ClosedOf(closed, hand[t].record, 1)

AtWork(t) == Submits(t) /\ Starts(t) /\ Reaps(t) /\ Cancels(t)

(* One entry and one record to a job; no more records than the capacity;   *)
(* processes are numbered as they are launched.                            *)
Apart ==
  /\ \A e, f \in queue.entries : e.job = f.job => e = f
  /\ \A r, s \in active : r.job = s.job => r = s
  /\ Cardinality(active) <= Capacity
  /\ \A r \in active : r.pid <= lastPid
  /\ \A p \in live : p.pid <= lastPid
  /\ \A p, q \in live : p.pid = q.pid => p = q

Being(label) == \E t \in Tools : pc[t] = label

(* Processes no record names, but for the one whose record is about to be  *)
(* written; and the attempts the documents leave out.                      *)
Forgotten == {p \in Orphans : ~(p.pid = lastPid /\ Being("save_active"))}

Debts ==
  /\ Cardinality(Forgotten) <= crashes
  /\ \A r \in active : spent[r.job] <= r.attempts + crashes
  /\ \A e \in queue.entries :
       \/ spent[e.job] <= e.attempts + crashes
       \/ \E t \in Tools : pc[t] \in Starting /\ hand[t].job = e.job

Inv ==
  /\ Documents /\ Places /\ Solo /\ Apart /\ Debts
  /\ \A t \in Tools : AtWork(t)

-----------------------------------------------------------------------------
(* One tool's step, and the others resting. *)

Sole(t) == \A u \in Tools : u # t => pc[u] = "idle"

LEMMA SoleAtWork ==
  ASSUME Inv, NEW t \in Tools, pc[t] # "idle"
  PROVE  Sole(t)
BY DEF Inv, Solo, Sole

LEMMA SoleBegins ==
  ASSUME Inv, Serial, NEW t \in Tools, MayBegin(t), t \in Clis \/ lock = NoOne
  PROVE  Sole(t) /\ pc[t] = "idle" /\ crashes' = crashes
BY FilesConstants DEF Inv, Solo, Sole, Serial, MayBegin, At, Tools, Locking

(* Where tool t goes in a step, and what else it does not disturb.         *)
Moved(t, l) ==
  /\ pc' = [pc EXCEPT ![t] = l]
  /\ Places'
  /\ t \in Locking /\ l # "idle" => lock' = t

LEMMA BlankIs == Blank \in Memory
<1>1. EmptyQueue \in QueueDoc
  BY DEF EmptyQueue, QueueDoc
<1> QED
  BY <1>1 DEF Blank, Memory

LEMMA Moves ==
  ASSUME Inv, NEW t \in Tools, NEW l, Goto(t, l), mem' \in [Tools -> Memory],
         DOMAIN hand' = Tools, t \in Locking /\ l # "idle" => lock' = t,
         lock' \in Locking \cup {NoOne}
  PROVE  Moved(t, l) /\ pc'[t] = l
BY DEF Inv, Places, Moved, Goto

LEMMA Keeps ==
  ASSUME Inv, NEW t \in Tools, NEW m \in Memory, Keep(t, m)
  PROVE  mem' \in [Tools -> Memory] /\ mem'[t] = m
BY DEF Inv, Places, Keep

LEMMA Takes ==
  ASSUME Inv, NEW t \in Tools, NEW h, Take(t, h)
  PROVE  DOMAIN hand' = Tools /\ hand'[t] = h
BY DEF Inv, Places, Take

LEMMA HoldsLock ==
  ASSUME Inv, NEW t \in Tools, pc[t] # "idle"
  PROVE  /\ lock \in Locking \cup {NoOne}
         /\ t \in Locking => lock = t
BY DEF Inv, Solo, Places

LEMMA Leaves ==
  ASSUME Inv, NEW t \in Tools, Leave(t)
  PROVE  Moved(t, "idle") /\ pc'[t] = "idle"
<1>1. mem' \in [Tools -> Memory] /\ DOMAIN hand' = Tools
  BY Keeps, Takes, BlankIs DEF Leave
<1>2. lock' \in Locking \cup {NoOne}
  BY DEF Inv, Places, Leave
<1> QED
  BY <1>1, <1>2, Moves DEF Leave

(* A tool at rest has nothing to keep.                                     *)
LEMMA AtRestNow ==
  ASSUME NEW t, pc'[t] = "idle"
  PROVE  AtWork(t)'
BY DEF AtWork, Submits, Starts, Reaps, Cancels, Starting, Reaping, Cancelling

LEMMA MovedKeeps ==
  ASSUME Inv, NEW t \in Tools, Sole(t), NEW l, Moved(t, l),
         l # "idle" => AtWork(t)', Documents', Apart', Debts'
  PROVE  Inv'
<1>1. pc'[t] = l /\ \A u \in Tools : u # t => pc'[u] = "idle"
  BY DEF Moved, Sole, Inv, Places
<1>2. Solo'
  <2>1. \A u \in Locking : u \in Tools
    BY DEF Locking, Tools
  <2> QED
    BY <1>1, <2>1 DEF Solo, Moved
<1>3. \A u \in Tools : AtWork(u)'
  BY <1>1, AtRestNow
<1> QED
  BY <1>2, <1>3 DEF Inv, Moved

(* A step that writes nothing, between no launch and its saves.            *)
LEMMA QuietKeeps ==
  ASSUME Inv, NEW t \in Tools, Sole(t), NEW l, Moved(t, l),
         UNCHANGED <<files, world, crashes>>,
         pc[t] \notin Starting, l \notin Starting,
         l # "idle" => AtWork(t)'
  PROVE  Inv'
<1>0. /\ UNCHANGED <<queue, active, closed, live, lastPid, spent, crashes>>
      /\ \A u \in Tools : pc[u] \notin Starting /\ pc'[u] \notin Starting
  BY DEF files, world, Moved, Sole, Inv, Places, Starting
<1>1. Documents' /\ Apart'
  BY <1>0 DEF Inv, Documents, Apart
<1>2. Forgotten' = Forgotten
  BY <1>0 DEF Forgotten, Orphans, Being, Starting
<1>3. Debts'
  BY <1>0, <1>2 DEF Inv, Debts
<1> QED
  BY <1>1, <1>3, MovedKeeps

LEMMA LeavesQuietly ==
  ASSUME Inv, NEW t \in Tools, Sole(t), Leave(t),
         UNCHANGED <<files, world, crashes>>, pc[t] \notin Starting
  PROVE  Inv'
BY Leaves, QuietKeeps DEF Starting
-----------------------------------------------------------------------------
(* The steps that only read and decide. *)

(* What the tool at work has in its memory is typed.                       *)
LEMMA MemoryOf ==
  ASSUME Inv, NEW t \in Tools
  PROVE  /\ mem[t] \in Memory
         /\ mem[t].queue \in QueueDoc /\ mem[t].active \in SUBSET ActiveRecord
         /\ mem[t].closed \in Seq(ClosedRecord)
         /\ mem[t].todo \in SUBSET ActiveRecord /\ mem[t].startQueue \in QueueDoc
         /\ mem[t].startActive \in SUBSET ActiveRecord
BY DEF Inv, Places, Memory

LEMMA SubmitInv ==
  ASSUME Inv, Serial, NEW t \in Tools, NEW j \in Jobs,
         NEW max \in 1..MaxAttemptsLimit, Submit(t, j, max)
  PROVE  Inv'
<1>1. /\ Sole(t) /\ pc[t] = "idle"
      /\ UNCHANGED <<files, world, crashes>> /\ lock' = lock /\ t \notin Locking
  BY SoleBegins, FilesConstants DEF Submit
<1>2. [Blank EXCEPT !.active = active] \in Memory
  BY BlankIs DEF Memory, Inv, Documents
<1>3. /\ mem' \in [Tools -> Memory] /\ mem'[t] = [Blank EXCEPT !.active = active]
      /\ DOMAIN hand' = Tools /\ hand'[t] = [job |-> j, max |-> max]
  BY <1>2, Keeps, Takes DEF Submit
<1>4. Moved(t, "enqueue") /\ pc'[t] = "enqueue"
  BY <1>1, <1>3, Moves DEF Submit, Inv, Places
<1>5. mem'[t].active = active /\ active' = active
  BY <1>1, <1>3 DEF Blank, files
<1>6. AtWork(t)'
  BY <1>3, <1>4, <1>5
     DEF AtWork, Submits, Starts, Reaps, Cancels, Starting, Reaping, Cancelling
<1> QED
  BY <1>1, <1>4, <1>6, QuietKeeps DEF Starting

LEMMA SubmitCheckInv ==
  ASSUME Inv, NEW t \in Tools, SubmitCheck(t)
  PROVE  Inv'
<1> DEFINE q == Enqueue(queue, hand[t].job, hand[t].max, 0, TRUE)
<1>1. /\ pc[t] = "enqueue" /\ Sole(t) /\ UNCHANGED <<files, world, crashes>>
      /\ pc[t] \notin Starting
  BY SoleAtWork DEF SubmitCheck, At, Starting
<1>2. CASE Leave(t)
  BY <1>1, <1>2, LeavesQuietly
<1>3. CASE /\ Enqueueable(queue, hand[t].job, JobsOf(mem[t].active))
           /\ Keep(t, [mem[t] EXCEPT !.queue = q])
           /\ Goto(t, "enqueue_save") /\ UNCHANGED <<hand, lock>>
  <2>1. /\ hand[t].job \in Jobs /\ hand[t].max \in 1..MaxAttemptsLimit
        /\ mem[t].active = active
    BY <1>1 DEF Inv, AtWork, Submits
  <2>2. q \in QueueDoc
    BY <2>1, EnqueueType DEF Inv, Documents
  <2> HIDE DEF q
  <2>3. [mem[t] EXCEPT !.queue = q] \in Memory
    BY <2>2, MemoryOf DEF Memory
  <2>4. mem' \in [Tools -> Memory] /\ mem'[t].queue = q
    BY <1>3, <2>3, Keeps, MemoryOf DEF Memory
  <2>5. Moved(t, "enqueue_save") /\ pc'[t] = "enqueue_save"
    BY <1>1, <1>3, <2>4, Moves, HoldsLock DEF Inv, Places
  <2>6. /\ queue' = queue /\ active' = active /\ hand' = hand
        /\ mem'[t].queue = Enqueue(queue, hand[t].job, hand[t].max, 0, TRUE)
    BY <1>1, <1>3, <2>4 DEF files, q
  <2>7. AtWork(t)'
    BY <1>3, <2>1, <2>5, <2>6
       DEF AtWork, Submits, Starts, Reaps, Cancels, Starting, Reaping, Cancelling
  <2> QED
    BY <1>1, <2>5, <2>7, QuietKeeps DEF Starting
<1> QED
  BY <1>2, <1>3 DEF SubmitCheck

LEMMA StartLoadInv ==
  ASSUME Inv, Serial, NEW t \in Tools, StartLoad(t)
  PROVE  Inv'
<1> DEFINE m == [mem[t] EXCEPT !.startQueue = queue]
<1>1. /\ Sole(t) /\ pc[t] \notin Starting /\ UNCHANGED <<files, world, crashes, lock, hand>>
      /\ \/ pc[t] = "idle" /\ t \in Clis
         \/ pc[t] = "start"
  BY SoleBegins, SoleAtWork DEF StartLoad, At, Starting
<1>2. m \in Memory
  BY MemoryOf DEF Memory, Inv, Documents
<1>3. mem' \in [Tools -> Memory] /\ mem'[t] = m
  BY <1>2, Keeps DEF StartLoad
<1>4. mem'[t].startQueue = queue /\ mem'[t].queue = mem[t].queue
  BY <1>3, MemoryOf DEF Memory
<1>5. Moved(t, "start_decide") /\ pc'[t] = "start_decide"
  BY <1>1, <1>3, Moves, HoldsLock, FilesConstants DEF StartLoad, Inv, Places
<1>6. t \in Sessions => mem[t].queue = queue /\ Resolved(closed, hand[t].job)
  BY <1>1, FilesConstants DEF Inv, AtWork, Starts, Locking
<1>7. AtWork(t)'
  BY <1>1, <1>4, <1>5, <1>6
     DEF AtWork, Submits, Starts, Reaps, Cancels, Starting, Reaping, Cancelling, files
<1> QED
  BY <1>1, <1>5, <1>7, QuietKeeps DEF Starting

(* A start that fails leaves nothing behind but, in a session, the queue.  *)
LEMMA StartFailsInv ==
  ASSUME Inv, NEW t \in Tools, Sole(t), pc[t] \in {"start_decide", "launch"},
         StartFails(t), UNCHANGED <<files, world, crashes>>
  PROVE  Inv'
<1>1. CASE t \notin Sessions
  BY <1>1, LeavesQuietly DEF StartFails, Starting
<1>2. CASE t \in Sessions
  <2>1. Goto(t, "session_save") /\ UNCHANGED <<mem, hand, lock>>
    BY <1>2 DEF StartFails
  <2>2. Moved(t, "session_save") /\ pc'[t] = "session_save"
    BY <2>1, Moves, HoldsLock DEF Inv, Places
  <2>3. mem'[t].queue = queue'
    BY <1>2, <2>1 DEF Inv, AtWork, Starts, files
  <2>4. AtWork(t)'
    BY <1>2, <2>2, <2>3
       DEF AtWork, Submits, Starts, Reaps, Cancels, Starting, Reaping, Cancelling
  <2> QED
    BY <2>2, <2>4, QuietKeeps DEF Starting
<1> QED
  BY <1>1, <1>2

LEMMA StartDecideInv ==
  ASSUME Inv, NEW t \in Tools, StartDecide(t)
  PROVE  Inv'
<1>1. /\ pc[t] = "start_decide" /\ Sole(t) /\ pc[t] \notin Starting
      /\ UNCHANGED <<files, world, crashes>>
  BY SoleAtWork DEF StartDecide, At, Starting
<1>2. CASE StartFails(t)
  BY <1>1, <1>2, StartFailsInv
<1>3. ASSUME Admitted(mem[t].startQueue, active, LivePids),
             NEW e \in mem[t].startQueue.entries, Startable(t, e), Take(t, e),
             Keep(t, [mem[t] EXCEPT !.startActive = active]), Goto(t, "launch"),
             UNCHANGED lock
      PROVE  Inv'
  <2>1. /\ mem[t].startQueue = queue
        /\ t \in Sessions => mem[t].queue = queue /\ Resolved(closed, hand[t].job)
    BY <1>1 DEF Inv, AtWork, Starts
  <2>2. [mem[t] EXCEPT !.startActive = active] \in Memory
    BY MemoryOf DEF Memory, Inv, Documents
  <2>3. /\ mem' \in [Tools -> Memory]
        /\ mem'[t] = [mem[t] EXCEPT !.startActive = active]
        /\ DOMAIN hand' = Tools /\ hand'[t] = e
    BY <1>3, <2>2, Keeps, Takes
  <2>4. /\ mem'[t].startActive = active /\ mem'[t].queue = mem[t].queue
        /\ mem'[t].startQueue = mem[t].startQueue
    BY <2>3, MemoryOf DEF Memory
  <2>5. Moved(t, "launch") /\ pc'[t] = "launch"
    BY <1>1, <1>3, <2>3, Moves, HoldsLock
  <2>6. /\ Room(queue, active) /\ e \in queue.entries
        /\ t \in Sessions => hand'[t].job = hand[t].job
    BY <1>3, <2>1, <2>3 DEF Admitted, Startable
  <2>7. AtWork(t)'
    BY <1>1, <2>1, <2>3, <2>4, <2>5, <2>6
       DEF AtWork, Submits, Starts, Reaps, Cancels, Starting, Reaping, Cancelling, files
  <2> QED
    BY <1>1, <2>5, <2>7, QuietKeeps DEF Starting
<1> QED
  BY <1>2, <1>3 DEF StartDecide

LEMMA LaunchFailsInv ==
  ASSUME Inv, NEW t \in Tools, LaunchFails(t)
  PROVE  Inv'
BY SoleAtWork, StartFailsInv DEF LaunchFails, At

LEMMA RebuildQueueInv ==
  ASSUME Inv, Serial, NEW t \in Tools, RebuildQueue(t)
  PROVE  Inv'
<1>1. /\ Sole(t) /\ pc[t] = "idle" /\ UNCHANGED <<files, world, crashes, hand>>
      /\ lock' = IF t \in Locking THEN t ELSE lock
  BY SoleBegins DEF RebuildQueue, Tools, Locking
<1>2. [Blank EXCEPT !.queue = queue] \in Memory
  BY BlankIs DEF Memory, Inv, Documents
<1>3. mem' \in [Tools -> Memory] /\ mem'[t] = [Blank EXCEPT !.queue = queue]
  BY <1>2, Keeps DEF RebuildQueue
<1>4. Moved(t, "rebuild") /\ pc'[t] = "rebuild"
  BY <1>1, <1>3, Moves DEF RebuildQueue, Inv, Places
<1>5. mem'[t].queue = queue'
  BY <1>1, <1>3 DEF Blank, files
<1>6. AtWork(t)'
  BY <1>4, <1>5
     DEF AtWork, Submits, Starts, Reaps, Cancels, Starting, Reaping, Cancelling
<1> QED
  BY <1>1, <1>4, <1>6, QuietKeeps DEF Starting

LEMMA RebuildActiveInv ==
  ASSUME Inv, NEW t \in Tools, RebuildActive(t)
  PROVE  Inv'
<1> DEFINE dead == {r \in active : r.pid \notin LivePids}
           m == [mem[t] EXCEPT !.active = active, !.closed = closed, !.todo = dead]
<1>1. /\ pc[t] = "rebuild" /\ Sole(t) /\ UNCHANGED <<files, world, crashes, lock, hand>>
  BY SoleAtWork DEF RebuildActive, At
<1>2. m \in Memory
  BY MemoryOf DEF Memory, Inv, Documents
<1>3. mem' \in [Tools -> Memory] /\ mem'[t] = m
  BY <1>2, Keeps DEF RebuildActive
<1>4. /\ mem'[t].active = active /\ mem'[t].closed = closed /\ mem'[t].todo = dead
      /\ mem'[t].queue = mem[t].queue
  BY <1>3, MemoryOf DEF Memory
<1>5. Moved(t, "reap") /\ pc'[t] = "reap"
  BY <1>1, <1>3, Moves, HoldsLock DEF RebuildActive, Inv, Places
<1>6. mem[t].queue = queue
  BY <1>1 DEF Inv, AtWork, Reaps
<1>7. Out(t)' = {}
  BY <1>1, <1>4, <1>5 DEF Out, files
<1>8. AtWork(t)'
  BY <1>1, <1>4, <1>5, <1>6, <1>7
     DEF AtWork, Submits, Starts, Reaps, Cancels, Starting, Reaping, Cancelling, files,
         world, LivePids
<1> QED
  BY <1>1, <1>5, <1>8, QuietKeeps DEF Starting

LEMMA ReapRecordInv ==
  ASSUME Inv, NEW t \in Tools, ReapRecord(t)
  PROVE  Inv'
<1>1. /\ pc[t] = "reap" /\ Sole(t) /\ UNCHANGED <<files, world, crashes, lock>>
  BY SoleAtWork DEF ReapRecord, At
<1>2. PICK r \in mem[t].todo, terminal \in Outcomes(t) :
        Take(t, [record |-> r, terminal |-> terminal])
  BY DEF ReapRecord
<1>3. terminal \in {"done", "failed", "crashed"}
  BY <1>2, FilesConstants DEF Outcomes
<1>4. DOMAIN hand' = Tools /\ hand'[t] = [record |-> r, terminal |-> terminal]
  BY <1>2, Takes
<1>5. /\ mem[t].queue = queue /\ mem[t].closed = closed
      /\ mem[t].active \subseteq active /\ mem[t].todo \subseteq mem[t].active
      /\ \A s \in mem[t].todo \cup Out(t) : s.pid \notin LivePids
      /\ \A s \in Out(t) : ClosedOf(closed, s, Cardinality(Out(t)))
  BY <1>1 DEF Inv, AtWork, Reaps, Reaping
<1>6. [mem[t] EXCEPT !.closed = closed] \in Memory
  BY MemoryOf DEF Memory, Inv, Documents
<1>7. mem' \in [Tools -> Memory] /\ mem'[t] = [mem[t] EXCEPT !.closed = closed]
  BY <1>6, Keeps DEF ReapRecord
<1>8. /\ mem'[t].queue = mem[t].queue /\ mem'[t].closed = closed
      /\ mem'[t].active = mem[t].active /\ mem'[t].todo = mem[t].todo
  BY <1>7, MemoryOf DEF Memory
<1>9. Moved(t, "reap_close") /\ pc'[t] = "reap_close"
  BY <1>1, <1>4, <1>7, Moves, HoldsLock DEF ReapRecord
<1>10. Out(t)' = Out(t) /\ LivePids' = LivePids
  BY <1>1, <1>8, <1>9 DEF Out, files, world, LivePids
<1>11. AtWork(t)'
  BY <1>1, <1>2, <1>3, <1>4, <1>5, <1>8, <1>9, <1>10
     DEF AtWork, Submits, Starts, Reaps, Cancels, Starting, Reaping, Cancelling, files
<1> QED
  BY <1>1, <1>9, <1>11, QuietKeeps DEF Starting

LEMMA SessionEndsInv ==
  ASSUME Inv, NEW t \in Tools, SessionEnds(t)
  PROVE  Inv'
BY SoleAtWork, LeavesQuietly DEF SessionEnds, At, Starting

LEMMA SessionDecideInv ==
  ASSUME Inv, NEW t \in Tools, SessionDecide(t)
  PROVE  Inv'
<1>1. /\ pc[t] = "session_decide" /\ Sole(t)
      /\ UNCHANGED <<files, world, crashes, lock, mem>>
  BY SoleAtWork DEF SessionDecide, At
<1>2. /\ t \in Sessions /\ mem[t].queue = queue /\ mem[t].closed = closed
  BY <1>1 DEF Inv, AtWork, Reaps
<1>3. PICK e \in mem[t].queue.entries :
        /\ Chosen(mem[t], e)
        /\ IF e.job \in ClosedJobs(mem[t].closed)
             THEN Goto(t, "session_save") /\ UNCHANGED hand
             ELSE Goto(t, "start") /\ Take(t, e)
  BY DEF SessionDecide
<1>4. CASE e.job \in ClosedJobs(mem[t].closed)
  <2>1. Moved(t, "session_save") /\ pc'[t] = "session_save"
    BY <1>1, <1>3, <1>4, Moves, HoldsLock DEF Inv, Places
  <2>2. AtWork(t)'
    BY <1>1, <1>2, <2>1
       DEF AtWork, Submits, Starts, Reaps, Cancels, Starting, Reaping, Cancelling, files
  <2> QED
    BY <1>1, <2>1, <2>2, QuietKeeps DEF Starting
<1>5. CASE e.job \notin ClosedJobs(mem[t].closed)
  <2>1. DOMAIN hand' = Tools /\ hand'[t] = e
    BY <1>3, <1>5, Takes
  <2>2. Moved(t, "start") /\ pc'[t] = "start"
    BY <1>1, <1>3, <1>5, <2>1, Moves, HoldsLock DEF Inv, Places
  <2>3. Resolved(closed, e.job)
    BY <1>2, <1>3, <1>5 DEF Chosen, Settles, Eligible
  <2>4. AtWork(t)'
    BY <1>1, <1>2, <2>1, <2>2, <2>3
       DEF AtWork, Submits, Starts, Reaps, Cancels, Starting, Reaping, Cancelling, files
  <2> QED
    BY <1>1, <2>2, <2>4, QuietKeeps DEF Starting
<1> QED
  BY <1>4, <1>5

LEMMA CancelInv ==
  ASSUME Inv, Serial, NEW t \in Tools, Cancel(t)
  PROVE  Inv'
<1>1. /\ Sole(t) /\ pc[t] = "idle" /\ t \notin Locking
      /\ UNCHANGED <<files, world, crashes, lock>>
  BY SoleBegins, FilesConstants DEF Cancel
<1>2. PICK r \in active : Take(t, [record |-> r])
  BY DEF Cancel
<1>3. DOMAIN hand' = Tools /\ hand'[t] = [record |-> r]
  BY <1>2, Takes
<1>4. [Blank EXCEPT !.active = active] \in Memory
  BY BlankIs DEF Memory, Inv, Documents
<1>5. mem' \in [Tools -> Memory] /\ mem'[t] = [Blank EXCEPT !.active = active]
  BY <1>4, Keeps DEF Cancel
<1>6. mem'[t].active = active /\ active' = active
  BY <1>1, <1>5 DEF Blank, files
<1>7. Moved(t, "terminate") /\ pc'[t] = "terminate"
  BY <1>1, <1>3, <1>5, Moves DEF Cancel, Inv, Places
<1>8. AtWork(t)'
  BY <1>2, <1>3, <1>6, <1>7
     DEF AtWork, Submits, Starts, Reaps, Cancels, Starting, Reaping, Cancelling
<1> QED
  BY <1>1, <1>7, <1>8, QuietKeeps DEF Starting

LEMMA TerminatePendingInv ==
  ASSUME Inv, NEW t \in Tools, TerminatePending(t)
  PROVE  Inv'
BY SoleAtWork, LeavesQuietly DEF TerminatePending, At, Starting

LEMMA CancelReadInv ==
  ASSUME Inv, NEW t \in Tools, CancelRead(t)
  PROVE  Inv'
<1>1. /\ pc[t] = "cancel_read" /\ Sole(t) /\ UNCHANGED <<files, world, crashes, lock, hand>>
  BY SoleAtWork DEF CancelRead, At
<1>2. /\ mem[t].active = active /\ hand[t].record \in active
      /\ hand[t].record.pid \notin LivePids
  BY <1>1 DEF Inv, AtWork, Cancels, Cancelling
<1>3. [mem[t] EXCEPT !.closed = closed] \in Memory
  BY MemoryOf DEF Memory, Inv, Documents
<1>4. mem' \in [Tools -> Memory] /\ mem'[t] = [mem[t] EXCEPT !.closed = closed]
  BY <1>3, Keeps DEF CancelRead
<1>5. mem'[t].active = mem[t].active /\ mem'[t].closed = closed
  BY <1>4, MemoryOf DEF Memory
<1>6. Moved(t, "cancel_close") /\ pc'[t] = "cancel_close"
  BY <1>1, <1>4, Moves, HoldsLock DEF CancelRead, Inv, Places
<1>7. LivePids' = LivePids
  BY <1>1 DEF LivePids, world
<1>8. AtWork(t)'
  BY <1>1, <1>2, <1>5, <1>6, <1>7
     DEF AtWork, Submits, Starts, Reaps, Cancels, Starting, Reaping, Cancelling, files
<1> QED
  BY <1>1, <1>6, <1>8, QuietKeeps DEF Starting

-----------------------------------------------------------------------------
(* The steps that write a file, launch or end a process, one by one.       *)

LEMMA ForgottenFinite ==
  ASSUME Inv
  PROVE  IsFiniteSet(Forgotten) /\ Cardinality(Forgotten) \in Nat
<1>1. Forgotten \in SUBSET live
  BY DEF Forgotten, Orphans
<1> QED
  BY <1>1, FS_Subset, FS_CardinalityType DEF Inv, Documents

(* No step but a death adds to the forgotten processes.                    *)
LEMMA ForgottenShrinks ==
  ASSUME Inv, Forgotten' \subseteq Forgotten
  PROVE  Cardinality(Forgotten') <= crashes
<1>1. Cardinality(Forgotten') <= Cardinality(Forgotten)
      /\ Cardinality(Forgotten') \in Nat
  BY ForgottenFinite, FS_Subset, FS_CardinalityType
<1>2. Cardinality(Forgotten) <= crashes /\ crashes \in Nat
  BY DEF Inv, Debts, Documents
<1> QED
  BY <1>1, <1>2, ForgottenFinite

(* The parts of the typed documents, for the arithmetic.                   *)
LEMMA Fields ==
  ASSUME Inv
  PROVE  /\ queue.seq \in Nat /\ lastPid \in Nat /\ crashes \in Nat
         /\ spent \in [Jobs -> Nat] /\ \A j \in Jobs : spent[j] \in Nat
         /\ \A e \in queue.entries :
              /\ e \in QueueEntry /\ e.job \in Jobs /\ e.seq \in Nat
              /\ e.attempts \in Nat /\ e.max \in 1..MaxAttemptsLimit
         /\ \A r \in active :
              /\ r \in ActiveRecord /\ r.job \in Jobs /\ r.seq \in Nat
              /\ r.attempts \in Nat /\ r.max \in 1..MaxAttemptsLimit /\ r.pid \in Nat
         /\ \A p \in live : p.pid \in Nat /\ p.job \in Jobs
<1>1. queue.entries \subseteq QueueEntry /\ active \subseteq ActiveRecord /\ live \subseteq Process
  BY DEF Inv, Documents, QueueDoc
<1>2. queue.seq \in Nat /\ lastPid \in Nat /\ crashes \in Nat
      /\ spent \in [Jobs -> Nat] /\ \A j \in Jobs : spent[j] \in Nat
  BY DEF Inv, Documents, QueueDoc
<1>3. \A e \in QueueEntry : e.job \in Jobs /\ e.seq \in Nat
        /\ e.attempts \in Nat /\ e.max \in 1..MaxAttemptsLimit
  BY DEF QueueEntry
<1>4. \A r \in ActiveRecord : r.job \in Jobs /\ r.seq \in Nat
        /\ r.attempts \in Nat /\ r.max \in 1..MaxAttemptsLimit /\ r.pid \in Nat
  BY DEF ActiveRecord
<1>5. \A p \in Process : p.pid \in Nat /\ p.job \in Jobs
  BY DEF Process
<1> QED
  BY <1>1, <1>2, <1>3, <1>4, <1>5

LEMMA SubmitSaveInv ==
  ASSUME Inv, NEW t \in Tools, SubmitSave(t)
  PROVE  Inv'
<1> DEFINE j == hand[t].job
           e == [job |-> j, seq |-> queue.seq + 1, attempts |-> 0,
                 max |-> hand[t].max, spec |-> TRUE]
<1>1. /\ pc[t] = "enqueue_save" /\ Sole(t) /\ Leave(t)
      /\ UNCHANGED <<active, closed, live, lastPid, crashes>>
      /\ queue' = mem[t].queue /\ spent' = [spent EXCEPT ![j] = 0]
  BY SoleAtWork DEF SubmitSave, At
<1>2. /\ Enqueueable(queue, j, JobsOf(active))
      /\ mem[t].queue = Enqueue(queue, j, hand[t].max, 0, TRUE)
      /\ j \in Jobs /\ hand[t].max \in 1..MaxAttemptsLimit
  BY <1>1 DEF Inv, AtWork, Submits
<1>3. /\ \A f \in queue.entries : f.job # j
      /\ \A r \in active : r.job # j
  BY <1>2 DEF Enqueueable, JobsOf
<1>4. queue'.entries = queue.entries \cup {e}
  BY <1>1, <1>2 DEF Enqueue
<1>5. e.job = j /\ e.attempts = 0
  OBVIOUS
<1>6. Documents'
  <2>1. queue' \in QueueDoc /\ IsFiniteSet(queue'.entries)
    BY <1>1, <1>2, EnqueueType DEF Inv, Documents
  <2> QED
    BY <1>1, <2>1 DEF Inv, Documents
<1>7. Moved(t, "idle") /\ \A u \in Tools : pc[u] \notin Starting /\ pc'[u] \notin Starting
  BY <1>1, Leaves DEF Moved, Sole, Inv, Places, Starting
<1> HIDE DEF j, e
<1>8. Apart'
  BY <1>1, <1>3, <1>4, <1>5 DEF Inv, Apart
<1>9. Debts'
  <2>1. Forgotten' \subseteq Forgotten
    BY <1>1, <1>7 DEF Forgotten, Orphans, Being, Starting
  <2>2. spent'[j] = 0 /\ \A k \in Jobs : k # j => spent'[k] = spent[k]
    BY <1>1, <1>2, Fields
  <2>3. \A r \in active' : spent'[r.job] <= r.attempts + crashes'
    BY <1>1, <1>3, <2>2, Fields DEF Inv, Debts
  <2>4. \A f \in queue'.entries : spent'[f.job] <= f.attempts + crashes'
    BY <1>1, <1>3, <1>4, <1>5, <1>7, <2>2, Fields DEF Inv, Debts
  <2> QED
    BY <1>1, <2>1, <2>3, <2>4, ForgottenShrinks DEF Debts
<1> QED
  BY <1>1, <1>6, <1>7, <1>8, <1>9, MovedKeeps

LEMMA LaunchInv ==
  ASSUME Inv, NEW t \in Tools, Launch(t)
  PROVE  Inv'
<1> DEFINE h == hand[t]
           r == Started(h, lastPid')
           p == [job |-> h.job, pid |-> lastPid']
           m == [mem[t] EXCEPT !.startActive = WithRecord(@, r), !.startQueue = Remove(@, h)]
<1>1. /\ pc[t] = "launch" /\ Sole(t) /\ UNCHANGED <<queue, active, closed, lock, hand, crashes>>
      /\ lastPid' = lastPid + 1 /\ live' = live \cup {p}
      /\ spent' = [spent EXCEPT ![h.job] = @ + 1]
      /\ Keep(t, m) /\ Goto(t, "save_active")
  BY SoleAtWork DEF Launch, At, files
<1>2. /\ mem[t].startQueue = queue /\ mem[t].startActive = active
      /\ Room(queue, active) /\ h \in queue.entries
  BY <1>1 DEF Inv, AtWork, Starts
<1>3. /\ h \in QueueEntry /\ h.job \in Jobs /\ h.attempts \in Nat /\ lastPid' \in Nat
  BY <1>1, <1>2, Fields
<1>4. r \in ActiveRecord /\ p \in Process /\ p.pid = lastPid' /\ r.pid = lastPid'
      /\ r.job = h.job /\ p.job = h.job
  BY <1>3, StoreConstants DEF Started, ActiveRecord, QueueEntry, Process
<1>5. \A s \in active : s.job # h.job
  BY <1>2 DEF Room, JobsOf
<1>6. WithRecord(active, r) = active \cup {r}
  BY <1>4, <1>5 DEF WithRecord
<1> HIDE DEF r, p, h
<1>7. /\ m \in Memory /\ m.startActive = active \cup {r} /\ m.startQueue = Remove(queue, h)
  <2>1. active \cup {r} \in SUBSET ActiveRecord /\ Remove(queue, h) \in QueueDoc
    BY <1>4 DEF Remove, QueueDoc, Inv, Documents
  <2> QED
    BY <1>2, <1>6, <2>1, MemoryOf DEF Memory
<1> HIDE DEF m
<1>8. mem' \in [Tools -> Memory] /\ mem'[t] = m
  BY <1>1, <1>7, Keeps
<1>9. /\ Moved(t, "save_active") /\ pc'[t] = "save_active"
      /\ \A u \in Tools : pc[u] \notin Starting
  BY <1>1, <1>8, Moves, HoldsLock DEF Inv, Places, Sole, Starting
<1>10. Documents'
  <2>1. IsFiniteSet(live \cup {p})
    BY FS_AddElement DEF Inv, Documents
  <2>2. spent' \in [Jobs -> Nat]
    BY <1>1, <1>3, Fields
  <2> QED
    BY <1>1, <1>3, <1>4, <2>1, <2>2 DEF Inv, Documents
<1>11. Apart'
  BY <1>1, <1>4, Fields DEF Inv, Apart
<1>12. /\ spent'[h.job] = spent[h.job] + 1
       /\ \A k \in Jobs : k # h.job => spent'[k] = spent[k]
       /\ spent[h.job] <= h.attempts + crashes
  BY <1>1, <1>2, <1>3, <1>9, Fields DEF Inv, Debts
<1>13. Debts'
  <2>1. Forgotten' \subseteq Forgotten
    <3>1. Being("save_active")' /\ ~Being("save_active")
      BY <1>9 DEF Being, Starting
    <3>2. Orphans' \subseteq Orphans \cup {p}
      BY <1>1 DEF Orphans
    <3> QED
      BY <1>4, <3>1, <3>2 DEF Forgotten
  <2>2. \A s \in active' : spent'[s.job] <= s.attempts + crashes'
    BY <1>1, <1>5, <1>12, Fields DEF Inv, Debts
  <2>3. \A e \in queue'.entries :
          \/ spent'[e.job] <= e.attempts + crashes'
          \/ pc'[t] \in Starting /\ hand'[t].job = e.job
    <3>1. \A e \in queue.entries : e.job # h.job => spent'[e.job] <= e.attempts + crashes
      BY <1>9, <1>12, Fields DEF Inv, Debts
    <3> QED
      BY <1>1, <1>9, <3>1 DEF Starting, h
  <2> QED
    BY <1>1, <2>1, <2>2, <2>3, ForgottenShrinks DEF Debts
<1>14. AtWork(t)'
  <2>1. /\ hand'[t] = h /\ h \in queue'.entries /\ Room(queue', active')
        /\ mem'[t].startQueue = Remove(queue', h)
        /\ mem'[t].startActive = active' \cup {Started(h, lastPid')}
        /\ spent'[h.job] <= h.attempts + 1 + crashes'
    BY <1>1, <1>2, <1>3, <1>7, <1>8, <1>12, Fields DEF h, r
  <2> QED
    BY <1>9, <2>1
       DEF AtWork, Submits, Starts, Reaps, Cancels, Starting, Reaping, Cancelling
<1> QED
  BY <1>1, <1>9, <1>10, <1>11, <1>13, <1>14, MovedKeeps

LEMMA SaveActiveInv ==
  ASSUME Inv, NEW t \in Tools, SaveActive(t)
  PROVE  Inv'
<1> DEFINE h == hand[t]
           r == Started(h, lastPid)
<1>1. /\ pc[t] = "save_active" /\ Sole(t) /\ active' = mem[t].startActive
      /\ UNCHANGED <<queue, closed, live, lastPid, spent, lock, mem, hand, crashes>>
      /\ Goto(t, "save_queue")
  BY SoleAtWork DEF SaveActive, At, world
<1>2. /\ mem[t].startQueue = Remove(queue, h)
      /\ mem[t].startActive = active \cup {r}
      /\ Room(queue, active) /\ h \in queue.entries
      /\ spent[h.job] <= h.attempts + 1 + crashes
  BY <1>1 DEF Inv, AtWork, Starts, Starting
<1>3. h \in QueueEntry /\ h.job \in Jobs /\ h.attempts \in Nat
  BY <1>2, Fields
<1>4. /\ r \in ActiveRecord /\ r.pid = lastPid /\ r.job = h.job
      /\ r.attempts = h.attempts + 1
  BY <1>3, Fields, StoreConstants DEF Started, ActiveRecord, QueueEntry
<1>5. \A s \in active : s.job # h.job
  BY <1>2 DEF Room, JobsOf
<1> HIDE DEF r, h
<1>6. Moved(t, "save_queue") /\ pc'[t] = "save_queue"
  BY <1>1, Moves, HoldsLock DEF Inv, Places
<1>7. IsFiniteSet(active') /\ Cardinality(active') <= Capacity
  <2>1. IsFiniteSet(active) /\ Cardinality(active) < Capacity /\ Cardinality(active) \in Nat
    BY <1>2, FS_CardinalityType DEF Inv, Documents, Room
  <2>2. IsFiniteSet(active \cup {r})
        /\ Cardinality(active \cup {r}) =
             IF r \in active THEN Cardinality(active) ELSE Cardinality(active) + 1
    BY <2>1, FS_AddElement
  <2> QED
    BY <1>1, <1>2, <2>1, <2>2, StoreConstants
<1>8. Documents'
  BY <1>1, <1>2, <1>4, <1>7 DEF Inv, Documents
<1>9. Apart'
  BY <1>1, <1>2, <1>4, <1>5, <1>7, Fields DEF Inv, Apart
<1>10. Debts'
  <2>1. Forgotten' \subseteq Forgotten
    <3>1. Orphans' \subseteq {p \in Orphans : p.pid # lastPid}
      BY <1>1, <1>2, <1>4 DEF Orphans
    <3> QED
      BY <3>1 DEF Forgotten
  <2>2. \A s \in active' : spent'[s.job] <= s.attempts + crashes'
    BY <1>1, <1>2, <1>3, <1>4, Fields DEF Inv, Debts
  <2>3. \A u \in Tools : pc[u] \in Starting => u = t
    BY <1>1 DEF Sole, Starting
  <2>4. \A e \in queue'.entries :
          \/ spent'[e.job] <= e.attempts + crashes'
          \/ pc'[t] \in Starting /\ hand'[t].job = e.job
    BY <1>1, <1>6, <2>3 DEF Inv, Debts, Starting
  <2> QED
    BY <1>1, <2>1, <2>2, <2>4, ForgottenShrinks DEF Debts
<1>11. AtWork(t)'
  <2>1. /\ hand'[t] = h /\ h \in queue'.entries /\ mem'[t].startQueue = Remove(queue', h)
        /\ Started(h, lastPid') \in active'
        /\ spent'[h.job] <= h.attempts + 1 + crashes'
    BY <1>1, <1>2 DEF h, r
  <2> QED
    BY <1>6, <2>1
       DEF AtWork, Submits, Starts, Reaps, Cancels, Starting, Reaping, Cancelling
<1> QED
  BY <1>1, <1>6, <1>8, <1>9, <1>10, <1>11, MovedKeeps

LEMMA SaveQueueInv ==
  ASSUME Inv, NEW t \in Tools, SaveQueue(t)
  PROVE  Inv'
<1> DEFINE h == hand[t]
<1>1. /\ pc[t] = "save_queue" /\ Sole(t) /\ queue' = mem[t].startQueue /\ Leave(t)
      /\ UNCHANGED <<active, closed, live, lastPid, spent, crashes>>
  BY SoleAtWork DEF SaveQueue, At, world
<1>2. mem[t].startQueue = Remove(queue, h) /\ h \in queue.entries
  BY <1>1 DEF Inv, AtWork, Starts, Starting
<1>3. queue'.entries = queue.entries \ {h} /\ queue' \in QueueDoc
  BY <1>1, <1>2 DEF Remove, Inv, Documents, QueueDoc
<1>4. Moved(t, "idle") /\ pc'[t] = "idle"
  BY <1>1, Leaves
<1>5. Documents'
  <2>1. IsFiniteSet(queue.entries \ {h})
    BY FS_RemoveElement DEF Inv, Documents
  <2> QED
    BY <1>1, <1>3, <2>1 DEF Inv, Documents
<1>6. Apart'
  BY <1>1, <1>3 DEF Inv, Apart
<1>7. Debts'
  <2>1. Forgotten' \subseteq Forgotten
    BY <1>1 DEF Forgotten, Orphans, Being, Sole
  <2>2. \A s \in active' : spent'[s.job] <= s.attempts + crashes'
    BY <1>1 DEF Inv, Debts
  <2>3. \A e \in queue'.entries : e.job # h.job
    BY <1>2, <1>3 DEF Inv, Apart
  <2>4. \A u \in Tools : pc[u] \in Starting => u = t
    BY <1>1 DEF Sole, Starting
  <2>5. \A e \in queue'.entries : spent'[e.job] <= e.attempts + crashes'
    BY <1>1, <1>3, <2>3, <2>4 DEF Inv, Debts, h
  <2> QED
    BY <1>1, <2>1, <2>2, <2>5, ForgottenShrinks DEF Debts
<1> QED
  BY <1>1, <1>4, <1>5, <1>6, <1>7, MovedKeeps

(* closed.json's newest records stay in it while others are appended.      *)
LEMMA ClosedOfKept ==
  ASSUME NEW c \in Seq(ClosedRecord), Len(c) <= MaxClosedRecords,
         NEW r \in ClosedRecord, NEW s, NEW n \in Nat, n < MaxClosedRecords,
         ClosedOf(c, s, n)
  PROVE  ClosedOf(AppendClosed(c, r), s, n + 1)
<1>1. PICK i \in DOMAIN c : c[i].job = s.job /\ c[i].seq = s.seq /\ Len(c) - i < n
  BY DEF ClosedOf
<1>2. i \in 1..Len(c) /\ Len(c) \in Nat
  BY <1>1
<1>3. CASE Len(c) < MaxClosedRecords
  <2>1. AppendClosed(c, r) = Append(c, r)
    BY <1>3 DEF AppendClosed
  <2>2. /\ i \in DOMAIN Append(c, r) /\ Append(c, r)[i] = c[i]
        /\ Len(Append(c, r)) = Len(c) + 1
    BY <1>2
  <2>3. Len(Append(c, r)) - i < n + 1
    BY <1>1, <1>2, <2>2
  <2> QED
    BY <1>1, <2>1, <2>2, <2>3 DEF ClosedOf
<1>4. CASE Len(c) = MaxClosedRecords
  <2>1. AppendClosed(c, r) = Append(Tail(c), r)
    BY <1>4 DEF AppendClosed
  <2>2. i > 1
    BY <1>1, <1>2, <1>4, StoreConstants
  <2>3. /\ i - 1 \in 1..Len(Tail(c)) /\ Tail(c)[i - 1] = c[i]
        /\ Len(Tail(c)) = Len(c) - 1 /\ Tail(c) \in Seq(ClosedRecord)
    BY <1>2, <2>2
  <2>4. /\ i - 1 \in DOMAIN Append(Tail(c), r)
        /\ Append(Tail(c), r)[i - 1] = c[i]
        /\ Len(Append(Tail(c), r)) = Len(c)
    BY <1>2, <2>3
  <2>5. Len(Append(Tail(c), r)) - (i - 1) < n + 1
    BY <1>1, <1>2, <2>4
  <2> QED
    BY <1>1, <2>1, <2>4, <2>5 DEF ClosedOf
<1> QED
  BY <1>2, <1>3, <1>4, StoreConstants

LEMMA ClosedOfNew ==
  ASSUME NEW c \in Seq(ClosedRecord), Len(c) <= MaxClosedRecords,
         NEW s \in ActiveRecord, NEW terminal \in Terminals
  PROVE  ClosedOf(AppendClosed(c, Closing(s, terminal)), s, 1)
<1> DEFINE r == Closing(s, terminal)
           a == AppendClosed(c, r)
<1>1. r \in ClosedRecord /\ r.job = s.job /\ r.seq = s.seq
  BY DEF Closing, ActiveRecord, ClosedRecord
<1> HIDE DEF r
<1>2. a \in Seq(ClosedRecord) /\ Len(a) \in 1..MaxClosedRecords /\ a[Len(a)] = r
  BY <1>1, AppendClosedFacts
<1> HIDE DEF a
<1>3. Len(a) \in DOMAIN a /\ Len(a) - Len(a) < 1
  BY <1>2, StoreConstants
<1>4. a[Len(a)].job = s.job /\ a[Len(a)].seq = s.seq
  BY <1>1, <1>2
<1>5. ClosedOf(a, s, 1)
  BY <1>3, <1>4 DEF ClosedOf
<1> QED
  BY <1>5 DEF a, r

LEMMA ClosedOfMore ==
  ASSUME NEW c \in Seq(ClosedRecord), NEW s, NEW n \in Nat, NEW m \in Nat, n <= m,
         ClosedOf(c, s, n)
  PROVE  ClosedOf(c, s, m)
<1>1. PICK i \in DOMAIN c : c[i].job = s.job /\ c[i].seq = s.seq /\ Len(c) - i < n
  BY DEF ClosedOf
<1>2. Len(c) - i < m
  BY <1>1
<1> QED
  BY <1>1, <1>2 DEF ClosedOf

(* A step that only writes closed.json.                                    *)
LEMMA LedgerKeeps ==
  ASSUME Inv, NEW t \in Tools, Sole(t), NEW l, Moved(t, l),
         UNCHANGED <<queue, active, live, lastPid, spent, crashes>>,
         closed' \in Seq(ClosedRecord), Len(closed') <= MaxClosedRecords,
         pc[t] \notin Starting, l \notin Starting,
         l # "idle" => AtWork(t)'
  PROVE  Inv'
<1>0. \A u \in Tools : pc[u] \notin Starting /\ pc'[u] \notin Starting
  BY DEF Moved, Sole, Inv, Places, Starting
<1>1. Documents' /\ Apart'
  BY DEF Inv, Documents, Apart
<1>2. Forgotten' = Forgotten
  BY <1>0 DEF Forgotten, Orphans, Being, Starting
<1>3. Debts'
  BY <1>0, <1>2 DEF Inv, Debts
<1> QED
  BY <1>1, <1>3, MovedKeeps

(* What a pass of reap is about, while it is at a record.                  *)
LEMMA PassFacts ==
  ASSUME Inv, NEW t \in Tools, pc[t] \in {"reap_close", "requeue"}
  PROVE  /\ hand[t].record \in mem[t].todo /\ hand[t].record \in mem[t].active
         /\ hand[t].record \in active
         /\ hand[t].terminal \in {"done", "failed", "crashed"}
         /\ hand[t].terminal \in Terminals
         /\ Closing(hand[t].record, hand[t].terminal) \in ClosedRecord
         /\ hand[t].record.pid \notin LivePids
         /\ mem[t].queue = queue /\ mem[t].closed = closed
         /\ mem[t].active \subseteq active /\ mem[t].todo \subseteq mem[t].active
         /\ \A s \in mem[t].todo \cup Out(t) : s.pid \notin LivePids
         /\ \A s \in Out(t) : ClosedOf(closed, s, Cardinality(Out(t)))
<1>1. /\ hand[t].record \in mem[t].todo
      /\ hand[t].terminal \in {"done", "failed", "crashed"}
      /\ mem[t].queue = queue /\ mem[t].closed = closed
      /\ mem[t].active \subseteq active /\ mem[t].todo \subseteq mem[t].active
      /\ \A s \in mem[t].todo \cup Out(t) : s.pid \notin LivePids
      /\ \A s \in Out(t) : ClosedOf(closed, s, Cardinality(Out(t)))
  BY DEF Inv, AtWork, Reaps, Reaping
<1>2. hand[t].record \in ActiveRecord /\ hand[t].terminal \in Terminals
  BY <1>1, Fields DEF Terminals
<1>3. Closing(hand[t].record, hand[t].terminal) \in ClosedRecord
  BY <1>2 DEF Closing, ActiveRecord, ClosedRecord
<1> QED
  BY <1>1, <1>2, <1>3

(* reap_close: one more record is dealt with, whichever way it goes on.    *)
LEMMA OneMoreOut ==
  ASSUME Inv, NEW t \in Tools, pc[t] = "reap_close",
         closed' = AppendClosed(closed, Closing(hand[t].record, hand[t].terminal))
  PROVE  LET out == Out(t) \cup {hand[t].record} IN
           /\ closed' \in Seq(ClosedRecord) /\ Len(closed') <= MaxClosedRecords
           /\ \A s \in out : ClosedOf(closed', s, Cardinality(out))
<1> DEFINE h == hand[t].record
           c == Closing(h, hand[t].terminal)
           out == Out(t) \cup {h}
           n == Cardinality(Out(t))
<1>1. /\ h \in active /\ h \in mem[t].active /\ c \in ClosedRecord
      /\ hand[t].terminal \in Terminals /\ mem[t].active \subseteq active
      /\ \A s \in Out(t) : ClosedOf(closed, s, n)
  BY PassFacts
<1>2. h \in ActiveRecord /\ closed \in Seq(ClosedRecord) /\ Len(closed) <= MaxClosedRecords
  BY <1>1, Fields DEF Inv, Documents
<1>3. Out(t) = active \ mem[t].active
  BY DEF Out
<1>4. closed' = AppendClosed(closed, c)
  OBVIOUS
<1>5. ClosedOf(closed', h, 1)
  BY <1>1, <1>2, ClosedOfNew
<1> HIDE DEF c, h
<1>6. closed' \in Seq(ClosedRecord) /\ Len(closed') <= MaxClosedRecords
  BY <1>1, <1>2, <1>4, AppendClosedFacts, StoreConstants
<1>7. /\ IsFiniteSet(Out(t)) /\ n \in Nat /\ IsFiniteSet(out)
      /\ Cardinality(out) = n + 1 /\ Cardinality(out) <= Capacity
  <2>1. IsFiniteSet(active) /\ Cardinality(active) <= Capacity /\ Cardinality(active) \in Nat
    BY FS_CardinalityType DEF Inv, Documents, Apart
  <2>2. Out(t) \in SUBSET active /\ out \in SUBSET active
    BY <1>1, <1>3
  <2>3. IsFiniteSet(Out(t)) /\ n \in Nat
    BY <2>1, <2>2, FS_Subset, FS_CardinalityType
  <2>4. h \notin Out(t)
    BY <1>1, <1>3
  <2>5. IsFiniteSet(out) /\ Cardinality(out) = n + 1
    BY <2>3, <2>4, FS_AddElement
  <2>6. Cardinality(out) <= Cardinality(active)
    BY <2>1, <2>2, FS_Subset
  <2> QED
    BY <2>1, <2>3, <2>5, <2>6, StoreConstants
<1>8. n < MaxClosedRecords
  BY <1>7, StoreConstants
<1>9. ASSUME NEW s \in out PROVE ClosedOf(closed', s, Cardinality(out))
  <2>1. CASE s = h
    BY <1>5, <1>6, <1>7, <2>1, ClosedOfMore
  <2>2. CASE s \in Out(t)
    BY <1>1, <1>2, <1>4, <1>7, <1>8, <2>2, ClosedOfKept
  <2> QED
    BY <2>1, <2>2
<1> QED
  BY <1>6, <1>9 DEF h

LEMMA ReapCloseInv ==
  ASSUME Inv, NEW t \in Tools, ReapClose(t)
  PROVE  Inv'
<1> DEFINE h == hand[t].record
           c == Closing(h, hand[t].terminal)
           out == Out(t) \cup {h}
<1>1. /\ pc[t] = "reap_close" /\ Sole(t)
      /\ UNCHANGED <<queue, active, live, lastPid, spent, crashes, lock>>
      /\ closed' = AppendClosed(mem[t].closed, c)
  BY SoleAtWork DEF ReapClose, At, world
<1>2. /\ h \in mem[t].todo /\ h \in mem[t].active /\ h \in active
      /\ hand[t].terminal \in {"done", "failed", "crashed"}
      /\ mem[t].queue = queue /\ mem[t].closed = closed
      /\ mem[t].active \subseteq active /\ mem[t].todo \subseteq mem[t].active
      /\ \A s \in mem[t].todo \cup Out(t) : s.pid \notin LivePids
  BY <1>1, PassFacts
<1>3. /\ closed' \in Seq(ClosedRecord) /\ Len(closed') <= MaxClosedRecords
      /\ \A s \in out : ClosedOf(closed', s, Cardinality(out))
  BY <1>1, <1>2, OneMoreOut
<1>4. Out(t) = active \ mem[t].active /\ LivePids' = LivePids
  BY <1>1 DEF Out, LivePids
<1>5. CASE WillRequeue(h, hand[t].terminal)
  <2>1. /\ Goto(t, "requeue") /\ Keep(t, [mem[t] EXCEPT !.closed = closed'])
        /\ UNCHANGED hand
    BY <1>5 DEF ReapClose
  <2>2. [mem[t] EXCEPT !.closed = closed'] \in Memory
    BY <1>3, MemoryOf DEF Memory
  <2>3. mem' \in [Tools -> Memory] /\ mem'[t] = [mem[t] EXCEPT !.closed = closed']
    BY <2>1, <2>2, Keeps
  <2>4. /\ mem'[t].queue = queue' /\ mem'[t].closed = closed'
        /\ mem'[t].active = mem[t].active /\ mem'[t].todo = mem[t].todo
    BY <1>1, <1>2, <2>3, MemoryOf DEF Memory
  <2>5. Moved(t, "requeue") /\ pc'[t] = "requeue"
    BY <1>1, <2>1, <2>3, Moves, HoldsLock DEF Inv, Places
  <2>6. Out(t)' = out
    BY <1>1, <1>4, <2>1, <2>4, <2>5 DEF Out
  <2> HIDE DEF out
  <2>7. /\ \A s \in mem'[t].todo \cup Out(t)' : s.pid \notin LivePids'
        /\ \A s \in Out(t)' : ClosedOf(closed', s, Cardinality(Out(t)'))
        /\ mem'[t].active \subseteq active' /\ mem'[t].todo \subseteq mem'[t].active
        /\ hand'[t] = hand[t] /\ h \in mem'[t].todo
    BY <1>1, <1>2, <1>3, <1>4, <2>1, <2>4, <2>6 DEF out
  <2>8. AtWork(t)'
    BY <1>2, <1>5, <2>4, <2>5, <2>7
       DEF AtWork, Submits, Starts, Reaps, Cancels, Starting, Reaping, Cancelling
  <2> QED
    BY <1>1, <1>3, <2>5, <2>8, LedgerKeeps DEF Starting
<1>6. CASE ~WillRequeue(h, hand[t].terminal)
  <2>1. /\ Goto(t, "reap") /\ Keep(t, [Reaped(t) EXCEPT !.closed = closed'])
        /\ Take(t, Nothing)
    BY <1>6 DEF ReapClose
  <2>2. [Reaped(t) EXCEPT !.closed = closed'] \in Memory
    BY <1>3, MemoryOf DEF Memory, Reaped
  <2>3. /\ mem' \in [Tools -> Memory] /\ mem'[t] = [Reaped(t) EXCEPT !.closed = closed']
        /\ DOMAIN hand' = Tools
    BY <2>1, <2>2, Keeps, Takes
  <2>4. /\ mem'[t].queue = queue' /\ mem'[t].closed = closed'
        /\ mem'[t].active = mem[t].active \ {h} /\ mem'[t].todo = mem[t].todo \ {h}
    BY <1>1, <1>2, <2>3, MemoryOf DEF Memory, Reaped
  <2>5. Moved(t, "reap") /\ pc'[t] = "reap"
    BY <1>1, <2>1, <2>3, Moves, HoldsLock DEF Inv, Places
  <2>6. Out(t)' = out
    BY <1>1, <1>2, <1>4, <2>4, <2>5 DEF Out
  <2> HIDE DEF out
  <2>7. /\ \A s \in mem'[t].todo \cup Out(t)' : s.pid \notin LivePids'
        /\ \A s \in Out(t)' : ClosedOf(closed', s, Cardinality(Out(t)'))
        /\ mem'[t].active \subseteq active' /\ mem'[t].todo \subseteq mem'[t].active
    BY <1>1, <1>2, <1>3, <1>4, <2>4, <2>6 DEF out
  <2>8. AtWork(t)'
    BY <2>4, <2>5, <2>7
       DEF AtWork, Submits, Starts, Reaps, Cancels, Starting, Reaping, Cancelling
  <2> QED
    BY <1>1, <1>3, <2>5, <2>8, LedgerKeeps DEF Starting
<1> QED
  BY <1>5, <1>6

LEMMA ReapRequeueInv ==
  ASSUME Inv, NEW t \in Tools, ReapRequeue(t)
  PROVE  Inv'
<1> DEFINE h == hand[t].record
           e == [job |-> h.job, seq |-> queue.seq + 1, attempts |-> h.attempts,
                 max |-> h.max, spec |-> FALSE]
<1>1. /\ pc[t] = "requeue" /\ Sole(t)
      /\ UNCHANGED <<active, closed, live, lastPid, spent, crashes>>
  BY SoleAtWork DEF ReapRequeue, At, world
<1>2. /\ h \in mem[t].todo /\ h \in mem[t].active /\ h \in active
      /\ mem[t].queue = queue /\ mem[t].closed = closed
      /\ mem[t].active \subseteq active /\ mem[t].todo \subseteq mem[t].active
      /\ \A s \in mem[t].todo \cup Out(t) : s.pid \notin LivePids
      /\ \A s \in Out(t) : ClosedOf(closed, s, Cardinality(Out(t)))
  BY <1>1, PassFacts
<1>3. CASE ~Enqueueable(mem[t].queue, h.job, {})
  <2>1. Leave(t) /\ UNCHANGED queue
    BY <1>3 DEF ReapRequeue
  <2> QED
    BY <1>1, <2>1, LeavesQuietly DEF files, world, Starting
<1>4. CASE Enqueueable(mem[t].queue, h.job, {})
  <2>1. /\ queue' = Requeue(queue, h) /\ Keep(t, [Reaped(t) EXCEPT !.queue = queue'])
        /\ Take(t, Nothing) /\ Goto(t, "reap") /\ UNCHANGED lock
    BY <1>2, <1>4 DEF ReapRequeue
  <2>2. /\ \A f \in queue.entries : f.job # h.job
        /\ h.job \in Jobs /\ h.max \in 1..MaxAttemptsLimit /\ h.attempts \in Nat
    BY <1>2, <1>4, Fields DEF Enqueueable, JobsOf
  <2>3. queue' \in QueueDoc /\ IsFiniteSet(queue'.entries)
        /\ queue'.entries = queue.entries \cup {e}
    BY <2>1, <2>2, EnqueueType DEF Requeue, Enqueue, Inv, Documents
  <2>4. e.job = h.job /\ e.attempts = h.attempts
    OBVIOUS
  <2> HIDE DEF e
  <2>5. [Reaped(t) EXCEPT !.queue = queue'] \in Memory
    BY <2>3, MemoryOf DEF Memory, Reaped
  <2>6. /\ mem' \in [Tools -> Memory] /\ mem'[t] = [Reaped(t) EXCEPT !.queue = queue']
        /\ DOMAIN hand' = Tools
    BY <2>1, <2>5, Keeps, Takes
  <2>7. /\ mem'[t].queue = queue' /\ mem'[t].closed = closed'
        /\ mem'[t].active = mem[t].active \ {h} /\ mem'[t].todo = mem[t].todo \ {h}
    BY <1>1, <1>2, <2>6, MemoryOf DEF Memory, Reaped
  <2>8. /\ Moved(t, "reap") /\ pc'[t] = "reap"
        /\ \A u \in Tools : pc[u] \notin Starting /\ pc'[u] \notin Starting
    BY <1>1, <2>1, <2>6, Moves, HoldsLock DEF Inv, Places, Moved, Sole, Starting
  <2>9. Out(t)' = Out(t) /\ LivePids' = LivePids
    BY <1>1, <1>2, <2>7, <2>8 DEF Out, LivePids
  <2>10. AtWork(t)'
    <3>1. /\ \A s \in mem'[t].todo \cup Out(t)' : s.pid \notin LivePids'
          /\ \A s \in Out(t)' : ClosedOf(closed', s, Cardinality(Out(t)'))
          /\ mem'[t].active \subseteq active' /\ mem'[t].todo \subseteq mem'[t].active
      <4>1. /\ mem'[t].active \subseteq active' /\ mem'[t].todo \subseteq mem'[t].active
            /\ mem'[t].todo \subseteq mem[t].todo
        BY <1>1, <1>2, <2>7
      <4>2. \A s \in Out(t)' : ClosedOf(closed', s, Cardinality(Out(t)'))
        BY <1>1, <1>2, <2>9
      <4> QED
        BY <1>2, <2>9, <4>1, <4>2
    <3> QED
      BY <2>7, <2>8, <3>1
         DEF AtWork, Submits, Starts, Reaps, Cancels, Starting, Reaping, Cancelling
  <2>11. Documents'
    BY <1>1, <2>3 DEF Inv, Documents
  <2>12. Apart'
    BY <1>1, <2>2, <2>3, <2>4 DEF Inv, Apart
  <2>13. Debts'
    <3>1. Forgotten' \subseteq Forgotten
      BY <1>1, <2>8 DEF Forgotten, Orphans, Being, Starting
    <3>2. \A f \in queue'.entries : spent'[f.job] <= f.attempts + crashes'
      BY <1>1, <1>2, <2>3, <2>4, <2>8 DEF Inv, Debts
    <3>3. \A s \in active' : spent'[s.job] <= s.attempts + crashes'
      BY <1>1 DEF Inv, Debts
    <3> QED
      BY <1>1, <3>1, <3>2, <3>3, ForgottenShrinks DEF Debts
  <2> QED
    BY <1>1, <2>8, <2>10, <2>11, <2>12, <2>13, MovedKeeps
<1> QED
  BY <1>3, <1>4

(* Records go that name no process: nothing is forgotten by it.            *)
LEMMA FewerRecords ==
  ASSUME Inv, active' \subseteq active,
         \A r \in active \ active' : r.pid \notin LivePids,
         UNCHANGED <<queue, closed, live, lastPid, spent, crashes>>,
         \A u \in Tools : pc[u] \notin Starting /\ pc'[u] \notin Starting
  PROVE  Documents' /\ Apart' /\ Debts'
<1>1. IsFiniteSet(active') /\ Cardinality(active') <= Capacity
  <2>1. IsFiniteSet(active) /\ Cardinality(active) <= Capacity /\ Cardinality(active) \in Nat
    BY FS_CardinalityType DEF Inv, Documents, Apart
  <2>2. /\ IsFiniteSet(active') /\ Cardinality(active') <= Cardinality(active)
        /\ Cardinality(active') \in Nat
    BY <2>1, FS_Subset, FS_CardinalityType
  <2> QED
    BY <2>1, <2>2, StoreConstants
<1>2. Documents'
  BY <1>1 DEF Inv, Documents
<1>3. Apart'
  BY <1>1 DEF Inv, Apart
<1>4. Forgotten' \subseteq Forgotten
  BY DEF Forgotten, Orphans, Being, Starting, LivePids
<1>5. Debts'
  BY <1>4, ForgottenShrinks DEF Inv, Debts
<1> QED
  BY <1>2, <1>3, <1>5

LEMMA ReapSaveInv ==
  ASSUME Inv, NEW t \in Tools, ReapSave(t)
  PROVE  Inv'
<1>1. /\ pc[t] = "reap" /\ Sole(t) /\ active' = mem[t].active
      /\ UNCHANGED <<queue, closed, live, lastPid, spent, crashes>>
  BY SoleAtWork DEF ReapSave, At, world
<1>2. /\ mem[t].queue = queue /\ mem[t].closed = closed /\ mem[t].active \subseteq active
      /\ \A s \in Out(t) : s.pid \notin LivePids
  BY <1>1 DEF Inv, AtWork, Reaps, Reaping
<1>3. \A r \in active \ active' : r.pid \notin LivePids
  BY <1>1, <1>2 DEF Out
<1>4. CASE t \in Sessions
  <2>1. Goto(t, "session_decide") /\ UNCHANGED <<lock, mem, hand>>
    BY <1>4 DEF ReapSave
  <2>2. /\ Moved(t, "session_decide") /\ pc'[t] = "session_decide"
        /\ \A u \in Tools : pc[u] \notin Starting /\ pc'[u] \notin Starting
    BY <1>1, <2>1, Moves, HoldsLock DEF Inv, Places, Moved, Sole, Starting
  <2>3. AtWork(t)'
    BY <1>1, <1>2, <1>4, <2>1, <2>2
       DEF AtWork, Submits, Starts, Reaps, Cancels, Starting, Reaping, Cancelling
  <2> QED
    BY <1>1, <1>2, <1>3, <2>2, <2>3, FewerRecords, MovedKeeps
<1>5. CASE t \notin Sessions
  <2>1. Leave(t)
    BY <1>5 DEF ReapSave
  <2>2. /\ Moved(t, "idle")
        /\ \A u \in Tools : pc[u] \notin Starting /\ pc'[u] \notin Starting
    BY <1>1, <2>1, Leaves DEF Inv, Places, Moved, Sole, Starting
  <2> QED
    BY <1>1, <1>2, <1>3, <2>2, FewerRecords, MovedKeeps
<1> QED
  BY <1>4, <1>5

(* The queue a session writes back is the one that is there.               *)
LEMMA SessionSaveInv ==
  ASSUME Inv, NEW t \in Tools, SessionSave(t)
  PROVE  Inv'
<1>1. pc[t] = "session_save" /\ Sole(t) /\ Leave(t)
  BY SoleAtWork DEF SessionSave, At
<1>2. mem[t].queue = queue
  BY <1>1 DEF Inv, AtWork, Reaps
<1>3. UNCHANGED <<files, world, crashes>>
  BY <1>2 DEF SessionSave, At, files, world
<1> QED
  BY <1>1, <1>3, LeavesQuietly DEF Starting

(* A process goes, whoever ended it.                                       *)
LEMMA FewerProcesses ==
  ASSUME Inv, live' \subseteq live,
         UNCHANGED <<queue, active, closed, lastPid, spent, crashes, hand>>,
         \A u \in Tools : pc'[u] \in Starting <=> pc[u] \in Starting,
         Being("save_active")' <=> Being("save_active")
  PROVE  Documents' /\ Apart' /\ Debts'
<1>1. IsFiniteSet(live')
  BY FS_Subset DEF Inv, Documents
<1>2. Documents'
  BY <1>1 DEF Inv, Documents
<1>3. Apart'
  BY DEF Inv, Apart
<1>4. Forgotten' \subseteq Forgotten
  BY DEF Forgotten, Orphans
<1>5. Debts'
  BY <1>4, ForgottenShrinks DEF Inv, Debts
<1> QED
  BY <1>2, <1>3, <1>5

LEMMA TerminateInv ==
  ASSUME Inv, NEW t \in Tools, Terminate(t)
  PROVE  Inv'
<1>1. /\ pc[t] = "terminate" /\ Sole(t) /\ Goto(t, "cancel_read")
      /\ live' = {p \in live : p.pid # hand[t].record.pid}
      /\ UNCHANGED <<queue, active, closed, lastPid, spent, crashes, lock, mem, hand>>
  BY SoleAtWork DEF Terminate, At, files
<1>2. mem[t].active = active /\ hand[t].record \in active
  BY <1>1 DEF Inv, AtWork, Cancels
<1>3. /\ Moved(t, "cancel_read") /\ pc'[t] = "cancel_read"
      /\ \A u \in Tools : pc[u] \notin Starting /\ pc'[u] \notin Starting
  BY <1>1, Moves, HoldsLock DEF Inv, Places, Moved, Sole, Starting
<1>4. hand[t].record.pid \notin LivePids'
  BY <1>1 DEF LivePids
<1>5. AtWork(t)'
  BY <1>1, <1>2, <1>3, <1>4
     DEF AtWork, Submits, Starts, Reaps, Cancels, Starting, Reaping, Cancelling
<1>6. Being("save_active")' <=> Being("save_active")
  BY <1>3 DEF Being, Starting
<1>7. Documents' /\ Apart' /\ Debts'
  BY <1>1, <1>3, <1>6, FewerProcesses
<1> QED
  BY <1>1, <1>3, <1>5, <1>7, MovedKeeps

LEMMA CancelCloseInv ==
  ASSUME Inv, NEW t \in Tools, CancelClose(t)
  PROVE  Inv'
<1>1. /\ pc[t] = "cancel_close" /\ Sole(t) /\ Goto(t, "cancel_save")
      /\ closed' = AppendClosed(mem[t].closed, Closing(hand[t].record, "cancelled"))
      /\ UNCHANGED <<queue, active, live, lastPid, spent, crashes, lock, mem, hand>>
  BY SoleAtWork DEF CancelClose, At, world
<1>2. /\ mem[t].active = active /\ hand[t].record \in active
      /\ hand[t].record.pid \notin LivePids /\ mem[t].closed = closed
  BY <1>1 DEF Inv, AtWork, Cancels, Cancelling
<1>3. /\ Moved(t, "cancel_save") /\ pc'[t] = "cancel_save"
  BY <1>1, Moves, HoldsLock DEF Inv, Places
<1>4. /\ closed \in Seq(ClosedRecord) /\ Len(closed) <= MaxClosedRecords
      /\ hand[t].record \in ActiveRecord /\ "cancelled" \in Terminals
      /\ Closing(hand[t].record, "cancelled") \in ClosedRecord
  BY <1>2, Fields DEF Inv, Documents, Closing, ActiveRecord, ClosedRecord, Terminals
<1>5. /\ closed' \in Seq(ClosedRecord) /\ Len(closed') <= MaxClosedRecords
  BY <1>1, <1>2, <1>4, AppendClosedFacts, StoreConstants
<1>6. ClosedOf(closed', hand'[t].record, 1)
  BY <1>1, <1>2, <1>4, ClosedOfNew
<1>7. LivePids' = LivePids
  BY <1>1 DEF LivePids
<1>8. AtWork(t)'
  BY <1>1, <1>2, <1>3, <1>6, <1>7
     DEF AtWork, Submits, Starts, Reaps, Cancels, Starting, Reaping, Cancelling
<1> QED
  BY <1>1, <1>3, <1>5, <1>8, LedgerKeeps DEF Starting

LEMMA CancelSaveInv ==
  ASSUME Inv, NEW t \in Tools, CancelSave(t)
  PROVE  Inv'
<1>1. /\ pc[t] = "cancel_save" /\ Sole(t) /\ Leave(t)
      /\ active' = {r \in mem[t].active : r.job # hand[t].record.job}
      /\ UNCHANGED <<queue, closed, live, lastPid, spent, crashes>>
  BY SoleAtWork DEF CancelSave, At, world
<1>2. /\ mem[t].active = active /\ hand[t].record \in active
      /\ hand[t].record.pid \notin LivePids
  BY <1>1 DEF Inv, AtWork, Cancels, Cancelling
<1>3. active' = active \ {hand[t].record}
  BY <1>1, <1>2 DEF Inv, Apart
<1>4. /\ Moved(t, "idle")
      /\ \A u \in Tools : pc[u] \notin Starting /\ pc'[u] \notin Starting
  BY <1>1, Leaves DEF Inv, Places, Moved, Sole, Starting
<1>5. Documents' /\ Apart' /\ Debts'
  BY <1>1, <1>2, <1>3, <1>4, FewerRecords
<1> QED
  BY <1>1, <1>4, <1>5, MovedKeeps

LEMMA ExitInv ==
  ASSUME Inv, NEW p \in live, Exit(p)
  PROVE  Inv'
<1>1. /\ live' = live \ {p}
      /\ UNCHANGED <<queue, active, closed, lastPid, spent, lock, pc, mem, hand, crashes>>
  BY DEF Exit, files
<1>2. Documents' /\ Apart' /\ Debts'
  BY <1>1, FewerProcesses DEF Being
<1>3. Places' /\ Solo'
  BY <1>1 DEF Inv, Places, Solo
<1>4. \A r : r \notin LivePids => r \notin LivePids'
  BY <1>1 DEF LivePids
<1>5. ASSUME NEW u \in Tools PROVE AtWork(u)'
  <2>1. Out(u)' = Out(u)
    BY <1>1 DEF Out
  <2>2. Submits(u)' /\ Starts(u)'
    BY <1>1 DEF Inv, AtWork, Submits, Starts
  <2>3. Reaps(u)'
    BY <1>1, <1>4, <2>1 DEF Inv, AtWork, Reaps
  <2>4. Cancels(u)'
    BY <1>1, <1>4 DEF Inv, AtWork, Cancels
  <2> QED
    BY <2>2, <2>3, <2>4 DEF AtWork
<1> QED
  BY <1>2, <1>3, <1>5 DEF Inv

(* A death between launch and the first save leaves a process no record    *)
(* names, one before the second save an attempt not counted, and a death   *)
(* anywhere else nothing.                                                  *)
LEMMA CrashInv ==
  ASSUME Inv, NEW t \in Tools, Crash(t)
  PROVE  Inv'
<1>1. /\ pc[t] # "idle" /\ Sole(t) /\ Leave(t) /\ crashes' = crashes + 1
      /\ UNCHANGED <<queue, active, closed, live, lastPid, spent>>
  BY SoleAtWork DEF Crash, files, world
<1>2. Moved(t, "idle") /\ \A u \in Tools : pc'[u] = "idle"
  BY <1>1, Leaves DEF Inv, Places, Moved, Sole
<1>3. Documents' /\ Apart'
  BY <1>1, Fields DEF Inv, Documents, Apart
<1>4. Cardinality(Forgotten') <= crashes'
  <2> DEFINE last == {p \in live : p.pid = lastPid}
  <2>1. Forgotten' \subseteq Forgotten \cup last
    BY <1>1 DEF Forgotten, Orphans
  <2>2. IsFiniteSet(Forgotten) /\ Cardinality(Forgotten) \in Nat
        /\ Cardinality(Forgotten) <= crashes /\ crashes \in Nat
    BY ForgottenFinite, Fields DEF Inv, Debts
  <2>3. last = {} \/ \E p \in live : last = {p}
    BY DEF Inv, Apart
  <2> HIDE DEF last
  <2>4. /\ IsFiniteSet(Forgotten \cup last)
        /\ Cardinality(Forgotten \cup last) <= Cardinality(Forgotten) + 1
    <3>1. CASE last = {}
      <4>1. Forgotten \cup last = Forgotten
        BY <3>1
      <4>2. Cardinality(Forgotten) <= Cardinality(Forgotten) + 1
        BY <2>2
      <4> QED
        BY <2>2, <4>1, <4>2
    <3>2. ASSUME NEW p \in live, last = {p}
          PROVE  /\ IsFiniteSet(Forgotten \cup last)
                 /\ Cardinality(Forgotten \cup last) <= Cardinality(Forgotten) + 1
      <4>1. /\ IsFiniteSet(Forgotten \cup {p})
            /\ Cardinality(Forgotten \cup {p}) =
                 IF p \in Forgotten THEN Cardinality(Forgotten) ELSE Cardinality(Forgotten) + 1
        BY <2>2, FS_AddElement
      <4>2. Cardinality(Forgotten \cup {p}) <= Cardinality(Forgotten) + 1
        BY <2>2, <4>1
      <4> QED
        BY <3>2, <4>1, <4>2
    <3> QED
      BY <2>3, <3>1, <3>2
  <2>5. /\ Cardinality(Forgotten') <= Cardinality(Forgotten \cup last)
        /\ Cardinality(Forgotten') \in Nat /\ Cardinality(Forgotten \cup last) \in Nat
    BY <2>1, <2>4, FS_Subset, FS_CardinalityType
  <2> QED
    BY <1>1, <2>2, <2>4, <2>5
<1>5. \A r \in active' : spent'[r.job] <= r.attempts + crashes'
  BY <1>1, Fields DEF Inv, Debts
<1>6. ASSUME NEW e \in queue'.entries PROVE spent'[e.job] <= e.attempts + crashes'
  <2>1. CASE spent[e.job] <= e.attempts + crashes
    BY <1>1, <2>1, Fields
  <2>2. CASE \E u \in Tools : pc[u] \in Starting /\ hand[u].job = e.job
    <3>1. pc[t] \in Starting /\ hand[t].job = e.job
      BY <1>1, <2>2 DEF Sole, Starting
    <3>2. hand[t] \in queue.entries /\ spent[hand[t].job] <= hand[t].attempts + 1 + crashes
      BY <3>1 DEF Inv, AtWork, Starts, Starting
    <3>3. e = hand[t]
      BY <1>1, <3>1, <3>2 DEF Inv, Apart
    <3> QED
      BY <1>1, <3>2, <3>3, Fields
  <2> QED
    BY <1>1, <2>1, <2>2 DEF Inv, Debts
<1>7. Debts'
  BY <1>4, <1>5, <1>6 DEF Debts
<1> QED
  BY <1>1, <1>2, <1>3, <1>7, MovedKeeps

-----------------------------------------------------------------------------
(* The theorems about the files. *)

LEMMA NextKeeps ==
  ASSUME Inv, Serial, [Next]_vars
  PROVE  Inv'
<1>1. ASSUME NEW t \in Tools, Begin(t) PROVE Inv'
  BY <1>1, SubmitInv, StartLoadInv, RebuildQueueInv, CancelInv DEF Begin
<1>2. ASSUME NEW t \in Tools, Step(t) PROVE Inv'
  <2>1. CASE SubmitCheck(t) \/ SubmitSave(t) \/ StartDecide(t) \/ Launch(t)
               \/ LaunchFails(t) \/ SaveActive(t) \/ SaveQueue(t)
    BY <2>1, SubmitCheckInv, SubmitSaveInv, StartDecideInv, LaunchInv, LaunchFailsInv,
       SaveActiveInv, SaveQueueInv
  <2>2. CASE RebuildActive(t) \/ ReapRecord(t) \/ ReapClose(t) \/ ReapRequeue(t)
               \/ ReapSave(t)
    BY <2>2, RebuildActiveInv, ReapRecordInv, ReapCloseInv, ReapRequeueInv, ReapSaveInv
  <2>3. CASE SessionEnds(t) \/ SessionDecide(t) \/ SessionSave(t)
    BY <2>3, SessionEndsInv, SessionDecideInv, SessionSaveInv
  <2>4. CASE Terminate(t) \/ TerminatePending(t) \/ CancelRead(t) \/ CancelClose(t)
               \/ CancelSave(t)
    BY <2>4, TerminateInv, TerminatePendingInv, CancelReadInv, CancelCloseInv,
       CancelSaveInv
  <2> QED
    BY <1>2, <2>1, <2>2, <2>3, <2>4 DEF Step
<1>3. ASSUME NEW t \in Tools, Crash(t) PROVE Inv'
  BY <1>3, CrashInv
<1>4. ASSUME NEW p \in live, Exit(p) PROVE Inv'
  BY <1>4, ExitInv
<1>5. CASE UNCHANGED vars
  <2>1. UNCHANGED <<queue, active, closed, live, lastPid, spent, lock, pc, mem, hand, crashes>>
    BY <1>5 DEF vars, files, world
  <2>2. Documents' /\ Places' /\ Solo' /\ Apart'
    BY <2>1 DEF Inv, Documents, Places, Solo, Apart
  <2>3. Debts'
    BY <2>1 DEF Inv, Debts, Forgotten, Orphans, Being
  <2>4. ASSUME NEW u \in Tools PROVE AtWork(u)'
    <3>1. Out(u)' = Out(u) /\ LivePids' = LivePids
      BY <2>1 DEF Out, LivePids
    <3>2. Submits(u)' /\ Starts(u)'
      BY <2>1 DEF Inv, AtWork, Submits, Starts
    <3>3. Reaps(u)' /\ Cancels(u)'
      BY <2>1, <3>1 DEF Inv, AtWork, Reaps, Cancels
    <3> QED
      BY <3>2, <3>3 DEF AtWork
  <2> QED
    BY <2>2, <2>3, <2>4 DEF Inv
<1> QED
  BY <1>1, <1>2, <1>3, <1>4, <1>5 DEF Next

LEMMA InitInv == Init => Inv
<1> SUFFICES ASSUME Init PROVE Inv
  OBVIOUS
<1>1. /\ queue = EmptyQueue /\ active = {} /\ closed = <<>> /\ live = {} /\ lastPid = 0
      /\ spent = [j \in Jobs |-> 0] /\ lock = NoOne /\ crashes = 0
      /\ pc = [t \in Tools |-> "idle"] /\ mem = [t \in Tools |-> Blank]
      /\ hand = [t \in Tools |-> Nothing]
  BY DEF Init
<1>2. IsFiniteSet({}) /\ Cardinality({}) = 0
  BY FS_EmptySet
<1>3. EmptyQueue \in QueueDoc /\ EmptyQueue.entries = {}
  BY DEF EmptyQueue, QueueDoc
<1>4. Documents
  BY <1>1, <1>2, <1>3, StoreConstants DEF Documents
<1>5. Places /\ Solo
  BY <1>1, BlankIs DEF Places, Solo, Locking, Tools
<1>6. Apart
  BY <1>1, <1>2, <1>3, StoreConstants DEF Apart
<1>7. Debts
  <2>1. Forgotten = {}
    BY <1>1 DEF Forgotten, Orphans
  <2> QED
    BY <1>1, <1>2, <1>3, <2>1 DEF Debts
<1>8. \A t \in Tools : AtWork(t)
  BY <1>1 DEF AtWork, Submits, Starts, Reaps, Cancels, Starting, Reaping, Cancelling
<1> QED
  BY <1>4, <1>5, <1>6, <1>7, <1>8 DEF Inv

(* While no other tool runs beside a command, whatever a tool holds in its *)
(* memory agrees with the files it read, at every step and after any death.*)
THEOREM FilesInductive == ASSUME Serial PROVE Spec => []Inv
BY InitInv, NextKeeps, PTL DEF Spec

(* CrashDamage: whatever tools die and wherever, at rest there is at most  *)
(* one process without a record, and one attempt missing from the count of *)
(* a job, for each death (the order of the writes in start_one).           *)
THEOREM DamageBounded == ASSUME Serial PROVE Spec => []CrashDamage
<1>1. Inv => CrashDamage
  <2> SUFFICES ASSUME Inv, AtRest
               PROVE  /\ Cardinality(Orphans) <= crashes
                      /\ \A e \in queue.entries : spent[e.job] <= e.attempts + crashes
                      /\ \A r \in active : spent[r.job] <= r.attempts + crashes
    BY DEF CrashDamage, OrphansFromCrashes, AttemptsUndercounted
  <2>1. \A t \in Tools : pc[t] \notin Starting
    BY DEF AtRest, Starting
  <2>2. Forgotten = Orphans
    BY DEF Forgotten, Being, AtRest, Orphans
  <2> QED
    BY <2>1, <2>2 DEF Inv, Debts
<1> QED
  BY <1>1, FilesInductive, PTL

(* A closed record found for r is an attempt of r's.                       *)
LEMMA ClosedOfIsAttempt ==
  ASSUME NEW c, NEW r, NEW n, ClosedOf(c, r, n)
  PROVE  Attempted({c[i] : i \in DOMAIN c}, r)
BY DEF ClosedOf, Attempted

(* NothingLost: no job falls between the files, wherever a tool dies: an   *)
(* entry leaves queue.json once its record is in active.json, and a record *)
(* leaves active.json once closed.json has one of the same attempt, which  *)
(* the records closed after it in the same pass do not push out.           *)
THEOREM FilesLoseNothing == ASSUME Serial PROVE Spec => NothingLost
<1> DEFINE Kept == /\ \A e \in queue.entries \ queue'.entries :
                        Attempted(active', e) \/ Attempted({closed'[i] : i \in DOMAIN closed'}, e)
                   /\ \A r \in active \ active' :
                        Attempted({closed'[i] : i \in DOMAIN closed'}, r)
<1>1. Inv /\ [Next]_vars => Kept
  <2> SUFFICES ASSUME Inv, [Next]_vars PROVE Kept
    OBVIOUS
  <2>1. CASE queue' = queue /\ active' = active
    BY <2>1
  <2>2. ASSUME NEW t \in Tools, SubmitSave(t) PROVE Kept
    <3>1. /\ pc[t] = "enqueue_save" /\ queue' = mem[t].queue /\ active' = active
      BY <2>2 DEF SubmitSave, At
    <3>2. mem[t].queue = Enqueue(queue, hand[t].job, hand[t].max, 0, TRUE)
      BY <3>1 DEF Inv, AtWork, Submits
    <3>3. queue.entries \subseteq queue'.entries
      BY <3>1, <3>2 DEF Enqueue
    <3> QED
      BY <3>1, <3>3
  <2>3. ASSUME NEW t \in Tools, SaveActive(t) PROVE Kept
    <3>1. /\ pc[t] = "save_active" /\ active' = mem[t].startActive /\ queue' = queue
      BY <2>3 DEF SaveActive, At
    <3>2. active \subseteq active'
      BY <3>1 DEF Inv, AtWork, Starts, Starting
    <3> QED
      BY <3>1, <3>2
  <2>4. ASSUME NEW t \in Tools, SaveQueue(t) PROVE Kept
    <3>1. /\ pc[t] = "save_queue" /\ queue' = mem[t].startQueue /\ active' = active
      BY <2>4 DEF SaveQueue, At
    <3>2. /\ mem[t].startQueue = Remove(queue, hand[t])
          /\ Started(hand[t], lastPid) \in active
      BY <3>1 DEF Inv, AtWork, Starts, Starting
    <3>3. queue'.entries = queue.entries \ {hand[t]}
      BY <3>1, <3>2 DEF Remove, Inv, Documents, QueueDoc
    <3>4. Attempted(active', hand[t])
      BY <3>1, <3>2 DEF Attempted, Started
    <3> QED
      BY <3>1, <3>3, <3>4
  <2>5. ASSUME NEW t \in Tools, ReapRequeue(t) PROVE Kept
    <3>1. /\ pc[t] = "requeue" /\ active' = active
          /\ queue' = queue \/ queue' = Requeue(mem[t].queue, hand[t].record)
      BY <2>5 DEF ReapRequeue, At
    <3>2. mem[t].queue = queue
      BY <3>1, PassFacts
    <3>3. queue.entries \subseteq queue'.entries
      BY <3>1, <3>2 DEF Requeue, Enqueue
    <3> QED
      BY <3>1, <3>3
  <2>6. ASSUME NEW t \in Tools, ReapSave(t) PROVE Kept
    <3>1. /\ pc[t] = "reap" /\ active' = mem[t].active /\ queue' = queue /\ closed' = closed
      BY <2>6 DEF ReapSave, At
    <3>2. \A r \in Out(t) : ClosedOf(closed, r, Cardinality(Out(t)))
      BY <3>1 DEF Inv, AtWork, Reaps, Reaping
    <3>3. active \ active' = Out(t)
      BY <3>1 DEF Out
    <3> QED
      BY <3>1, <3>2, <3>3, ClosedOfIsAttempt
  <2>7. ASSUME NEW t \in Tools, SessionSave(t) PROVE Kept
    <3>1. pc[t] = "session_save" /\ queue' = mem[t].queue /\ active' = active
      BY <2>7 DEF SessionSave, At
    <3>2. mem[t].queue = queue
      BY <3>1 DEF Inv, AtWork, Reaps
    <3> QED
      BY <2>1, <3>1, <3>2
  <2>8. ASSUME NEW t \in Tools, CancelSave(t) PROVE Kept
    <3>1. /\ pc[t] = "cancel_save" /\ queue' = queue /\ closed' = closed
          /\ active' = {r \in mem[t].active : r.job # hand[t].record.job}
      BY <2>8 DEF CancelSave, At
    <3>2. /\ mem[t].active = active /\ hand[t].record \in active
          /\ ClosedOf(closed, hand[t].record, 1)
      BY <3>1 DEF Inv, AtWork, Cancels, Cancelling
    <3>3. active \ active' = {hand[t].record}
      BY <3>1, <3>2 DEF Inv, Apart
    <3> QED
      BY <3>1, <3>2, <3>3, ClosedOfIsAttempt
  <2> HIDE DEF Kept
  <2>9. ASSUME NEW t \in Tools, Begin(t) PROVE Kept
    <3>1. queue' = queue /\ active' = active
      BY <2>9 DEF Begin, Submit, StartLoad, RebuildQueue, Cancel, files
    <3> QED
      BY <2>1, <3>1
  <2>10. ASSUME NEW t \in Tools, Step(t) PROVE Kept
    <3>1. CASE SubmitCheck(t) \/ StartDecide(t) \/ Launch(t) \/ LaunchFails(t)
      BY <2>1, <3>1 DEF SubmitCheck, StartDecide, Launch, LaunchFails, files
    <3>2. CASE RebuildActive(t) \/ ReapRecord(t) \/ ReapClose(t)
      BY <2>1, <3>2 DEF RebuildActive, ReapRecord, ReapClose, files
    <3>3. CASE SessionEnds(t) \/ SessionDecide(t)
      BY <2>1, <3>3 DEF SessionEnds, SessionDecide, files
    <3>4. CASE Terminate(t) \/ TerminatePending(t) \/ CancelRead(t) \/ CancelClose(t)
      BY <2>1, <3>4 DEF Terminate, TerminatePending, CancelRead, CancelClose, files
    <3> QED
      BY <2>2, <2>3, <2>4, <2>5, <2>6, <2>7, <2>8, <2>10, <3>1, <3>2, <3>3, <3>4 DEF Step
  <2>11. ASSUME NEW t \in Tools, Crash(t) PROVE Kept
    BY <2>1, <2>11 DEF Crash, files
  <2>12. ASSUME NEW p \in live, Exit(p) PROVE Kept
    BY <2>1, <2>12 DEF Exit, files
  <2>13. CASE UNCHANGED vars
    BY <2>1, <2>13 DEF vars, files
  <2> QED
    BY <2>9, <2>10, <2>11, <2>12, <2>13 DEF Next
<1> QED
  BY <1>1, FilesInductive, PTL DEF Spec, NothingLost

(* The one step that launches a process. *)
LEMMA OnlyLaunchLaunches ==
  ASSUME Next
  PROVE  \/ live' \subseteq live
         \/ \E t \in Tools : /\ pc[t] = "launch"
                             /\ live' = live \cup {[job |-> hand[t].job, pid |-> lastPid']}
<1>1. ASSUME NEW t \in Tools, Begin(t) PROVE live' = live
  BY <1>1 DEF Begin, Submit, StartLoad, RebuildQueue, Cancel, world
<1>2. ASSUME NEW t \in Tools, Step(t), ~Launch(t) PROVE live' \subseteq live
  <2>1. CASE SubmitCheck(t) \/ SubmitSave(t) \/ StartDecide(t) \/ LaunchFails(t)
               \/ SaveActive(t) \/ SaveQueue(t)
    BY <2>1 DEF SubmitCheck, SubmitSave, StartDecide, LaunchFails, SaveActive, SaveQueue, world
  <2>2. CASE RebuildActive(t) \/ ReapRecord(t) \/ ReapClose(t) \/ ReapRequeue(t)
               \/ ReapSave(t)
    BY <2>2 DEF RebuildActive, ReapRecord, ReapClose, ReapRequeue, ReapSave, world
  <2>3. CASE SessionEnds(t) \/ SessionDecide(t) \/ SessionSave(t)
    BY <2>3 DEF SessionEnds, SessionDecide, SessionSave, world
  <2>4. CASE Terminate(t) \/ TerminatePending(t) \/ CancelRead(t) \/ CancelClose(t)
               \/ CancelSave(t)
    BY <2>4 DEF Terminate, TerminatePending, CancelRead, CancelClose, CancelSave, world
  <2> QED
    BY <1>2, <2>1, <2>2, <2>3, <2>4 DEF Step
<1>3. ASSUME NEW t \in Tools, Crash(t) PROVE live' = live
  BY <1>3 DEF Crash, world
<1>4. ASSUME NEW p \in live, Exit(p) PROVE live' \subseteq live
  BY <1>4 DEF Exit
<1>5. ASSUME NEW t \in Tools, Launch(t)
      PROVE  /\ pc[t] = "launch"
             /\ live' = live \cup {[job |-> hand[t].job, pid |-> lastPid']}
  BY <1>5 DEF Launch, At
<1> QED
  BY <1>1, <1>2, <1>3, <1>4, <1>5 DEF Next

(* NoSpeculativeStart: when a session launches a job, the prerequisites it *)
(* found fulfilled at the start of its cycle still are, since start_one    *)
(* reads the documents anew but nobody has written them in between.        *)
THEOREM SessionsWait == ASSUME Serial PROVE Spec => NoSpeculativeStart
<1> DEFINE Waits == \A t \in Sessions :
                      pc[t] = "launch" /\ pc'[t] # pc[t] =>
                        \A p \in live' \ live : Resolved(closed, p.job)
<1>1. ASSUME Inv, Next PROVE Waits
  <2> SUFFICES ASSUME NEW t \in Sessions, pc[t] = "launch", NEW p \in live' \ live
               PROVE  Resolved(closed, p.job)
    OBVIOUS
  <2>1. t \in Tools
    BY DEF Tools
  <2>2. PICK u \in Tools : /\ pc[u] = "launch"
                           /\ live' = live \cup {[job |-> hand[u].job, pid |-> lastPid']}
    BY <1>1, OnlyLaunchLaunches
  <2>3. u = t
    BY <1>1, <2>1, <2>2 DEF Inv, Solo
  <2>4. p.job = hand[t].job
    BY <2>2, <2>3
  <2> QED
    BY <1>1, <2>1, <2>4 DEF Inv, AtWork, Starts
<1>2. ASSUME UNCHANGED vars PROVE Waits
  BY <1>2 DEF vars
<1> QED
  BY <1>1, <1>2, FilesInductive, PTL DEF Spec, NoSpeculativeStart

-----------------------------------------------------------------------------
(* The atomic orchestrator as the files show it: its operations, in the    *)
(* words of RunsStore, on the documents that are due.                      *)

LEMMA PromisesSubmit ==
  ASSUME NEW j, NEW max, PassDue = {}, PassDue' = {},
         Enqueueable(QueueDue, j, JobsOf(ActiveDue)),
         QueueDue' = Enqueue(QueueDue, j, max, 0, TRUE),
         spent' = [spent EXCEPT ![j] = 0],
         UNCHANGED <<ActiveDue, ClosedDue, live, lastPid>>
  PROVE  Promise!Submit(j, max)
BY SameSize DEF Promise!Submit, Promise!Alone, Promise!Enqueueable, Enqueueable,
       Promise!JobsOf, JobsOf, Promise!Enqueue, Enqueue

LEMMA PromisesStart ==
  ASSUME NEW e, PassDue = {}, PassDue' = {}, Room(QueueDue, ActiveDue),
         lastPid' = lastPid + 1,
         live' = live \cup {[job |-> e.job, pid |-> lastPid']},
         ActiveDue' = WithRecord(ActiveDue, Started(e, lastPid')),
         QueueDue' = Remove(QueueDue, e),
         spent' = [spent EXCEPT ![e.job] = @ + 1],
         ClosedDue' = ClosedDue
  PROVE  Promise!Start(e)
BY SameSize DEF Promise!Start, Promise!Alone, Promise!Room, Room, Promise!JobsOf, JobsOf,
       Promise!WithRecord, WithRecord, Promise!Started, Started, Promise!Remove, Remove

LEMMA PromisesReap ==
  ASSUME NEW r, NEW t, r \notin PassDue, r.pid \notin LivePids,
         ClosedDue' = AppendClosed(ClosedDue, Closing(r, t)),
         \/ ~WillRequeue(r, t) /\ QueueDue' = QueueDue
         \/ /\ WillRequeue(r, t) /\ Enqueueable(QueueDue, r.job, {})
            /\ QueueDue' = Requeue(QueueDue, r),
         PassDue' = PassDue \cup {r}, UNCHANGED <<ActiveDue, live, lastPid, spent>>
  PROVE  Promise!Reap(r, t)
BY SameSize DEF Promise!Reap, Promise!LivePids, LivePids, Promise!AppendClosed, AppendClosed,
       Promise!Closing, Closing, Promise!WillRequeue, WillRequeue, Promise!Enqueueable,
       Enqueueable, Promise!JobsOf, JobsOf, Promise!Requeue, Requeue, Promise!Enqueue, Enqueue

LEMMA PromisesReapCut ==
  ASSUME NEW r, NEW t, r \notin PassDue, r.pid \notin LivePids,
         WillRequeue(r, t), ~Enqueueable(QueueDue, r.job, {}),
         ClosedDue' = AppendClosed(ClosedDue, Closing(r, t)), PassDue' = {},
         UNCHANGED <<QueueDue, ActiveDue, live, lastPid, spent>>
  PROVE  Promise!ReapCut(r, t)
BY SameSize DEF Promise!ReapCut, Promise!LivePids, LivePids, Promise!AppendClosed,
       AppendClosed, Promise!Closing, Closing, Promise!WillRequeue, WillRequeue,
       Promise!Enqueueable, Enqueueable, Promise!JobsOf, JobsOf

LEMMA PromisesReapEnds ==
  ASSUME ActiveDue' = ActiveDue \ PassDue, PassDue' = {},
         UNCHANGED <<QueueDue, ClosedDue, live, lastPid, spent>>
  PROVE  Promise!ReapEnds
BY DEF Promise!ReapEnds

LEMMA PromisesCancel ==
  ASSUME NEW r, PassDue = {}, PassDue' = {}, live' = {p \in live : p.pid # r.pid},
         ClosedDue' = AppendClosed(ClosedDue, Closing(r, "cancelled")),
         ActiveDue' = ActiveDue \ {r}, UNCHANGED <<QueueDue, lastPid, spent>>
  PROVE  Promise!Cancel(r)
BY DEF Promise!Cancel, Promise!Alone, Promise!AppendClosed, AppendClosed,
       Promise!Closing, Closing

LEMMA PromisesExit ==
  ASSUME NEW p, live' = live \ {p},
         UNCHANGED <<QueueDue, ActiveDue, ClosedDue, lastPid, spent, PassDue>>
  PROVE  Promise!Exit(p)
BY DEF Promise!Exit

-----------------------------------------------------------------------------
(* What is due, read off the one tool at work. *)

Due(t) ==
  [queue  |-> IF pc[t] \in Starting THEN mem[t].startQueue
              ELSE IF Requeuing(t) THEN Requeue(mem[t].queue, hand[t].record)
              ELSE queue,
   active |-> IF pc[t] = "save_active" THEN mem[t].startActive
              ELSE IF pc[t] \in Cancelling THEN active \ {hand[t].record}
              ELSE active,
   pass   |-> IF pc[t] \in Reaping THEN active \ mem[t].active
              ELSE IF Requeuing(t) THEN (active \ mem[t].active) \cup {hand[t].record}
              ELSE {},
   closed |-> IF pc[t] \in Cancelling \ {"cancel_save"}
                THEN AppendClosed(closed, Closing(hand[t].record, "cancelled"))
                ELSE closed]

LEMMA BusyNow ==
  ASSUME NEW t \in Tools, Sole(t), NEW L, "idle" \notin L
  PROVE  /\ Busy(L) <=> pc[t] \in L
         /\ pc[t] \in L => The(L) = t
<1>1. \A u \in Tools : pc[u] \in L => u = t
  BY DEF Sole
<1> QED
  BY <1>1 DEF Busy, The, Doing

LEMMA BusyThen ==
  ASSUME NEW t \in Tools, \A u \in Tools : u # t => pc'[u] = "idle",
         NEW L, "idle" \notin L
  PROVE  /\ Busy(L)' <=> pc'[t] \in L
         /\ pc'[t] \in L => The(L)' = t
<1>1. \A u \in Tools : pc'[u] \in L => u = t
  OBVIOUS
<1> QED
  BY <1>1 DEF Busy, The, Doing

LEMMA DueNow ==
  ASSUME NEW t \in Tools, Sole(t)
  PROVE  /\ QueueDue = Due(t).queue /\ ActiveDue = Due(t).active
         /\ PassDue = Due(t).pass /\ ClosedDue = Due(t).closed
<1>1. /\ Busy(Starting) <=> pc[t] \in Starting
      /\ pc[t] \in Starting => The(Starting) = t
      /\ Busy(Reaping) <=> pc[t] \in Reaping
      /\ pc[t] \in Reaping => The(Reaping) = t
  BY BusyNow DEF Starting, Reaping
<1>2. /\ Busy(Cancelling) <=> pc[t] \in Cancelling
      /\ pc[t] \in Cancelling => The(Cancelling) = t
      /\ Busy(Cancelling \ {"cancel_save"}) <=> pc[t] \in Cancelling \ {"cancel_save"}
  BY BusyNow DEF Cancelling
<1>3. /\ Busy({"save_active"}) <=> pc[t] = "save_active"
      /\ pc[t] = "save_active" => The({"save_active"}) = t
  BY BusyNow
<1>4. /\ Busy({"requeue"}) <=> pc[t] = "requeue"
      /\ pc[t] = "requeue" => The({"requeue"}) = t
  BY BusyNow
<1>5. Requeuing(t) => pc[t] = "requeue"
  BY DEF Requeuing, Doing
<1>6. QueueDue = Due(t).queue
  BY <1>1, <1>4, <1>5 DEF QueueDue, Due, Starting
<1>7. ActiveDue = Due(t).active
  BY <1>2, <1>3 DEF ActiveDue, Due
<1>8. PassDue = Due(t).pass
  BY <1>1, <1>4, <1>5 DEF PassDue, Due
<1>9. ClosedDue = Due(t).closed
  BY <1>2 DEF ClosedDue, Due
<1> QED
  BY <1>6, <1>7, <1>8, <1>9

LEMMA DueThen ==
  ASSUME NEW t \in Tools, \A u \in Tools : u # t => pc'[u] = "idle"
  PROVE  /\ QueueDue' = Due(t).queue' /\ ActiveDue' = Due(t).active'
         /\ PassDue' = Due(t).pass' /\ ClosedDue' = Due(t).closed'
<1>1. /\ Busy(Starting)' <=> pc'[t] \in Starting
      /\ pc'[t] \in Starting => The(Starting)' = t
      /\ Busy(Reaping)' <=> pc'[t] \in Reaping
      /\ pc'[t] \in Reaping => The(Reaping)' = t
  BY BusyThen DEF Starting, Reaping
<1>2. /\ Busy(Cancelling)' <=> pc'[t] \in Cancelling
      /\ pc'[t] \in Cancelling => The(Cancelling)' = t
      /\ Busy(Cancelling \ {"cancel_save"})' <=> pc'[t] \in Cancelling \ {"cancel_save"}
  BY BusyThen DEF Cancelling
<1>3. /\ Busy({"save_active"})' <=> pc'[t] = "save_active"
      /\ pc'[t] = "save_active" => The({"save_active"})' = t
  BY BusyThen
<1>4. /\ Busy({"requeue"})' <=> pc'[t] = "requeue"
      /\ pc'[t] = "requeue" => The({"requeue"})' = t
  BY BusyThen
<1>5. Requeuing(t)' => pc'[t] = "requeue"
  BY DEF Requeuing, Doing
<1>6. QueueDue' = Due(t).queue'
  BY <1>1, <1>4, <1>5 DEF QueueDue, Due, Starting
<1>7. ActiveDue' = Due(t).active'
  BY <1>2, <1>3 DEF ActiveDue, Due
<1>8. PassDue' = Due(t).pass'
  BY <1>1, <1>4, <1>5 DEF PassDue, Due
<1>9. ClosedDue' = Due(t).closed'
  BY <1>2 DEF ClosedDue, Due
<1> QED
  BY <1>6, <1>7, <1>8, <1>9

(* Away from the saves, what is due is what the files hold.                *)
Plain(l) == l \notin Starting \cup Reaping \cup Cancelling \cup {"requeue"}

LEMMA PlainNow ==
  ASSUME NEW t \in Tools, Sole(t), Plain(pc[t])
  PROVE  QueueDue = queue /\ ActiveDue = active /\ PassDue = {} /\ ClosedDue = closed
BY DueNow DEF Due, Plain, Requeuing, Doing, Starting, Reaping, Cancelling

LEMMA Goes ==
  ASSUME Inv, NEW t \in Tools, Sole(t), NEW l, Goto(t, l)
  PROVE  pc'[t] = l /\ \A u \in Tools : u # t => pc'[u] = "idle"
BY DEF Goto, Sole, Inv, Places

LEMMA PlainThen ==
  ASSUME Inv, NEW t \in Tools, Sole(t), NEW l, Goto(t, l), Plain(l)
  PROVE  QueueDue' = queue' /\ ActiveDue' = active' /\ PassDue' = {} /\ ClosedDue' = closed'
<1>1. pc'[t] = l /\ \A u \in Tools : u # t => pc'[u] = "idle"
  BY Goes
<1> QED
  BY <1>1, DueThen DEF Due, Plain, Requeuing, Doing, Starting, Reaping, Cancelling

(* A step from one such place to another that writes nothing: a stutter.   *)
LEMMA PlainStutters ==
  ASSUME Inv, NEW t \in Tools, Sole(t), Plain(pc[t]), NEW l, Goto(t, l), Plain(l),
         UNCHANGED <<queue, active, closed, live, lastPid, spent>>
  PROVE  UNCHANGED Promise!vars
BY PlainNow, PlainThen DEF Promise!vars

LEMMA BeginPromises ==
  ASSUME Inv, Serial, NEW t \in Tools, Begin(t)
  PROVE  UNCHANGED Promise!vars
<1>1. ASSUME NEW j \in Jobs, NEW max \in 1..MaxAttemptsLimit, Submit(t, j, max)
      PROVE  UNCHANGED Promise!vars
  BY <1>1, SoleBegins, PlainStutters
     DEF Submit, files, world, Plain, Starting, Reaping, Cancelling
<1>2. CASE StartLoad(t)
  <2>1. Sole(t) /\ pc[t] \in {"idle", "start"}
    BY <1>2, SoleBegins, SoleAtWork DEF StartLoad, At
  <2> QED
    BY <1>2, <2>1, PlainStutters
       DEF StartLoad, files, world, Plain, Starting, Reaping, Cancelling
<1>3. CASE RebuildQueue(t)
  <2>1. Sole(t) /\ pc[t] = "idle"
    BY <1>3, SoleBegins DEF RebuildQueue, Tools, Locking
  <2> QED
    BY <1>3, <2>1, PlainStutters
       DEF RebuildQueue, files, world, Plain, Starting, Reaping, Cancelling
<1>4. CASE Cancel(t)
  BY <1>4, SoleBegins, PlainStutters
     DEF Cancel, files, world, Plain, Starting, Reaping, Cancelling
<1> QED
  BY <1>1, <1>2, <1>3, <1>4 DEF Begin

(* Deciding is no step of the atomic orchestrator. *)
LEMMA DecidePromises ==
  ASSUME Inv, NEW t \in Tools,
         \/ SubmitCheck(t) \/ StartDecide(t) \/ LaunchFails(t) \/ SessionEnds(t)
         \/ SessionDecide(t) \/ SessionSave(t) \/ TerminatePending(t)
  PROVE  UNCHANGED Promise!vars
<1>1. /\ pc[t] \in {"enqueue", "start_decide", "launch", "session_decide",
                    "session_save", "terminate"}
      /\ Sole(t)
  BY SoleAtWork DEF SubmitCheck, StartDecide, LaunchFails, SessionEnds, SessionDecide,
     SessionSave, TerminatePending, At
<1>2. Plain(pc[t])
  BY <1>1 DEF Plain, Starting, Reaping, Cancelling
<1>3. UNCHANGED <<queue, active, closed, live, lastPid, spent>>
  <2>1. CASE SessionSave(t)
    <3>1. mem[t].queue = queue
      BY <2>1 DEF SessionSave, At, Inv, AtWork, Reaps
    <3> QED
      BY <2>1, <3>1 DEF SessionSave, world
  <2> QED
    BY <2>1 DEF SubmitCheck, StartDecide, LaunchFails, SessionEnds, SessionDecide,
       TerminatePending, files, world
<1>4. \E l \in {"idle", "enqueue_save", "launch", "session_save", "start"} : Goto(t, l)
  BY DEF SubmitCheck, StartDecide, LaunchFails, StartFails, SessionEnds, SessionDecide,
     SessionSave, TerminatePending, Leave
<1>5. \A l \in {"idle", "enqueue_save", "launch", "session_save", "start"} : Plain(l)
  BY DEF Plain, Starting, Reaping, Cancelling
<1> QED
  BY <1>1, <1>2, <1>3, <1>4, <1>5, PlainStutters

LEMMA SubmitPromises ==
  ASSUME Inv, NEW t \in Tools, SubmitSave(t)
  PROVE  Promise!Next
<1>1. /\ pc[t] = "enqueue_save" /\ Sole(t) /\ Goto(t, "idle")
      /\ queue' = mem[t].queue /\ spent' = [spent EXCEPT ![hand[t].job] = 0]
      /\ UNCHANGED <<active, closed, live, lastPid>>
  BY SoleAtWork DEF SubmitSave, At, Leave
<1>2. /\ hand[t].job \in Jobs /\ hand[t].max \in 1..MaxAttemptsLimit
      /\ Enqueueable(queue, hand[t].job, JobsOf(active))
      /\ mem[t].queue = Enqueue(queue, hand[t].job, hand[t].max, 0, TRUE)
  BY <1>1 DEF Inv, AtWork, Submits
<1>3. /\ QueueDue = queue /\ ActiveDue = active /\ PassDue = {} /\ ClosedDue = closed
      /\ QueueDue' = queue' /\ ActiveDue' = active' /\ PassDue' = {} /\ ClosedDue' = closed'
  BY <1>1, PlainNow, PlainThen DEF Plain, Starting, Reaping, Cancelling
<1>4. Promise!Submit(hand[t].job, hand[t].max)
  BY <1>1, <1>2, <1>3, PromisesSubmit
<1> QED
  BY <1>2, <1>4 DEF Promise!Next

LEMMA LaunchPromises ==
  ASSUME Inv, NEW t \in Tools, Launch(t)
  PROVE  Promise!Next
<1> DEFINE h == hand[t]
           m == [mem[t] EXCEPT !.startActive = WithRecord(@, Started(h, lastPid')),
                               !.startQueue = Remove(@, h)]
<1>1. /\ pc[t] = "launch" /\ Sole(t) /\ Goto(t, "save_active") /\ Keep(t, m)
      /\ lastPid' = lastPid + 1
      /\ live' = live \cup {[job |-> h.job, pid |-> lastPid']}
      /\ spent' = [spent EXCEPT ![h.job] = @ + 1]
      /\ UNCHANGED <<queue, active, closed>>
  BY SoleAtWork DEF Launch, At, files
<1>2. /\ mem[t].startQueue = queue /\ mem[t].startActive = active
      /\ Room(queue, active) /\ h \in queue.entries
  BY <1>1 DEF Inv, AtWork, Starts
<1>3. /\ mem'[t].startQueue = Remove(queue, h)
      /\ mem'[t].startActive = WithRecord(active, Started(h, lastPid'))
  <2>1. mem'[t] = m
    BY <1>1 DEF Keep, Inv, Places
  <2> QED
    BY <1>2, <2>1, MemoryOf DEF Memory
<1>4. pc'[t] = "save_active" /\ \A u \in Tools : u # t => pc'[u] = "idle"
  BY <1>1, Goes
<1>5. QueueDue = queue /\ ActiveDue = active /\ PassDue = {} /\ ClosedDue = closed
  BY <1>1, PlainNow DEF Plain, Starting, Reaping, Cancelling
<1>6. /\ QueueDue' = mem'[t].startQueue /\ ActiveDue' = mem'[t].startActive
      /\ PassDue' = {} /\ ClosedDue' = closed'
  BY <1>4, DueThen DEF Due, Requeuing, Doing, Starting, Reaping, Cancelling
<1> HIDE DEF m, h
<1>7. Promise!Start(h)
  BY <1>1, <1>2, <1>3, <1>5, <1>6, PromisesStart
<1> QED
  BY <1>2, <1>5, <1>7 DEF Promise!Next

(* The saves after a launch: what they write was due already.              *)
LEMMA SavesPromise ==
  ASSUME Inv, NEW t \in Tools, SaveActive(t) \/ SaveQueue(t)
  PROVE  UNCHANGED Promise!vars
<1>1. CASE SaveActive(t)
  <2>1. /\ pc[t] = "save_active" /\ Sole(t) /\ Goto(t, "save_queue")
        /\ active' = mem[t].startActive
        /\ UNCHANGED <<queue, closed, live, lastPid, spent, mem, hand>>
    BY <1>1, SoleAtWork DEF SaveActive, At, world
  <2>2. pc'[t] = "save_queue" /\ \A u \in Tools : u # t => pc'[u] = "idle"
    BY <2>1, Goes
  <2>3. /\ QueueDue = mem[t].startQueue /\ ActiveDue = mem[t].startActive
        /\ PassDue = {} /\ ClosedDue = closed
    BY <2>1, DueNow DEF Due, Requeuing, Doing, Starting, Reaping, Cancelling
  <2>4. /\ QueueDue' = mem'[t].startQueue /\ ActiveDue' = active'
        /\ PassDue' = {} /\ ClosedDue' = closed'
    BY <2>2, DueThen DEF Due, Requeuing, Doing, Starting, Reaping, Cancelling
  <2> QED
    BY <2>1, <2>3, <2>4 DEF Promise!vars
<1>2. CASE SaveQueue(t)
  <2>1. /\ pc[t] = "save_queue" /\ Sole(t) /\ Goto(t, "idle")
        /\ queue' = mem[t].startQueue
        /\ UNCHANGED <<active, closed, live, lastPid, spent>>
    BY <1>2, SoleAtWork DEF SaveQueue, At, world, Leave
  <2>2. /\ QueueDue = mem[t].startQueue /\ ActiveDue = active
        /\ PassDue = {} /\ ClosedDue = closed
    BY <2>1, DueNow DEF Due, Requeuing, Doing, Starting, Reaping, Cancelling
  <2>3. /\ QueueDue' = queue' /\ ActiveDue' = active'
        /\ PassDue' = {} /\ ClosedDue' = closed'
    BY <2>1, PlainThen DEF Plain, Starting, Reaping, Cancelling
  <2> QED
    BY <2>1, <2>2, <2>3 DEF Promise!vars
<1> QED
  BY <1>1, <1>2

(* Reading active.json, and closed.json for the next record.               *)
LEMMA ReapReadsPromise ==
  ASSUME Inv, NEW t \in Tools, RebuildActive(t) \/ ReapRecord(t)
  PROVE  UNCHANGED Promise!vars
<1>1. CASE RebuildActive(t)
  <2>1. /\ pc[t] = "rebuild" /\ Sole(t) /\ Goto(t, "reap")
        /\ Keep(t, [mem[t] EXCEPT !.active = active, !.closed = closed,
                                  !.todo = {r \in active : r.pid \notin LivePids}])
        /\ UNCHANGED <<queue, active, closed, live, lastPid, spent>>
    BY <1>1, SoleAtWork DEF RebuildActive, At, files, world
  <2>2. mem'[t].active = active
    <3>1. mem'[t] = [mem[t] EXCEPT !.active = active, !.closed = closed,
                                   !.todo = {r \in active : r.pid \notin LivePids}]
      BY <2>1 DEF Keep, Inv, Places
    <3> QED
      BY <3>1, MemoryOf DEF Memory
  <2>3. pc'[t] = "reap" /\ \A u \in Tools : u # t => pc'[u] = "idle"
    BY <2>1, Goes
  <2>4. QueueDue = queue /\ ActiveDue = active /\ PassDue = {} /\ ClosedDue = closed
    BY <2>1, PlainNow DEF Plain, Starting, Reaping, Cancelling
  <2>5. /\ QueueDue' = queue' /\ ActiveDue' = active'
        /\ PassDue' = active' \ mem'[t].active /\ ClosedDue' = closed'
    BY <2>3, DueThen DEF Due, Requeuing, Doing, Starting, Reaping, Cancelling
  <2> QED
    BY <2>1, <2>2, <2>4, <2>5 DEF Promise!vars
<1>2. CASE ReapRecord(t)
  <2>1. /\ pc[t] = "reap" /\ Sole(t) /\ Goto(t, "reap_close")
        /\ Keep(t, [mem[t] EXCEPT !.closed = closed])
        /\ UNCHANGED <<queue, active, closed, live, lastPid, spent>>
    BY <1>2, SoleAtWork DEF ReapRecord, At, files, world
  <2>2. mem'[t].active = mem[t].active
    <3>1. mem'[t] = [mem[t] EXCEPT !.closed = closed]
      BY <2>1 DEF Keep, Inv, Places
    <3> QED
      BY <3>1, MemoryOf DEF Memory
  <2>3. pc'[t] = "reap_close" /\ \A u \in Tools : u # t => pc'[u] = "idle"
    BY <2>1, Goes
  <2>4. /\ QueueDue = queue /\ ActiveDue = active
        /\ PassDue = active \ mem[t].active /\ ClosedDue = closed
    BY <2>1, DueNow DEF Due, Requeuing, Doing, Starting, Reaping, Cancelling
  <2>5. /\ QueueDue' = queue' /\ ActiveDue' = active'
        /\ PassDue' = active' \ mem'[t].active /\ ClosedDue' = closed'
    BY <2>3, DueThen DEF Due, Requeuing, Doing, Starting, Reaping, Cancelling
  <2> QED
    BY <2>1, <2>2, <2>4, <2>5 DEF Promise!vars
<1> QED
  BY <1>1, <1>2

(* A record is dealt with when closed.json is written: with the re-queue   *)
(* that will follow, without one, or as the last of a pass that is cut.    *)
LEMMA ReapPromises ==
  ASSUME Inv, NEW t \in Tools, ReapClose(t)
  PROVE  Promise!Next
<1> DEFINE h == hand[t].record
           o == hand[t].terminal
<1>1. /\ pc[t] = "reap_close" /\ Sole(t)
      /\ UNCHANGED <<queue, active, live, lastPid, spent>>
      /\ closed' = AppendClosed(mem[t].closed, Closing(h, o))
  BY SoleAtWork DEF ReapClose, At, world
<1>2. /\ h \in mem[t].active /\ h \in active /\ h.pid \notin LivePids
      /\ o \in {"done", "failed", "crashed"}
      /\ mem[t].queue = queue /\ mem[t].closed = closed /\ mem[t].active \subseteq active
  BY <1>1, PassFacts
<1>3. /\ QueueDue = queue /\ ActiveDue = active
      /\ PassDue = active \ mem[t].active /\ ClosedDue = closed
  BY <1>1, DueNow DEF Due, Requeuing, Doing, Starting, Reaping, Cancelling
<1>4. CASE WillRequeue(h, o)
  <2>1. /\ Goto(t, "requeue") /\ Keep(t, [mem[t] EXCEPT !.closed = closed'])
        /\ hand' = hand
    BY <1>4 DEF ReapClose
  <2>2. mem'[t].active = mem[t].active /\ mem'[t].queue = queue
    <3>1. mem'[t] = [mem[t] EXCEPT !.closed = closed']
      BY <2>1 DEF Keep, Inv, Places
    <3> QED
      BY <1>2, <3>1, MemoryOf DEF Memory
  <2>3. pc'[t] = "requeue" /\ \A u \in Tools : u # t => pc'[u] = "idle"
    BY <1>1, <2>1, Goes
  <2>4. Requeuing(t)' <=> Enqueueable(queue, h.job, {})
    BY <2>1, <2>2, <2>3 DEF Requeuing, Doing
  <2>5. /\ QueueDue' = IF Requeuing(t)' THEN Requeue(queue, h) ELSE queue'
        /\ ActiveDue' = active' /\ ClosedDue' = closed'
        /\ PassDue' = IF Requeuing(t)' THEN (active' \ mem'[t].active) \cup {h} ELSE {}
    BY <2>1, <2>2, <2>3, DueThen DEF Due, Starting, Reaping, Cancelling
  <2> HIDE DEF h, o
  <2>6. CASE Enqueueable(queue, h.job, {})
    <3>1. QueueDue' = Requeue(QueueDue, h) /\ PassDue' = PassDue \cup {h} /\ h \notin PassDue
      BY <1>1, <1>2, <1>3, <2>2, <2>4, <2>5, <2>6
    <3>2. Promise!Reap(h, o)
      BY <1>1, <1>2, <1>3, <1>4, <2>5, <2>6, <3>1, PromisesReap
    <3> QED
      BY <1>2, <1>3, <3>2 DEF Promise!Next
  <2>7. CASE ~Enqueueable(queue, h.job, {})
    <3>1. QueueDue' = QueueDue /\ PassDue' = {} /\ h \notin PassDue
      BY <1>1, <1>2, <1>3, <2>4, <2>5, <2>7
    <3>2. Promise!ReapCut(h, o)
      BY <1>1, <1>2, <1>3, <1>4, <2>5, <2>7, <3>1, PromisesReapCut
    <3> QED
      BY <1>2, <1>3, <3>2 DEF Promise!Next
  <2> QED
    BY <2>6, <2>7
<1>5. CASE ~WillRequeue(h, o)
  <2>1. Goto(t, "reap") /\ Keep(t, [Reaped(t) EXCEPT !.closed = closed'])
    BY <1>5 DEF ReapClose
  <2>2. mem'[t].active = mem[t].active \ {h}
    <3>1. mem'[t] = [Reaped(t) EXCEPT !.closed = closed']
      BY <2>1 DEF Keep, Inv, Places
    <3> QED
      BY <3>1, MemoryOf DEF Memory, Reaped
  <2>3. pc'[t] = "reap" /\ \A u \in Tools : u # t => pc'[u] = "idle"
    BY <1>1, <2>1, Goes
  <2>4. /\ QueueDue' = queue' /\ ActiveDue' = active'
        /\ PassDue' = active' \ mem'[t].active /\ ClosedDue' = closed'
    BY <2>3, DueThen DEF Due, Requeuing, Doing, Starting, Reaping, Cancelling
  <2> HIDE DEF h, o
  <2>5. PassDue' = PassDue \cup {h} /\ h \notin PassDue
    BY <1>1, <1>2, <1>3, <2>2, <2>4
  <2>6. Promise!Reap(h, o)
    BY <1>1, <1>2, <1>3, <1>5, <2>4, <2>5, PromisesReap
  <2> QED
    BY <1>2, <1>3, <2>6 DEF Promise!Next
<1> QED
  BY <1>4, <1>5

(* The re-queue was due, or the pass is cut already. *)
LEMMA RequeuePromises ==
  ASSUME Inv, NEW t \in Tools, ReapRequeue(t)
  PROVE  UNCHANGED Promise!vars
<1> DEFINE h == hand[t].record
<1>1. /\ pc[t] = "requeue" /\ Sole(t)
      /\ UNCHANGED <<active, closed, live, lastPid, spent>>
  BY SoleAtWork DEF ReapRequeue, At, world
<1>2. h \in active /\ mem[t].queue = queue
  BY <1>1, PassFacts
<1>3. /\ QueueDue = IF Requeuing(t) THEN Requeue(mem[t].queue, h) ELSE queue
      /\ ActiveDue = active /\ ClosedDue = closed
      /\ PassDue = IF Requeuing(t) THEN (active \ mem[t].active) \cup {h} ELSE {}
  BY <1>1, DueNow DEF Due, Starting, Reaping, Cancelling
<1>4. Requeuing(t) <=> Enqueueable(mem[t].queue, h.job, {})
  BY <1>1 DEF Requeuing, Doing
<1>5. CASE Enqueueable(mem[t].queue, h.job, {})
  <2>1. /\ queue' = Requeue(mem[t].queue, h) /\ Goto(t, "reap")
        /\ Keep(t, [Reaped(t) EXCEPT !.queue = queue'])
    BY <1>5 DEF ReapRequeue
  <2>2. mem'[t].active = mem[t].active \ {h}
    <3>1. mem'[t] = [Reaped(t) EXCEPT !.queue = queue']
      BY <2>1 DEF Keep, Inv, Places
    <3> QED
      BY <3>1, MemoryOf DEF Memory, Reaped
  <2>3. pc'[t] = "reap" /\ \A u \in Tools : u # t => pc'[u] = "idle"
    BY <1>1, <2>1, Goes
  <2>4. /\ QueueDue' = queue' /\ ActiveDue' = active'
        /\ PassDue' = active' \ mem'[t].active /\ ClosedDue' = closed'
    BY <2>3, DueThen DEF Due, Requeuing, Doing, Starting, Reaping, Cancelling
  <2> HIDE DEF h
  <2>5. PassDue' = PassDue
    BY <1>1, <1>2, <1>3, <1>4, <1>5, <2>2, <2>4
  <2> QED
    BY <1>1, <1>3, <1>4, <1>5, <2>1, <2>4, <2>5 DEF Promise!vars
<1>6. CASE ~Enqueueable(mem[t].queue, h.job, {})
  <2>1. queue' = queue /\ Goto(t, "idle")
    BY <1>6 DEF ReapRequeue, Leave
  <2>2. /\ QueueDue' = queue' /\ ActiveDue' = active'
        /\ PassDue' = {} /\ ClosedDue' = closed'
    BY <1>1, <2>1, PlainThen DEF Plain, Starting, Reaping, Cancelling
  <2> QED
    BY <1>1, <1>3, <1>4, <1>6, <2>1, <2>2 DEF Promise!vars
<1> QED
  BY <1>5, <1>6

LEMMA ReapEndsPromises ==
  ASSUME Inv, NEW t \in Tools, ReapSave(t)
  PROVE  Promise!Next
<1>1. /\ pc[t] = "reap" /\ Sole(t) /\ active' = mem[t].active
      /\ Goto(t, "session_decide") \/ Goto(t, "idle")
      /\ UNCHANGED <<queue, closed, live, lastPid, spent>>
  BY SoleAtWork DEF ReapSave, At, world, Leave
<1>2. mem[t].active \subseteq active
  BY <1>1 DEF Inv, AtWork, Reaps, Reaping
<1>3. /\ QueueDue = queue /\ ActiveDue = active
      /\ PassDue = active \ mem[t].active /\ ClosedDue = closed
  BY <1>1, DueNow DEF Due, Requeuing, Doing, Starting, Reaping, Cancelling
<1>4. Plain("session_decide") /\ Plain("idle")
  BY DEF Plain, Starting, Reaping, Cancelling
<1>5. /\ QueueDue' = queue' /\ ActiveDue' = active' /\ PassDue' = {} /\ ClosedDue' = closed'
  BY <1>1, <1>4, PlainThen
<1>6. ActiveDue' = ActiveDue \ PassDue
  BY <1>1, <1>2, <1>3, <1>5
<1>7. Promise!ReapEnds
  BY <1>1, <1>3, <1>5, <1>6, PromisesReapEnds
<1> QED
  BY <1>7 DEF Promise!Next

LEMMA CancelPromises ==
  ASSUME Inv, NEW t \in Tools, Terminate(t)
  PROVE  Promise!Next
<1> DEFINE h == hand[t].record
<1>1. /\ pc[t] = "terminate" /\ Sole(t) /\ Goto(t, "cancel_read")
      /\ live' = {p \in live : p.pid # h.pid}
      /\ UNCHANGED <<queue, active, closed, lastPid, spent, hand>>
  BY SoleAtWork DEF Terminate, At, files
<1>2. h \in active
  BY <1>1 DEF Inv, AtWork, Cancels
<1>3. QueueDue = queue /\ ActiveDue = active /\ PassDue = {} /\ ClosedDue = closed
  BY <1>1, PlainNow DEF Plain, Starting, Reaping, Cancelling
<1>4. pc'[t] = "cancel_read" /\ \A u \in Tools : u # t => pc'[u] = "idle"
  BY <1>1, Goes
<1>5. /\ QueueDue' = queue' /\ ActiveDue' = active' \ {h} /\ PassDue' = {}
      /\ ClosedDue' = AppendClosed(closed', Closing(h, "cancelled"))
  BY <1>1, <1>4, DueThen DEF Due, Requeuing, Doing, Starting, Reaping, Cancelling
<1> HIDE DEF h
<1>6. Promise!Cancel(h)
  BY <1>1, <1>3, <1>5, PromisesCancel
<1> QED
  BY <1>2, <1>3, <1>6 DEF Promise!Next

(* The rest of cancel_job writes what is due. *)
LEMMA CancelSavesPromise ==
  ASSUME Inv, NEW t \in Tools, CancelRead(t) \/ CancelClose(t) \/ CancelSave(t)
  PROVE  UNCHANGED Promise!vars
<1> DEFINE h == hand[t].record
<1>1. /\ pc[t] \in Cancelling /\ Sole(t) /\ UNCHANGED <<queue, live, lastPid, spent>>
  BY SoleAtWork DEF CancelRead, CancelClose, CancelSave, At, files, world, Cancelling
<1>2. mem[t].active = active /\ h \in active
  BY <1>1 DEF Inv, AtWork, Cancels, Cancelling
<1>3. /\ QueueDue = queue /\ ActiveDue = active \ {h} /\ PassDue = {}
      /\ ClosedDue = IF pc[t] = "cancel_save" THEN closed
                     ELSE AppendClosed(closed, Closing(h, "cancelled"))
  BY <1>1, DueNow DEF Due, Requeuing, Doing, Starting, Reaping, Cancelling
<1>4. CASE CancelRead(t)
  <2>1. /\ pc[t] = "cancel_read" /\ Goto(t, "cancel_close")
        /\ UNCHANGED <<active, closed, hand>>
    BY <1>4 DEF CancelRead, At, files
  <2>2. pc'[t] = "cancel_close" /\ \A u \in Tools : u # t => pc'[u] = "idle"
    BY <1>1, <2>1, Goes
  <2>3. /\ QueueDue' = queue' /\ ActiveDue' = active' \ {h} /\ PassDue' = {}
        /\ ClosedDue' = AppendClosed(closed', Closing(h, "cancelled"))
    BY <2>1, <2>2, DueThen DEF Due, Requeuing, Doing, Starting, Reaping, Cancelling
  <2> QED
    BY <1>1, <1>3, <2>1, <2>3 DEF Promise!vars
<1>5. CASE CancelClose(t)
  <2>1. /\ pc[t] = "cancel_close" /\ Goto(t, "cancel_save")
        /\ closed' = AppendClosed(mem[t].closed, Closing(h, "cancelled"))
        /\ UNCHANGED <<active, hand>>
    BY <1>5 DEF CancelClose, At
  <2>2. mem[t].closed = closed
    BY <2>1 DEF Inv, AtWork, Cancels
  <2>3. pc'[t] = "cancel_save" /\ \A u \in Tools : u # t => pc'[u] = "idle"
    BY <1>1, <2>1, Goes
  <2>4. /\ QueueDue' = queue' /\ ActiveDue' = active' \ {h} /\ PassDue' = {}
        /\ ClosedDue' = closed'
    BY <2>1, <2>3, DueThen DEF Due, Requeuing, Doing, Starting, Reaping, Cancelling
  <2> QED
    BY <1>1, <1>3, <2>1, <2>2, <2>4 DEF Promise!vars
<1>6. CASE CancelSave(t)
  <2>1. /\ pc[t] = "cancel_save" /\ Goto(t, "idle") /\ closed' = closed
        /\ active' = {r \in mem[t].active : r.job # h.job}
    BY <1>6 DEF CancelSave, At, Leave
  <2>2. active' = active \ {h}
    BY <1>2, <2>1 DEF Inv, Apart
  <2>3. /\ QueueDue' = queue' /\ ActiveDue' = active' /\ PassDue' = {} /\ ClosedDue' = closed'
    BY <1>1, <2>1, PlainThen DEF Plain, Starting, Reaping, Cancelling
  <2> QED
    BY <1>1, <1>3, <2>1, <2>2, <2>3 DEF Promise!vars
<1> QED
  BY <1>4, <1>5, <1>6

LEMMA ExitPromises ==
  ASSUME Inv, NEW p \in live, Exit(p)
  PROVE  Promise!Next
<1>1. /\ live' = live \ {p}
      /\ UNCHANGED <<queue, active, closed, lastPid, spent, pc, mem, hand>>
  BY DEF Exit, files
<1>2. UNCHANGED <<QueueDue, ActiveDue, ClosedDue, PassDue>>
  <2>1. ASSUME NEW t \in Tools, Sole(t) PROVE UNCHANGED <<QueueDue, ActiveDue, ClosedDue, PassDue>>
    <3>1. \A u \in Tools : u # t => pc'[u] = "idle"
      BY <1>1, <2>1 DEF Sole
    <3>2. Due(t)' = Due(t)
      BY <1>1 DEF Due, Requeuing, Doing
    <3> QED
      BY <2>1, <3>1, <3>2, DueNow, DueThen
  <2>2. CASE \E t \in Tools : pc[t] # "idle"
    BY <2>1, <2>2, SoleAtWork
  <2>3. CASE \A t \in Tools : pc[t] = "idle"
    <3>1. ASSUME NEW t \in Tools PROVE UNCHANGED <<QueueDue, ActiveDue, ClosedDue, PassDue>>
      BY <2>1, <2>3 DEF Sole
    <3>2. CASE Tools = {}
      BY <1>1, <3>2 DEF QueueDue, ActiveDue, ClosedDue, PassDue, Busy
    <3> QED
      BY <3>1, <3>2
  <2> QED
    BY <2>2, <2>3
<1>3. Promise!Exit(p)
  BY <1>1, <1>2, PromisesExit
<1> QED
  BY <1>3 DEF Promise!Next

LEMMA InitPromises == Init => Promise!Init
<1> SUFFICES ASSUME Init PROVE Promise!Init
  OBVIOUS
<1>1. \A t \in Tools : pc[t] = "idle"
  BY DEF Init
<1>2. QueueDue = queue /\ ActiveDue = active /\ PassDue = {} /\ ClosedDue = closed
  BY <1>1 DEF QueueDue, ActiveDue, PassDue, ClosedDue, Busy, Doing, Starting, Reaping, Cancelling
<1> QED
  BY <1>2 DEF Init, Promise!Init, Promise!EmptyQueue, EmptyQueue

(* Implements: the tools, file by file, do what the atomic orchestrator    *)
(* does; but for their deaths, and also after them.                        *)
THEOREM FilesImplement == ASSUME Serial PROVE Spec => Implements
<1>1. ASSUME Inv, [Next]_vars, crashes' = crashes PROVE [Promise!Next]_Promise!vars
  <2>1. ASSUME NEW t \in Tools, Begin(t) PROVE UNCHANGED Promise!vars
    BY <1>1, <2>1, BeginPromises
  <2>2. ASSUME NEW t \in Tools, Step(t) PROVE [Promise!Next]_Promise!vars
    <3>1. CASE SubmitSave(t) \/ Launch(t) \/ ReapClose(t) \/ ReapSave(t) \/ Terminate(t)
      BY <1>1, <3>1, SubmitPromises, LaunchPromises, ReapPromises, ReapEndsPromises,
         CancelPromises
    <3>2. CASE \/ SubmitCheck(t) \/ StartDecide(t) \/ LaunchFails(t) \/ SessionEnds(t)
               \/ SessionDecide(t) \/ SessionSave(t) \/ TerminatePending(t)
      BY <1>1, <3>2, DecidePromises
    <3>3. CASE \/ SaveActive(t) \/ SaveQueue(t) \/ RebuildActive(t) \/ ReapRecord(t)
               \/ ReapRequeue(t) \/ CancelRead(t) \/ CancelClose(t) \/ CancelSave(t)
      BY <1>1, <3>3, SavesPromise, ReapReadsPromise, RequeuePromises, CancelSavesPromise
    <3> QED
      BY <2>2, <3>1, <3>2, <3>3 DEF Step
  <2>3. ASSUME NEW t \in Tools, Crash(t) PROVE FALSE
    BY <1>1, <2>3 DEF Crash, Inv, Documents
  <2>4. ASSUME NEW p \in live, Exit(p) PROVE Promise!Next
    BY <1>1, <2>4, ExitPromises
  <2>5. CASE UNCHANGED vars
    <3>1. UNCHANGED <<queue, active, closed, live, lastPid, spent, pc, mem, hand>>
      BY <2>5 DEF vars, files, world
    <3>2. ASSUME NEW t \in Tools, Sole(t)
          PROVE UNCHANGED <<QueueDue, ActiveDue, ClosedDue, PassDue>>
      <4>1. (\A u \in Tools : u # t => pc'[u] = "idle") /\ Due(t)' = Due(t)
        BY <3>1, <3>2 DEF Sole, Due, Requeuing, Doing
      <4> QED
        BY <3>2, <4>1, DueNow, DueThen
    <3>3. UNCHANGED <<QueueDue, ActiveDue, ClosedDue, PassDue>>
      <4>1. CASE Tools = {}
        BY <3>1, <4>1 DEF QueueDue, ActiveDue, ClosedDue, PassDue, Busy
      <4>2. CASE Tools # {}
        <5>1. \E t \in Tools : Sole(t)
          BY <1>1, <4>2 DEF Inv, Solo, Sole
        <5> QED
          BY <3>2, <5>1
      <4> QED
        BY <4>1, <4>2
    <3> QED
      BY <3>1, <3>3 DEF Promise!vars
  <2> QED
    BY <1>1, <2>1, <2>2, <2>3, <2>4, <2>5 DEF Next
<1>2. Inv /\ [Next]_vars => (crashes' = crashes => [Promise!Next]_Promise!vars)
  BY <1>1
<1>3. UNCHANGED vars => crashes' = crashes
  BY DEF vars
<1> QED
  BY <1>2, InitPromises, FilesInductive, PTL DEF Spec, Implements

-----------------------------------------------------------------------------
(* What exclusion buys. *)

(* A record names the process of its own job, and the process of a record  *)
(* still to be written is the last one launched.                           *)
Named ==
  /\ \A r \in active, p \in live : r.pid = p.pid => r.job = p.job
  /\ \A t \in Tools : pc[t] = "save_active" =>
       \A p \in live : p.pid = lastPid => p.job = hand[t].job

LEMMA NamedKept ==
  ASSUME Inv, Serial, Named, [Next]_vars
  PROVE  Named'
<1>1. ASSUME active' \subseteq active, live' \subseteq live, lastPid' = lastPid,
             \A t \in Tools : pc'[t] = "save_active" => pc[t] = pc'[t] /\ hand' = hand
      PROVE  Named'
  BY <1>1 DEF Named
<1>2. ASSUME NEW t \in Tools, Sole(t), NEW l, Goto(t, l), l # "save_active",
             active' \subseteq active, live' \subseteq live, lastPid' = lastPid
      PROVE  Named'
  <2>1. \A u \in Tools : pc'[u] # "save_active"
    BY <1>2, Goes
  <2> QED
    BY <1>1, <1>2, <2>1
<1>3. ASSUME NEW t \in Tools, Launch(t) PROVE Named'
  <2>1. /\ pc[t] = "launch" /\ Sole(t) /\ Goto(t, "save_active") /\ active' = active
        /\ hand' = hand /\ lastPid' = lastPid + 1
        /\ live' = live \cup {[job |-> hand[t].job, pid |-> lastPid']}
    BY <1>3, SoleAtWork DEF Launch, At, files
  <2>2. \A u \in Tools : pc'[u] = "save_active" => u = t
    BY <2>1, Goes
  <2>3. /\ \A r \in active : r.pid # lastPid'
        /\ \A p \in live : p.pid # lastPid'
    BY <2>1, Fields DEF Inv, Apart
  <2> QED
    BY <2>1, <2>2, <2>3 DEF Named
<1>4. ASSUME NEW t \in Tools, SaveActive(t) PROVE Named'
  <2>1. /\ pc[t] = "save_active" /\ Sole(t) /\ Goto(t, "save_queue")
        /\ active' = mem[t].startActive /\ live' = live
    BY <1>4, SoleAtWork DEF SaveActive, At, world
  <2>2. active' = active \cup {Started(hand[t], lastPid)}
    BY <2>1 DEF Inv, AtWork, Starts, Starting
  <2>3. \A u \in Tools : pc'[u] # "save_active"
    BY <2>1, Goes
  <2> QED
    BY <2>1, <2>2, <2>3 DEF Named, Started
<1>5. ASSUME NEW t \in Tools, Begin(t) PROVE Named'
  <2>1. /\ Sole(t) /\ UNCHANGED <<active, live, lastPid>>
        /\ \E l \in {"enqueue", "start_decide", "rebuild", "terminate"} : Goto(t, l)
    BY <1>5, SoleBegins, SoleAtWork
       DEF Begin, Submit, StartLoad, RebuildQueue, Cancel, At, files, world, Tools, Locking
  <2> QED
    BY <1>2, <2>1
<1>6. ASSUME NEW t \in Tools, Step(t), ~Launch(t), ~SaveActive(t) PROVE Named'
  <2>0. pc[t] # "idle" /\ Sole(t)
    <3>1. pc[t] # "idle"
      BY <1>6 DEF Step, SubmitCheck, SubmitSave, StartDecide, LaunchFails, SaveQueue,
         RebuildActive, ReapRecord, ReapClose, ReapRequeue, ReapSave, SessionEnds,
         SessionDecide, SessionSave, Terminate, TerminatePending, CancelRead,
         CancelClose, CancelSave, At
    <3> QED
      BY <3>1, SoleAtWork
  <2>1. CASE SubmitCheck(t) \/ SubmitSave(t) \/ StartDecide(t) \/ LaunchFails(t)
               \/ SaveQueue(t)
    <3>1. UNCHANGED <<active, live, lastPid>>
      BY <2>1 DEF SubmitCheck, SubmitSave, StartDecide, LaunchFails, SaveQueue, files, world
    <3>2. \E l \in {"idle", "enqueue_save", "launch", "session_save"} : Goto(t, l)
      BY <2>1 DEF SubmitCheck, SubmitSave, StartDecide, LaunchFails, SaveQueue, StartFails,
         Leave
    <3> QED
      BY <1>2, <2>0, <3>1, <3>2
  <2>2. CASE RebuildActive(t) \/ ReapRecord(t) \/ ReapClose(t) \/ ReapRequeue(t)
               \/ ReapSave(t)
    <3>1. active' \subseteq active
      <4>1. CASE ReapSave(t)
        BY <4>1 DEF ReapSave, At, Inv, AtWork, Reaps, Reaping
      <4> QED
        BY <2>2, <4>1 DEF RebuildActive, ReapRecord, ReapClose, ReapRequeue, files
    <3>2. UNCHANGED <<live, lastPid>>
      BY <2>2 DEF RebuildActive, ReapRecord, ReapClose, ReapRequeue, ReapSave, world
    <3>3. \E l \in {"idle", "reap", "reap_close", "requeue", "session_decide"} : Goto(t, l)
      BY <2>2 DEF RebuildActive, ReapRecord, ReapClose, ReapRequeue, ReapSave, Leave
    <3> QED
      BY <1>2, <2>0, <3>1, <3>2, <3>3
  <2>3. CASE SessionEnds(t) \/ SessionDecide(t) \/ SessionSave(t)
    <3>1. UNCHANGED <<active, live, lastPid>>
      BY <2>3 DEF SessionEnds, SessionDecide, SessionSave, files, world
    <3>2. \E l \in {"idle", "session_save", "start"} : Goto(t, l)
      BY <2>3 DEF SessionEnds, SessionDecide, SessionSave, Leave
    <3> QED
      BY <1>2, <2>0, <3>1, <3>2
  <2>4. CASE Terminate(t) \/ TerminatePending(t) \/ CancelRead(t) \/ CancelClose(t)
               \/ CancelSave(t)
    <3>1. active' \subseteq active
      <4>1. CASE CancelSave(t)
        BY <4>1 DEF CancelSave, At, Inv, AtWork, Cancels, Cancelling
      <4> QED
        BY <2>4, <4>1 DEF Terminate, TerminatePending, CancelRead, CancelClose, files
    <3>2. live' \subseteq live /\ lastPid' = lastPid
      BY <2>4 DEF Terminate, TerminatePending, CancelRead, CancelClose, CancelSave, world
    <3>3. \E l \in {"idle", "cancel_read", "cancel_close", "cancel_save"} : Goto(t, l)
      BY <2>4 DEF Terminate, TerminatePending, CancelRead, CancelClose, CancelSave, Leave
    <3> QED
      BY <1>2, <2>0, <3>1, <3>2, <3>3
  <2> QED
    BY <1>6, <2>1, <2>2, <2>3, <2>4 DEF Step
<1>7. ASSUME NEW t \in Tools, Crash(t) PROVE Named'
  <2>1. Sole(t) /\ Goto(t, "idle") /\ UNCHANGED <<active, live, lastPid>>
    BY <1>7, SoleAtWork DEF Crash, Leave, files, world
  <2> QED
    BY <1>2, <2>1
<1>8. ASSUME NEW p \in live, Exit(p) PROVE Named'
  BY <1>1, <1>8 DEF Exit, files
<1>9. CASE UNCHANGED vars
  BY <1>1, <1>9 DEF vars, files, world
<1> QED
  BY <1>3, <1>4, <1>5, <1>6, <1>7, <1>8, <1>9 DEF Next

(* RunsOnce, which two overlapping commands break, is what a job has as    *)
(* long as no command overlaps and no tool has died.                       *)
THEOREM OnceWithoutDeaths ==
  ASSUME Serial
  PROVE  Spec => [](crashes = 0 => RunsOnce)
<1>1. Init => Named
  BY DEF Init, Named
<1>2. ASSUME Inv, Named, crashes = 0 PROVE RunsOnce
  <2>1. Forgotten = {}
    <3>1. Cardinality(Forgotten) = 0
      BY <1>2, ForgottenFinite DEF Inv, Debts
    <3> QED
      BY <1>2, <3>1, ForgottenFinite, FS_EmptySet
  <2>2. ASSUME NEW p \in live
        PROVE  \/ \E r \in active : r.pid = p.pid /\ r.job = p.job
               \/ \E t \in Tools : /\ pc[t] = "save_active" /\ p.pid = lastPid
                                   /\ p.job = hand[t].job
    BY <1>2, <2>1 DEF Forgotten, Orphans, Being, Named
  <2>3. ASSUME NEW t \in Tools, pc[t] = "save_active"
        PROVE  \A r \in active : r.job # hand[t].job
    BY <1>2, <2>3 DEF Inv, AtWork, Starts, Starting, Room, JobsOf
  <2> SUFFICES ASSUME NEW p \in live, NEW q \in live, p.job = q.job PROVE p = q
    BY DEF RunsOnce
  <2>4. p.pid = q.pid
    BY <1>2, <2>2, <2>3 DEF Inv, Apart
  <2> QED
    BY <1>2, <2>4 DEF Inv, Apart
<1>3. Inv /\ Serial /\ Named /\ [Next]_vars => Named'
  BY NamedKept
<1>4. Inv /\ Named => (crashes = 0 => RunsOnce)
  BY <1>2
<1> QED
  BY <1>1, <1>3, <1>4, FilesInductive, PTL DEF Spec

-----------------------------------------------------------------------------
(* Whatever commands overlap: types and the lock. *)

(* What tool t has in its hand where it uses it.                           *)
Holds(t) ==
  /\ pc[t] \in {"enqueue", "enqueue_save"} =>
       hand[t].job \in Jobs /\ hand[t].max \in 1..MaxAttemptsLimit
  /\ pc[t] \in {"launch", "save_active", "save_queue"} => hand[t] \in QueueEntry
  /\ pc[t] \in {"reap_close", "requeue"} =>
       hand[t].record \in ActiveRecord /\ hand[t].terminal \in Terminals
  /\ pc[t] \in Cancelling \cup {"terminate"} => hand[t].record \in ActiveRecord

Files ==
  /\ queue \in QueueDoc /\ active \in SUBSET ActiveRecord
  /\ closed \in Seq(ClosedRecord) /\ Len(closed) <= MaxClosedRecords
  /\ live \in SUBSET Process /\ lastPid \in Nat /\ spent \in [Jobs -> Nat]

Wellformed ==
  /\ Files /\ Places
  /\ \A t \in Locking : pc[t] # "idle" => lock = t
  /\ \A t \in Tools : Len(mem[t].closed) <= MaxClosedRecords /\ Holds(t)

LEMMA EnqueueDoc ==
  ASSUME NEW q \in QueueDoc, NEW j \in Jobs, NEW max \in 1..MaxAttemptsLimit,
         NEW attempts \in Nat, NEW spec \in BOOLEAN
  PROVE  Enqueue(q, j, max, attempts, spec) \in QueueDoc
<1>1. [job |-> j, seq |-> q.seq + 1, attempts |-> attempts, max |-> max, spec |-> spec]
        \in QueueEntry
  BY StoreConstants DEF QueueEntry, QueueDoc
<1> QED
  BY <1>1 DEF Enqueue, QueueDoc

(* A step of t leaves what other tools have alone.                         *)
LEMMA WellformedStep ==
  ASSUME Wellformed, NEW t \in Tools, Files', NEW l, Goto(t, l),
         \/ lock' = lock /\ (t \in Locking => pc[t] # "idle")
         \/ lock = NoOne /\ lock' = t /\ t \in Locking
         \/ lock' = (IF lock = t THEN NoOne ELSE lock) /\ l = "idle",
         mem' = mem \/ \E m \in Memory : Keep(t, m) /\ Len(m.closed) <= MaxClosedRecords,
         hand' = hand \/ \E h : Take(t, h),
         Holds(t)'
  PROVE  Wellformed'
<1>1. pc'[t] = l /\ DOMAIN pc' = Tools /\ \A u \in Tools : u # t => pc'[u] = pc[u]
  BY DEF Wellformed, Places, Goto
<1>2. /\ mem' \in [Tools -> Memory]
      /\ \A u \in Tools : Len(mem'[u].closed) <= MaxClosedRecords
  BY DEF Wellformed, Places, Keep
<1>3. DOMAIN hand' = Tools /\ \A u \in Tools : u # t => hand'[u] = hand[u]
  BY DEF Wellformed, Places, Take
<1>4. \A u \in Tools : Holds(u)'
  BY <1>1, <1>3 DEF Wellformed, Holds
<1>5. lock' \in Locking \cup {NoOne}
  BY DEF Wellformed, Places
<1>6. \A u \in Locking : pc'[u] # "idle" => lock' = u
  <2>1. \A u \in Locking : u \in Tools /\ u # NoOne
    BY FilesConstants DEF Locking, Tools
  <2>2. t \in Tools /\ t # NoOne
    BY FilesConstants
  <2> QED
    BY <1>1, <2>1, <2>2 DEF Wellformed
<1> QED
  BY <1>1, <1>2, <1>3, <1>4, <1>5, <1>6 DEF Wellformed, Places

LEMMA BlankClosed == Blank \in Memory /\ Len(Blank.closed) <= MaxClosedRecords
BY BlankIs, StoreConstants DEF Blank

LEMMA WellformedLeaves ==
  ASSUME Wellformed, NEW t \in Tools, Files', Leave(t)
  PROVE  Wellformed'
<1>1. /\ Goto(t, "idle") /\ Keep(t, Blank) /\ Take(t, Nothing)
      /\ lock' = IF lock = t THEN NoOne ELSE lock
  BY DEF Leave
<1>2. pc'[t] = "idle"
  BY <1>1 DEF Goto, Wellformed, Places
<1>3. Holds(t)'
  BY <1>2 DEF Holds, Cancelling
<1> QED
  BY <1>1, <1>3, BlankClosed, WellformedStep

LEMMA FilesStay ==
  ASSUME Files, UNCHANGED <<files, world>>
  PROVE  Files'
BY DEF Files, files, world

(* A step that moves t on, with m in its memory and h in its hand. *)
LEMMA WellformedMoves ==
  ASSUME Wellformed, NEW t \in Tools, Files', NEW l, Goto(t, l), lock' = lock,
         t \in Locking => pc[t] # "idle",
         mem' = mem \/ \E m \in Memory : Keep(t, m) /\ Len(m.closed) <= MaxClosedRecords,
         hand' = hand \/ \E h : Take(t, h),
         pc'[t] = l => Holds(t)'
  PROVE  Wellformed'
<1>1. pc'[t] = l
  BY DEF Goto, Wellformed, Places
<1>2. Holds(t)'
  BY <1>1
<1>3. lock' = lock /\ (t \in Locking => pc[t] # "idle")
  OBVIOUS
<1> QED
  BY <1>2, <1>3, WellformedStep

LEMMA MemoryTyped ==
  ASSUME Wellformed, NEW t \in Tools
  PROVE  /\ mem[t] \in Memory /\ Len(mem[t].closed) <= MaxClosedRecords
         /\ \A q \in QueueDoc :
              /\ [mem[t] EXCEPT !.queue = q] \in Memory
              /\ [mem[t] EXCEPT !.queue = q].closed = mem[t].closed
              /\ [mem[t] EXCEPT !.startQueue = q] \in Memory
              /\ [mem[t] EXCEPT !.startQueue = q].closed = mem[t].closed
         /\ \A a \in SUBSET ActiveRecord :
              /\ [mem[t] EXCEPT !.startActive = a] \in Memory
              /\ [mem[t] EXCEPT !.startActive = a].closed = mem[t].closed
         /\ \A c \in Seq(ClosedRecord) :
              /\ [mem[t] EXCEPT !.closed = c] \in Memory
              /\ [mem[t] EXCEPT !.closed = c].closed = c
         /\ Reaped(t) \in Memory /\ Reaped(t).closed = mem[t].closed
BY DEF Wellformed, Places, Memory, Reaped

LEMMA WellformedBegin ==
  ASSUME Wellformed, NEW t \in Tools, Begin(t)
  PROVE  Wellformed'
<1>1. ASSUME NEW j \in Jobs, NEW max \in 1..MaxAttemptsLimit, Submit(t, j, max)
      PROVE  Wellformed'
  <2>1. Goto(t, "enqueue") /\ lock' = lock /\ t \notin Locking
    BY <1>1, FilesConstants DEF Submit
  <2>2. Keep(t, [Blank EXCEPT !.active = active])
        /\ [Blank EXCEPT !.active = active] \in Memory
        /\ Len([Blank EXCEPT !.active = active].closed) <= MaxClosedRecords
    BY <1>1, BlankClosed DEF Submit, Memory, Wellformed, Files, Blank
  <2>3. Take(t, [job |-> j, max |-> max]) /\ hand'[t] = [job |-> j, max |-> max]
    BY <1>1 DEF Submit, Take, Wellformed, Places
  <2>4. pc'[t] = "enqueue" => Holds(t)'
    BY <2>3 DEF Holds, Cancelling
  <2>5. Files'
    BY <1>1, FilesStay DEF Submit, Wellformed
  <2> QED
    BY <2>1, <2>2, <2>3, <2>4, <2>5, WellformedMoves
<1>2. CASE StartLoad(t)
  <2>1. /\ Goto(t, "start_decide") /\ lock' = lock /\ hand' = hand
        /\ t \in Locking => pc[t] # "idle"
        /\ Keep(t, [mem[t] EXCEPT !.startQueue = queue])
    BY <1>2, FilesConstants DEF StartLoad, At
  <2>2. /\ [mem[t] EXCEPT !.startQueue = queue] \in Memory
        /\ Len([mem[t] EXCEPT !.startQueue = queue].closed) <= MaxClosedRecords
    BY MemoryTyped DEF Wellformed, Files
  <2>3. pc'[t] = "start_decide" => Holds(t)'
    BY DEF Holds, Cancelling
  <2>4. Files'
    BY <1>2, FilesStay DEF StartLoad, Wellformed
  <2> QED
    BY <2>1, <2>2, <2>3, <2>4, WellformedMoves
<1>3. CASE RebuildQueue(t)
  <2>1. /\ Goto(t, "rebuild") /\ hand' = hand
        /\ \/ lock' = lock /\ t \notin Locking
           \/ lock = NoOne /\ lock' = t /\ t \in Locking
        /\ Keep(t, [Blank EXCEPT !.queue = queue])
    BY <1>3 DEF RebuildQueue
  <2>2. /\ [Blank EXCEPT !.queue = queue] \in Memory
        /\ Len([Blank EXCEPT !.queue = queue].closed) <= MaxClosedRecords
    BY BlankClosed DEF Memory, Wellformed, Files, Blank
  <2>3. pc'[t] = "rebuild"
    BY <2>1 DEF Goto, Wellformed, Places
  <2>4. Holds(t)'
    BY <2>3 DEF Holds, Cancelling
  <2>5. Files'
    BY <1>3, FilesStay DEF RebuildQueue, Wellformed
  <2> QED
    BY <2>1, <2>2, <2>4, <2>5, WellformedStep
<1>4. CASE Cancel(t)
  <2>1. /\ Goto(t, "terminate") /\ lock' = lock /\ t \notin Locking
        /\ Keep(t, [Blank EXCEPT !.active = active])
    BY <1>4, FilesConstants DEF Cancel
  <2>2. /\ [Blank EXCEPT !.active = active] \in Memory
        /\ Len([Blank EXCEPT !.active = active].closed) <= MaxClosedRecords
    BY BlankClosed DEF Memory, Wellformed, Files, Blank
  <2>3. PICK r \in active : Take(t, [record |-> r])
    BY <1>4 DEF Cancel
  <2>4. hand'[t] = [record |-> r] /\ r \in ActiveRecord
    BY <2>3 DEF Take, Wellformed, Places, Files
  <2>5. pc'[t] = "terminate" => Holds(t)'
    BY <2>4 DEF Holds
  <2>6. Files'
    BY <1>4, FilesStay DEF Cancel, Wellformed
  <2> QED
    BY <2>1, <2>2, <2>3, <2>5, <2>6, WellformedMoves
<1> QED
  BY <1>1, <1>2, <1>3, <1>4 DEF Begin

LEMMA WellformedStart ==
  ASSUME Wellformed, NEW t \in Tools,
         \/ SubmitCheck(t) \/ SubmitSave(t) \/ StartDecide(t) \/ Launch(t)
         \/ LaunchFails(t) \/ SaveActive(t) \/ SaveQueue(t)
  PROVE  Wellformed'
<1>0. ASSUME StartFails(t), Files', pc[t] # "idle" PROVE Wellformed'
  <2>1. pc'[t] = "session_save" => Holds(t)'
    BY DEF Holds, Cancelling
  <2> QED
    BY <1>0, <2>1, WellformedLeaves, WellformedMoves DEF StartFails
<1>1. CASE SubmitCheck(t)
  <2> DEFINE q == Enqueue(queue, hand[t].job, hand[t].max, 0, TRUE)
  <2>1. pc[t] = "enqueue" /\ Files'
    BY <1>1, FilesStay DEF SubmitCheck, At, Wellformed
  <2>2. hand[t].job \in Jobs /\ hand[t].max \in 1..MaxAttemptsLimit
    BY <2>1 DEF Wellformed, Holds
  <2>3. q \in QueueDoc
    BY <2>2, EnqueueDoc DEF Wellformed, Files
  <2>4. /\ [mem[t] EXCEPT !.queue = q] \in Memory
        /\ Len([mem[t] EXCEPT !.queue = q].closed) <= MaxClosedRecords
    BY <2>3, MemoryTyped
  <2>5. CASE Leave(t)
    BY <2>1, <2>5, WellformedLeaves
  <2>6. CASE /\ Keep(t, [mem[t] EXCEPT !.queue = q]) /\ Goto(t, "enqueue_save")
             /\ UNCHANGED <<hand, lock>>
    <3>1. pc'[t] = "enqueue_save" => Holds(t)'
      BY <2>2, <2>6 DEF Holds, Cancelling
    <3> QED
      BY <2>1, <2>4, <2>6, <3>1, WellformedMoves
  <2> QED
    BY <1>1, <2>5, <2>6 DEF SubmitCheck
<1>2. CASE SubmitSave(t)
  <2>1. /\ pc[t] = "enqueue_save" /\ Leave(t) /\ queue' = mem[t].queue
        /\ spent' = [spent EXCEPT ![hand[t].job] = 0]
        /\ UNCHANGED <<active, closed, live, lastPid>>
    BY <1>2 DEF SubmitSave, At
  <2>2. queue' \in QueueDoc /\ spent' \in [Jobs -> Nat]
    BY <2>1 DEF Wellformed, Files, Places, Memory, Holds
  <2>3. Files'
    BY <2>1, <2>2 DEF Wellformed, Files
  <2> QED
    BY <2>1, <2>3, WellformedLeaves
<1>3. CASE StartDecide(t)
  <2>1. pc[t] # "idle" /\ Files'
    BY <1>3, FilesStay DEF StartDecide, At, Wellformed
  <2>2. CASE StartFails(t)
    BY <1>0, <2>1, <2>2
  <2>3. ASSUME NEW e \in mem[t].startQueue.entries, Take(t, e),
               Keep(t, [mem[t] EXCEPT !.startActive = active]), Goto(t, "launch"),
               UNCHANGED lock
        PROVE  Wellformed'
    <3>1. /\ [mem[t] EXCEPT !.startActive = active] \in Memory
          /\ Len([mem[t] EXCEPT !.startActive = active].closed) <= MaxClosedRecords
      BY MemoryTyped DEF Wellformed, Files
    <3>2. hand'[t] = e /\ e \in QueueEntry
      BY <2>3 DEF Take, Wellformed, Places, Memory, QueueDoc
    <3>3. pc'[t] = "launch" => Holds(t)'
      BY <3>2 DEF Holds, Cancelling
    <3> QED
      BY <2>1, <2>3, <3>1, <3>3, WellformedMoves
  <2> QED
    BY <1>3, <2>2, <2>3 DEF StartDecide
<1>4. CASE Launch(t)
  <2> DEFINE h == hand[t]
             r == Started(h, lastPid')
             m == [mem[t] EXCEPT !.startActive = WithRecord(@, r),
                                 !.startQueue = Remove(@, h)]
  <2>1. /\ pc[t] = "launch" /\ Goto(t, "save_active") /\ Keep(t, m)
        /\ lastPid' = lastPid + 1
        /\ live' = live \cup {[job |-> h.job, pid |-> lastPid']}
        /\ spent' = [spent EXCEPT ![h.job] = @ + 1]
        /\ UNCHANGED <<queue, active, closed, lock, hand>>
    BY <1>4 DEF Launch, At, files
  <2>2. h \in QueueEntry /\ lastPid' \in Nat
    BY <2>1 DEF Wellformed, Holds, Files
  <2>3. r \in ActiveRecord /\ [job |-> h.job, pid |-> lastPid'] \in Process
    BY <2>2, StoreConstants DEF Started, ActiveRecord, QueueEntry, Process
  <2> HIDE DEF r
  <2>4. m \in Memory /\ m.closed = mem[t].closed
    <3>1. mem[t] \in Memory
      BY DEF Wellformed, Places
    <3>2. /\ WithRecord(mem[t].startActive, r) \in SUBSET ActiveRecord
          /\ Remove(mem[t].startQueue, h) \in QueueDoc
      BY <2>3, <3>1 DEF Memory, WithRecord, Remove, QueueDoc
    <3> QED
      BY <3>1, <3>2 DEF Memory
  <2>5. Len(m.closed) <= MaxClosedRecords
    BY <2>4, MemoryTyped
  <2>6. Files'
    BY <2>1, <2>2, <2>3 DEF Wellformed, Files, QueueEntry
  <2>7. pc'[t] = "save_active" => Holds(t)'
    BY <2>1, <2>2 DEF Holds, Cancelling
  <2> HIDE DEF m
  <2> QED
    BY <2>1, <2>4, <2>5, <2>6, <2>7, WellformedMoves
<1>5. CASE LaunchFails(t)
  <2>1. pc[t] # "idle" /\ Files'
    BY <1>5, FilesStay DEF LaunchFails, At, Wellformed
  <2> QED
    BY <1>0, <1>5, <2>1 DEF LaunchFails
<1>6. CASE SaveActive(t)
  <2>1. /\ pc[t] = "save_active" /\ Goto(t, "save_queue") /\ active' = mem[t].startActive
        /\ UNCHANGED <<queue, closed, live, lastPid, spent, lock, mem, hand>>
    BY <1>6 DEF SaveActive, At, world
  <2>2. Files'
    BY <2>1 DEF Wellformed, Files, Places, Memory
  <2>3. pc'[t] = "save_queue" => Holds(t)'
    BY <2>1 DEF Holds, Cancelling, Wellformed
  <2> QED
    BY <2>1, <2>2, <2>3, WellformedMoves
<1>7. CASE SaveQueue(t)
  <2>1. /\ Leave(t) /\ queue' = mem[t].startQueue
        /\ UNCHANGED <<active, closed, live, lastPid, spent>>
    BY <1>7 DEF SaveQueue, world
  <2>2. Files'
    BY <2>1 DEF Wellformed, Files, Places, Memory
  <2> QED
    BY <2>1, <2>2, WellformedLeaves
<1> QED
  BY <1>1, <1>2, <1>3, <1>4, <1>5, <1>6, <1>7

LEMMA WellformedReap ==
  ASSUME Wellformed, NEW t \in Tools,
         \/ RebuildActive(t) \/ ReapRecord(t) \/ ReapClose(t) \/ ReapRequeue(t)
         \/ ReapSave(t)
  PROVE  Wellformed'
<1>1. CASE RebuildActive(t)
  <2> DEFINE m == [mem[t] EXCEPT !.active = active, !.closed = closed,
                                 !.todo = {r \in active : r.pid \notin LivePids}]
  <2>1. /\ pc[t] # "idle" /\ Goto(t, "reap") /\ Keep(t, m) /\ UNCHANGED <<lock, hand>>
    BY <1>1 DEF RebuildActive, At
  <2>2. m \in Memory /\ Len(m.closed) <= MaxClosedRecords
    BY DEF Wellformed, Files, Places, Memory
  <2> HIDE DEF m
  <2>3. Files'
    BY <1>1, FilesStay DEF RebuildActive, Wellformed
  <2>4. pc'[t] = "reap" => Holds(t)'
    BY DEF Holds, Cancelling
  <2> QED
    BY <2>1, <2>2, <2>3, <2>4, WellformedMoves
<1>2. CASE ReapRecord(t)
  <2>1. /\ pc[t] # "idle" /\ Goto(t, "reap_close") /\ lock' = lock
        /\ Keep(t, [mem[t] EXCEPT !.closed = closed])
    BY <1>2 DEF ReapRecord, At
  <2>2. PICK r \in mem[t].todo, o \in Outcomes(t) :
          Take(t, [record |-> r, terminal |-> o])
    BY <1>2 DEF ReapRecord
  <2>3. r \in ActiveRecord /\ o \in Terminals
    BY <2>2, FilesConstants DEF Wellformed, Places, Memory, Outcomes, Terminals
  <2>4. hand'[t] = [record |-> r, terminal |-> o]
    BY <2>2 DEF Take, Wellformed, Places
  <2>5. /\ [mem[t] EXCEPT !.closed = closed] \in Memory
        /\ Len([mem[t] EXCEPT !.closed = closed].closed) <= MaxClosedRecords
    BY MemoryTyped DEF Wellformed, Files
  <2>6. Files'
    BY <1>2, FilesStay DEF ReapRecord, Wellformed
  <2>7. pc'[t] = "reap_close" => Holds(t)'
    BY <2>3, <2>4 DEF Holds, Cancelling
  <2> QED
    BY <2>1, <2>2, <2>5, <2>6, <2>7, WellformedMoves
<1>3. CASE ReapClose(t)
  <2> DEFINE c == Closing(hand[t].record, hand[t].terminal)
  <2>1. /\ pc[t] = "reap_close" /\ lock' = lock
        /\ closed' = AppendClosed(mem[t].closed, c)
        /\ UNCHANGED <<queue, active, live, lastPid, spent>>
    BY <1>3 DEF ReapClose, At, world
  <2>2. /\ c \in ClosedRecord /\ hand[t].record \in ActiveRecord
        /\ hand[t].terminal \in Terminals
    BY <2>1 DEF Wellformed, Holds, Closing, ActiveRecord, ClosedRecord
  <2> HIDE DEF c
  <2>3. mem[t].closed \in Seq(ClosedRecord) /\ Len(mem[t].closed) <= MaxClosedRecords
    BY DEF Wellformed, Places, Memory
  <2>4. closed' \in Seq(ClosedRecord) /\ Len(closed') <= MaxClosedRecords
    BY <2>1, <2>2, <2>3, AppendClosedFacts, StoreConstants
  <2>5. Files'
    BY <2>1, <2>4 DEF Wellformed, Files
  <2>6. CASE /\ Goto(t, "requeue") /\ Keep(t, [mem[t] EXCEPT !.closed = closed'])
             /\ UNCHANGED hand
    <3>1. /\ [mem[t] EXCEPT !.closed = closed'] \in Memory
          /\ Len([mem[t] EXCEPT !.closed = closed'].closed) <= MaxClosedRecords
      BY <2>4, MemoryTyped
    <3>2. pc'[t] = "requeue" => Holds(t)'
      BY <2>2, <2>6 DEF Holds, Cancelling
    <3> QED
      BY <2>1, <2>5, <2>6, <3>1, <3>2, WellformedMoves
  <2>7. CASE /\ Goto(t, "reap") /\ Keep(t, [Reaped(t) EXCEPT !.closed = closed'])
             /\ Take(t, Nothing)
    <3>1. /\ [Reaped(t) EXCEPT !.closed = closed'] \in Memory
          /\ Len([Reaped(t) EXCEPT !.closed = closed'].closed) <= MaxClosedRecords
      BY <2>4, MemoryTyped DEF Memory
    <3>2. pc'[t] = "reap" => Holds(t)'
      BY DEF Holds, Cancelling
    <3> QED
      BY <2>1, <2>5, <2>7, <3>1, <3>2, WellformedMoves
  <2> QED
    BY <1>3, <2>6, <2>7 DEF ReapClose
<1>4. CASE ReapRequeue(t)
  <2>1. /\ pc[t] = "requeue" /\ UNCHANGED <<active, closed, live, lastPid, spent>>
    BY <1>4 DEF ReapRequeue, At, world
  <2>2. CASE Leave(t) /\ UNCHANGED queue
    <3>1. Files'
      BY <2>1, <2>2 DEF Wellformed, Files
    <3> QED
      BY <2>2, <3>1, WellformedLeaves
  <2>3. CASE /\ queue' = Requeue(mem[t].queue, hand[t].record)
             /\ Keep(t, [Reaped(t) EXCEPT !.queue = queue'])
             /\ Take(t, Nothing) /\ Goto(t, "reap") /\ UNCHANGED lock
    <3>1. mem[t].queue \in QueueDoc /\ hand[t].record \in ActiveRecord
      BY <2>1 DEF Wellformed, Places, Memory, Holds
    <3>2. queue' \in QueueDoc
      BY <2>3, <3>1, EnqueueDoc DEF Requeue, ActiveRecord
    <3>3. Files'
      BY <2>1, <3>2 DEF Wellformed, Files
    <3>4. /\ [Reaped(t) EXCEPT !.queue = queue'] \in Memory
          /\ [Reaped(t) EXCEPT !.queue = queue'].closed = Reaped(t).closed
      BY <3>2, MemoryTyped DEF Memory
    <3>5. Len([Reaped(t) EXCEPT !.queue = queue'].closed) <= MaxClosedRecords
      BY <3>4, MemoryTyped
    <3>6. pc'[t] = "reap" => Holds(t)'
      BY DEF Holds, Cancelling
    <3> QED
      BY <2>1, <2>3, <3>3, <3>4, <3>5, <3>6, WellformedMoves
  <2> QED
    BY <1>4, <2>2, <2>3 DEF ReapRequeue
<1>5. CASE ReapSave(t)
  <2>1. /\ pc[t] = "reap" /\ active' = mem[t].active
        /\ UNCHANGED <<queue, closed, live, lastPid, spent>>
    BY <1>5 DEF ReapSave, At, world
  <2>2. Files'
    BY <2>1 DEF Wellformed, Files, Places, Memory
  <2>3. CASE Leave(t)
    BY <2>2, <2>3, WellformedLeaves
  <2>4. CASE Goto(t, "session_decide") /\ UNCHANGED <<lock, mem, hand>>
    <3>1. pc'[t] = "session_decide" => Holds(t)'
      BY DEF Holds, Cancelling
    <3> QED
      BY <2>1, <2>2, <2>4, <3>1, WellformedMoves
  <2> QED
    BY <1>5, <2>3, <2>4 DEF ReapSave
<1> QED
  BY <1>1, <1>2, <1>3, <1>4, <1>5

LEMMA WellformedSession ==
  ASSUME Wellformed, NEW t \in Tools,
         SessionEnds(t) \/ SessionDecide(t) \/ SessionSave(t)
  PROVE  Wellformed'
<1>1. CASE SessionEnds(t)
  BY <1>1, FilesStay, WellformedLeaves DEF SessionEnds, Wellformed
<1>2. CASE SessionDecide(t)
  <2>1. pc[t] # "idle" /\ UNCHANGED <<lock, mem>> /\ Files'
    BY <1>2, FilesStay DEF SessionDecide, At, Wellformed
  <2>2. \/ Goto(t, "session_save") /\ UNCHANGED hand
        \/ Goto(t, "start") /\ \E e \in mem[t].queue.entries : Take(t, e)
    BY <1>2 DEF SessionDecide
  <2>3. pc'[t] \in {"session_save", "start"} => Holds(t)'
    BY DEF Holds, Cancelling
  <2> QED
    BY <2>1, <2>2, <2>3, WellformedMoves
<1>3. CASE SessionSave(t)
  <2>1. /\ Leave(t) /\ queue' = mem[t].queue
        /\ UNCHANGED <<active, closed, live, lastPid, spent>>
    BY <1>3 DEF SessionSave, world
  <2>2. Files'
    BY <2>1 DEF Wellformed, Files, Places, Memory
  <2> QED
    BY <2>1, <2>2, WellformedLeaves
<1> QED
  BY <1>1, <1>2, <1>3

LEMMA WellformedCancel ==
  ASSUME Wellformed, NEW t \in Tools,
         \/ Terminate(t) \/ TerminatePending(t) \/ CancelRead(t) \/ CancelClose(t)
         \/ CancelSave(t)
  PROVE  Wellformed'
<1>1. CASE Terminate(t)
  <2>1. /\ pc[t] = "terminate" /\ Goto(t, "cancel_read") /\ live' \subseteq live
        /\ UNCHANGED <<queue, active, closed, lastPid, spent, lock, mem, hand>>
    BY <1>1 DEF Terminate, At, files
  <2>2. Files'
    BY <2>1 DEF Wellformed, Files
  <2>3. pc'[t] = "cancel_read" => Holds(t)'
    BY <2>1 DEF Holds, Cancelling, Wellformed
  <2> QED
    BY <2>1, <2>2, <2>3, WellformedMoves
<1>2. CASE TerminatePending(t)
  BY <1>2, FilesStay, WellformedLeaves DEF TerminatePending, Wellformed
<1>3. CASE CancelRead(t)
  <2>1. /\ pc[t] = "cancel_read" /\ Goto(t, "cancel_close") /\ UNCHANGED <<lock, hand>>
        /\ Keep(t, [mem[t] EXCEPT !.closed = closed])
    BY <1>3 DEF CancelRead, At
  <2>2. /\ [mem[t] EXCEPT !.closed = closed] \in Memory
        /\ Len([mem[t] EXCEPT !.closed = closed].closed) <= MaxClosedRecords
    BY MemoryTyped DEF Wellformed, Files
  <2>3. Files'
    BY <1>3, FilesStay DEF CancelRead, Wellformed
  <2>4. pc'[t] = "cancel_close" => Holds(t)'
    BY <2>1 DEF Holds, Cancelling, Wellformed
  <2> QED
    BY <2>1, <2>2, <2>3, <2>4, WellformedMoves
<1>4. CASE CancelClose(t)
  <2> DEFINE c == Closing(hand[t].record, "cancelled")
  <2>1. /\ pc[t] = "cancel_close" /\ Goto(t, "cancel_save")
        /\ closed' = AppendClosed(mem[t].closed, c)
        /\ UNCHANGED <<queue, active, live, lastPid, spent, lock, mem, hand>>
    BY <1>4 DEF CancelClose, At, world
  <2>2. hand[t].record \in ActiveRecord
    BY <2>1 DEF Wellformed, Holds, Cancelling
  <2>3. c \in ClosedRecord
    BY <2>2 DEF Closing, ActiveRecord, ClosedRecord, Terminals
  <2> HIDE DEF c
  <2>4. mem[t].closed \in Seq(ClosedRecord) /\ Len(mem[t].closed) <= MaxClosedRecords
    BY DEF Wellformed, Places, Memory
  <2>5. closed' \in Seq(ClosedRecord) /\ Len(closed') <= MaxClosedRecords
    BY <2>1, <2>3, <2>4, AppendClosedFacts, StoreConstants
  <2>6. Files'
    BY <2>1, <2>5 DEF Wellformed, Files
  <2>7. pc'[t] = "cancel_save" => Holds(t)'
    BY <2>1, <2>2 DEF Holds
  <2> QED
    BY <2>1, <2>6, <2>7, WellformedMoves
<1>5. CASE CancelSave(t)
  <2>1. /\ Leave(t) /\ active' \subseteq mem[t].active
        /\ UNCHANGED <<queue, closed, live, lastPid, spent>>
    BY <1>5 DEF CancelSave, world
  <2>2. Files'
    BY <2>1 DEF Wellformed, Files, Places, Memory
  <2> QED
    BY <2>1, <2>2, WellformedLeaves
<1> QED
  BY <1>1, <1>2, <1>3, <1>4, <1>5

(* TypeOK: however commands overlap and tools die, the three files stay    *)
(* well-formed and closed.json bounded, and of the tools that take the     *)
(* state lock at most one is in its cycle: it holds the lock.              *)
THEOREM FilesTyped == Spec => []TypeOK
<1>1. Init => Wellformed
  <2> SUFFICES ASSUME Init PROVE Wellformed
    OBVIOUS
  <2>1. Files /\ Places
    BY BlankIs, StoreConstants DEF Init, Files, Places, EmptyQueue, QueueDoc
  <2>2. \A t \in Tools : pc[t] = "idle" /\ mem[t] = Blank
    BY DEF Init
  <2>3. \A t \in Locking : pc[t] = "idle"
    BY <2>2 DEF Tools, Locking
  <2>4. \A t \in Tools : Holds(t)
    BY <2>2 DEF Holds, Cancelling
  <2> QED
    BY <2>1, <2>2, <2>3, <2>4, BlankClosed DEF Wellformed
<1>2. Wellformed /\ [Next]_vars => Wellformed'
  <2> SUFFICES ASSUME Wellformed, [Next]_vars PROVE Wellformed'
    OBVIOUS
  <2>1. ASSUME NEW t \in Tools, Begin(t) PROVE Wellformed'
    BY <2>1, WellformedBegin
  <2>2. ASSUME NEW t \in Tools, Step(t) PROVE Wellformed'
    BY <2>2, WellformedStart, WellformedReap, WellformedSession, WellformedCancel DEF Step
  <2>3. ASSUME NEW t \in Tools, Crash(t) PROVE Wellformed'
    BY <2>3, FilesStay, WellformedLeaves DEF Crash, Wellformed
  <2>4. ASSUME NEW p \in live, Exit(p) PROVE Wellformed'
    BY <2>4 DEF Exit, files, Wellformed, Files, Places, Holds
  <2>5. CASE UNCHANGED vars
    BY <2>5 DEF vars, files, world, Wellformed, Files, Places, Holds
  <2> QED
    BY <2>1, <2>2, <2>3, <2>4, <2>5 DEF Next
<1>3. Wellformed => TypeOK
  BY DEF Wellformed, Files, Places, TypeOK
<1> QED
  BY <1>1, <1>2, <1>3, PTL DEF Spec
=============================================================================
