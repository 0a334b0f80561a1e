---------------------------- MODULE PhasesProofs ----------------------------
(***************************************************************************)
(* Proofs about Phases, for any plan, budgets and number of runners, where *)
(* commands on the mission do not overlap, however they die.  The document *)
(* by itself is sound: which phases may be at work, and in which order     *)
(* they got there.  The records and the sub-runs that ran agree with it,   *)
(* and what the one command at work keeps is tied to it by where it is.    *)
(***************************************************************************)
EXTENDS PhasesLife, Counting

Proof == {"PASSED", "FAILED", "UNPROVEN"}

(* A phase of a sound document: its attempts, and the last of its sub-runs *)
(* on record.  Repairs are used in order, no more than the budget has.     *)
PhaseSound(d, i) ==
  LET p == d.phases[i] IN
  /\ p.kind = IF i <= Len(Plan) THEN Plan[i] ELSE "REPAIR"
  /\ p.attempt <= MaxAttempts(p.kind)
  /\ p.state = "PENDING" => p.attempt = 0 /\ p.last = 0
  /\ p.state \in Proof => p.last = p.attempt /\ p.last # 0
  /\ p.state = "RUNNING" => /\ p.last \in {p.attempt, p.attempt + 1}
                            /\ p.attempt < MaxAttempts(p.kind)
                            /\ d.begun
  /\ i > Len(Plan) =>
       /\ p.state # "PENDING" => i <= Len(Plan) + RepairBudget
       /\ i <= Len(Plan) + d.used => p.state \in Proof

(* A repair is planned that the repairs used do not count.                 *)
RoundOpen(d) == Len(d.phases) > Len(Plan) + d.used

(* Where a repair is open, a phase has failed since the last one, or there *)
(* is no sub-run left to run it.                                           *)
RoundSound(d) ==
  /\ \A i \in DOMAIN Plan : d.phases[i].state # "RUNNING"
  /\ \/ d.phases[Len(d.phases)].state = "PENDING" /\ d.started >= SubrunBudget
     \/ \E i \in DOMAIN Plan :
          d.phases[i].state = "FAILED" /\ d.phases[i].used >= d.used

DocSound(d) ==
  /\ d \in MissionDocs
  /\ Len(d.phases) \in Len(Plan) .. Len(Plan) + MaxRounds
  /\ Len(d.phases) \in Len(Plan) + d.used .. Len(Plan) + d.used + 1
  /\ \A i \in DOMAIN d.phases : PhaseSound(d, i)
  /\ \A i, j \in DOMAIN Plan :
       i < j /\ d.phases[j].state # "PENDING" => d.phases[i].state = "PASSED"
  /\ RoundOpen(d) => RoundSound(d)
  /\ d.started # 0 => d.begun
  /\ d.state = "COMPLETE" => Unsatisfied(d) = {}
  /\ d.state \notin Ended => Unsatisfied(d) # {}

(* Phase i may be run: nothing else is running, and whatever it waits for  *)
(* in the plan has passed.                                                 *)
Ready(d, i) ==
  /\ i \in DOMAIN d.phases
  /\ d.phases[i].state \notin {"RUNNING", "PASSED"}
  /\ d.phases[i].attempt < MaxAttempts(d.phases[i].kind)
  /\ \A j \in DOMAIN d.phases : d.phases[j].state # "RUNNING"
  /\ i <= Len(Plan) =>
       /\ ~RoundOpen(d)
       /\ \A j \in DOMAIN Plan : j < i => d.phases[j].state = "PASSED"
  /\ i > Len(Plan) => i = Len(Plan) + d.used + 1 /\ d.used < RepairBudget

------------------------------------------------------------------------------
(* The plan and the documents. *)

LEMMA Constants ==
  /\ Len(Plan) \in Nat \ {0} /\ DOMAIN Plan = 1 .. Len(Plan)
  /\ \A i \in 1 .. Len(Plan) : Plan[i] \in Kinds \ {"REPAIR"}
  /\ {RepairBudget, MaxRounds, SubrunBudget, Session} \subseteq Nat
  /\ RepairBudget <= MaxRounds /\ SubrunBudget > 0 /\ Session > 0 /\ MaxRounds > 0
<1>1. /\ Plan \in Seq(Kinds \ {"REPAIR"}) /\ Plan # <<>>
      /\ RepairBudget \in 0 .. MaxRounds /\ MaxRounds \in Nat \ {0}
      /\ SubrunBudget \in Nat \ {0} /\ Session \in Nat \ {0}
  BY PhasesAssumption
<1>2. Len(Plan) \in Nat \ {0} /\ DOMAIN Plan = 1 .. Len(Plan)
  BY <1>1
<1>3. \A i \in 1 .. Len(Plan) : Plan[i] \in Kinds \ {"REPAIR"}
  BY <1>1
<1> QED BY <1>1, <1>2, <1>3

LEMMA AttemptsAre ==
  /\ Attempts \subseteq Nat \ {0}
  /\ \A k \in Kinds : MaxAttempts(k) \in Attempts
  /\ MaxAttempts("REPAIR") = 1
<1>1. RepairBudget \in Nat
  BY Constants
<1> QED BY <1>1 DEF Attempts, MaxAttempts, Kinds

LEMMA DocTypes ==
  ASSUME NEW d \in MissionDocs
  PROVE  /\ d.state \in {StateOf[k] : k \in Kinds} \cup Ended /\ d.begun \in BOOLEAN
         /\ d.started \in 0 .. SubrunBudget /\ d.completed \in 0 .. SubrunBudget
         /\ d.used \in 0 .. RepairBudget
         /\ d.started \in Nat /\ d.completed \in Nat /\ d.used \in Nat
         /\ d.approved \in {"none", "commit", "merge"} /\ d.notes \in 0 .. MaxNotes
         /\ d.phases \in Seq(PhaseDocs) /\ Len(d.phases) \in Nat
         /\ DOMAIN d.phases = 1 .. Len(d.phases)
         /\ \A i \in DOMAIN d.phases :
              /\ d.phases[i] \in PhaseDocs
              /\ d.phases[i].kind \in Kinds
              /\ d.phases[i].state \in {"PENDING", "RUNNING", "PASSED", "FAILED", "UNPROVEN"}
              /\ d.phases[i].attempt \in Nat /\ d.phases[i].attempt \in Attempts \cup {0}
              /\ d.phases[i].used \in 0 .. MaxRounds
              /\ d.phases[i].last \in Nat /\ d.phases[i].last \in Attempts \cup {0}
<1>1. /\ d.state \in {StateOf[k] : k \in Kinds} \cup Ended /\ d.begun \in BOOLEAN
      /\ d.started \in 0 .. SubrunBudget /\ d.completed \in 0 .. SubrunBudget
      /\ d.used \in 0 .. RepairBudget
      /\ d.approved \in {"none", "commit", "merge"} /\ d.notes \in 0 .. MaxNotes
      /\ d.phases \in Seq(PhaseDocs)
  BY DEF MissionDocs
<1>2. SubrunBudget \in Nat /\ RepairBudget \in Nat
  BY Constants
<1>3. Len(d.phases) \in Nat /\ DOMAIN d.phases = 1 .. Len(d.phases)
  BY <1>1
<1>4. ASSUME NEW i \in DOMAIN d.phases
      PROVE  /\ d.phases[i] \in PhaseDocs
             /\ d.phases[i].kind \in Kinds
             /\ d.phases[i].state \in {"PENDING", "RUNNING", "PASSED", "FAILED", "UNPROVEN"}
             /\ d.phases[i].attempt \in Nat /\ d.phases[i].attempt \in Attempts \cup {0}
             /\ d.phases[i].used \in 0 .. MaxRounds
             /\ d.phases[i].last \in Nat /\ d.phases[i].last \in Attempts \cup {0}
  <2>1. d.phases[i] \in PhaseDocs
    BY <1>1, <1>3
  <2>2. /\ d.phases[i].kind \in Kinds
        /\ d.phases[i].state \in {"PENDING", "RUNNING", "PASSED", "FAILED", "UNPROVEN"}
        /\ d.phases[i].attempt \in Attempts \cup {0}
        /\ d.phases[i].used \in 0 .. MaxRounds
        /\ d.phases[i].last \in Attempts \cup {0}
    BY <2>1 DEF PhaseDocs
  <2>3. Attempts \cup {0} \subseteq Nat
    BY AttemptsAre
  <2> QED BY <2>1, <2>2, <2>3
<1> QED BY <1>1, <1>2, <1>3, <1>4

(* The indices of a sound document: the plan, then the repairs.            *)
LEMMA Indices ==
  ASSUME NEW d, DocSound(d)
  PROVE  /\ d \in MissionDocs
         /\ DOMAIN Plan = 1 .. Len(Plan) /\ DOMAIN d.phases = 1 .. Len(d.phases)
         /\ DOMAIN Plan \subseteq DOMAIN d.phases
         /\ Repairs(d) = {i \in DOMAIN d.phases : i > Len(Plan)}
         /\ Cardinality(Repairs(d)) = Len(d.phases) - Len(Plan)
         /\ DOMAIN d.phases \subseteq Slots
<1>1. d \in MissionDocs /\ Len(d.phases) \in Len(Plan) .. Len(Plan) + MaxRounds
  BY DEF DocSound
<1>2. /\ DOMAIN Plan = 1 .. Len(Plan) /\ DOMAIN d.phases = 1 .. Len(d.phases)
      /\ Len(Plan) \in Nat /\ MaxRounds \in Nat
  BY <1>1, Constants, DocTypes
<1>3. DOMAIN Plan \subseteq DOMAIN d.phases /\ DOMAIN d.phases \subseteq Slots
  BY <1>1, <1>2 DEF Slots
<1>4. \A i \in DOMAIN d.phases : d.phases[i].kind = "REPAIR" <=> i > Len(Plan)
  BY <1>2, Constants DEF DocSound, PhaseSound
<1>5. Repairs(d) = {i \in DOMAIN d.phases : i > Len(Plan)}
  BY <1>4 DEF Repairs
<1>6. Repairs(d) = Len(Plan) + 1 .. Len(d.phases)
  BY <1>1, <1>2, <1>5
<1>7. Cardinality(Repairs(d)) = Len(d.phases) - Len(Plan)
  <2>1. Len(Plan) + 1 \in Int /\ Len(d.phases) \in Int
    BY <1>1, <1>2
  <2>2. Cardinality(Len(Plan) + 1 .. Len(d.phases)) =
          IF Len(Plan) + 1 > Len(d.phases) THEN 0 ELSE Len(d.phases) - (Len(Plan) + 1) + 1
    BY <2>1, FS_Interval
  <2> QED BY <1>1, <1>2, <1>6, <2>2
<1> QED BY <1>1, <1>2, <1>3, <1>5, <1>7

LEMMA MinimumIs ==
  ASSUME NEW T \in SUBSET Nat, T # {}
  PROVE  Minimum(T) \in T /\ \A k \in T : Minimum(T) <= k
<1>1. \E m \in T : \A k \in T : m <= k
  BY SmallestOfNats
<1> QED BY <1>1 DEF Minimum

------------------------------------------------------------------------------
(* flow.decide. *)

FailedRepairs(d) ==
  {i \in Repairs(d) : /\ d.phases[i].state \in {"FAILED", "UNPROVEN"}
                      /\ d.phases[i].attempt >= MaxAttempts("REPAIR")}

PendingRepairs(d) == {i \in Repairs(d) : d.phases[i].state = "PENDING"}

LEMMA DecideIs ==
  ASSUME NEW d
  PROVE  Decide(d) =
    IF FailedRepairs(d) # {} THEN Do("blocked", Minimum(FailedRepairs(d)))
    ELSE IF PendingRepairs(d) # {}
      THEN Do(IF d.used < RepairBudget THEN "run_phase" ELSE "blocked",
              Minimum(PendingRepairs(d)))
    ELSE IF Unsatisfied(d) # {} THEN PhaseDecision(d, Minimum(Unsatisfied(d)))
    ELSE Do("complete", 1)
BY DEF Decide, FailedRepairs, PendingRepairs

(* The first unsatisfied phase, where no repair comes before it: one of    *)
(* the plan, or a repair left running.                                     *)
LEMMA FirstUnsatisfied ==
  ASSUME NEW d, DocSound(d), FailedRepairs(d) = {}, PendingRepairs(d) = {},
         Unsatisfied(d) # {}, NEW i, i = Minimum(Unsatisfied(d))
  PROVE  /\ i \in DOMAIN d.phases /\ d.phases[i].state # "PASSED"
         /\ \A j \in DOMAIN d.phases : j < i => d.phases[j].state = "PASSED"
         /\ i > Len(Plan) => d.phases[i].state = "RUNNING"
<1>1. Unsatisfied(d) \subseteq Nat
  BY Indices DEF Unsatisfied
<1>2. i \in Unsatisfied(d) /\ \A k \in Unsatisfied(d) : i <= k
  BY <1>1, MinimumIs
<1>3. \A j \in DOMAIN d.phases : j < i => d.phases[j].state = "PASSED"
  <2>1. \A j \in DOMAIN d.phases : j \in Nat /\ (j \in Unsatisfied(d) => ~(j < i))
    BY <1>1, <1>2, Indices, DocTypes
  <2> QED BY <2>1 DEF Unsatisfied
<1>4. ASSUME i > Len(Plan), d.phases[i].state # "RUNNING" PROVE FALSE
  <2>1. i \in DOMAIN d.phases /\ i \in Repairs(d)
    BY <1>2, <1>4, Indices DEF Unsatisfied
  <2>2. d.phases[i].state \in {"PENDING", "FAILED", "UNPROVEN"}
    BY <1>2, <1>4, <2>1, Indices, DocTypes DEF Unsatisfied
  <2>3. d.phases[i].state \in {"FAILED", "UNPROVEN"} => d.phases[i].attempt >= 1
    <3>1. PhaseSound(d, i) /\ d.phases[i].attempt \in Nat
      BY <2>1, Indices, DocTypes DEF DocSound
    <3> QED BY <3>1 DEF PhaseSound, Proof
  <2> QED BY <2>1, <2>2, <2>3, AttemptsAre DEF FailedRepairs, PendingRepairs
<1> QED BY <1>2, <1>3, <1>4 DEF Unsatisfied

(* The last repair is the one that is not counted; the others are over.    *)
LEMMA OpenRound ==
  ASSUME NEW d, DocSound(d), NEW i \in DOMAIN d.phases, i > Len(Plan),
         d.phases[i].state \notin Proof
  PROVE  i = Len(Plan) + d.used + 1 /\ i = Len(d.phases) /\ RoundOpen(d)
<1>1. /\ i \in Nat /\ Len(d.phases) \in Nat /\ i <= Len(d.phases)
      /\ Len(Plan) \in Nat /\ d.used \in Nat
  BY Indices, DocTypes, Constants
<1>2. ~(i <= Len(Plan) + d.used)
  BY DEF DocSound, PhaseSound
<1>3. Len(d.phases) <= Len(Plan) + d.used + 1
  BY DEF DocSound
<1> QED BY <1>1, <1>2, <1>3 DEF RoundOpen

(* At most one phase is running.                                           *)
LEMMA OneRunning ==
  ASSUME NEW d, DocSound(d), NEW i \in DOMAIN d.phases, NEW j \in DOMAIN d.phases,
         d.phases[i].state = "RUNNING", d.phases[j].state = "RUNNING"
  PROVE  i = j
<1>1. /\ i \in Nat /\ j \in Nat /\ Len(Plan) \in Nat
      /\ DOMAIN Plan = 1 .. Len(Plan) /\ i >= 1 /\ j >= 1
  BY Indices, DocTypes, Constants
<1>2. CASE i > Len(Plan) /\ j > Len(Plan)
  BY <1>2, OpenRound DEF Proof
<1>3. CASE i <= Len(Plan) /\ j <= Len(Plan)
  <2>1. i \in DOMAIN Plan /\ j \in DOMAIN Plan
    BY <1>1, <1>3
  <2>2. ~(i < j) /\ ~(j < i)
    BY <2>1 DEF DocSound
  <2> QED BY <1>1, <2>2
<1>4. ASSUME NEW k \in {i, j}, k > Len(Plan), NEW l \in {i, j}, l <= Len(Plan) PROVE FALSE
  <2>1. RoundOpen(d)
    BY <1>4, OpenRound DEF Proof
  <2>2. l \in DOMAIN Plan
    BY <1>1, <1>4
  <2> QED BY <2>1, <2>2 DEF DocSound, RoundSound
<1> QED BY <1>1, <1>2, <1>3, <1>4

(* A repair that is open, and not waiting to be run, leaves a failed phase *)
(* of the plan that is to be repaired first.                               *)
LEMMA DecideRuns ==
  ASSUME NEW d, DocSound(d), NEW i, Decide(d) = Do("run_phase", i) PROVE Ready(d, i)
<1>0. /\ DOMAIN Plan = 1 .. Len(Plan) /\ DOMAIN d.phases = 1 .. Len(d.phases)
      /\ Len(Plan) \in Nat /\ Len(d.phases) \in Nat /\ d.used \in Nat
      /\ DOMAIN Plan \subseteq DOMAIN d.phases
      /\ Repairs(d) = {j \in DOMAIN d.phases : j > Len(Plan)}
  BY Indices, DocTypes, Constants
<1>1. FailedRepairs(d) = {}
  BY DecideIs DEF Do
<1>2. CASE PendingRepairs(d) # {}
  <2>1. d.used < RepairBudget /\ i = Minimum(PendingRepairs(d))
    BY <1>1, <1>2, DecideIs DEF Do
  <2>2. i \in PendingRepairs(d)
    <3>1. PendingRepairs(d) \subseteq Nat
      BY <1>0 DEF PendingRepairs
    <3> QED BY <1>2, <2>1, <3>1, MinimumIs
  <2>3. i \in DOMAIN d.phases /\ i > Len(Plan) /\ d.phases[i].state = "PENDING"
    BY <1>0, <2>2 DEF PendingRepairs
  <2>4. i = Len(Plan) + d.used + 1 /\ i = Len(d.phases) /\ RoundOpen(d)
    BY <2>3, OpenRound DEF Proof
  <2>5. d.phases[i].attempt = 0 /\ d.phases[i].kind = "REPAIR"
    BY <1>0, <2>3 DEF DocSound, PhaseSound
  <2>6. ASSUME NEW j \in DOMAIN d.phases, d.phases[j].state = "RUNNING" PROVE FALSE
    <3>1. CASE j > Len(Plan)
      <4>1. j = i
        BY <2>4, <2>6, <3>1, OpenRound DEF Proof
      <4> QED BY <2>3, <2>6, <4>1
    <3>2. CASE j <= Len(Plan)
      <4>1. j \in DOMAIN Plan
        BY <1>0, <3>2
      <4> QED BY <2>4, <2>6, <4>1 DEF DocSound, RoundSound
    <3> QED BY <1>0, <3>1, <3>2
  <2> QED BY <1>0, <2>1, <2>3, <2>4, <2>5, <2>6, AttemptsAre DEF Ready
<1>3. CASE PendingRepairs(d) = {}
  <2>1. Unsatisfied(d) # {} /\ PhaseDecision(d, Minimum(Unsatisfied(d))) = Do("run_phase", i)
    BY <1>1, <1>3, DecideIs DEF Do
  <2>2. i = Minimum(Unsatisfied(d)) /\ d.phases[i].state # "RUNNING"
    BY <2>1 DEF PhaseDecision, FailureDecision, Do
  <2>3. /\ i \in DOMAIN d.phases /\ d.phases[i].state # "PASSED"
        /\ \A j \in DOMAIN d.phases : j < i => d.phases[j].state = "PASSED"
        /\ ~(i > Len(Plan))
    BY <1>1, <1>3, <2>1, <2>2, FirstUnsatisfied
  <2>4. i \in Nat /\ i \in DOMAIN Plan /\ i <= Len(Plan)
    BY <1>0, <2>3
  <2>5. PhaseDecision(d, i) = Do("run_phase", i)
    BY <2>1, <2>2
  <2>6. d.phases[i].attempt < MaxAttempts(d.phases[i].kind)
    <3>1. d.phases[i].state = "PENDING" => d.phases[i].attempt = 0
      BY <2>3 DEF DocSound, PhaseSound
    <3>2. MaxAttempts(d.phases[i].kind) \in Nat \ {0}
      BY <2>3, Indices, DocTypes, AttemptsAre
    <3> QED BY <2>5, <3>1, <3>2 DEF PhaseDecision, FailureDecision, Do
  <2>7. d.phases[i].state = "FAILED" => d.used > d.phases[i].used
    BY <2>5 DEF PhaseDecision, FailureDecision, Do
  <2>8. \A j \in DOMAIN Plan : j > i => d.phases[j].state = "PENDING"
    BY <2>3, <2>4 DEF DocSound
  <2>9. \A j \in DOMAIN Plan : d.phases[j].state \in {"FAILED", "RUNNING"} =>
          j = i /\ d.phases[i].state = "FAILED"
    <3> SUFFICES ASSUME NEW j \in DOMAIN Plan, d.phases[j].state \in {"FAILED", "RUNNING"}
                 PROVE  j = i /\ d.phases[i].state = "FAILED"
      OBVIOUS
    <3>1. j \in Nat /\ ~(j < i) /\ ~(j > i)
      BY <1>0, <2>3, <2>8
    <3> QED BY <2>2, <2>4, <3>1
  <2>10. ~RoundOpen(d)
    <3> SUFFICES ASSUME RoundOpen(d) PROVE FALSE
      OBVIOUS
    <3>1. RoundSound(d)
      BY DEF DocSound
    <3>2. CASE d.phases[Len(d.phases)].state = "PENDING"
      <4>1. Len(d.phases) \in Repairs(d)
        BY <1>0 DEF RoundOpen
      <4> QED BY <1>3, <3>2, <4>1 DEF PendingRepairs
    <3>3. CASE \E j \in DOMAIN Plan :
                 d.phases[j].state = "FAILED" /\ d.phases[j].used >= d.used
      <4>1. d.phases[i].used \in Nat
        BY <2>3, Indices, DocTypes
      <4> QED BY <1>0, <2>7, <2>9, <3>3, <4>1
    <3> QED BY <3>1, <3>2, <3>3 DEF RoundSound
  <2>11. ASSUME NEW j \in DOMAIN d.phases, d.phases[j].state = "RUNNING" PROVE FALSE
    <3>1. CASE j > Len(Plan)
      BY <2>10, <2>11, <3>1, OpenRound DEF Proof
    <3>2. CASE j <= Len(Plan)
      <4>1. j \in DOMAIN Plan
        BY <1>0, <3>2
      <4> QED BY <2>9, <2>11, <4>1
    <3> QED BY <1>0, <3>1, <3>2
  <2> QED BY <1>0, <2>2, <2>3, <2>4, <2>6, <2>10, <2>11 DEF Ready
<1> QED BY <1>2, <1>3

LEMMA DecideRepairs ==
  ASSUME NEW d, DocSound(d), NEW n, Decide(d) = Do("repair", n)
  PROVE  /\ n = d.used + 1 /\ d.used < RepairBudget /\ n <= MaxRounds
         /\ \E i \in DOMAIN Plan : d.phases[i].state = "FAILED" /\ d.phases[i].used >= d.used
<1>1. FailedRepairs(d) = {} /\ PendingRepairs(d) = {} /\ Unsatisfied(d) # {}
  BY DecideIs DEF Do
<1> DEFINE i == Minimum(Unsatisfied(d))
<1>2. PhaseDecision(d, i) = Do("repair", n)
  BY <1>1, DecideIs
<1>3. /\ d.phases[i].state = "FAILED" /\ ~(d.used > d.phases[i].used)
      /\ n = d.used + 1 /\ d.used < RepairBudget /\ d.used < MaxRounds
  BY <1>2 DEF PhaseDecision, FailureDecision, Do
<1>4. i \in DOMAIN d.phases /\ ~(i > Len(Plan))
  BY <1>1, <1>3, FirstUnsatisfied
<1>5. i \in DOMAIN Plan /\ d.used \in Nat /\ MaxRounds \in Nat /\ d.phases[i].used \in Nat
  BY <1>4, Indices, DocTypes, Constants
<1> QED BY <1>3, <1>5

(* A mission is complete when all of its phases have passed.               *)
LEMMA DecideEnds ==
  ASSUME NEW d
  PROVE  /\ Decide(d).action = "complete" <=> Unsatisfied(d) = {}
         /\ Decide(d).action \in {"run_phase", "repair", "blocked", "complete"}
         /\ Decide(d) = Do(Decide(d).action, Decide(d).phase)
<1>1. Unsatisfied(d) = {} => FailedRepairs(d) = {} /\ PendingRepairs(d) = {}
  BY DEF FailedRepairs, PendingRepairs, Repairs, Unsatisfied
<1>2. \A i : /\ PhaseDecision(d, i).action \in {"run_phase", "repair", "blocked"}
             /\ PhaseDecision(d, i) = Do(PhaseDecision(d, i).action, PhaseDecision(d, i).phase)
  BY DEF PhaseDecision, FailureDecision, Do
<1>3. \A a, i : Do(a, i).action = a /\ Do(a, i).phase = i
  BY DEF Do
<1> QED BY <1>1, <1>2, <1>3, DecideIs

------------------------------------------------------------------------------
(* What the steps make of a sound document. *)

(* Its state, and what the operator may write, do not matter to the phases.*)
LEMMA StateOnly ==
  ASSUME NEW d, DocSound(d), NEW e \in MissionDocs,
         e.phases = d.phases, e.used = d.used, e.started = d.started,
         d.begun => e.begun,
         e.state = "COMPLETE" => Unsatisfied(d) = {},
         e.state \notin Ended => Unsatisfied(d) # {}
  PROVE  DocSound(e)
<1>1. \A i \in DOMAIN e.phases : PhaseSound(e, i)
  BY DEF DocSound, PhaseSound
<1>2. RoundOpen(e) => RoundSound(e)
  BY DEF DocSound, RoundOpen, RoundSound
<1>3. Unsatisfied(e) = Unsatisfied(d)
  BY DEF Unsatisfied
<1> QED BY <1>1, <1>2, <1>3 DEF DocSound

(* One phase of the document changes.                                      *)
Changes(d, e, i, p) ==
  /\ e \in MissionDocs /\ i \in DOMAIN d.phases
  /\ e.phases = [d.phases EXCEPT ![i] = p]

LEMMA ChangesAre ==
  ASSUME NEW d, DocSound(d), NEW e, NEW i, NEW p, Changes(d, e, i, p)
  PROVE  /\ Len(e.phases) = Len(d.phases) /\ DOMAIN e.phases = DOMAIN d.phases
         /\ e.phases[i] = p /\ p \in PhaseDocs
         /\ \A j \in DOMAIN d.phases : j # i => e.phases[j] = d.phases[j]
<1>1. d.phases \in Seq(PhaseDocs) /\ e.phases \in Seq(PhaseDocs)
  BY Indices, DocTypes DEF Changes
<1>2. /\ DOMAIN e.phases = DOMAIN d.phases /\ e.phases[i] = p
      /\ \A j \in DOMAIN d.phases : j # i => e.phases[j] = d.phases[j]
  BY DEF Changes
<1>3. DOMAIN e.phases = 1 .. Len(e.phases) /\ DOMAIN d.phases = 1 .. Len(d.phases)
  BY <1>1
<1>4. Len(e.phases) = Len(d.phases)
  <2>1. \A m, n \in Nat : 1 .. m = 1 .. n => m = n
    <3> SUFFICES ASSUME NEW m \in Nat, NEW n \in Nat, 1 .. m = 1 .. n PROVE m = n
      OBVIOUS
    <3>1. m \in 1 .. m \/ m = 0
      OBVIOUS
    <3>2. n \in 1 .. n \/ n = 0
      OBVIOUS
    <3> QED BY <3>1, <3>2
  <2>2. Len(e.phases) \in Nat /\ Len(d.phases) \in Nat
    BY <1>1
  <2> QED BY <1>2, <1>3, <2>1, <2>2
<1>5. p \in PhaseDocs
  <2>1. i \in DOMAIN e.phases
    BY <1>2 DEF Changes
  <2>2. e.phases[i] \in PhaseDocs
    BY <1>1, <2>1
  <2> QED BY <1>2, <2>2
<1> QED BY <1>2, <1>4, <1>5

(* A phase that is ready is begun.                                         *)
LEMMA BegunSound ==
  ASSUME NEW d, DocSound(d), NEW i, Ready(d, i), d.started < SubrunBudget, NEW e,
         Changes(d, e, i, [d.phases[i] EXCEPT !.state = "RUNNING"]),
         e.used = d.used, e.started = d.started, e.begun, e.state \notin Ended
  PROVE  DocSound(e)
<1>0. /\ DOMAIN Plan = 1 .. Len(Plan) /\ DOMAIN d.phases = 1 .. Len(d.phases)
      /\ Len(Plan) \in Nat /\ Len(d.phases) \in Nat /\ d.used \in Nat
      /\ RepairBudget \in Nat /\ DOMAIN Plan \subseteq DOMAIN d.phases
  BY Indices, DocTypes, Constants
<1>1. /\ Len(e.phases) = Len(d.phases) /\ DOMAIN e.phases = DOMAIN d.phases
      /\ e.phases[i] = [d.phases[i] EXCEPT !.state = "RUNNING"]
      /\ \A j \in DOMAIN d.phases : j # i => e.phases[j] = d.phases[j]
  BY ChangesAre
<1>2. /\ i \in DOMAIN d.phases /\ d.phases[i] \in PhaseDocs
      /\ d.phases[i].state \in {"PENDING", "FAILED", "UNPROVEN"}
      /\ d.phases[i].attempt \in Nat /\ d.phases[i].last \in Nat
  BY Indices, DocTypes DEF Ready
<1>3. /\ e.phases[i].state = "RUNNING" /\ e.phases[i].kind = d.phases[i].kind
      /\ e.phases[i].attempt = d.phases[i].attempt
      /\ e.phases[i].last = d.phases[i].last /\ e.phases[i].used = d.phases[i].used
  BY <1>1, <1>2 DEF PhaseDocs
<1>4. d.phases[i].last = d.phases[i].attempt
  BY <1>2 DEF DocSound, PhaseSound, Proof
<1>5. ASSUME NEW j \in DOMAIN e.phases PROVE PhaseSound(e, j)
  <2>1. PhaseSound(d, j)
    BY <1>1 DEF DocSound
  <2>2. CASE j # i
    BY <1>1, <2>1, <2>2 DEF PhaseSound
  <2>3. CASE j = i
    <3>1. d.phases[i].attempt < MaxAttempts(d.phases[i].kind)
      BY DEF Ready
    <3>2. i > Len(Plan) => i <= Len(Plan) + RepairBudget /\ ~(i <= Len(Plan) + d.used)
      BY <1>0 DEF Ready
    <3>3. i <= Len(Plan) \/ i > Len(Plan)
      BY <1>0, <1>2
    <3> QED BY <1>0, <1>2, <1>3, <1>4, <2>1, <2>3, <3>1, <3>2, <3>3 DEF PhaseSound, Proof
  <2> QED BY <2>2, <2>3
<1>6. ASSUME NEW j \in DOMAIN Plan, NEW k \in DOMAIN Plan, j < k,
             e.phases[k].state # "PENDING"
      PROVE  e.phases[j].state = "PASSED"
  <2>1. j \in DOMAIN d.phases /\ k \in DOMAIN d.phases /\ j # k
    BY <1>0, <1>6
  <2>2. CASE k = i
    BY <1>0, <1>1, <1>6, <2>1, <2>2 DEF Ready
  <2>3. CASE k # i
    <3>1. d.phases[j].state = "PASSED"
      BY <1>1, <1>6, <2>1, <2>3 DEF DocSound
    <3>2. j # i
      BY <1>2, <3>1
    <3> QED BY <1>1, <2>1, <3>1, <3>2
  <2> QED BY <2>2, <2>3
<1>7. ASSUME RoundOpen(e) PROVE RoundSound(e)
  <2>1. RoundOpen(d)
    BY <1>1, <1>7 DEF RoundOpen
  <2>2. i > Len(Plan) /\ RoundSound(d)
    BY <1>0, <1>2, <2>1 DEF Ready, DocSound
  <2>3. \A j \in DOMAIN Plan : j # i /\ e.phases[j] = d.phases[j]
    BY <1>0, <1>1, <2>2
  <2>4. CASE \E j \in DOMAIN Plan : d.phases[j].state = "FAILED" /\ d.phases[j].used >= d.used
    BY <2>2, <2>3, <2>4 DEF RoundSound
  <2>5. CASE d.phases[Len(d.phases)].state = "PENDING" /\ d.started >= SubrunBudget
    <3> QED BY <2>5, Indices, DocTypes, Constants
  <2> QED BY <2>2, <2>4, <2>5 DEF RoundSound
<1>8. Unsatisfied(e) # {}
  BY <1>1, <1>2, <1>3 DEF Unsatisfied
<1>9. /\ Len(e.phases) \in Len(Plan) .. Len(Plan) + MaxRounds
      /\ Len(e.phases) \in Len(Plan) + e.used .. Len(Plan) + e.used + 1
  BY <1>1 DEF DocSound
<1>10. e \in MissionDocs /\ e.state # "COMPLETE"
  BY DEF Changes, Ended
<1> QED BY <1>5, <1>6, <1>7, <1>8, <1>9, <1>10 DEF DocSound

(* Its sub-run is counted, with a record of its own.                       *)
LEMMA CountedSound ==
  ASSUME NEW d, DocSound(d), NEW i, NEW e, d.started < SubrunBudget,
         Changes(d, e, i, [d.phases[i] EXCEPT !.last = d.phases[i].attempt + 1]),
         d.phases[i].state = "RUNNING",
         e.used = d.used, e.begun = d.begun, e.state = d.state,
         e.started = d.started + 1
  PROVE  DocSound(e)
<1>0. /\ DOMAIN Plan = 1 .. Len(Plan) /\ DOMAIN d.phases = 1 .. Len(d.phases)
      /\ Len(Plan) \in Nat /\ Len(d.phases) \in Nat /\ d.used \in Nat
      /\ RepairBudget \in Nat /\ DOMAIN Plan \subseteq DOMAIN d.phases
      /\ d.started \in Nat /\ SubrunBudget \in Nat
  BY Indices, DocTypes, Constants
<1>1. /\ Len(e.phases) = Len(d.phases) /\ DOMAIN e.phases = DOMAIN d.phases
      /\ e.phases[i] = [d.phases[i] EXCEPT !.last = d.phases[i].attempt + 1]
      /\ \A j \in DOMAIN d.phases : j # i => e.phases[j] = d.phases[j]
  BY ChangesAre
<1>2. /\ i \in DOMAIN d.phases /\ d.phases[i] \in PhaseDocs
      /\ d.phases[i].attempt \in Nat
  BY Indices, DocTypes DEF Changes
<1>3. /\ e.phases[i].state = "RUNNING" /\ e.phases[i].kind = d.phases[i].kind
      /\ e.phases[i].attempt = d.phases[i].attempt
      /\ e.phases[i].last = d.phases[i].attempt + 1 /\ e.phases[i].used = d.phases[i].used
  BY <1>1, <1>2 DEF PhaseDocs
<1>4. \A j \in DOMAIN d.phases : /\ e.phases[j].state = d.phases[j].state
                                 /\ e.phases[j].used = d.phases[j].used
  BY <1>1, <1>3
<1>5. ASSUME NEW j \in DOMAIN e.phases PROVE PhaseSound(e, j)
  <2>1. PhaseSound(d, j)
    BY <1>1 DEF DocSound
  <2>2. CASE j # i
    BY <1>1, <2>1, <2>2 DEF PhaseSound
  <2>3. CASE j = i
    <3>1. i > Len(Plan) => i <= Len(Plan) + RepairBudget /\ ~(i <= Len(Plan) + d.used)
      BY <2>1, <2>3 DEF PhaseSound, Proof
    <3>2. d.phases[i].attempt < MaxAttempts(d.phases[i].kind) /\ d.begun
      BY <2>1, <2>3 DEF PhaseSound
    <3> QED BY <1>0, <1>2, <1>3, <2>1, <2>3, <3>1, <3>2 DEF PhaseSound, Proof
  <2> QED BY <2>2, <2>3
<1>6. \A j, k \in DOMAIN Plan :
        j < k /\ e.phases[k].state # "PENDING" => e.phases[j].state = "PASSED"
  BY <1>0, <1>4 DEF DocSound
<1>7. ASSUME RoundOpen(e) PROVE RoundSound(e)
  <2>1. RoundOpen(d)
    BY <1>1, <1>7 DEF RoundOpen
  <2>2. RoundSound(d)
    BY <2>1 DEF DocSound
  <2>3. ~(d.started >= SubrunBudget)
    BY <1>0
  <2> QED BY <1>0, <1>4, <2>2, <2>3 DEF RoundSound
<1>8. Unsatisfied(e) = Unsatisfied(d)
  BY <1>1, <1>4 DEF Unsatisfied
<1>9. /\ Len(e.phases) \in Len(Plan) .. Len(Plan) + MaxRounds
      /\ Len(e.phases) \in Len(Plan) + e.used .. Len(Plan) + e.used + 1
      /\ e \in MissionDocs /\ e.begun
  BY <1>1, <1>2 DEF DocSound, Changes, PhaseSound
<1> QED BY <1>5, <1>6, <1>7, <1>8, <1>9 DEF DocSound

(* It is over, and a repair that is over is counted.                       *)
LEMMA EndedSound ==
  ASSUME NEW d, DocSound(d), NEW i, NEW e, NEW s \in Proof,
         Changes(d, e, i, [d.phases[i] EXCEPT !.attempt = d.phases[i].last,
                                              !.used = d.used, !.state = s]),
         d.phases[i].state = "RUNNING", d.phases[i].last # 0,
         e.used = d.used + (IF i > Len(Plan) THEN 1 ELSE 0),
         e.started = d.started, e.begun = d.begun,
         e.state = "COMPLETE" => Unsatisfied(e) = {},
         e.state \notin Ended => Unsatisfied(e) # {}
  PROVE  DocSound(e)
<1>0. /\ DOMAIN Plan = 1 .. Len(Plan) /\ DOMAIN d.phases = 1 .. Len(d.phases)
      /\ Len(Plan) \in Nat /\ Len(d.phases) \in Nat /\ d.used \in Nat
      /\ RepairBudget \in Nat /\ DOMAIN Plan \subseteq DOMAIN d.phases
  BY Indices, DocTypes, Constants
<1>1. /\ Len(e.phases) = Len(d.phases) /\ DOMAIN e.phases = DOMAIN d.phases
      /\ e.phases[i] = [d.phases[i] EXCEPT !.attempt = d.phases[i].last,
                                           !.used = d.used, !.state = s]
      /\ \A j \in DOMAIN d.phases : j # i => e.phases[j] = d.phases[j]
  BY ChangesAre
<1>2. /\ i \in DOMAIN d.phases /\ d.phases[i] \in PhaseDocs
      /\ d.phases[i].attempt \in Nat /\ d.phases[i].last \in Nat
      /\ MaxAttempts(d.phases[i].kind) \in Nat
  BY Indices, DocTypes, AttemptsAre DEF Changes
<1>3. /\ e.phases[i].state = s /\ e.phases[i].kind = d.phases[i].kind
      /\ e.phases[i].attempt = d.phases[i].last
      /\ e.phases[i].last = d.phases[i].last
  BY <1>1, <1>2 DEF PhaseDocs
<1>4. i > Len(Plan) => i = Len(Plan) + d.used + 1 /\ i = Len(d.phases)
  BY <1>2, OpenRound DEF Proof
<1>5. ASSUME NEW j \in DOMAIN e.phases PROVE PhaseSound(e, j)
  <2>1. PhaseSound(d, j) /\ PhaseSound(d, i)
    BY <1>1, <1>2 DEF DocSound
  <2>2. CASE j # i
    <3>1. j > Len(Plan) /\ j <= Len(Plan) + e.used => j <= Len(Plan) + d.used
      BY <1>0, <1>1, <1>4, <2>2
    <3> QED BY <1>1, <2>1, <2>2, <3>1 DEF PhaseSound
  <2>3. CASE j = i
    <3>1. d.phases[i].last <= MaxAttempts(d.phases[i].kind)
      BY <1>2, <2>1 DEF PhaseSound
    <3>2. i > Len(Plan) => i <= Len(Plan) + RepairBudget
      BY <2>1 DEF PhaseSound
    <3> QED BY <1>3, <2>1, <2>3, <3>1, <3>2 DEF PhaseSound, Proof
  <2> QED BY <2>2, <2>3
<1>6. ASSUME NEW j \in DOMAIN Plan, NEW k \in DOMAIN Plan, j < k,
             e.phases[k].state # "PENDING"
      PROVE  e.phases[j].state = "PASSED"
  <2>1. j \in DOMAIN d.phases /\ k \in DOMAIN d.phases /\ j # k
    BY <1>0, <1>6
  <2>2. d.phases[k].state # "PENDING"
    BY <1>1, <1>6, <2>1
  <2>3. d.phases[j].state = "PASSED"
    BY <1>6, <2>2 DEF DocSound
  <2> QED BY <1>1, <2>1, <2>3
<1>7. ~RoundOpen(e)
  <2>1. CASE i > Len(Plan)
    BY <1>0, <1>1, <1>4, <2>1 DEF RoundOpen
  <2>2. CASE ~(i > Len(Plan))
    <3>1. i \in DOMAIN Plan
      BY <1>0, <1>2, <2>2
    <3>2. ~RoundOpen(d)
      BY <3>1 DEF DocSound, RoundSound
    <3> QED BY <1>0, <1>1, <2>2, <3>2 DEF RoundOpen
  <2> QED BY <2>1, <2>2
<1>8. /\ Len(e.phases) \in Len(Plan) .. Len(Plan) + MaxRounds
      /\ Len(e.phases) \in Len(Plan) + e.used .. Len(Plan) + e.used + 1
      /\ e \in MissionDocs
  BY <1>0, <1>1, <1>4 DEF DocSound, Changes
<1>9. e.started # 0 => e.begun
  BY DEF DocSound
<1> QED BY <1>5, <1>6, <1>7, <1>8, <1>9 DEF DocSound

(* What the records make of a phase: only one that was running changes.    *)
Recovered(p, q) ==
  \/ p.state # "RUNNING" /\ q = p
  \/ p.state = "RUNNING" /\ p.last = 0 /\ q = [p EXCEPT !.state = "PENDING"]
  \/ /\ p.state = "RUNNING" /\ p.last # 0
     /\ \E s \in Proof : q = [p EXCEPT !.state = s, !.attempt = p.last]

LEMMA RecoveredSound ==
  ASSUME NEW d, DocSound(d), NEW e \in MissionDocs,
         Len(e.phases) = Len(d.phases),
         \A i \in DOMAIN d.phases : Recovered(d.phases[i], e.phases[i]),
         e.used = d.used, e.started = d.started, e.begun = d.begun,
         e.state = "COMPLETE" => Unsatisfied(e) = {},
         e.state \notin Ended => Unsatisfied(e) # {}
  PROVE  DocSound(e)
<1>0. /\ DOMAIN Plan = 1 .. Len(Plan) /\ DOMAIN d.phases = 1 .. Len(d.phases)
      /\ DOMAIN e.phases = DOMAIN d.phases
      /\ Len(Plan) \in Nat /\ Len(d.phases) \in Nat /\ d.used \in Nat
      /\ RepairBudget \in Nat /\ DOMAIN Plan \subseteq DOMAIN d.phases
  BY Indices, DocTypes, Constants
<1>1. ASSUME NEW i \in DOMAIN d.phases
      PROVE  /\ PhaseSound(e, i)
             /\ d.phases[i].state # "RUNNING" => e.phases[i] = d.phases[i]
             /\ d.phases[i].state = "RUNNING" => e.phases[i].state \in Proof \cup {"PENDING"}
  <2> DEFINE p == d.phases[i]
             q == e.phases[i]
  <2>1. PhaseSound(d, i) /\ Recovered(p, q)
    BY DEF DocSound
  <2>2. p \in PhaseDocs /\ p.attempt \in Nat /\ p.last \in Nat /\ MaxAttempts(p.kind) \in Nat
    BY Indices, DocTypes, AttemptsAre
  <2>3. CASE p.state # "RUNNING"
    <3>1. q = p
      BY <2>1, <2>3 DEF Recovered
    <3> QED BY <2>1, <2>3, <3>1 DEF PhaseSound
  <2>4. CASE p.state = "RUNNING" /\ p.last = 0
    <3> HIDE DEF p, q
    <3>0. q = [p EXCEPT !.state = "PENDING"]
      BY <2>1, <2>4 DEF Recovered
    <3>2. p.last \in {p.attempt, p.attempt + 1} /\ ~(i > Len(Plan) /\ i <= Len(Plan) + d.used)
      BY <2>1, <2>4 DEF PhaseSound, Proof, p
    <3>1. /\ q.state = "PENDING" /\ q.kind = p.kind /\ q.attempt = p.attempt /\ q.last = 0
      BY <2>2, <2>4, <3>0 DEF PhaseDocs
    <3>3. q.attempt = 0 /\ q.attempt <= MaxAttempts(p.kind)
      BY <2>2, <2>4, <3>1, <3>2
    <3> QED BY <2>1, <2>4, <3>1, <3>2, <3>3 DEF PhaseSound, Proof, p, q
  <2>5. CASE p.state = "RUNNING" /\ p.last # 0
    <3>1. PICK s \in Proof : q = [p EXCEPT !.state = s, !.attempt = p.last]
      BY <2>1, <2>5 DEF Recovered
    <3>2. /\ q.state = s /\ q.kind = p.kind /\ q.attempt = p.last /\ q.last = p.last
      BY <2>2, <3>1 DEF PhaseDocs
    <3>3. p.last <= MaxAttempts(p.kind)
      BY <2>1, <2>2, <2>5 DEF PhaseSound
    <3>4. i > Len(Plan) => i <= Len(Plan) + RepairBudget
      BY <2>1, <2>5 DEF PhaseSound
    <3> QED BY <2>1, <2>5, <3>2, <3>3, <3>4 DEF PhaseSound, Proof
  <2> QED BY <2>3, <2>4, <2>5
<1>2. ASSUME NEW j \in DOMAIN Plan, NEW k \in DOMAIN Plan, j < k,
             e.phases[k].state # "PENDING"
      PROVE  e.phases[j].state = "PASSED"
  <2>1. j \in DOMAIN d.phases /\ k \in DOMAIN d.phases
    BY <1>0
  <2>2. d.phases[k].state # "PENDING"
    BY <1>1, <1>2, <2>1
  <2>3. d.phases[j].state = "PASSED"
    BY <1>2, <2>2 DEF DocSound
  <2> QED BY <1>1, <2>1, <2>3
<1>3. ASSUME RoundOpen(e) PROVE RoundSound(e)
  <2>1. RoundOpen(d) /\ RoundSound(d)
    BY <1>3 DEF RoundOpen, DocSound
  <2>2. \A j \in DOMAIN Plan : e.phases[j] = d.phases[j]
    BY <1>0, <1>1, <2>1 DEF RoundSound
  <2>3. Len(d.phases) \in DOMAIN d.phases
    BY <1>0, <2>1 DEF RoundOpen
  <2>4. d.phases[Len(d.phases)].state = "PENDING" => e.phases[Len(e.phases)].state = "PENDING"
    BY <1>1, <2>3
  <2> QED BY <2>1, <2>2, <2>4 DEF RoundSound
<1>4. /\ Len(e.phases) \in Len(Plan) .. Len(Plan) + MaxRounds
      /\ Len(e.phases) \in Len(Plan) + e.used .. Len(Plan) + e.used + 1
      /\ e.started # 0 => e.begun
  BY DEF DocSound
<1> QED BY <1>0, <1>1, <1>2, <1>3, <1>4 DEF DocSound

(* A repair round is added to the plan.                                    *)
LEMMA AddedSound ==
  ASSUME NEW d, DocSound(d), NEW e \in MissionDocs,
         e.phases = Append(d.phases, NewPhase("REPAIR", d.used)),
         e.used = d.used, e.started = d.started, e.begun = d.begun,
         e.state \notin Ended,
         ~RoundOpen(d), Len(d.phases) < Len(Plan) + MaxRounds,
         \/ /\ d.started >= SubrunBudget
            /\ \A i \in DOMAIN d.phases : d.phases[i].state # "RUNNING"
         \/ \E i \in DOMAIN Plan : d.phases[i].state = "FAILED" /\ d.phases[i].used >= d.used
  PROVE  DocSound(e)
<1>0. /\ DOMAIN Plan = 1 .. Len(Plan) /\ DOMAIN d.phases = 1 .. Len(d.phases)
      /\ Len(Plan) \in Nat /\ Len(d.phases) \in Nat /\ d.used \in Nat
      /\ RepairBudget \in Nat /\ DOMAIN Plan \subseteq DOMAIN d.phases
      /\ MaxRounds \in Nat /\ d.phases \in Seq(PhaseDocs)
  BY Indices, DocTypes, Constants
<1> DEFINE new == NewPhase("REPAIR", d.used)
           n == Len(d.phases) + 1
<1>1. /\ Len(e.phases) = n /\ DOMAIN e.phases = DOMAIN d.phases \cup {n}
      /\ e.phases[n] = new /\ \A j \in DOMAIN d.phases : e.phases[j] = d.phases[j]
  BY <1>0
<1>2. /\ new.kind = "REPAIR" /\ new.state = "PENDING" /\ new.attempt = 0 /\ new.last = 0
  BY DEF NewPhase
<1>3. n = Len(Plan) + d.used + 1
  <2>1. Len(d.phases) \in Len(Plan) + d.used .. Len(Plan) + d.used + 1
    BY DEF DocSound
  <2>2. ~(Len(d.phases) > Len(Plan) + d.used)
    BY DEF RoundOpen
  <2> QED BY <1>0, <2>1, <2>2
<1> HIDE DEF new, n
<1>4. ASSUME NEW j \in DOMAIN e.phases PROVE PhaseSound(e, j)
  <2>1. CASE j \in DOMAIN d.phases
    BY <1>1, <2>1 DEF DocSound, PhaseSound
  <2>2. CASE j = n
    <3>1. e.phases[j] = new /\ ~(j <= Len(Plan)) /\ ~(j <= Len(Plan) + e.used)
      BY <1>0, <1>1, <1>3, <2>2
    <3>2. 0 <= MaxAttempts("REPAIR")
      BY AttemptsAre
    <3> QED BY <1>2, <3>1, <3>2 DEF PhaseSound, Proof
  <2> QED BY <1>1, <2>1, <2>2
<1>5. \A i, j \in DOMAIN Plan :
        i < j /\ e.phases[j].state # "PENDING" => e.phases[i].state = "PASSED"
  BY <1>0, <1>1 DEF DocSound
<1>6. RoundSound(e)
  <2>1. CASE /\ d.started >= SubrunBudget
             /\ \A i \in DOMAIN d.phases : d.phases[i].state # "RUNNING"
    BY <1>0, <1>1, <1>2, <2>1 DEF RoundSound
  <2>2. ASSUME NEW i \in DOMAIN Plan, d.phases[i].state = "FAILED", d.phases[i].used >= d.used
        PROVE  RoundSound(e)
    <3>1. ASSUME NEW j \in DOMAIN Plan, d.phases[j].state = "RUNNING" PROVE FALSE
      <4>1. ~(i < j) /\ ~(j < i)
        BY <2>2, <3>1 DEF DocSound
      <4> QED BY <1>0, <2>2, <3>1, <4>1
    <3> QED BY <1>0, <1>1, <2>2, <3>1 DEF RoundSound
  <2> QED BY <2>1, <2>2
<1>7. Unsatisfied(e) # {}
  BY <1>1, <1>2 DEF Unsatisfied
<1>8. /\ Len(e.phases) \in Len(Plan) .. Len(Plan) + MaxRounds
      /\ Len(e.phases) \in Len(Plan) + e.used .. Len(Plan) + e.used + 1
      /\ e.started # 0 => e.begun
  BY <1>0, <1>1, <1>3 DEF DocSound, n
<1> QED BY <1>4, <1>5, <1>6, <1>7, <1>8 DEF DocSound, Ended

------------------------------------------------------------------------------
(* The records, and the sub-runs that ran. *)

(* What a record says of a phase that is not running is what its state is. *)
Agrees(d, rec) ==
  \A i \in DOMAIN d.phases :
    LET p == d.phases[i] IN
    /\ p.last # 0 => rec[<<i, p.last>>] # "NONE"
    /\ p.state \in Proof => /\ rec[<<i, p.last>>] \in Classes
                            /\ PhaseAfter(rec[<<i, p.last>>]) = p.state

(* Each sub-run that ran was counted, and the attempts of a phase ran one  *)
(* after the other.                                                        *)
Ledger(d, rn) ==
  /\ rn \in Seq([phase : Slots, attempt : Attempts, kind : Kinds, class : Classes])
  /\ d.completed <= Len(rn) /\ Len(rn) <= d.started
  /\ \A k \in DOMAIN rn :
       /\ rn[k].phase \in DOMAIN d.phases
       /\ rn[k].attempt <= d.phases[rn[k].phase].last
       /\ rn[k].kind = d.phases[rn[k].phase].kind
  /\ \A j, k \in DOMAIN rn :
       j < k /\ rn[j].phase = rn[k].phase => rn[j].attempt < rn[k].attempt

(* A record of a sub-run that completed is the record of one that ran.     *)
RanAs(rn, i, n, class) ==
  \E k \in DOMAIN rn :
    rn[k].phase = i /\ rn[k].attempt = n /\ rn[k].class = class

Vouched(rec, rn) ==
  \A i \in Slots, n \in Attempts :
    rec[<<i, n>>] = "COMPLETED" => RanAs(rn, i, n, "COMPLETED")

Evidence ==
  /\ records \in [Slots \X Attempts -> Classes \cup {"NONE", "RUNNING"}]
  /\ Agrees(mission, records)
  /\ Ledger(mission, ran)
  /\ Vouched(records, ran)

LEMMA LedgerTypes ==
  ASSUME NEW d, NEW rn, Ledger(d, rn)
  PROVE  /\ Len(rn) \in Nat /\ DOMAIN rn = 1 .. Len(rn)
         /\ \A k \in DOMAIN rn : /\ rn[k].phase \in Slots /\ rn[k].attempt \in Attempts
                                 /\ rn[k].attempt \in Nat \ {0}
                                 /\ rn[k].kind \in Kinds /\ rn[k].class \in Classes
<1>1. rn \in Seq([phase : Slots, attempt : Attempts, kind : Kinds, class : Classes])
  BY DEF Ledger
<1>2. Len(rn) \in Nat /\ DOMAIN rn = 1 .. Len(rn)
  BY <1>1
<1>3. \A k \in DOMAIN rn :
        rn[k] \in [phase : Slots, attempt : Attempts, kind : Kinds, class : Classes]
  <2> DEFINE R == [phase : Slots, attempt : Attempts, kind : Kinds, class : Classes]
  <2>1. rn \in Seq(R)
    BY <1>1
  <2> HIDE DEF R
  <2>2. \A k \in DOMAIN rn : rn[k] \in R
    BY <1>2, <2>1
  <2> QED BY <2>2 DEF R
<1>4. Attempts \subseteq Nat \ {0}
  BY AttemptsAre
<1> QED BY <1>2, <1>3, <1>4

(* A document that counts no fewer sub-runs has them in its ledger.        *)
LEMMA LedgerKept ==
  ASSUME NEW d, NEW rn, Ledger(d, rn), DocSound(d), NEW e, DocSound(e),
         DOMAIN d.phases \subseteq DOMAIN e.phases,
         \A i \in DOMAIN d.phases : d.phases[i].last <= e.phases[i].last,
         e.completed <= Len(rn), d.started <= e.started
  PROVE  Ledger(e, rn)
<1>1. \A i \in DOMAIN d.phases :
        /\ e.phases[i].kind = d.phases[i].kind
        /\ d.phases[i].last \in Nat /\ e.phases[i].last \in Nat
  <2> SUFFICES ASSUME NEW i \in DOMAIN d.phases
               PROVE  /\ e.phases[i].kind = d.phases[i].kind
                      /\ d.phases[i].last \in Nat /\ e.phases[i].last \in Nat
    OBVIOUS
  <2>1. PhaseSound(d, i) /\ PhaseSound(e, i)
    BY DEF DocSound
  <2> QED BY <2>1, Indices, DocTypes DEF PhaseSound
<1>2. d.started \in Nat /\ e.started \in Nat
  BY Indices, DocTypes
<1>3. ASSUME NEW k \in DOMAIN rn
      PROVE  /\ rn[k].phase \in DOMAIN e.phases
             /\ rn[k].attempt <= e.phases[rn[k].phase].last
             /\ rn[k].kind = e.phases[rn[k].phase].kind
  <2>1. /\ rn[k].phase \in DOMAIN d.phases /\ rn[k].attempt \in Nat
        /\ rn[k].attempt <= d.phases[rn[k].phase].last
        /\ rn[k].kind = d.phases[rn[k].phase].kind
    BY LedgerTypes DEF Ledger
  <2>2. d.phases[rn[k].phase].last <= e.phases[rn[k].phase].last
    BY <2>1
  <2> QED BY <1>1, <2>1, <2>2
<1>4. Len(rn) \in Nat /\ Len(rn) <= e.started
  BY <1>2, LedgerTypes DEF Ledger
<1> QED BY <1>3, <1>4 DEF Ledger

(* reconstruct finds in the records what the phase is.                     *)
LEMMA RebuiltIs ==
  ASSUME DocSound(mission), Evidence, NEW i \in DOMAIN mission.phases
  PROVE  /\ Recovered(mission.phases[i], Rebuilt(mission, i))
         /\ Rebuilt(mission, i) \in PhaseDocs
<1> DEFINE p == mission.phases[i]
           q == Rebuilt(mission, i)
<1>1. PhaseSound(mission, i)
  BY DEF DocSound
<1>2. p \in PhaseDocs /\ p.attempt \in Nat /\ p.last \in Nat /\ p.last \in Attempts \cup {0}
  BY Indices, DocTypes
<1>3. p.last # 0 /\ p.state \in Proof => PhaseAfter(LastRecord(mission, i)) = p.state
  BY DEF Evidence, Agrees, LastRecord
<1>4. PhaseAfter(LastRecord(mission, i)) \in Proof
  BY DEF PhaseAfter, Proof
<1>5. q = IF p.state = "PASSED" THEN p
          ELSE IF p.last = 0
            THEN IF p.state = "RUNNING" THEN [p EXCEPT !.state = "PENDING"] ELSE p
          ELSE [p EXCEPT !.state = PhaseAfter(LastRecord(mission, i)),
                         !.attempt = Maximum(p.attempt, p.last)]
  BY DEF Rebuilt
<1>6. /\ p.state = "PENDING" => p.last = 0
      /\ p.state \in Proof => p.last = p.attempt /\ p.last # 0
      /\ p.state = "RUNNING" => p.last \in {p.attempt, p.attempt + 1}
  BY <1>1 DEF PhaseSound
<1>7. p.state \in {"PENDING", "RUNNING"} \cup Proof
  BY <1>2 DEF PhaseDocs, Proof
<1>8. p.state # "PENDING" => Maximum(p.attempt, p.last) = p.last
  BY <1>2, <1>6, <1>7 DEF Maximum
<1> HIDE DEF p, q
<1>9. CASE p.state # "RUNNING"
  <2>1. CASE p.state \in Proof /\ p.state # "PASSED"
    <3>1. q = [p EXCEPT !.state = p.state, !.attempt = p.attempt]
      BY <1>3, <1>5, <1>6, <1>8, <2>1 DEF Proof
    <3>2. q = p
      BY <1>2, <3>1 DEF PhaseDocs
    <3> QED BY <1>2, <1>9, <3>2 DEF Recovered, p, q
  <2>2. CASE p.state = "PENDING" \/ p.state = "PASSED"
    <3>1. q = p
      BY <1>5, <1>6, <2>2
    <3> QED BY <1>2, <1>9, <3>1 DEF Recovered, p, q
  <2> QED BY <1>7, <1>9, <2>1, <2>2
<1>10. CASE p.state = "RUNNING" /\ p.last = 0
  <2>1. q = [p EXCEPT !.state = "PENDING"]
    BY <1>5, <1>10
  <2>2. q \in PhaseDocs
    BY <1>2, <2>1 DEF PhaseDocs
  <2> QED BY <1>10, <2>1, <2>2 DEF Recovered, p, q
<1>11. CASE p.state = "RUNNING" /\ p.last # 0
  <2>1. q = [p EXCEPT !.state = PhaseAfter(LastRecord(mission, i)), !.attempt = p.last]
    BY <1>5, <1>8, <1>11
  <2>2. q \in PhaseDocs
    BY <1>2, <1>4, <2>1 DEF PhaseDocs, Proof
  <2> QED BY <1>4, <1>11, <2>1, <2>2 DEF Recovered, p, q
<1> QED BY <1>9, <1>10, <1>11

------------------------------------------------------------------------------
(* The command at work. *)

Keeps == [doc : MissionDocs, phase : Slots, attempt : Attempts, class : Classes,
          session : 0 .. Session]

Sessions == {"end", "repair", "phase", "guarded", "block", "exhausted", "running",
             "record", "counted", "subrun", "finish", "close", "advance"}

(* The sub-run of a runner is that of the phase that is running.           *)
Launching(r) ==
  LET i == mem[r].phase IN
  /\ i \in DOMAIN mission.phases
  /\ mission.phases[i].state = "RUNNING"
  /\ mem[r].attempt = mission.phases[i].attempt + 1
  /\ mission.phases[i].last =
       IF pc[r] \in {"record", "counted"} THEN mission.phases[i].attempt ELSE mem[r].attempt

(* What r keeps, by where it is: the document it has read is the one on    *)
(* file, and the decision it carries out is still the right one.           *)
AtWork(r) ==
  /\ pc[r] \in Sessions => mission.state \notin Ended /\ mem[r].session < Session
  /\ pc[r] \in {"end", "repair", "phase", "block", "exhausted", "record", "counted",
                "subrun", "close", "advance"} => mem[r].doc = mission
  /\ pc[r] = "end" => Decide(mission).action \in {"complete", "blocked"}
  /\ pc[r] = "repair" => Decide(mission) = Do("repair", mem[r].phase)
  /\ pc[r] \in {"phase", "exhausted", "running"} => Ready(mission, mem[r].phase)
  /\ pc[r] = "exhausted" => mission.started >= SubrunBudget
  /\ pc[r] = "running" =>
       /\ mem[r].doc = [mission EXCEPT !.begun = TRUE]
       /\ Legal(mission.state, StateOf[mission.phases[mem[r].phase].kind])
  /\ pc[r] \in {"running", "record", "counted"} => mission.started < SubrunBudget
  /\ pc[r] \in {"record", "counted", "subrun", "finish", "close", "advance"} => Launching(r)
  /\ pc[r] \in {"counted", "subrun", "finish", "close"} => records[SubrunOf(r)] = "RUNNING"
  /\ pc[r] = "subrun" =>
       /\ Len(ran) < mission.started
       /\ \A k \in RunsOf(mem[r].phase) : ran[k].attempt < mem[r].attempt
  /\ pc[r] \in {"finish", "close", "advance"} =>
       /\ mission.completed < Len(ran)
       /\ RanAs(ran, mem[r].phase, mem[r].attempt, mem[r].class)
  /\ pc[r] = "advance" => records[SubrunOf(r)] = mem[r].class
  /\ pc[r] \in {"rebuild_records", "rebuild_save"} =>
       /\ mission.state \notin Ended
       /\ mem[r].doc = [mission EXCEPT !.phases =
                          [i \in DOMAIN mission.phases |-> Rebuilt(mission, i)]]
  /\ pc[r] = "rebuild_save" =>
       \A i \in DOMAIN mission.phases :
         mission.phases[i].last # 0 => LastRecord(mission, i) # "RUNNING"

(* A runner at work, or the operator's command, is alone.                  *)
Solo ==
  /\ \A r, s \in Runners : pc[r] # "idle" /\ pc[s] # "idle" => r = s
  /\ desk.step # "none" =>
       /\ \A r \in Runners : pc[r] = "idle"
       /\ desk.doc = mission
       /\ desk.step = "note" => mission.notes < MaxNotes
       /\ desk.step = "approve" => mission.approved # "merge"

Typed ==
  /\ pc \in [Runners -> Steps]
  /\ mem \in [Runners -> Keeps]
  /\ desk \in [step : {"none", "note", "approve"}, doc : MissionDocs]
  /\ crashes \in 0 .. MaxCrashes

Inv ==
  /\ Typed /\ Solo
  /\ DocSound(mission) /\ Evidence
  /\ \A r \in Runners : AtWork(r)

LEMMA CreatedSound == DocSound(Created) /\ Blank \in Keeps
<1>0. /\ Len(Plan) \in Nat \ {0} /\ DOMAIN Plan = 1 .. Len(Plan)
      /\ \A i \in 1 .. Len(Plan) : Plan[i] \in Kinds \ {"REPAIR"}
      /\ {RepairBudget, MaxRounds, SubrunBudget, Session, MaxNotes} \subseteq Nat
      /\ SubrunBudget > 0 /\ Session > 0
  BY Constants, PhasesAssumption
<1> DEFINE P == [i \in 1 .. Len(Plan) |-> NewPhase(Plan[i], 0)]
<1>1. /\ Created.phases = P /\ Created.state = "PLANNING" /\ Created.used = 0
      /\ Created.started = 0
  BY <1>0 DEF Created
<1>2. \A i \in 1 .. Len(Plan) : P[i] \in PhaseDocs
  BY <1>0 DEF NewPhase, PhaseDocs
<1>3. P \in Seq(PhaseDocs) /\ Len(P) = Len(Plan) /\ DOMAIN P = 1 .. Len(Plan)
  <2> HIDE DEF P
  <2>1. P = [i \in 1 .. Len(Plan) |-> P[i]]
    BY DEF P
  <2> QED BY <1>0, <1>2, <2>1
<1>4. Created \in MissionDocs
  <2> HIDE DEF P
  <2> QED BY <1>0, <1>1, <1>3 DEF Created, MissionDocs, StateOf, Kinds
<1>5. ASSUME NEW i \in 1 .. Len(Plan) PROVE PhaseSound(Created, i)
  <2>1. P[i] = NewPhase(Plan[i], 0) /\ MaxAttempts(Plan[i]) \in Nat
    BY <1>0, AttemptsAre
  <2> QED BY <1>0, <1>1, <2>1 DEF PhaseSound, NewPhase, Proof
<1>6. \A i \in 1 .. Len(Plan) : P[i].state = "PENDING"
  BY DEF NewPhase
<1>7. DocSound(Created)
  <2> HIDE DEF P
  <2>1. Unsatisfied(Created) # {}
    BY <1>0, <1>1, <1>3, <1>6 DEF Unsatisfied
  <2> QED BY <1>0, <1>1, <1>3, <1>4, <1>5, <1>6, <2>1 DEF DocSound, RoundOpen, Ended
<1>8. 1 \in Slots /\ 1 \in Attempts
  BY <1>0 DEF Slots, Attempts
<1>9. Blank \in Keeps
  BY <1>0, <1>4, <1>8 DEF Blank, Keeps, Classes
<1> QED BY <1>7, <1>9

(* One step of a runner at work.                                           *)
LEMMA Moved ==
  ASSUME Inv, NEW r \in Runners, NEW from, from # "idle", NEW to \in Steps,
         NEW keep \in Keeps, Goto(r, from, to, keep),
         DocSound(mission'), Evidence',
         to # "idle" /\ pc'[r] = to /\ mem'[r] = keep => AtWork(r)'
  PROVE  Inv'
<1>1. /\ pc[r] = from /\ pc' = [pc EXCEPT ![r] = to]
      /\ mem' = [mem EXCEPT ![r] = IF to = "idle" THEN Blank ELSE keep]
      /\ UNCHANGED <<desk, crashes>>
  BY DEF Goto
<1>2. \A s \in Runners : s # r => pc[s] = "idle"
  BY <1>1 DEF Inv, Solo
<1>3. /\ pc' \in [Runners -> Steps] /\ pc'[r] = to
      /\ \A s \in Runners : s # r => pc'[s] = "idle"
  BY <1>1, <1>2 DEF Inv, Typed
<1>4. mem' \in [Runners -> Keeps] /\ mem'[r] = IF to = "idle" THEN Blank ELSE keep
  BY <1>1, CreatedSound DEF Inv, Typed
<1>5. desk'.step = "none"
  BY <1>1 DEF Inv, Solo
<1>6. Typed' /\ Solo'
  BY <1>1, <1>3, <1>4, <1>5 DEF Inv, Typed, Solo
<1>7. ASSUME NEW s \in Runners, pc'[s] = "idle" PROVE AtWork(s)'
  BY <1>7 DEF AtWork, Sessions
<1>8. \A s \in Runners : AtWork(s)'
  BY <1>3, <1>4, <1>7
<1> QED BY <1>6, <1>8 DEF Inv

(* Where nothing is written, what was sound is. *)
LEMMA Untouched == ASSUME Inv, Reads PROVE DocSound(mission') /\ Evidence'
BY DEF Inv, Reads, Evidence

LEMMA DecideSlots == ASSUME NEW d, DocSound(d) PROVE Decide(d).phase \in Slots
<1>0. /\ DOMAIN d.phases \subseteq Slots /\ DOMAIN d.phases \subseteq Nat
      /\ Len(Plan) \in Nat /\ Len(Plan) > 0 /\ MaxRounds \in Nat /\ d.used \in Nat
  BY Indices, DocTypes, Constants
<1>1. \A a, i : Do(a, i).phase = i
  BY DEF Do
<1>2. \A T \in SUBSET DOMAIN d.phases : T # {} => Minimum(T) \in Slots
  <2> SUFFICES ASSUME NEW T \in SUBSET DOMAIN d.phases, T # {} PROVE Minimum(T) \in Slots
    OBVIOUS
  <2>1. T \in SUBSET Nat
    BY <1>0
  <2>2. Minimum(T) \in T
    BY <2>1, MinimumIs
  <2> QED BY <1>0, <2>2
<1>3. /\ FailedRepairs(d) \in SUBSET DOMAIN d.phases
      /\ PendingRepairs(d) \in SUBSET DOMAIN d.phases
      /\ Unsatisfied(d) \in SUBSET DOMAIN d.phases
  BY DEF FailedRepairs, PendingRepairs, Repairs, Unsatisfied
<1>4. \A i \in Slots : PhaseDecision(d, i).phase \in Slots
  <2>1. d.used < MaxRounds => d.used + 1 \in Slots
    BY <1>0 DEF Slots
  <2> QED BY <1>1, <2>1 DEF PhaseDecision, FailureDecision
<1>5. 1 \in Slots
  BY <1>0 DEF Slots
<1> QED BY <1>1, <1>2, <1>3, <1>4, <1>5, DecideIs

------------------------------------------------------------------------------
(* The steps of a session. *)

LEMMA SessionOverKeeps == ASSUME Inv, NEW r \in Runners, SessionOver(r) PROVE Inv'
<1>1. Goto(r, "load", "idle", Blank) /\ Reads
  BY DEF SessionOver
<1> QED BY <1>1, Moved, Untouched, CreatedSound DEF Steps

LEMMA LoadAndDecideKeeps == ASSUME Inv, NEW r \in Runners, LoadAndDecide(r) PROVE Inv'
<1> DEFINE d == Decide(mission)
           to == CASE d.action = "run_phase" -> "phase"
                   [] d.action = "repair"    -> "repair"
                   [] OTHER -> IF Legal(mission.state, EndOf(d)) THEN "end" ELSE "idle"
           keep == [mem[r] EXCEPT !.doc = mission, !.phase = d.phase]
<1>1. /\ mem[r].session < Session /\ mission.state \notin Ended
      /\ Goto(r, "load", to, keep) /\ Reads
  BY DEF LoadAndDecide
<1>2. DocSound(mission) /\ mission \in MissionDocs /\ mem[r] \in Keeps
  BY Indices DEF Inv, Typed
<1>3. d.phase \in Slots /\ d = Do(d.action, d.phase)
  BY <1>2, DecideSlots, DecideEnds
<1>4. keep \in Keeps /\ keep.doc = mission /\ keep.phase = d.phase /\ keep.session = mem[r].session
  BY <1>2, <1>3 DEF Keeps
<1>5. /\ to \in {"phase", "repair", "end", "idle"} /\ to \in Steps
      /\ to = "phase" => d.action = "run_phase"
      /\ to = "repair" => d.action = "repair"
      /\ to = "end" => d.action \in {"complete", "blocked"}
  BY <1>2, DecideEnds DEF Steps
<1>6. to = "phase" => Ready(mission, d.phase)
  BY <1>2, <1>3, <1>5, DecideRuns
<1>7. UNCHANGED <<mission, records, ran>>
  BY <1>1 DEF Reads
<1> HIDE DEF to, keep, d
<1>8. ASSUME to # "idle", pc'[r] = to, mem'[r] = keep PROVE AtWork(r)'
  BY <1>1, <1>3, <1>4, <1>5, <1>6, <1>7, <1>8 DEF AtWork, Sessions, d
<1> QED BY <1>1, <1>4, <1>5, <1>8, Moved, Untouched

LEMMA EndMissionKeeps == ASSUME Inv, NEW r \in Runners, EndMission(r) PROVE Inv'
<1> DEFINE e == [mission EXCEPT !.state = EndOf(Decide(mission))]
<1>1. pc[r] = "end"
  BY DEF EndMission, Saves, Goto
<1>2. /\ mem[r].doc = mission /\ Decide(mission).action \in {"complete", "blocked"}
      /\ DocSound(mission) /\ mission \in MissionDocs /\ Evidence
  BY <1>1, Indices DEF Inv, AtWork
<1>3. Goto(r, "end", "idle", Blank) /\ mission' = e /\ UNCHANGED <<records, ran>>
  BY <1>2 DEF EndMission, Saves
<1>4. EndOf(Decide(mission)) \in {"COMPLETE", "BLOCKED"}
  BY DEF EndOf
<1>5. /\ e \in MissionDocs /\ e.phases = mission.phases /\ e.used = mission.used
      /\ e.started = mission.started /\ e.begun = mission.begun
      /\ e.completed = mission.completed /\ e.state = EndOf(Decide(mission))
  BY <1>2, <1>4 DEF MissionDocs, Ended
<1>6. e.state = "COMPLETE" => Unsatisfied(mission) = {}
  BY <1>2, <1>5, DecideEnds DEF EndOf
<1>7. DocSound(e)
  BY <1>2, <1>4, <1>5, <1>6, StateOnly DEF Ended
<1>8. Evidence'
  BY <1>2, <1>3, <1>5 DEF Evidence, Agrees, Ledger
<1> QED BY <1>3, <1>7, <1>8, Moved, CreatedSound DEF Steps

(* A document that has changed no phase into one that is proved, and no    *)
(* last sub-run, agrees with the same evidence.                            *)
LEMMA EvidenceKept ==
  ASSUME Evidence, DocSound(mission), DocSound(mission'), UNCHANGED <<records, ran>>,
         DOMAIN mission.phases \subseteq DOMAIN mission'.phases,
         \A i \in DOMAIN mission.phases :
           /\ mission'.phases[i].last = mission.phases[i].last
           /\ mission'.phases[i].state \in {mission.phases[i].state, "PENDING", "RUNNING"},
         \A i \in DOMAIN mission'.phases \ DOMAIN mission.phases :
           mission'.phases[i].state = "PENDING",
         mission'.completed = mission.completed, mission'.started = mission.started
  PROVE  Evidence'
<1>1. ASSUME NEW i \in DOMAIN mission'.phases
      PROVE  LET p == mission'.phases[i] IN
             /\ p.last # 0 => records[<<i, p.last>>] # "NONE"
             /\ p.state \in Proof => /\ records[<<i, p.last>>] \in Classes
                                     /\ PhaseAfter(records[<<i, p.last>>]) = p.state
  <2>1. CASE i \in DOMAIN mission.phases
    BY <2>1 DEF Evidence, Agrees, Proof
  <2>2. CASE i \notin DOMAIN mission.phases
    <3>1. PhaseSound(mission', i) /\ mission'.phases[i].state = "PENDING"
      BY <2>2 DEF DocSound
    <3> QED BY <3>1 DEF PhaseSound, Proof
  <2> QED BY <2>1, <2>2
<1>2. Agrees(mission', records)
  BY <1>1 DEF Agrees
<1>3. Ledger(mission', ran)
  <2>1. Ledger(mission, ran) /\ mission'.completed <= Len(ran)
    BY DEF Evidence, Ledger
  <2>2. /\ \A i \in DOMAIN mission.phases : mission.phases[i].last <= mission'.phases[i].last
        /\ mission.started <= mission'.started
    BY Indices, DocTypes
  <2> QED BY <2>1, <2>2, LedgerKept
<1> QED BY <1>2, <1>3 DEF Evidence

LEMMA NextKeeps ==
  ASSUME NEW r, NEW n \in 0 .. Session PROVE Next0(r, n) \in Keeps
BY CreatedSound DEF Next0, Keeps

(* The next repair is planned, if it is not yet.                           *)
LEMMA WithRepairSound ==
  ASSUME NEW d, DocSound(d), d.state \notin Ended, NEW n \in Nat,
         n <= d.used + 1, n <= MaxRounds,
         \/ /\ d.started >= SubrunBudget
            /\ \A i \in DOMAIN d.phases : d.phases[i].state # "RUNNING"
         \/ \E i \in DOMAIN Plan : d.phases[i].state = "FAILED" /\ d.phases[i].used >= d.used,
         NEW e, e = WithRepair(d, n)
  PROVE  /\ DocSound(e) /\ DOMAIN d.phases \subseteq DOMAIN e.phases
         /\ \A i \in DOMAIN d.phases : e.phases[i] = d.phases[i]
         /\ \A i \in DOMAIN e.phases \ DOMAIN d.phases : e.phases[i].state = "PENDING"
         /\ e.completed = d.completed /\ e.started = d.started /\ e.state = d.state
<1>0. /\ d \in MissionDocs /\ d.phases \in Seq(PhaseDocs) /\ d.used \in Nat
      /\ Len(d.phases) \in Nat /\ Len(Plan) \in Nat /\ MaxRounds \in Nat
      /\ d.used \in 0 .. MaxRounds /\ DOMAIN d.phases = 1 .. Len(d.phases)
  BY Indices, DocTypes, Constants
<1>1. CASE RoundExists(d, n)
  BY <1>1 DEF WithRepair
<1>2. CASE ~RoundExists(d, n)
  <2>1. Cardinality(Repairs(d)) = Len(d.phases) - Len(Plan)
    BY Indices
  <2>2. ~RoundOpen(d) /\ Len(d.phases) < Len(Plan) + MaxRounds
    BY <1>0, <1>2, <2>1 DEF RoundExists, RoundOpen
  <2> DEFINE new == NewPhase("REPAIR", d.used)
             P == Append(d.phases, new)
  <2>3. new \in PhaseDocs /\ new.state = "PENDING"
    BY <1>0 DEF NewPhase, PhaseDocs, Kinds
  <2> HIDE DEF new
  <2>4. /\ P \in Seq(PhaseDocs) /\ DOMAIN P = DOMAIN d.phases \cup {Len(d.phases) + 1}
        /\ P[Len(d.phases) + 1] = new /\ \A i \in DOMAIN d.phases : P[i] = d.phases[i]
    BY <1>0, <2>3
  <2> HIDE DEF P
  <2>5. e = [d EXCEPT !.phases = P]
    BY <1>2 DEF WithRepair, P, new
  <2>6. /\ e \in MissionDocs /\ e.phases = P /\ e.used = d.used /\ e.started = d.started
        /\ e.begun = d.begun /\ e.state = d.state /\ e.completed = d.completed
    BY <1>0, <2>4, <2>5 DEF MissionDocs
  <2>7. DocSound(e)
    BY <2>2, <2>6, AddedSound DEF P, new
  <2> QED BY <2>3, <2>4, <2>6, <2>7
<1> QED BY <1>1, <1>2

LEMMA RepairKeeps == ASSUME Inv, NEW r \in Runners, Repair(r) PROVE Inv'
<1> DEFINE n == mem[r].phase
           e == WithRepair(mission, n)
           keep == Next0(r, mem[r].session)
<1>1. pc[r] = "repair"
  BY DEF Repair, Saves, Goto
<1>2. /\ mem[r].doc = mission /\ Decide(mission) = Do("repair", n)
      /\ mission.state \notin Ended
      /\ DocSound(mission) /\ mission \in MissionDocs /\ Evidence
      /\ mem[r] \in Keeps
  BY <1>1, Indices DEF Inv, Typed, AtWork, Sessions
<1>3. Goto(r, "repair", "load", keep) /\ mission' = e /\ UNCHANGED <<records, ran>>
  BY <1>2 DEF Repair, Saves, WithRepair
<1>4. /\ n = mission.used + 1 /\ n <= MaxRounds /\ n \in Nat
      /\ \E i \in DOMAIN Plan : mission.phases[i].state = "FAILED" /\ mission.phases[i].used >= mission.used
  BY <1>2, DecideRepairs, DocTypes
<1>5. n <= mission.used + 1
  BY <1>2, <1>4, DocTypes
<1>6. /\ DocSound(e) /\ DOMAIN mission.phases \subseteq DOMAIN e.phases
      /\ \A i \in DOMAIN mission.phases : e.phases[i] = mission.phases[i]
      /\ \A i \in DOMAIN e.phases \ DOMAIN mission.phases : e.phases[i].state = "PENDING"
      /\ e.completed = mission.completed /\ e.started = mission.started
  <2> HIDE DEF n, e
  <2>1. e = WithRepair(mission, n)
    BY DEF e
  <2> QED BY <1>2, <1>4, <1>5, <2>1, WithRepairSound
<1>7. Evidence'
  BY <1>2, <1>3, <1>6, EvidenceKept
<1>8. keep \in Keeps
  BY <1>2, NextKeeps DEF Keeps
<1>9. ASSUME pc'[r] = "load" PROVE AtWork(r)'
  BY <1>9 DEF AtWork, Sessions
<1> HIDE DEF e, keep, n
<1> QED BY <1>3, <1>6, <1>7, <1>8, <1>9, Moved DEF Steps

LEMMA PhaseLoadKeeps == ASSUME Inv, NEW r \in Runners, PhaseLoad(r) PROVE Inv'
<1> DEFINE d == [mission EXCEPT !.begun = TRUE]
           i == mem[r].phase
           keep == [mem[r] EXCEPT !.doc = d]
           next == IF Legal(d.state, StateOf[d.phases[i].kind]) THEN "running" ELSE "idle"
<1>1. pc[r] = "phase" /\ Reads
  BY DEF PhaseLoad, Goto
<1>2. /\ mem[r].doc = mission /\ Ready(mission, i)
      /\ mission.state \notin Ended /\ mem[r].session < Session
      /\ DocSound(mission) /\ mission \in MissionDocs /\ mem[r] \in Keeps
  BY <1>1, Indices DEF Inv, Typed, AtWork, Sessions
<1>3. /\ d \in MissionDocs /\ d.phases = mission.phases /\ d.started = mission.started
      /\ d.state = mission.state /\ (mission.begun => d = mission)
  BY <1>2 DEF MissionDocs
<1>4. mission.started >= SubrunBudget => mission.begun
  <2>1. mission.started >= SubrunBudget => mission.started # 0
    BY <1>2, DocTypes, Constants
  <2> QED BY <1>2, <2>1 DEF DocSound
<1>5. /\ keep \in Keeps /\ keep.doc = d /\ keep.phase = i /\ keep.session = mem[r].session
  BY <1>2, <1>3 DEF Keeps
<1>6. mission.phases[i].state \notin {"RUNNING", "PASSED"}
  BY <1>2 DEF Ready
<1> HIDE DEF d, keep, i, next
<1>7. \/ Goto(r, "phase", "guarded", keep)
      \/ Goto(r, "phase", "block", keep) /\ mission.begun
      \/ Goto(r, "phase", "exhausted", keep) /\ mission.started >= SubrunBudget
      \/ Goto(r, "phase", next, keep) /\ ~(mission.started >= SubrunBudget)
  BY <1>3, <1>6 DEF PhaseLoad, d, i, keep, next
<1>8. UNCHANGED <<mission, records, ran>>
  BY <1>1 DEF Reads
<1>9. CASE Goto(r, "phase", "guarded", keep)
  <2>1. ASSUME pc'[r] = "guarded", mem'[r] = keep PROVE AtWork(r)'
    BY <1>2, <1>5, <1>8, <2>1 DEF AtWork, Sessions
  <2> QED BY <1>1, <1>5, <1>9, <2>1, Moved, Untouched DEF Steps
<1>10. CASE Goto(r, "phase", "block", keep) /\ mission.begun
  <2>1. ASSUME pc'[r] = "block", mem'[r] = keep PROVE AtWork(r)'
    BY <1>2, <1>3, <1>5, <1>8, <1>10, <2>1 DEF AtWork, Sessions
  <2> QED BY <1>1, <1>5, <1>10, <2>1, Moved, Untouched DEF Steps
<1>11. CASE Goto(r, "phase", "exhausted", keep) /\ mission.started >= SubrunBudget
  <2>1. ASSUME pc'[r] = "exhausted", mem'[r] = keep PROVE AtWork(r)'
    BY <1>2, <1>3, <1>4, <1>5, <1>8, <1>11, <2>1 DEF AtWork, Sessions
  <2> QED BY <1>1, <1>5, <1>11, <2>1, Moved, Untouched DEF Steps
<1>12. CASE Goto(r, "phase", next, keep) /\ ~(mission.started >= SubrunBudget)
  <2>1. mission.started < SubrunBudget
    BY <1>2, <1>12, DocTypes, Constants
  <2>2. next \in {"running", "idle"} /\ next \in Steps
    BY DEF next, Steps
  <2>3. next = "running" => Legal(mission.state, StateOf[mission.phases[i].kind])
    BY <1>3 DEF next
  <2>4. ASSUME next # "idle", pc'[r] = next, mem'[r] = keep PROVE AtWork(r)'
    <3>1. keep.doc = [mission EXCEPT !.begun = TRUE]
      BY <1>5 DEF d
    <3> QED BY <1>2, <1>5, <1>8, <2>1, <2>2, <2>3, <2>4, <3>1 DEF AtWork, Sessions
  <2> QED BY <1>1, <1>5, <1>12, <2>2, <2>4, Moved, Untouched
<1> QED BY <1>7, <1>9, <1>10, <1>11, <1>12

LEMMA ExhaustedKeeps == ASSUME Inv, NEW r \in Runners, Exhausted(r) PROVE Inv'
<1> DEFINE n == Minimum({mission.used + 1, MaxRounds})
           e == WithRepair(mission, n)
           keep == [mem[r] EXCEPT !.doc = e]
<1>1. pc[r] = "exhausted"
  BY DEF Exhausted, Saves, Goto
<1>2. /\ mem[r].doc = mission /\ Ready(mission, mem[r].phase)
      /\ mission.state \notin Ended /\ mem[r].session < Session
      /\ mission.started >= SubrunBudget
      /\ DocSound(mission) /\ mission \in MissionDocs /\ Evidence /\ mem[r] \in Keeps
  BY <1>1, Indices DEF Inv, Typed, AtWork, Sessions
<1>3. Goto(r, "exhausted", "block", keep) /\ mission' = e /\ UNCHANGED <<records, ran>>
  BY <1>2 DEF Exhausted, Saves
<1>4. n \in Nat /\ n <= mission.used + 1 /\ n <= MaxRounds
  <2>1. mission.used + 1 \in Nat /\ MaxRounds \in Nat
    BY <1>2, DocTypes, Constants
  <2>2. {mission.used + 1, MaxRounds} \in SUBSET Nat
    BY <2>1
  <2>3. n \in {mission.used + 1, MaxRounds} /\ \A k \in {mission.used + 1, MaxRounds} : n <= k
    BY <2>2, MinimumIs
  <2> QED BY <2>1, <2>3
<1>5. \A i \in DOMAIN mission.phases : mission.phases[i].state # "RUNNING"
  BY <1>2 DEF Ready
<1>6. /\ DocSound(e) /\ DOMAIN mission.phases \subseteq DOMAIN e.phases
      /\ \A i \in DOMAIN mission.phases : e.phases[i] = mission.phases[i]
      /\ \A i \in DOMAIN e.phases \ DOMAIN mission.phases : e.phases[i].state = "PENDING"
      /\ e.completed = mission.completed /\ e.started = mission.started
      /\ e.state = mission.state
  <2> HIDE DEF n, e
  <2>1. e = WithRepair(mission, n)
    BY DEF e
  <2> QED BY <1>2, <1>4, <1>5, <2>1, WithRepairSound
<1>7. Evidence'
  BY <1>2, <1>3, <1>6, EvidenceKept
<1>8. keep \in Keeps /\ keep.doc = e /\ keep.session = mem[r].session
  BY <1>2, <1>6, Indices DEF Keeps
<1> HIDE DEF e, keep, n
<1>9. ASSUME pc'[r] = "block", mem'[r] = keep PROVE AtWork(r)'
  BY <1>2, <1>3, <1>6, <1>8, <1>9 DEF AtWork, Sessions
<1> QED BY <1>3, <1>6, <1>7, <1>8, <1>9, Moved DEF Steps

LEMMA GuardLoadKeeps == ASSUME Inv, NEW r \in Runners, GuardLoad(r) PROVE Inv'
<1> DEFINE keep == [mem[r] EXCEPT !.doc = mission]
<1>1. pc[r] = "guarded" /\ Reads
  BY DEF GuardLoad, Goto
<1>2. /\ mission.state \notin Ended /\ mem[r].session < Session
      /\ DocSound(mission) /\ mission \in MissionDocs /\ mem[r] \in Keeps
  BY <1>1, Indices DEF Inv, Typed, AtWork, Sessions
<1>3. Goto(r, "guarded", "block", keep)
  BY <1>2 DEF GuardLoad
<1>4. keep \in Keeps /\ keep.doc = mission /\ keep.session = mem[r].session
  BY <1>2 DEF Keeps
<1> HIDE DEF keep
<1>5. ASSUME pc'[r] = "block", mem'[r] = keep PROVE AtWork(r)'
  BY <1>1, <1>2, <1>4, <1>5 DEF AtWork, Sessions, Reads
<1> QED BY <1>1, <1>3, <1>4, <1>5, Moved, Untouched DEF Steps

LEMMA BlockKeeps == ASSUME Inv, NEW r \in Runners, Block(r) PROVE Inv'
<1> DEFINE e == [mission EXCEPT !.state = "BLOCKED"]
<1>1. pc[r] = "block"
  BY DEF Block, Saves, Goto
<1>2. /\ mem[r].doc = mission /\ DocSound(mission) /\ mission \in MissionDocs /\ Evidence
  BY <1>1, Indices DEF Inv, AtWork
<1>3. /\ Goto(r, "block", "idle", Blank) /\ mission' \in {e, mission}
      /\ UNCHANGED <<records, ran>>
  BY <1>2 DEF Block, Saves
<1>4. /\ e \in MissionDocs /\ e.phases = mission.phases /\ e.used = mission.used
      /\ e.started = mission.started /\ e.begun = mission.begun
      /\ e.completed = mission.completed /\ e.state = "BLOCKED"
  BY <1>2 DEF MissionDocs, Ended
<1>5. DocSound(e)
  BY <1>2, <1>4, StateOnly DEF Ended
<1> HIDE DEF e
<1>6. DocSound(mission') /\ Evidence'
  BY <1>2, <1>3, <1>4, <1>5 DEF Evidence, Agrees, Ledger
<1> QED BY <1>3, <1>6, Moved, CreatedSound DEF Steps

------------------------------------------------------------------------------
(* The steps of a sub-run. *)

LEMMA WriteRunningMakes ==
  ASSUME Inv, NEW r \in Runners, WriteRunning(r), NEW i, i = mem[r].phase
  PROVE  /\ Changes(mission, mission', i, [mission.phases[i] EXCEPT !.state = "RUNNING"])
         /\ mission'.used = mission.used /\ mission'.started = mission.started
         /\ mission'.completed = mission.completed /\ mission'.begun
         /\ mission'.state = StateOf[mission.phases[i].kind]
         /\ mission'.state \notin Ended
         /\ Legal(mission.state, mission'.state) /\ mission.state \notin Ended
         /\ Ready(mission, i) /\ mission.started < SubrunBudget
         /\ Goto(r, "running", "record",
                 [mem[r] EXCEPT !.doc = mission', !.attempt = mission'.phases[i].attempt + 1])
         /\ UNCHANGED <<records, ran>>
<1> DEFINE c == [mission EXCEPT !.begun = TRUE]
           p == [mission.phases[i] EXCEPT !.state = "RUNNING"]
           s == StateOf[mission.phases[i].kind]
           P == [mission.phases EXCEPT ![i] = p]
<1>1. pc[r] = "running"
  BY DEF WriteRunning, Saves, Goto
<1>2. /\ mem[r].doc = c /\ Ready(mission, i)
      /\ mission.state \notin Ended /\ mission.started < SubrunBudget
      /\ Legal(mission.state, s)
      /\ DocSound(mission) /\ mission \in MissionDocs /\ mem[r] \in Keeps
  BY <1>1, Indices DEF Inv, Typed, AtWork, Sessions
<1>3. /\ c \in MissionDocs /\ c.phases = mission.phases /\ c.used = mission.used
      /\ c.started = mission.started /\ c.completed = mission.completed /\ c.begun
  BY <1>2 DEF MissionDocs
<1>4. i \in DOMAIN mission.phases
  BY <1>2 DEF Ready
<1>5. P \in Seq(PhaseDocs)
  <2>2. mission.phases \in Seq(PhaseDocs) /\ mission.phases[i] \in PhaseDocs
    BY <1>2, <1>4, DocTypes
  <2>1. p \in PhaseDocs
    BY <2>2 DEF PhaseDocs
  <2> HIDE DEF p
  <2> QED BY <1>4, <2>1, <2>2
<1>6. s \in {StateOf[k] : k \in Kinds} /\ s \notin Ended
  <2>1. mission.phases[i].kind \in Kinds
    BY <1>2, <1>4, DocTypes
  <2> QED BY <2>1 DEF StateOf, Kinds, Ended
<1>7. mission' = [c EXCEPT !.phases[i].state = "RUNNING", !.state = StateOf[c.phases[i].kind]]
  BY <1>2 DEF WriteRunning, Saves
<1>8. mission' = [c EXCEPT !.phases = P, !.state = s]
  BY <1>3, <1>4, <1>7
<1>9. /\ mission' \in MissionDocs /\ mission'.phases = P /\ mission'.state = s
      /\ mission'.used = mission.used /\ mission'.started = mission.started
      /\ mission'.completed = mission.completed /\ mission'.begun
  <2> HIDE DEF P, s, c
  <2> QED BY <1>3, <1>5, <1>6, <1>8 DEF MissionDocs
<1>10. /\ Goto(r, "running", "record",
               [mem[r] EXCEPT !.doc = mission', !.attempt = mission'.phases[i].attempt + 1])
       /\ UNCHANGED <<records, ran>>
  BY DEF WriteRunning, Saves
<1> QED BY <1>2, <1>4, <1>6, <1>9, <1>10 DEF Changes

LEMMA WriteRunningKeeps == ASSUME Inv, NEW r \in Runners, WriteRunning(r) PROVE Inv'
<1> DEFINE i == mem[r].phase
           keep == [mem[r] EXCEPT !.doc = mission', !.attempt = mission'.phases[i].attempt + 1]
<1>1. /\ Changes(mission, mission', i, [mission.phases[i] EXCEPT !.state = "RUNNING"])
      /\ mission'.used = mission.used /\ mission'.started = mission.started
      /\ mission'.completed = mission.completed /\ mission'.begun
      /\ mission'.state \notin Ended
      /\ Ready(mission, i) /\ mission.started < SubrunBudget
      /\ Goto(r, "running", "record", keep)
      /\ UNCHANGED <<records, ran>>
  BY WriteRunningMakes
<1>2. /\ DocSound(mission) /\ mission \in MissionDocs /\ mem[r] \in Keeps /\ Evidence
      /\ pc[r] = "running" /\ mem[r].session < Session
  BY <1>1, Indices DEF Inv, Typed, AtWork, Sessions, Goto
<1> HIDE DEF i, keep
<1>3. DocSound(mission') /\ mission' \in MissionDocs
  BY <1>1, <1>2, BegunSound DEF Changes
<1>4. /\ DOMAIN mission'.phases = DOMAIN mission.phases /\ i \in DOMAIN mission.phases
      /\ mission'.phases[i] = [mission.phases[i] EXCEPT !.state = "RUNNING"]
      /\ \A j \in DOMAIN mission.phases : j # i => mission'.phases[j] = mission.phases[j]
  BY <1>1, <1>2, ChangesAre DEF Changes
<1>5. /\ mission'.phases[i].state = "RUNNING"
      /\ mission'.phases[i].attempt = mission.phases[i].attempt
      /\ mission'.phases[i].last = mission.phases[i].last
      /\ mission.phases[i].attempt \in Nat
      /\ mission.phases[i].state \in {"PENDING"} \cup Proof
  BY <1>1, <1>2, <1>4, DocTypes DEF PhaseDocs, Ready, Proof
<1>6. mission.phases[i].last = mission.phases[i].attempt
  BY <1>2, <1>4, <1>5 DEF DocSound, PhaseSound
<1>7. Evidence'
  BY <1>1, <1>2, <1>3, <1>4, <1>5, EvidenceKept
<1>8. mission.phases[i].attempt + 1 \in Attempts
  <2>1. /\ mission.phases[i].attempt < MaxAttempts(mission.phases[i].kind)
        /\ MaxAttempts(mission.phases[i].kind) \in Attempts
    BY <1>1, <1>2, <1>4, DocTypes, AttemptsAre DEF Ready
  <2> QED BY <1>5, <2>1, Constants DEF Attempts
<1>9. /\ keep \in Keeps /\ keep.doc = mission' /\ keep.phase = i
      /\ keep.attempt = mission.phases[i].attempt + 1 /\ keep.session = mem[r].session
  BY <1>2, <1>3, <1>5, <1>8 DEF Keeps, keep, i
<1>10. ASSUME pc'[r] = "record", mem'[r] = keep PROVE AtWork(r)'
  <2>1. Launching(r)'
    BY <1>4, <1>5, <1>6, <1>9, <1>10 DEF Launching
  <2> QED BY <1>1, <1>2, <1>9, <1>10, <2>1 DEF AtWork, Sessions
<1> QED BY <1>1, <1>3, <1>7, <1>9, <1>10, Moved DEF Steps

LEMMA WriteRecordKeeps == ASSUME Inv, NEW r \in Runners, WriteRecord(r) PROVE Inv'
<1> DEFINE i == mem[r].phase
           a == mem[r].attempt
<1>1. /\ Goto(r, "record", "counted", mem[r]) /\ UNCHANGED <<mission, ran>>
      /\ records' = [records EXCEPT ![<<i, a>>] = "RUNNING"]
  BY DEF WriteRecord, SubrunOf
<1>2. pc[r] = "record"
  BY <1>1 DEF Goto
<1>3. /\ mem[r].doc = mission /\ Launching(r) /\ mission.started < SubrunBudget
      /\ mission.state \notin Ended /\ mem[r].session < Session
      /\ DocSound(mission) /\ mem[r] \in Keeps /\ Evidence
  BY <1>2 DEF Inv, Typed, AtWork, Sessions
<1>4. /\ i \in DOMAIN mission.phases /\ mission.phases[i].state = "RUNNING"
      /\ a = mission.phases[i].attempt + 1
      /\ mission.phases[i].last = mission.phases[i].attempt
      /\ mission.phases[i].attempt \in Nat
  BY <1>2, <1>3, Indices, DocTypes DEF Launching
<1>5. i \in Slots /\ a \in Attempts
  BY <1>3 DEF Keeps
<1> HIDE DEF i, a
<1>6. \A j \in DOMAIN mission.phases :
        records'[<<j, mission.phases[j].last>>] = records[<<j, mission.phases[j].last>>]
  <2> SUFFICES ASSUME NEW j \in DOMAIN mission.phases
               PROVE records'[<<j, mission.phases[j].last>>] = records[<<j, mission.phases[j].last>>]
    OBVIOUS
  <2>1. <<j, mission.phases[j].last>> # <<i, a>>
    BY <1>4
  <2> QED BY <1>1, <1>3, <2>1 DEF Evidence
<1>7. Agrees(mission', records')
  BY <1>1, <1>3, <1>6 DEF Evidence, Agrees
<1>8. /\ records' \in [Slots \X Attempts -> Classes \cup {"NONE", "RUNNING"}]
      /\ records'[<<i, a>>] = "RUNNING"
      /\ \A j \in Slots, n \in Attempts :
           records'[<<j, n>>] = "COMPLETED" => records[<<j, n>>] = "COMPLETED"
  BY <1>1, <1>3, <1>5 DEF Evidence
<1>9. Evidence'
  BY <1>1, <1>3, <1>7, <1>8 DEF Evidence, Vouched
<1>10. ASSUME pc'[r] = "counted", mem'[r] = mem[r] PROVE AtWork(r)'
  <2>1. Launching(r)'
    BY <1>1, <1>2, <1>3, <1>10 DEF Launching
  <2>2. records'[SubrunOf(r)'] = "RUNNING"
    BY <1>8, <1>10 DEF SubrunOf, i, a
  <2> QED BY <1>1, <1>3, <1>10, <2>1, <2>2 DEF AtWork, Sessions
<1> QED BY <1>1, <1>3, <1>9, <1>10, Moved DEF Steps

LEMMA CountStartedKeeps == ASSUME Inv, NEW r \in Runners, CountStarted(r) PROVE Inv'
<1> DEFINE i == mem[r].phase
           a == mem[r].attempt
           p == [mission.phases[i] EXCEPT !.last = a]
           P == [mission.phases EXCEPT ![i] = p]
           keep == [mem[r] EXCEPT !.doc = mission']
<1>1. pc[r] = "counted"
  BY DEF CountStarted, Saves, Goto
<1>2. /\ mem[r].doc = mission /\ Launching(r) /\ mission.started < SubrunBudget
      /\ mission.state \notin Ended /\ mem[r].session < Session
      /\ records[<<i, a>>] = "RUNNING"
      /\ DocSound(mission) /\ mission \in MissionDocs /\ mem[r] \in Keeps /\ Evidence
  BY <1>1, Indices DEF Inv, Typed, AtWork, Sessions, SubrunOf
<1>3. /\ i \in DOMAIN mission.phases /\ mission.phases[i].state = "RUNNING"
      /\ a = mission.phases[i].attempt + 1 /\ a \in Attempts
      /\ mission.phases[i].last = mission.phases[i].attempt
      /\ mission.phases[i].attempt \in Nat /\ mission.phases[i] \in PhaseDocs
      /\ mission.phases \in Seq(PhaseDocs)
  BY <1>1, <1>2, Indices, DocTypes DEF Launching, Keeps
<1>4. P \in Seq(PhaseDocs)
  <2>1. p \in PhaseDocs
    BY <1>3 DEF PhaseDocs
  <2> HIDE DEF p
  <2> QED BY <1>3, <2>1
<1>5. /\ Goto(r, "counted", "subrun", keep) /\ UNCHANGED <<records, ran>>
      /\ mission' = [mission EXCEPT !.phases[i].last = a, !.started = @ + 1]
  BY <1>2 DEF CountStarted, Saves
<1>6. mission' = [mission EXCEPT !.phases = P, !.started = @ + 1]
  BY <1>3, <1>5
<1>7. mission.started + 1 \in 0 .. SubrunBudget
  BY <1>2, DocTypes, Constants
<1>8. /\ mission' \in MissionDocs /\ mission'.phases = P
      /\ mission'.used = mission.used /\ mission'.started = mission.started + 1
      /\ mission'.completed = mission.completed /\ mission'.begun = mission.begun
      /\ mission'.state = mission.state
  <2> HIDE DEF P
  <2> QED BY <1>2, <1>4, <1>6, <1>7 DEF MissionDocs
<1>9. /\ Changes(mission, mission', i, p)
      /\ p = [mission.phases[i] EXCEPT !.last = mission.phases[i].attempt + 1]
  BY <1>3, <1>8 DEF Changes
<1>10. DocSound(mission')
  BY <1>2, <1>3, <1>8, <1>9, CountedSound
<1>11. /\ DOMAIN mission'.phases = DOMAIN mission.phases
       /\ mission'.phases[i] = p
       /\ \A j \in DOMAIN mission.phases : j # i => mission'.phases[j] = mission.phases[j]
  BY <1>2, <1>9, ChangesAre
<1>12. p.state = "RUNNING" /\ p.attempt = mission.phases[i].attempt /\ p.last = a
  BY <1>3 DEF PhaseDocs
<1> HIDE DEF P, p, i, a, keep
<1>13. Agrees(mission', records)
  <2> SUFFICES ASSUME NEW j \in DOMAIN mission.phases
               PROVE LET q == mission'.phases[j] IN
                     /\ q.last # 0 => records[<<j, q.last>>] # "NONE"
                     /\ q.state \in Proof => /\ records[<<j, q.last>>] \in Classes
                                             /\ PhaseAfter(records[<<j, q.last>>]) = q.state
    BY <1>11 DEF Agrees
  <2>1. CASE j = i
    BY <1>2, <1>11, <1>12, <2>1 DEF Proof
  <2>2. CASE j # i
    BY <1>2, <1>11, <2>2 DEF Evidence, Agrees
  <2> QED BY <2>1, <2>2
<1>14. Ledger(mission', ran)
  <2>1. \A j \in DOMAIN mission.phases : mission.phases[j].last <= mission'.phases[j].last
    <3> SUFFICES ASSUME NEW j \in DOMAIN mission.phases
                 PROVE  mission.phases[j].last <= mission'.phases[j].last
      OBVIOUS
    <3>1. mission.phases[j].last \in Nat
      BY <1>2, DocTypes
    <3> QED BY <1>3, <1>11, <1>12, <3>1
  <2>2. /\ mission.started <= mission'.started
        /\ mission'.completed <= Len(ran)
    BY <1>2, <1>8, DocTypes DEF Evidence, Ledger
  <2>3. Ledger(mission, ran) /\ DOMAIN mission.phases \subseteq DOMAIN mission'.phases
    BY <1>2, <1>11 DEF Evidence
  <2> QED BY <1>2, <1>10, <2>1, <2>2, <2>3, LedgerKept
<1>15. Evidence'
  BY <1>2, <1>5, <1>13, <1>14 DEF Evidence
<1>16. /\ keep \in Keeps /\ keep.doc = mission' /\ keep.phase = i
       /\ keep.attempt = a /\ keep.session = mem[r].session
  BY <1>2, <1>8 DEF Keeps, keep, i, a
<1>17. ASSUME pc'[r] = "subrun", mem'[r] = keep PROVE AtWork(r)'
  <2>1. Launching(r)'
    BY <1>3, <1>11, <1>12, <1>16, <1>17 DEF Launching
  <2>2. records'[SubrunOf(r)'] = "RUNNING"
    BY <1>2, <1>5, <1>16, <1>17 DEF SubrunOf
  <2>3. Len(ran') < mission'.started
    <3>1. Len(ran) <= mission.started /\ Len(ran) \in Nat /\ mission.started \in Nat
      BY <1>2, LedgerTypes, DocTypes DEF Evidence, Ledger
    <3> QED BY <1>5, <1>8, <3>1
  <2>4. ASSUME NEW k \in DOMAIN ran, ran[k].phase = i PROVE ran[k].attempt < a
    <3>0. Ledger(mission, ran)
      BY <1>2 DEF Evidence
    <3>1. ran[k].attempt \in Nat /\ ran[k].attempt <= mission.phases[i].last
      BY <2>4, <3>0, LedgerTypes DEF Ledger
    <3> QED BY <1>3, <3>1
  <2>5. \A k \in RunsOf(mem[r].phase)' : ran'[k].attempt < mem'[r].attempt
    BY <1>5, <1>16, <1>17, <2>4 DEF RunsOf
  <2> QED BY <1>2, <1>8, <1>16, <1>17, <2>1, <2>2, <2>3, <2>5 DEF AtWork, Sessions
<1> QED BY <1>1, <1>5, <1>10, <1>15, <1>16, <1>17, Moved DEF Steps

LEMMA RunSubrunKeeps == ASSUME Inv, NEW r \in Runners, RunSubrun(r) PROVE Inv'
<1> DEFINE i == mem[r].phase
           a == mem[r].attempt
           kind == mission.phases[i].kind
<1>1. pc[r] = "subrun"
  BY DEF RunSubrun, Goto
<1>2. /\ mem[r].doc = mission /\ Launching(r)
      /\ mission.state \notin Ended /\ mem[r].session < Session
      /\ records[<<i, a>>] = "RUNNING"
      /\ Len(ran) < mission.started
      /\ \A k \in RunsOf(i) : ran[k].attempt < a
      /\ DocSound(mission) /\ mission \in MissionDocs /\ mem[r] \in Keeps /\ Evidence
  BY <1>1, Indices DEF Inv, Typed, AtWork, Sessions, SubrunOf
<1>3. /\ i \in DOMAIN mission.phases /\ mission.phases[i].state = "RUNNING"
      /\ a = mission.phases[i].attempt + 1 /\ a \in Attempts /\ i \in Slots
      /\ mission.phases[i].last = a /\ a \in Nat /\ kind \in Kinds
  BY <1>1, <1>2, Indices, DocTypes, AttemptsAre DEF Launching, Keeps
<1>4. PICK class \in Classes :
        /\ Goto(r, "subrun", "finish", [mem[r] EXCEPT !.class = class])
        /\ ran' = Append(ran, [phase |-> i, attempt |-> a, kind |-> kind, class |-> class])
  BY <1>2 DEF RunSubrun, Classes
<1>5. UNCHANGED <<mission, records>>
  BY DEF RunSubrun
<1> DEFINE x == [phase |-> i, attempt |-> a, kind |-> kind, class |-> class]
           R == [phase : Slots, attempt : Attempts, kind : Kinds, class : Classes]
           n == Len(ran) + 1
           keep == [mem[r] EXCEPT !.class = class]
<1>6. x \in R /\ x.phase = i /\ x.attempt = a /\ x.kind = kind /\ x.class = class
  BY <1>3
<1>7. ran \in Seq(R) /\ Ledger(mission, ran)
  BY <1>2 DEF Evidence, Ledger
<1>8. keep \in Keeps /\ keep.doc = mission /\ keep.phase = i /\ keep.attempt = a
      /\ keep.session = mem[r].session /\ keep.class = class
  BY <1>2 DEF Keeps
<1> HIDE DEF x, R, i, a, kind, keep
<1>9. /\ ran' \in Seq(R) /\ Len(ran') = n /\ DOMAIN ran' = DOMAIN ran \cup {n}
      /\ ran'[n] = x /\ (\A k \in DOMAIN ran : ran'[k] = ran[k])
      /\ n \in Nat /\ DOMAIN ran = 1 .. Len(ran)
  BY <1>4, <1>6, <1>7 DEF x
<1>10. Ledger(mission, ran')
  <2>1. mission.completed <= Len(ran') /\ Len(ran') <= mission.started
    BY <1>2, <1>7, <1>9, LedgerTypes, DocTypes DEF Ledger
  <2>2. ASSUME NEW k \in DOMAIN ran'
        PROVE  /\ ran'[k].phase \in DOMAIN mission.phases
               /\ ran'[k].attempt <= mission.phases[ran'[k].phase].last
               /\ ran'[k].kind = mission.phases[ran'[k].phase].kind
    <3>1. CASE k \in DOMAIN ran
      BY <1>7, <1>9, <3>1 DEF Ledger
    <3>2. CASE k = n
      BY <1>3, <1>6, <1>9, <3>2 DEF kind
    <3> QED BY <1>9, <3>1, <3>2
  <2>3. ASSUME NEW j \in DOMAIN ran', NEW k \in DOMAIN ran', j < k,
               ran'[j].phase = ran'[k].phase
        PROVE  ran'[j].attempt < ran'[k].attempt
    <3>1. j \in DOMAIN ran
      BY <1>9, <2>3
    <3>2. CASE k \in DOMAIN ran
      BY <1>7, <1>9, <2>3, <3>1, <3>2 DEF Ledger
    <3>3. CASE k = n
      <4>1. j \in RunsOf(i)
        BY <1>6, <1>9, <2>3, <3>1, <3>3 DEF RunsOf
      <4> QED BY <1>2, <1>6, <1>9, <3>1, <3>3, <4>1 DEF i, a
    <3> QED BY <1>9, <3>2, <3>3
  <2>4. ran' \in Seq([phase : Slots, attempt : Attempts, kind : Kinds, class : Classes])
    BY <1>9 DEF R
  <2> QED BY <2>1, <2>2, <2>3, <2>4 DEF Ledger
<1>11. Vouched(records, ran')
  <2>1. \A j, m, c : RanAs(ran, j, m, c) => RanAs(ran', j, m, c)
    BY <1>9 DEF RanAs
  <2> QED BY <1>2, <2>1 DEF Evidence, Vouched
<1>12. Evidence'
  BY <1>2, <1>5, <1>10, <1>11 DEF Evidence
<1>13. ASSUME pc'[r] = "finish", mem'[r] = keep PROVE AtWork(r)'
  <2>1. Launching(r)'
    BY <1>1, <1>2, <1>5, <1>8, <1>13 DEF Launching, i, a
  <2>2. records'[SubrunOf(r)'] = "RUNNING"
    BY <1>2, <1>5, <1>8, <1>13 DEF SubrunOf, i, a
  <2>3. mission'.completed < Len(ran')
    BY <1>2, <1>5, <1>7, <1>9, DocTypes, LedgerTypes DEF Ledger
  <2>4. RanAs(ran', i, a, class)
    BY <1>6, <1>9 DEF RanAs
  <2> QED BY <1>2, <1>5, <1>8, <1>13, <2>1, <2>2, <2>3, <2>4 DEF AtWork, Sessions
<1>14. DocSound(mission')
  BY <1>2, <1>5
<1>15. Goto(r, "subrun", "finish", keep)
  BY <1>4 DEF keep
<1> QED BY <1>8, <1>12, <1>13, <1>14, <1>15, Moved DEF Steps

LEMMA FinishLoadKeeps == ASSUME Inv, NEW r \in Runners, FinishLoad(r) PROVE Inv'
<1> DEFINE keep == [mem[r] EXCEPT !.doc = mission]
<1>1. Goto(r, "finish", "close", keep) /\ Reads /\ pc[r] = "finish"
  BY DEF FinishLoad, Goto
<1>2. /\ mission.state \notin Ended /\ mem[r].session < Session /\ Launching(r)
      /\ records[SubrunOf(r)] = "RUNNING" /\ mission.completed < Len(ran)
      /\ RanAs(ran, mem[r].phase, mem[r].attempt, mem[r].class)
      /\ DocSound(mission) /\ mission \in MissionDocs /\ mem[r] \in Keeps
  BY <1>1, Indices DEF Inv, Typed, AtWork, Sessions
<1>3. /\ keep \in Keeps /\ keep.doc = mission /\ keep.session = mem[r].session
      /\ keep.phase = mem[r].phase /\ keep.attempt = mem[r].attempt
      /\ keep.class = mem[r].class
  BY <1>2 DEF Keeps
<1> HIDE DEF keep
<1>4. UNCHANGED <<mission, records, ran>>
  BY <1>1 DEF Reads
<1>5. ASSUME pc'[r] = "close", mem'[r] = keep PROVE AtWork(r)'
  <2>1. Launching(r)' /\ records'[SubrunOf(r)'] = "RUNNING"
    BY <1>1, <1>2, <1>3, <1>4, <1>5 DEF Launching, SubrunOf
  <2> QED BY <1>2, <1>3, <1>4, <1>5, <2>1 DEF AtWork, Sessions
<1> QED BY <1>1, <1>3, <1>5, Moved, Untouched DEF Steps

LEMMA CloseRecordKeeps == ASSUME Inv, NEW r \in Runners, CloseRecord(r) PROVE Inv'
<1> DEFINE i == mem[r].phase
           a == mem[r].attempt
           class == mem[r].class
<1>1. /\ Goto(r, "close", "advance", mem[r]) /\ UNCHANGED <<mission, ran>>
      /\ records' = [records EXCEPT ![<<i, a>>] = class]
  BY DEF CloseRecord, SubrunOf
<1>2. pc[r] = "close"
  BY <1>1 DEF Goto
<1>3. /\ mem[r].doc = mission /\ Launching(r)
      /\ mission.state \notin Ended /\ mem[r].session < Session
      /\ mission.completed < Len(ran) /\ RanAs(ran, i, a, class)
      /\ DocSound(mission) /\ mem[r] \in Keeps /\ Evidence
  BY <1>2 DEF Inv, Typed, AtWork, Sessions
<1>4. i \in DOMAIN mission.phases /\ mission.phases[i].state = "RUNNING"
  BY <1>3 DEF Launching
<1>5. i \in Slots /\ a \in Attempts /\ class \in Classes
  BY <1>3 DEF Keeps
<1> HIDE DEF i, a, class
<1>6. /\ records' \in [Slots \X Attempts -> Classes \cup {"NONE", "RUNNING"}]
      /\ records'[<<i, a>>] = class
      /\ \A x : x # <<i, a>> => records'[x] = records[x]
  BY <1>1, <1>3, <1>5 DEF Evidence
<1>7. Agrees(mission', records')
  <2> SUFFICES ASSUME NEW j \in DOMAIN mission.phases
               PROVE LET q == mission.phases[j] IN
                     /\ q.last # 0 => records'[<<j, q.last>>] # "NONE"
                     /\ q.state \in Proof => /\ records'[<<j, q.last>>] \in Classes
                                             /\ PhaseAfter(records'[<<j, q.last>>]) = q.state
    BY <1>1 DEF Agrees
  <2>1. CASE j = i
    BY <1>3, <1>4, <1>5, <1>6, <2>1 DEF Proof, Classes, Evidence, Agrees
  <2>2. CASE j # i
    <3>1. <<j, mission.phases[j].last>> # <<i, a>>
      BY <2>2
    <3> QED BY <1>3, <1>6, <3>1 DEF Evidence, Agrees
  <2> QED BY <2>1, <2>2
<1>8. Vouched(records', ran')
  BY <1>1, <1>3, <1>6 DEF Evidence, Vouched
<1>9. Evidence'
  BY <1>1, <1>3, <1>6, <1>7, <1>8 DEF Evidence
<1>10. ASSUME pc'[r] = "advance", mem'[r] = mem[r] PROVE AtWork(r)'
  <2>1. Launching(r)'
    BY <1>1, <1>2, <1>3, <1>10 DEF Launching
  <2>2. records'[SubrunOf(r)'] = mem'[r].class
    BY <1>6, <1>10 DEF SubrunOf, i, a, class
  <2> QED BY <1>1, <1>3, <1>10, <2>1, <2>2 DEF AtWork, Sessions, i, a, class
<1> QED BY <1>1, <1>3, <1>9, <1>10, Moved DEF Steps

LEMMA AdvanceMakes ==
  ASSUME Inv, NEW r \in Runners, Advance(r), NEW i, i = mem[r].phase,
         ~(Goto(r, "advance", "idle", Blank) /\ Reads)
  PROVE  /\ Changes(mission, mission', i,
                    [mission.phases[i] EXCEPT !.attempt = mission.phases[i].last,
                                              !.used = mission.used,
                                              !.state = PhaseAfter(mem[r].class)])
         /\ mission.phases[i].state = "RUNNING" /\ mission.phases[i].last = mem[r].attempt
         /\ mission.phases[i].last # 0
         /\ mission'.used = mission.used + (IF i > Len(Plan) THEN 1 ELSE 0)
         /\ mission'.started = mission.started /\ mission'.begun = mission.begun
         /\ mission'.completed = mission.completed + 1
         /\ mission.completed < Len(ran)
         /\ Legal(mission.state, mission'.state) /\ mission.state \notin Ended
         /\ mission'.state = "COMPLETE" => Unsatisfied(mission') = {}
         /\ mission'.state \notin Ended => Unsatisfied(mission') # {}
         /\ records[<<i, mem[r].attempt>>] = mem[r].class
         /\ Goto(r, "advance", "load", Next0(r, mem[r].session + 1))
         /\ UNCHANGED <<records, ran>>
<1> DEFINE a == mem[r].attempt
           s == PhaseAfter(mem[r].class)
           p == [mission.phases[i] EXCEPT !.attempt = mission.phases[i].last,
                                          !.used = mission.used, !.state = s]
           P == [mission.phases EXCEPT ![i] = p]
           d == Finished(mission, i, a, mem[r].class)
           next == StateAfter(d, i)
<1>1. pc[r] = "advance"
  BY DEF Advance, Saves, Goto
<1>2. /\ mem[r].doc = mission /\ Launching(r)
      /\ mission.state \notin Ended /\ mission.completed < Len(ran)
      /\ records[<<i, a>>] = mem[r].class
      /\ DocSound(mission) /\ mission \in MissionDocs /\ mem[r] \in Keeps /\ Evidence
  BY <1>1, Indices DEF Inv, Typed, AtWork, Sessions, SubrunOf
<1>3. /\ i \in DOMAIN mission.phases /\ mission.phases[i].state = "RUNNING"
      /\ a = mission.phases[i].attempt + 1
      /\ mission.phases[i].last = a /\ a # 0
      /\ mission.phases[i].attempt \in Nat /\ mission.phases[i] \in PhaseDocs
      /\ mission.phases \in Seq(PhaseDocs)
      /\ mission.used \in 0 .. MaxRounds
  <2>1. /\ mission.used \in 0 .. RepairBudget /\ RepairBudget \in Nat
        /\ MaxRounds \in Nat /\ RepairBudget <= MaxRounds
    BY <1>2, DocTypes, Constants
  <2> QED BY <1>1, <1>2, <2>1, DocTypes DEF Launching
<1>4. P \in Seq(PhaseDocs) /\ P[i].state = s /\ s \in Proof /\ P[i].kind = mission.phases[i].kind
  <2>1. s \in Proof
    BY DEF PhaseAfter, Proof
  <2> HIDE DEF s
  <2>2. p \in PhaseDocs /\ p.state = s /\ p.kind = mission.phases[i].kind
    BY <1>3, <2>1 DEF PhaseDocs, Proof
  <2> HIDE DEF p
  <2> QED BY <1>3, <2>1, <2>2
<1>5. /\ Goto(r, "advance", "load", Next0(r, mem[r].session + 1))
      /\ mission' = [d EXCEPT !.state = next] /\ UNCHANGED <<records, ran>>
      /\ Legal(d.state, next)
  BY <1>2 DEF Advance, Saves
<1>6. mission.phases[i].kind = "REPAIR" <=> i > Len(Plan)
  <2>1. PhaseSound(mission, i)
    BY <1>2, <1>3 DEF DocSound
  <2>2. /\ i \in 1 .. Len(mission.phases) /\ Len(mission.phases) \in Nat
        /\ Len(Plan) \in Nat
    BY <1>2, <1>3, DocTypes, Constants
  <2>3. i <= Len(Plan) => Plan[i] # "REPAIR"
    BY <2>2, Constants
  <2> QED BY <2>1, <2>2, <2>3 DEF PhaseSound
<1> DEFINE u == mission.used + (IF i > Len(Plan) THEN 1 ELSE 0)
<1>7. u \in 0 .. RepairBudget
  <2>1. mission.used \in 0 .. RepairBudget /\ RepairBudget \in Nat /\ Len(Plan) \in Nat
    BY <1>2, DocTypes, Constants
  <2>2. i > Len(Plan) => i = Len(Plan) + mission.used + 1 /\ i <= Len(Plan) + RepairBudget
    <3>1. PhaseSound(mission, i)
      BY <1>2, <1>3 DEF DocSound
    <3> QED BY <1>2, <1>3, <3>1, OpenRound DEF Proof, PhaseSound
  <2> QED BY <2>1, <2>2
<1>8. mission.completed + 1 \in 0 .. SubrunBudget
  <2>1. /\ mission.completed \in Nat /\ Len(ran) \in Nat /\ SubrunBudget \in Nat
        /\ Len(ran) <= mission.started /\ mission.started \in 0 .. SubrunBudget
    BY <1>2, DocTypes, LedgerTypes, Constants DEF Evidence, Ledger
  <2> QED BY <1>2, <2>1
<1>9. d = [mission EXCEPT !.phases = P, !.completed = @ + 1, !.used = u]
  <2>1. Maximum(mission.phases[i].attempt, a) = mission.phases[i].last
    BY <1>3 DEF Maximum
  <2> DEFINE q == [mission.phases[i] EXCEPT !.attempt = Maximum(@, a),
                                           !.used = mission.used, !.state = s]
  <2>2. q = p
    BY <2>1
  <2>3. d = [mission EXCEPT !.phases = [mission.phases EXCEPT ![i] = q],
                            !.completed = @ + 1,
                            !.used = IF mission.phases[i].kind = "REPAIR" THEN @ + 1 ELSE @]
    <3> HIDE DEF s, a
    <3>1. d = [mission EXCEPT !.phases[i].attempt = Maximum(@, a),
                              !.phases[i].used = mission.used,
                              !.phases[i].state = s,
                              !.completed = @ + 1,
                              !.used = IF mission.phases[i].kind = "REPAIR" THEN @ + 1 ELSE @]
      BY DEF Finished, s
    <3> DEFINE x == Maximum(mission.phases[i].attempt, a)
               y == mission.used
               Q == [mission.phases EXCEPT ![i].attempt = x, ![i].used = y, ![i].state = s]
    <3>2. d = [mission EXCEPT !.phases = Q, !.completed = @ + 1,
                              !.used = IF mission.phases[i].kind = "REPAIR" THEN @ + 1 ELSE @]
      <4> DEFINE m1 == [mission EXCEPT !.phases[i].attempt = x]
                 m2 == [m1 EXCEPT !.phases[i].used = y]
                 m3 == [m2 EXCEPT !.phases[i].state = s]
                 Q1 == [mission.phases EXCEPT ![i].attempt = x]
                 Q2 == [Q1 EXCEPT ![i].used = y]
      <4>1. m1 = [mission EXCEPT !.phases = Q1] /\ m1.phases = Q1
        BY <1>2 DEF MissionDocs
      <4>2. m2 = [mission EXCEPT !.phases = Q2] /\ m2.phases = Q2
        <5> HIDE DEF Q1, m1
        <5> QED BY <1>2, <4>1 DEF MissionDocs
      <4>3. m3 = [mission EXCEPT !.phases = Q]
        <5>1. Q = [Q2 EXCEPT ![i].state = s]
          OBVIOUS
        <5> HIDE DEF Q1, m1, Q2, m2, Q
        <5> QED BY <1>2, <4>2, <5>1 DEF MissionDocs
      <4>4. d = [m3 EXCEPT !.completed = mission.completed + 1,
                           !.used = IF mission.phases[i].kind = "REPAIR"
                                    THEN mission.used + 1 ELSE mission.used]
        BY <1>2, <3>1 DEF MissionDocs
      <4> HIDE DEF m1, m2, m3, Q
      <4> QED BY <1>2, <4>3, <4>4 DEF MissionDocs
    <3>3. Q = [mission.phases EXCEPT ![i] = q]
      BY <1>3
    <3> HIDE DEF Q
    <3> QED BY <3>2, <3>3
  <2>4. (IF mission.phases[i].kind = "REPAIR" THEN mission.used + 1 ELSE mission.used) = u
    BY <1>2, <1>6, DocTypes
  <2> HIDE DEF p, q, u, d
  <2> QED BY <1>2, <2>2, <2>3, <2>4 DEF MissionDocs
<1>10. /\ d \in MissionDocs /\ d.phases = P /\ d.state = mission.state
       /\ d.used = u /\ d.started = mission.started /\ d.begun = mission.begun
       /\ d.completed = mission.completed + 1
  <2> HIDE DEF P, u, d
  <2> QED BY <1>2, <1>4, <1>7, <1>8, <1>9 DEF MissionDocs
<1> HIDE DEF P, u, d, s, p, a
<1>11. /\ next \in {StateOf[k] : k \in Kinds} \cup Ended
       /\ next = "COMPLETE" => Unsatisfied(d) = {}
       /\ next \notin Ended => Unsatisfied(d) # {}
  <2>0. d.phases[i].state = s /\ i \in DOMAIN d.phases /\ DOMAIN d.phases \subseteq Nat
    BY <1>3, <1>4, <1>10, DocTypes DEF P
  <2>1. CASE s = "PASSED" /\ Unsatisfied(d) = {}
    BY <2>0, <2>1 DEF StateAfter, Ended
  <2>2. CASE s = "PASSED" /\ Unsatisfied(d) # {}
    <3> DEFINE m == Minimum(Unsatisfied(d))
    <3>1. m \in Unsatisfied(d)
      <4>1. Unsatisfied(d) \subseteq Nat
        BY <2>0 DEF Unsatisfied
      <4> QED BY <2>2, <4>1, MinimumIs
    <3>2. d.phases[m].kind \in Kinds
      BY <1>10, <3>1, DocTypes DEF Unsatisfied
    <3>3. next = StateOf[d.phases[m].kind]
      BY <2>0, <2>2 DEF StateAfter
    <3>4. \A k \in Kinds : StateOf[k] # "COMPLETE"
      BY DEF StateOf, Kinds
    <3> HIDE DEF next, m
    <3> QED BY <2>2, <3>2, <3>3, <3>4
  <2>3. CASE s # "PASSED"
    <3>1. Unsatisfied(d) # {}
      BY <2>0, <2>3 DEF Unsatisfied
    <3>2. next \in {"BLOCKED", d.state}
      BY <2>0, <2>3 DEF StateAfter
    <3>3. d.state \in {StateOf[k] : k \in Kinds} \cup Ended /\ d.state \notin Ended
      BY <1>2, <1>10, DocTypes
    <3> HIDE DEF next
    <3> QED BY <3>1, <3>2, <3>3 DEF Ended
  <2> QED BY <2>1, <2>2, <2>3
<1> HIDE DEF next
<1>12. /\ mission' \in MissionDocs /\ mission'.phases = P /\ mission'.state = next
       /\ mission'.used = u /\ mission'.started = mission.started
       /\ mission'.begun = mission.begun /\ mission'.completed = mission.completed + 1
  BY <1>5, <1>10, <1>11 DEF MissionDocs
<1>13. Unsatisfied(mission') = Unsatisfied(d)
  BY <1>10, <1>12 DEF Unsatisfied
<1>14. Changes(mission, mission', i, p)
  BY <1>3, <1>12 DEF Changes, P
<1> QED BY <1>2, <1>3, <1>5, <1>10, <1>11, <1>12, <1>13, <1>14 DEF u, s, p, a

LEMMA AdvanceKeeps == ASSUME Inv, NEW r \in Runners, Advance(r) PROVE Inv'
<1>1. CASE Goto(r, "advance", "idle", Blank) /\ Reads
  BY <1>1, Moved, Untouched, CreatedSound DEF Steps
<1>2. CASE ~(Goto(r, "advance", "idle", Blank) /\ Reads)
  <2> DEFINE i == mem[r].phase
             a == mem[r].attempt
             s == PhaseAfter(mem[r].class)
             p == [mission.phases[i] EXCEPT !.attempt = mission.phases[i].last,
                                            !.used = mission.used, !.state = s]
             keep == Next0(r, mem[r].session + 1)
  <2>1. /\ Changes(mission, mission', i, p)
        /\ mission.phases[i].state = "RUNNING" /\ mission.phases[i].last = a
        /\ mission.phases[i].last # 0
        /\ mission'.used = mission.used + (IF i > Len(Plan) THEN 1 ELSE 0)
        /\ mission'.started = mission.started /\ mission'.begun = mission.begun
        /\ mission'.completed = mission.completed + 1
        /\ mission.completed < Len(ran)
        /\ mission'.state = "COMPLETE" => Unsatisfied(mission') = {}
        /\ mission'.state \notin Ended => Unsatisfied(mission') # {}
        /\ records[<<i, a>>] = mem[r].class
        /\ Goto(r, "advance", "load", keep) /\ UNCHANGED <<records, ran>>
    BY <1>2, AdvanceMakes
  <2>2. /\ DocSound(mission) /\ Evidence /\ mem[r] \in Keeps /\ mem[r].session < Session
        /\ mission \in MissionDocs
    BY <2>1, Indices DEF Inv, Typed, AtWork, Sessions, Goto
  <2>3. s \in Proof /\ mem[r].class \in Classes
    BY <2>2 DEF PhaseAfter, Proof, Keeps
  <2>4. i \in DOMAIN mission.phases /\ mission.phases[i] \in PhaseDocs
    BY <2>1, <2>2, DocTypes DEF Changes
  <2> HIDE DEF s, i, keep
  <2>5. DocSound(mission')
    BY <2>1, <2>2, <2>3, EndedSound
  <2>6. /\ DOMAIN mission'.phases = DOMAIN mission.phases /\ mission'.phases[i] = p
        /\ \A j \in DOMAIN mission.phases : j # i => mission'.phases[j] = mission.phases[j]
    BY <2>1, <2>2, ChangesAre
  <2>7. p.last = a /\ p.state = s
    BY <2>1, <2>4 DEF PhaseDocs
  <2> HIDE DEF p
  <2>8. Agrees(mission', records)
    <3> SUFFICES ASSUME NEW j \in DOMAIN mission.phases
                 PROVE LET q == mission'.phases[j] IN
                       /\ q.last # 0 => records[<<j, q.last>>] # "NONE"
                       /\ q.state \in Proof => /\ records[<<j, q.last>>] \in Classes
                                               /\ PhaseAfter(records[<<j, q.last>>]) = q.state
      BY <2>6 DEF Agrees
    <3>1. CASE j = i
      BY <2>1, <2>3, <2>6, <2>7, <3>1 DEF Classes, s
    <3>2. CASE j # i
      BY <2>2, <2>6, <3>2 DEF Evidence, Agrees
    <3> QED BY <3>1, <3>2
  <2>9. Ledger(mission', ran)
    <3>1. \A j \in DOMAIN mission.phases : mission.phases[j].last <= mission'.phases[j].last
      <4>1. \A j \in DOMAIN mission.phases :
              /\ mission'.phases[j].last = mission.phases[j].last
              /\ mission.phases[j].last \in Nat
        BY <2>1, <2>2, <2>6, <2>7, DocTypes
      <4> QED BY <4>1
    <3>2. mission'.completed <= Len(ran) /\ mission.started <= mission'.started
      BY <2>1, <2>2, DocTypes, LedgerTypes DEF Evidence
    <3>3. Ledger(mission, ran) /\ DOMAIN mission.phases \subseteq DOMAIN mission'.phases
      BY <2>2, <2>6 DEF Evidence
    <3> QED BY <2>2, <2>5, <3>1, <3>2, <3>3, LedgerKept
  <2>10. Evidence'
    BY <2>1, <2>2, <2>8, <2>9 DEF Evidence
  <2>11. keep \in Keeps
    <3>1. mem[r].session + 1 \in 0 .. Session
      BY <2>2, Constants DEF Keeps
    <3> QED BY <3>1, NextKeeps DEF keep
  <2>12. ASSUME pc'[r] = "load" PROVE AtWork(r)'
    BY <2>12 DEF AtWork, Sessions
  <2> QED BY <2>1, <2>5, <2>10, <2>11, <2>12, Moved DEF Steps
<1> QED BY <1>1, <1>2

------------------------------------------------------------------------------
(* The reconstruction. *)

RebuiltDoc == [mission EXCEPT !.phases =
                 [i \in DOMAIN mission.phases |-> Rebuilt(mission, i)]]

LEMMA RebuiltDocIs ==
  ASSUME DocSound(mission), Evidence
  PROVE  /\ RebuiltDoc \in MissionDocs
         /\ Len(RebuiltDoc.phases) = Len(mission.phases)
         /\ DOMAIN RebuiltDoc.phases = DOMAIN mission.phases
         /\ \A i \in DOMAIN mission.phases :
              /\ RebuiltDoc.phases[i] = Rebuilt(mission, i)
              /\ Recovered(mission.phases[i], RebuiltDoc.phases[i])
              /\ RebuiltDoc.phases[i].last = mission.phases[i].last
         /\ RebuiltDoc.used = mission.used /\ RebuiltDoc.started = mission.started
         /\ RebuiltDoc.begun = mission.begun /\ RebuiltDoc.completed = mission.completed
         /\ RebuiltDoc.state = mission.state
<1> DEFINE P == [i \in DOMAIN mission.phases |-> Rebuilt(mission, i)]
           n == Len(mission.phases)
<1>1. /\ mission \in MissionDocs /\ n \in Nat /\ DOMAIN mission.phases = 1 .. n
      /\ \A i \in DOMAIN mission.phases : mission.phases[i] \in PhaseDocs
  BY Indices, DocTypes
<1>2. \A i \in DOMAIN mission.phases : /\ Recovered(mission.phases[i], P[i])
                                       /\ P[i] = Rebuilt(mission, i) /\ P[i] \in PhaseDocs
  BY RebuiltIs
<1>3. P = [i \in 1 .. n |-> P[i]]
  BY <1>1
<1> HIDE DEF P, n
<1>4. P \in Seq(PhaseDocs) /\ Len(P) = n /\ DOMAIN P = 1 .. n
  BY <1>1, <1>2, <1>3
<1>5. RebuiltDoc = [mission EXCEPT !.phases = P]
  BY DEF RebuiltDoc, P
<1>6. /\ RebuiltDoc \in MissionDocs /\ RebuiltDoc.phases = P
      /\ RebuiltDoc.used = mission.used /\ RebuiltDoc.started = mission.started
      /\ RebuiltDoc.begun = mission.begun /\ RebuiltDoc.completed = mission.completed
      /\ RebuiltDoc.state = mission.state
  BY <1>1, <1>4, <1>5 DEF MissionDocs
<1>7. \A i \in DOMAIN mission.phases : P[i].last = mission.phases[i].last
  <2> SUFFICES ASSUME NEW i \in DOMAIN mission.phases
               PROVE P[i].last = mission.phases[i].last
    OBVIOUS
  <2> DEFINE p == mission.phases[i]
             q == P[i]
  <2>1. p \in PhaseDocs /\ Recovered(p, q)
    BY <1>1, <1>2
  <2> HIDE DEF p, q
  <2>2. q.last = p.last
    BY <2>1 DEF Recovered, PhaseDocs
  <2> QED BY <2>2 DEF p, q
<1> QED BY <1>1, <1>2, <1>4, <1>6, <1>7 DEF n

LEMMA RebuildKeeps == ASSUME Inv, NEW r \in Runners, Rebuild(r) PROVE Inv'
<1>1. PICK from \in {"rebuild", "rebuild_only"}, to \in {"idle", "rebuild_records", "load"} :
        /\ to = "rebuild_records" => mission.state \notin Ended
        /\ Goto(r, from, to, [mem[r] EXCEPT !.doc = RebuiltDoc,
                                !.session = IF from = "rebuild" THEN 0 ELSE Session])
  <2> HIDE DEF Goto
  <2> QED BY DEF Rebuild, RebuiltDoc
<1> DEFINE keep == [mem[r] EXCEPT !.doc = RebuiltDoc,
                                  !.session = IF from = "rebuild" THEN 0 ELSE Session]
<1>2. UNCHANGED <<mission, records, ran>> /\ Reads
  BY DEF Rebuild, Reads
<1>3. DocSound(mission) /\ Evidence /\ mem[r] \in Keeps
  BY DEF Inv, Typed
<1>4. keep \in Keeps /\ keep.doc = RebuiltDoc
  <2>1. RebuiltDoc \in MissionDocs
    BY <1>3, RebuiltDocIs
  <2>2. 0 \in 0 .. Session /\ Session \in 0 .. Session
    BY Constants
  <2> QED BY <1>3, <2>1, <2>2 DEF Keeps
<1>5. RebuiltDoc' = RebuiltDoc
  BY <1>2 DEF RebuiltDoc, Rebuilt, LastRecord
<1> HIDE DEF keep
<1>6. ASSUME to # "idle", pc'[r] = to, mem'[r] = keep PROVE AtWork(r)'
  <2>1. to = "rebuild_records" => mission'.state \notin Ended /\ mem'[r].doc = RebuiltDoc'
    BY <1>1, <1>2, <1>4, <1>5, <1>6
  <2> QED BY <1>6, <2>1 DEF AtWork, Sessions, RebuiltDoc
<1>7. Goto(r, from, to, keep) /\ to \in Steps /\ from # "idle"
  BY <1>1 DEF keep, Steps
<1> QED BY <1>2, <1>4, <1>6, <1>7, Moved, Untouched

LEMMA RebuildRecordsKeeps == ASSUME Inv, NEW r \in Runners, RebuildRecords(r) PROVE Inv'
<1>1. /\ Goto(r, "rebuild_records", "rebuild_save", mem[r])
      /\ UNCHANGED <<mission, ran>> /\ pc[r] = "rebuild_records"
  BY DEF RebuildRecords, Goto
<1>2. /\ mission.state \notin Ended /\ mem[r].doc = RebuiltDoc
      /\ DocSound(mission) /\ Evidence /\ mem[r] \in Keeps
  BY <1>1 DEF Inv, Typed, AtWork, RebuiltDoc
<1>3. /\ records \in [Slots \X Attempts -> Classes \cup {"NONE", "RUNNING"}]
      /\ DOMAIN records = Slots \X Attempts
  BY <1>2 DEF Evidence
<1>4. \A x \in Slots \X Attempts :
        /\ records'[x] = records[x] \/ (records[x] = "RUNNING" /\ records'[x] = "UNPROVEN")
        /\ /\ x[1] \in DOMAIN mission.phases
           /\ mission.phases[x[1]].last = x[2]
           => records'[x] # "RUNNING"
  BY <1>2, <1>3, RebuiltDocIs DEF RebuildRecords
<1>5. records' \in [Slots \X Attempts -> Classes \cup {"NONE", "RUNNING"}]
  BY <1>3, <1>4 DEF RebuildRecords, Classes
<1>6. ASSUME NEW i \in DOMAIN mission.phases, mission.phases[i].last # 0
      PROVE  /\ LET x == <<i, mission.phases[i].last>> IN
                \/ records'[x] = records[x]
                \/ records[x] = "RUNNING" /\ records'[x] = "UNPROVEN"
             /\ LastRecord(mission, i)' # "RUNNING"
  <2> DEFINE x == <<i, mission.phases[i].last>>
  <2>1. x \in Slots \X Attempts /\ x[1] = i /\ x[2] = mission.phases[i].last
    BY <1>2, <1>6, Indices, DocTypes
  <2> HIDE DEF x
  <2>2. records'[x] # "RUNNING" /\ (records'[x] = records[x] \/ (records[x] = "RUNNING" /\ records'[x] = "UNPROVEN"))
    BY <1>4, <2>1
  <2> QED BY <1>1, <2>2 DEF x, LastRecord
<1>7. Agrees(mission', records')
  <2> SUFFICES ASSUME NEW i \in DOMAIN mission.phases
               PROVE LET q == mission.phases[i] IN
                     /\ q.last # 0 => records'[<<i, q.last>>] # "NONE"
                     /\ q.state \in Proof => /\ records'[<<i, q.last>>] \in Classes
                                             /\ PhaseAfter(records'[<<i, q.last>>]) = q.state
    BY <1>1 DEF Agrees
  <2>1. mission.phases[i].state \in Proof => mission.phases[i].last # 0
    BY <1>2 DEF DocSound, PhaseSound
  <2> QED BY <1>2, <1>6, <2>1 DEF Evidence, Agrees, Classes
<1>8. Vouched(records', ran')
  <2> SUFFICES ASSUME NEW i \in Slots, NEW n \in Attempts, records'[<<i, n>>] = "COMPLETED"
               PROVE  RanAs(ran, i, n, "COMPLETED")
    BY <1>1 DEF Vouched
  <2>1. records[<<i, n>>] = "COMPLETED"
    BY <1>4
  <2> QED BY <1>2, <2>1 DEF Evidence, Vouched
<1>9. Evidence'
  BY <1>1, <1>2, <1>5, <1>7, <1>8 DEF Evidence
<1>10. \A i \in DOMAIN mission.phases : Rebuilt(mission, i)' = Rebuilt(mission, i)
  <2> SUFFICES ASSUME NEW i \in DOMAIN mission.phases
               PROVE Rebuilt(mission, i)' = Rebuilt(mission, i)
    OBVIOUS
  <2>1. mission.phases[i].last # 0 =>
          PhaseAfter(LastRecord(mission, i))' = PhaseAfter(LastRecord(mission, i))
    BY <1>1, <1>6 DEF PhaseAfter, LastRecord
  <2> QED BY <1>1, <2>1 DEF Rebuilt
<1>11. RebuiltDoc' = RebuiltDoc
  BY <1>1, <1>10 DEF RebuiltDoc
<1>12. ASSUME pc'[r] = "rebuild_save", mem'[r] = mem[r] PROVE AtWork(r)'
  <2>1. \A i \in DOMAIN mission'.phases :
          mission'.phases[i].last # 0 => LastRecord(mission, i)' # "RUNNING"
    BY <1>1, <1>6
  <2>2. mission'.state \notin Ended /\ mem'[r].doc = RebuiltDoc'
    BY <1>1, <1>2, <1>11, <1>12
  <2> QED BY <1>12, <2>1, <2>2 DEF AtWork, Sessions, RebuiltDoc
<1> QED BY <1>1, <1>2, <1>9, <1>12, Moved DEF Steps

LEMMA RebuildSaveMakes ==
  ASSUME Inv, NEW r \in Runners, RebuildSave(r),
         ~(Goto(r, "rebuild_save", "idle", Blank) /\ Reads)
  PROVE  /\ mission' \in MissionDocs /\ mission'.phases = RebuiltDoc.phases
         /\ mission'.used = mission.used /\ mission'.started = mission.started
         /\ mission'.begun = mission.begun /\ mission'.completed = mission.completed
         /\ Legal(mission.state, mission'.state) /\ mission.state \notin Ended
         /\ mission'.state \in {mission.state, "COMPLETE", "BLOCKED"}
         /\ mission'.state = "COMPLETE" => Unsatisfied(mission') = {}
         /\ mission'.state \notin Ended => Unsatisfied(mission') # {}
         /\ Goto(r, "rebuild_save", "load", Next0(r, mem[r].session))
         /\ UNCHANGED <<records, ran>>
         /\ \A i \in DOMAIN mission.phases :
              mission.phases[i].last # 0 => LastRecord(mission, i) # "RUNNING"
<1>1. pc[r] = "rebuild_save"
  BY DEF RebuildSave, Saves, Goto
<1>2. /\ mission.state \notin Ended /\ mem[r].doc = RebuiltDoc
      /\ \A i \in DOMAIN mission.phases :
           mission.phases[i].last # 0 => LastRecord(mission, i) # "RUNNING"
      /\ DocSound(mission) /\ Evidence
  BY <1>1 DEF Inv, AtWork, RebuiltDoc
<1> DEFINE d == RebuiltDoc
           end == EndOf(Decide(d))
           ends == Decide(d).action \in {"complete", "blocked"}
           e == IF ends THEN [d EXCEPT !.state = end] ELSE d
<1>3. /\ d \in MissionDocs /\ d.state = mission.state
      /\ d.used = mission.used /\ d.started = mission.started
      /\ d.begun = mission.begun /\ d.completed = mission.completed
  BY <1>2, RebuiltDocIs
<1>4. /\ Goto(r, "rebuild_save", "load", Next0(r, mem[r].session))
      /\ mission' = e /\ UNCHANGED <<records, ran>>
      /\ ends => Legal(d.state, end)
  <2> HIDE DEF Goto
  <2> QED BY <1>2 DEF RebuildSave, Saves
<1>5. end \in {"COMPLETE", "BLOCKED"}
  BY DEF EndOf
<1>6. /\ e \in MissionDocs /\ e.phases = d.phases
      /\ e.used = d.used /\ e.started = d.started /\ e.begun = d.begun
      /\ e.completed = d.completed
      /\ e.state = IF ends THEN end ELSE d.state
  <2> HIDE DEF d, end, ends
  <2> QED BY <1>3, <1>5 DEF MissionDocs, Ended
<1>7. /\ ends /\ end = "COMPLETE" => Unsatisfied(d) = {}
      /\ ~ends => Unsatisfied(d) # {}
  BY DecideEnds DEF EndOf
<1>8. Unsatisfied(e) = Unsatisfied(d)
  BY <1>6 DEF Unsatisfied
<1>9. Legal(mission.state, e.state)
  BY <1>3, <1>4, <1>6 DEF Legal
<1> HIDE DEF d, end, ends, e
<1> QED BY <1>2, <1>3, <1>4, <1>5, <1>6, <1>7, <1>8, <1>9 DEF Ended, d

LEMMA RebuildSaveKeeps == ASSUME Inv, NEW r \in Runners, RebuildSave(r) PROVE Inv'
<1>1. CASE Goto(r, "rebuild_save", "idle", Blank) /\ Reads
  BY <1>1, Moved, Untouched, CreatedSound DEF Steps
<1>2. CASE ~(Goto(r, "rebuild_save", "idle", Blank) /\ Reads)
  <2> DEFINE keep == Next0(r, mem[r].session)
  <2>1. /\ mission' \in MissionDocs /\ mission'.phases = RebuiltDoc.phases
        /\ mission'.used = mission.used /\ mission'.started = mission.started
        /\ mission'.begun = mission.begun /\ mission'.completed = mission.completed
        /\ mission'.state = "COMPLETE" => Unsatisfied(mission') = {}
        /\ mission'.state \notin Ended => Unsatisfied(mission') # {}
        /\ Goto(r, "rebuild_save", "load", keep) /\ UNCHANGED <<records, ran>>
        /\ \A i \in DOMAIN mission.phases :
             mission.phases[i].last # 0 => LastRecord(mission, i) # "RUNNING"
    BY <1>2, RebuildSaveMakes
  <2>2. DocSound(mission) /\ Evidence /\ mem[r] \in Keeps
    BY DEF Inv, Typed
  <2> HIDE DEF keep
  <2>3. /\ Len(mission'.phases) = Len(mission.phases)
        /\ DOMAIN mission'.phases = DOMAIN mission.phases
        /\ \A i \in DOMAIN mission.phases :
             /\ mission'.phases[i] = Rebuilt(mission, i)
             /\ Recovered(mission.phases[i], mission'.phases[i])
             /\ mission'.phases[i].last = mission.phases[i].last
    BY <2>1, <2>2, RebuiltDocIs
  <2>4. DocSound(mission')
    BY <2>1, <2>2, <2>3, RecoveredSound
  <2>5. Agrees(mission', records)
    <3> SUFFICES ASSUME NEW i \in DOMAIN mission.phases
                 PROVE LET q == mission'.phases[i] IN
                       /\ q.last # 0 => records[<<i, q.last>>] # "NONE"
                       /\ q.state \in Proof => /\ records[<<i, q.last>>] \in Classes
                                               /\ PhaseAfter(records[<<i, q.last>>]) = q.state
      BY <2>3 DEF Agrees
    <3> DEFINE p == mission.phases[i]
               q == mission'.phases[i]
    <3>1. /\ q.last = p.last /\ Recovered(p, q) /\ q = Rebuilt(mission, i)
          /\ p.last # 0 => records[<<i, p.last>>] # "NONE"
          /\ p.state \in Proof => /\ records[<<i, p.last>>] \in Classes
                                  /\ PhaseAfter(records[<<i, p.last>>]) = p.state
      BY <2>2, <2>3 DEF Evidence, Agrees
    <3>2. p \in PhaseDocs /\ p.last \in Attempts \cup {0} /\ i \in Slots
      BY <2>2, Indices, DocTypes
    <3>3. CASE p.state # "RUNNING"
      BY <3>1, <3>3 DEF Recovered
    <3>4. CASE p.state = "RUNNING" /\ p.last = 0
      <4>1. q.state = "PENDING"
        BY <3>1, <3>2, <3>4 DEF Recovered, PhaseDocs
      <4> QED BY <3>1, <3>4, <4>1 DEF Proof
    <3>5. CASE p.state = "RUNNING" /\ p.last # 0
      <4>1. records[<<i, p.last>>] \in Classes
        <5>1. records[<<i, p.last>>] \in Classes \cup {"NONE", "RUNNING"}
          BY <2>2, <3>2, <3>5 DEF Evidence
        <5>2. records[<<i, p.last>>] # "RUNNING"
          BY <2>1, <3>5 DEF LastRecord
        <5> QED BY <3>1, <3>5, <5>1, <5>2
      <4>2. q.state = PhaseAfter(records[<<i, p.last>>])
        <5>1. q = [p EXCEPT !.state = PhaseAfter(records[<<i, p.last>>]),
                            !.attempt = Maximum(@, p.last)]
          BY <3>1, <3>5 DEF Rebuilt, LastRecord
        <5> HIDE DEF p, q
        <5> QED BY <3>2, <5>1 DEF PhaseDocs
      <4> QED BY <3>1, <3>5, <4>1, <4>2
    <3> QED BY <3>3, <3>4, <3>5
  <2>6. Ledger(mission', ran)
    <3>1. \A j \in DOMAIN mission.phases : mission.phases[j].last <= mission'.phases[j].last
      BY <2>2, <2>3, Indices, DocTypes
    <3>2. mission'.completed <= Len(ran) /\ mission.started <= mission'.started
      BY <2>1, <2>2, Indices, DocTypes DEF Evidence, Ledger
    <3>3. Ledger(mission, ran) /\ DOMAIN mission.phases \subseteq DOMAIN mission'.phases
      BY <2>2, <2>3 DEF Evidence
    <3> QED BY <2>2, <2>4, <3>1, <3>2, <3>3, LedgerKept
  <2>7. Evidence'
    BY <2>1, <2>2, <2>5, <2>6 DEF Evidence
  <2>8. keep \in Keeps
    BY <2>2, NextKeeps DEF keep, Keeps
  <2>9. ASSUME pc'[r] = "load" PROVE AtWork(r)'
    BY <2>9 DEF AtWork, Sessions
  <2> QED BY <2>1, <2>4, <2>7, <2>8, <2>9, Moved DEF Steps
<1> QED BY <1>1, <1>2

------------------------------------------------------------------------------
(* The commands, and the operator's, that begin and end. *)

LEMMA BeginKeeps == ASSUME ~Overlapping, Inv, NEW r \in Runners, Begin(r) PROVE Inv'
<1>1. /\ \A s \in Runners : pc[s] = "idle"
      /\ desk.step = "none" /\ UNCHANGED <<mission, records, ran, desk, crashes>>
  BY DEF Begin, Alone, Reads, Goto
<1>2. PICK to \in {"load", "rebuild", "rebuild_only"} : Goto(r, "idle", to, Blank)
  BY DEF Begin
<1>3. /\ pc' = [pc EXCEPT ![r] = to] /\ mem' = [mem EXCEPT ![r] = Blank]
  BY <1>2 DEF Goto
<1>4. /\ pc' \in [Runners -> Steps] /\ pc'[r] = to
      /\ \A s \in Runners : s # r => pc'[s] = "idle"
  BY <1>1, <1>3 DEF Inv, Typed, Steps
<1>5. Typed'
  BY <1>1, <1>3, <1>4, CreatedSound DEF Inv, Typed
<1>6. Solo'
  BY <1>1, <1>4 DEF Solo
<1>7. \A s \in Runners : pc'[s] \in {"idle", "load", "rebuild", "rebuild_only"}
  BY <1>4
<1>8. \A s \in Runners : AtWork(s)'
  BY <1>7 DEF AtWork, Sessions
<1>9. DocSound(mission') /\ Evidence'
  BY <1>1 DEF Inv, Evidence
<1> QED BY <1>5, <1>6, <1>8, <1>9 DEF Inv

LEMMA CrashKeeps == ASSUME Inv, NEW r \in Runners, Crash(r) PROVE Inv'
<1>1. /\ pc[r] # "idle" /\ crashes < MaxCrashes /\ crashes' = crashes + 1
      /\ pc' = [pc EXCEPT ![r] = "idle"] /\ mem' = [mem EXCEPT ![r] = Blank]
      /\ UNCHANGED <<mission, records, ran, desk>>
  BY DEF Crash
<1>2. \A s \in Runners : s # r => pc[s] = "idle"
  BY <1>1 DEF Inv, Solo
<1>3. pc' \in [Runners -> Steps] /\ \A s \in Runners : pc'[s] = "idle"
  BY <1>1, <1>2 DEF Inv, Typed, Steps
<1>4. crashes' \in 0 .. MaxCrashes
  BY <1>1, PhasesAssumption DEF Inv, Typed
<1>5. Typed'
  BY <1>1, <1>3, <1>4, CreatedSound DEF Inv, Typed
<1>6. Solo'
  BY <1>1, <1>3 DEF Inv, Solo
<1>7. \A s \in Runners : AtWork(s)'
  BY <1>3 DEF AtWork, Sessions
<1>8. DocSound(mission') /\ Evidence'
  BY <1>1 DEF Inv, Evidence
<1> QED BY <1>5, <1>6, <1>7, <1>8 DEF Inv

LEMMA ReadKeeps == ASSUME ~Overlapping, Inv, Read PROVE Inv'
<1>1. /\ \A s \in Runners : pc[s] = "idle"
      /\ UNCHANGED <<mission, records, pc, mem, crashes, ran>>
  BY DEF Read, Alone
<1>2. /\ desk'.step \in {"note", "approve"} /\ desk'.doc = mission
      /\ desk'.step = "note" => mission.notes < MaxNotes
      /\ desk'.step = "approve" => mission.approved # "merge"
      /\ desk' \in [step : {"none", "note", "approve"}, doc : MissionDocs]
  BY Indices DEF Read, Inv
<1>3. Typed' /\ Solo'
  BY <1>1, <1>2 DEF Inv, Typed, Solo
<1>4. \A s \in Runners : AtWork(s)'
  BY <1>1 DEF AtWork, Sessions
<1>5. DocSound(mission') /\ Evidence'
  BY <1>1 DEF Inv, Evidence
<1> QED BY <1>3, <1>4, <1>5 DEF Inv

LEMMA WriteMakes ==
  ASSUME Inv, Write
  PROVE  /\ \A s \in Runners : pc[s] = "idle"
         /\ mission' \in MissionDocs /\ mission'.phases = mission.phases
         /\ mission'.used = mission.used /\ mission'.started = mission.started
         /\ mission'.begun = mission.begun /\ mission'.completed = mission.completed
         /\ mission'.state = mission.state
         /\ desk' = [step |-> "none", doc |-> Created]
         /\ UNCHANGED <<records, pc, mem, crashes, ran>>
<1>1. /\ \A s \in Runners : pc[s] = "idle"
      /\ desk.doc = mission
      /\ desk.step = "note" => mission.notes < MaxNotes
      /\ desk.step = "approve" => mission.approved # "merge"
      /\ desk.step \in {"note", "approve"}
      /\ mission \in MissionDocs
  BY Indices DEF Write, Inv, Solo, Typed
<1>2. CASE desk.step = "note"
  <2>1. mission' = [mission EXCEPT !.notes = @ + 1]
    BY <1>1, <1>2 DEF Write
  <2>2. mission.notes + 1 \in 0 .. MaxNotes
    BY <1>1, <1>2, DocTypes, PhasesAssumption
  <2> QED BY <1>1, <2>1, <2>2 DEF Write, MissionDocs
<1>3. CASE desk.step = "approve"
  <2>1. mission' = [mission EXCEPT !.approved = Approval[@]]
    BY <1>1, <1>3 DEF Write
  <2>2. Approval[mission.approved] \in {"commit", "merge"}
    BY <1>1, <1>3, DocTypes DEF Approval
  <2> QED BY <1>1, <2>1, <2>2 DEF Write, MissionDocs
<1> QED BY <1>1, <1>2, <1>3

LEMMA WriteKeeps == ASSUME Inv, Write PROVE Inv'
<1>1. /\ \A s \in Runners : pc[s] = "idle"
      /\ mission' \in MissionDocs /\ mission'.phases = mission.phases
      /\ mission'.used = mission.used /\ mission'.started = mission.started
      /\ mission'.begun = mission.begun /\ mission'.completed = mission.completed
      /\ mission'.state = mission.state
      /\ desk' = [step |-> "none", doc |-> Created]
      /\ UNCHANGED <<records, pc, mem, crashes, ran>>
  BY WriteMakes
<1>2. DocSound(mission')
  <2>1. DocSound(mission)
    BY DEF Inv
  <2> QED BY <1>1, <2>1, StateOnly DEF DocSound
<1>3. Evidence'
  BY <1>1 DEF Inv, Evidence, Agrees, Ledger
<1>4. desk'.step = "none" /\ desk' \in [step : {"none", "note", "approve"}, doc : MissionDocs]
  BY <1>1, CreatedSound, Indices
<1>5. Typed' /\ Solo'
  BY <1>1, <1>4 DEF Inv, Typed, Solo
<1>6. \A s \in Runners : AtWork(s)'
  BY <1>1 DEF AtWork, Sessions
<1> QED BY <1>2, <1>3, <1>5, <1>6 DEF Inv

LEMMA InitInv == ASSUME Init PROVE Inv
<1>1. /\ mission = Created /\ records = [x \in Slots \X Attempts |-> "NONE"]
      /\ pc = [r \in Runners |-> "idle"] /\ mem = [r \in Runners |-> Blank]
      /\ desk = [step |-> "none", doc |-> Created] /\ crashes = 0 /\ ran = <<>>
  BY DEF Init
<1>2. Created \in MissionDocs /\ DocSound(Created) /\ Blank \in Keeps
  BY CreatedSound, Indices
<1>3. Typed /\ Solo
  BY <1>1, <1>2, PhasesAssumption DEF Typed, Solo, Steps
<1>4. \A i \in DOMAIN Created.phases :
        Created.phases[i].state = "PENDING" /\ Created.phases[i].last = 0
  BY Constants DEF Created, NewPhase
<1>5. Agrees(Created, records)
  BY <1>4 DEF Agrees, Proof
<1>6. Created.completed = 0 /\ Created.started = 0
  BY DEF Created
<1>7. Ledger(Created, ran)
  BY <1>1, <1>6 DEF Ledger
<1>8. Vouched(records, ran)
  BY <1>1 DEF Vouched
<1>9. Evidence
  BY <1>1, <1>5, <1>7, <1>8 DEF Evidence
<1>10. \A r \in Runners : AtWork(r)
  BY <1>1 DEF AtWork, Sessions
<1> QED BY <1>1, <1>2, <1>3, <1>9, <1>10 DEF Inv

LEMMA NextInv == ASSUME ~Overlapping, Inv, [Next]_vars PROVE Inv'
<1>1. ASSUME NEW r \in Runners, Step(r) PROVE Inv'
  BY <1>1, SessionOverKeeps, LoadAndDecideKeeps, EndMissionKeeps, RepairKeeps,
     PhaseLoadKeeps, ExhaustedKeeps, GuardLoadKeeps, BlockKeeps, WriteRunningKeeps,
     WriteRecordKeeps, CountStartedKeeps, RunSubrunKeeps, FinishLoadKeeps,
     CloseRecordKeeps, AdvanceKeeps, RebuildKeeps, RebuildRecordsKeeps,
     RebuildSaveKeeps DEF Step
<1>2. CASE UNCHANGED vars
  <2>1. UNCHANGED <<mission, records, pc, mem, desk, crashes, ran>>
    BY <1>2 DEF vars
  <2>2. Typed' /\ Solo' /\ DocSound(mission') /\ Evidence'
    BY <2>1 DEF Inv, Typed, Solo, Evidence
  <2>3. ASSUME NEW r \in Runners PROVE AtWork(r)'
    <3>1. \A i : Rebuilt(mission, i)' = Rebuilt(mission, i)
      BY <2>1 DEF Rebuilt, LastRecord
    <3>2. /\ Launching(r)' <=> Launching(r)
          /\ SubrunOf(r)' = SubrunOf(r)
          /\ RunsOf(mem[r].phase)' = RunsOf(mem[r].phase)
          /\ \A i : LastRecord(mission, i)' = LastRecord(mission, i)
      BY <2>1 DEF Launching, SubrunOf, RunsOf, LastRecord
    <3>3. AtWork(r)
      BY DEF Inv
    <3> QED BY <2>1, <3>1, <3>2, <3>3 DEF AtWork
  <2> QED BY <2>2, <2>3 DEF Inv
<1> QED BY <1>1, <1>2, BeginKeeps, CrashKeeps, ReadKeeps, WriteKeeps DEF Next

LEMMA Invariant == ASSUME ~Overlapping PROVE Spec => []Inv
<1>1. Init => Inv
  BY InitInv
<1>2. Inv /\ [Next]_vars => Inv'
  BY NextInv
<1> QED BY <1>1, <1>2, PTL DEF Spec

------------------------------------------------------------------------------
(* The theorems. *)

(* Documents, records and what a session keeps have the types the modules  *)
(* of missions/ give them, and no phase is attempted more often than       *)
(* max_attempts.                                                           *)
THEOREM TypeCorrect == ASSUME ~Overlapping PROVE Spec => []TypeOK
<1>1. Inv => TypeOK
  <2> SUFFICES ASSUME Inv PROVE TypeOK
    OBVIOUS
  <2>1. mission \in MissionDocs
    BY Indices DEF Inv
  <2>2. \A i \in DOMAIN mission.phases :
          mission.phases[i].attempt <= MaxAttempts(mission.phases[i].kind)
    BY DEF Inv, DocSound, PhaseSound
  <2> QED BY <2>1, <2>2 DEF Inv, Typed, Keeps, Evidence, TypeOK
<1> QED BY <1>1, Invariant, PTL

(* A phase that has passed was completed by the last of its sub-runs, and  *)
(* a complete mission has passed every phase: neither a session that dies  *)
(* nor reconstruct makes up a success.                                     *)
THEOREM ProvenKept == ASSUME ~Overlapping PROVE Spec => []Proven
<1>1. Inv => Proven
  <2> SUFFICES ASSUME Inv PROVE Proven
    OBVIOUS
  <2>1. ASSUME NEW i \in DOMAIN mission.phases, mission.phases[i].state = "PASSED"
        PROVE  \E k \in RunsOf(i) : ran[k].class = "COMPLETED" /\ \A j \in RunsOf(i) : j <= k
    <3> DEFINE n == mission.phases[i].last
    <3>1. PhaseSound(mission, i) /\ mission \in MissionDocs /\ i \in Slots
      BY Indices DEF Inv, DocSound
    <3>2. n \in Attempts
      BY <2>1, <3>1, DocTypes DEF PhaseSound, Proof
    <3>3. records[<<i, n>>] \in Classes /\ PhaseAfter(records[<<i, n>>]) = "PASSED"
      BY <2>1 DEF Inv, Evidence, Agrees, Proof
    <3>4. records[<<i, n>>] = "COMPLETED"
      BY <3>3 DEF PhaseAfter, Classes
    <3>5. PICK k \in DOMAIN ran : ran[k].phase = i /\ ran[k].attempt = n /\ ran[k].class = "COMPLETED"
      BY <3>1, <3>2, <3>4 DEF Inv, Evidence, Vouched, RanAs
    <3>6. ASSUME NEW j \in RunsOf(i), ~(j <= k) PROVE FALSE
      <4>1. j \in DOMAIN ran /\ ran[j].phase = i /\ j \in Nat /\ k \in Nat
        BY <3>5, LedgerTypes DEF Inv, Evidence, RunsOf
      <4>2. ran[k].attempt < ran[j].attempt /\ ran[j].attempt <= n
        BY <3>5, <3>6, <4>1 DEF Inv, Evidence, Ledger
      <4>3. ran[j].attempt \in Nat /\ ran[k].attempt \in Nat
        BY <3>5, <4>1, LedgerTypes DEF Inv, Evidence
      <4> QED BY <3>5, <4>2, <4>3
    <3> QED BY <3>5, <3>6 DEF RunsOf
  <2> QED BY <2>1 DEF Inv, DocSound, Proven
<1> QED BY <1>1, Invariant, PTL

(* The sub-runs that ran stay within subrun_budget, and the repairs among  *)
(* them within repair_budget, however often sessions die and are resumed.  *)
THEOREM BudgetKept == ASSUME ~Overlapping PROVE Spec => []WithinBudget
<1>1. Inv => WithinBudget
  <2> SUFFICES ASSUME Inv PROVE WithinBudget
    OBVIOUS
  <2>1. Ledger(mission, ran) /\ DocSound(mission) /\ mission \in MissionDocs
    BY Indices DEF Inv, Evidence
  <2>2. /\ Len(Plan) \in Nat /\ RepairBudget \in Nat /\ SubrunBudget \in Nat
        /\ mission.started \in 0 .. SubrunBudget /\ Len(ran) \in Nat
    BY <2>1, Constants, DocTypes, LedgerTypes
  <2>3. Len(ran) <= SubrunBudget
    BY <2>1, <2>2 DEF Ledger
  <2> DEFINE K == {k \in DOMAIN ran : ran[k].kind = "REPAIR"}
             B == Len(Plan) + 1 .. Len(Plan) + RepairBudget
             f == [k \in K |-> ran[k].phase]
  <2>4. ASSUME NEW k \in K PROVE ran[k].phase \in B /\ ran[k].attempt = 1
    <3> DEFINE i == ran[k].phase
    <3>1. /\ i \in DOMAIN mission.phases /\ ran[k].attempt <= mission.phases[i].last
          /\ mission.phases[i].kind = "REPAIR" /\ ran[k].attempt \in Nat \ {0}
      BY <2>1, LedgerTypes DEF Ledger
    <3>2. /\ mission.phases[i].last \in Nat /\ mission.phases[i].attempt \in Nat
          /\ mission.phases[i].state \in {"PENDING", "RUNNING"} \cup Proof
          /\ PhaseSound(mission, i)
      BY <2>1, <3>1, DocTypes DEF DocSound, Proof
    <3>3. i \in Nat /\ i > Len(Plan)
      <4>1. i \in Repairs(mission)
        BY <3>1 DEF Repairs
      <4>2. DOMAIN mission.phases = 1 .. Len(mission.phases) /\ Len(mission.phases) \in Nat
        BY <2>1, DocTypes
      <4>3. Repairs(mission) = {j \in DOMAIN mission.phases : j > Len(Plan)}
        BY <2>1, Indices
      <4> HIDE DEF i
      <4> QED BY <4>1, <4>2, <4>3
    <3>4. mission.phases[i].state # "PENDING"
      BY <3>1, <3>2 DEF PhaseSound
    <3>5. i <= Len(Plan) + RepairBudget
      BY <3>2, <3>3, <3>4 DEF PhaseSound
    <3>6. mission.phases[i].last <= 1
      BY <3>1, <3>2, <3>4, AttemptsAre DEF PhaseSound
    <3> QED BY <2>2, <3>1, <3>2, <3>3, <3>5, <3>6
  <2>5. IsFiniteSet(B) /\ Cardinality(B) = RepairBudget
    <3>1. PICK lo \in Int, hi \in Int : lo = Len(Plan) + 1 /\ hi = Len(Plan) + RepairBudget
      BY <2>2
    <3>2. IsFiniteSet(lo .. hi) /\ Cardinality(lo .. hi) = IF lo > hi THEN 0 ELSE hi - lo + 1
      BY FS_Interval
    <3>3. B = lo .. hi
      BY <3>1
    <3> HIDE DEF B
    <3> QED BY <2>2, <3>1, <3>2, <3>3
  <2>6. f \in Injection(K, B)
    <3>1. f \in [K -> B]
      BY <2>4
    <3>2. ASSUME NEW j \in K, NEW k \in K, f[j] = f[k] PROVE j = k
      <4>1. j \in DOMAIN ran /\ k \in DOMAIN ran /\ ran[j].phase = ran[k].phase
        BY <3>2
      <4>2. ran[j].attempt = 1 /\ ran[k].attempt = 1
        BY <2>4
      <4>3. ~(j < k) /\ ~(k < j)
        BY <2>1, <4>1, <4>2 DEF Ledger
      <4> QED BY <2>1, <4>1, <4>3, LedgerTypes
    <3> HIDE DEF K, B, f
    <3> QED BY <3>1, <3>2 DEF Injection, IsInjective
  <2>7. Cardinality(K) <= RepairBudget
    <3> HIDE DEF K, B, f
    <3> QED BY <2>5, <2>6, FS_Injection
  <2> QED BY <2>3, <2>7 DEF WithinBudget
<1> QED BY <1>1, Invariant, PTL

(* No attempt of a phase is ever run twice: the records tell the attempts  *)
(* apart, over crashes at any step and every reconstruction.               *)
THEOREM AttemptsRanOnce == ASSUME ~Overlapping PROVE Spec => []RanOnce
<1>1. Inv => RanOnce
  <2> SUFFICES ASSUME Inv PROVE RanOnce
    OBVIOUS
  <2>1. Ledger(mission, ran)
    BY DEF Inv, Evidence
  <2> SUFFICES ASSUME NEW j \in DOMAIN ran, NEW k \in DOMAIN ran,
                      ran[j].phase = ran[k].phase, ran[j].attempt = ran[k].attempt
               PROVE  j = k
    BY DEF RanOnce
  <2>2. j \in Nat /\ k \in Nat /\ ran[j].attempt \in Nat
    BY <2>1, LedgerTypes
  <2>3. ~(j < k) /\ ~(k < j)
    BY <2>1, <2>2 DEF Ledger
  <2> QED BY <2>2, <2>3
<1> QED BY <1>1, Invariant, PTL

------------------------------------------------------------------------------
(* What schedulers see of a mission document. *)

InFlightOf(d) == \E i \in DOMAIN d.phases : d.phases[i].state = "RUNNING"

LEMMA LifeIs ==
  ASSUME NEW d \in MissionDocs
  PROVE  /\ LifeOf(d).stage =
              IF d.state = "COMPLETE" THEN "complete"
              ELSE IF d.state \in Ended THEN "blocked"
              ELSE IF ~d.begun THEN "new"
              ELSE IF d.state = "PLANNING" THEN "planning" ELSE "working"
         /\ LifeOf(d).open = InFlightOf(d)
         /\ LifeOf(d) = [stage |-> LifeOf(d).stage, open |-> LifeOf(d).open]
         /\ LifeOf(d).open \in BOOLEAN
<1>1. d.begun \in BOOLEAN
  BY DocTypes
<1> QED BY <1>1 DEF LifeOf, Ended, InFlightOf

(* The document keeps its state, and its phases are at work as before.     *)
LEMMA SameLife ==
  ASSUME NEW d \in MissionDocs, NEW e \in MissionDocs,
         e.state = d.state, e.begun = d.begun, InFlightOf(e) <=> InFlightOf(d)
  PROVE  LifeOf(e) = LifeOf(d)
<1>1. InFlightOf(e) = InFlightOf(d)
  BY DEF InFlightOf
<1> QED BY <1>1, LifeIs

LEMMA StoppedLife ==
  ASSUME NEW d \in MissionDocs, NEW e \in MissionDocs, d.state \notin Ended,
         e.state = "BLOCKED", InFlightOf(e) <=> InFlightOf(d)
  PROVE  LifeOf(e) \in Stopped(LifeOf(d))
<1>1. LifeOf(e).stage = "blocked" /\ ~Terminal(LifeOf(d))
  BY LifeIs DEF Ended, Terminal
<1>2. LifeOf(e).open = LifeOf(d).open
  <2>1. InFlightOf(e) = InFlightOf(d)
    BY DEF InFlightOf
  <2> QED BY <2>1, LifeIs
<1>3. LifeOf(e) = [LifeOf(d) EXCEPT !.stage = "blocked"]
  <2>1. /\ LifeOf(d) = [stage |-> LifeOf(d).stage, open |-> LifeOf(d).open]
        /\ LifeOf(e) = [stage |-> LifeOf(e).stage, open |-> LifeOf(e).open]
    BY LifeIs
  <2> QED BY <1>1, <1>2, <2>1
<1> QED BY <1>1, <1>3 DEF Stopped

LEMMA LaunchedLife ==
  ASSUME NEW d \in MissionDocs, NEW e \in MissionDocs, d.state \notin Ended,
         ~InFlightOf(d), InFlightOf(e), e.begun, e.state \notin Ended,
         Legal(d.state, e.state)
  PROVE  LifeOf(e) \in Launched(LifeOf(d))
<1>1. d.state # "PLANNING" => e.state # "PLANNING"
  BY DEF Legal, Ended
<1>2. ~Terminal(LifeOf(d)) /\ LifeOf(d).open = FALSE
  BY LifeIs DEF Ended, Terminal
<1>3. LifeOf(e).stage \in Stays(LifeOf(d)) /\ LifeOf(e).open = TRUE
  BY <1>1, LifeIs DEF Ended, Stays
<1>4. LifeOf(e) = [stage |-> LifeOf(e).stage, open |-> LifeOf(e).open]
  BY LifeIs
<1> QED BY <1>2, <1>3, <1>4 DEF Launched

LEMMA RecordedLife ==
  ASSUME NEW d \in MissionDocs, NEW e \in MissionDocs, d.state \notin Ended,
         InFlightOf(d), ~InFlightOf(e), d.begun, e.begun,
         Legal(d.state, e.state)
  PROVE  LifeOf(e) \in Recorded(LifeOf(d))
<1>1. d.state # "PLANNING" => e.state # "PLANNING"
  BY DEF Legal, Ended
<1>2. Active(LifeOf(d)) /\ LifeOf(d).open = TRUE
  BY LifeIs DEF Ended, Active
<1>3. /\ LifeOf(e).stage \in Stays(LifeOf(d)) \cup {"complete", "blocked"}
      /\ LifeOf(e).open = FALSE
  BY <1>1, LifeIs DEF Ended, Stays
<1>4. LifeOf(e) = [stage |-> LifeOf(e).stage, open |-> LifeOf(e).open]
  BY LifeIs
<1> QED BY <1>2, <1>3, <1>4 DEF Recorded

(* The actions that leave the document alone, and those that may not.      *)
LEMMA Writers ==
  ASSUME [Next]_vars, mission' # mission
  PROVE  \/ Write
         \/ \E r \in Runners : \/ EndMission(r) \/ Repair(r) \/ Exhausted(r) \/ Block(r)
                               \/ WriteRunning(r) \/ CountStarted(r)
                               \/ Advance(r) \/ RebuildSave(r)
<1>1. ASSUME NEW r \in Runners, Begin(r) \/ Crash(r) PROVE FALSE
  BY <1>1 DEF Begin, Crash, Reads
<1>2. ASSUME NEW r \in Runners,
             \/ SessionOver(r) \/ LoadAndDecide(r) \/ PhaseLoad(r) \/ GuardLoad(r)
             \/ FinishLoad(r) \/ Rebuild(r)
      PROVE  FALSE
  <2>1. Reads
    <3> HIDE DEF Reads
    <3> QED BY <1>2 DEF SessionOver, LoadAndDecide, PhaseLoad, GuardLoad, FinishLoad, Rebuild
  <2> QED BY <2>1 DEF Reads
<1>3. ASSUME NEW r \in Runners,
             WriteRecord(r) \/ RunSubrun(r) \/ CloseRecord(r) \/ RebuildRecords(r)
      PROVE  FALSE
  BY <1>3 DEF WriteRecord, RunSubrun, CloseRecord, RebuildRecords
<1>4. ~Read /\ ~(UNCHANGED vars)
  BY DEF Read, vars
<1> QED BY <1>1, <1>2, <1>3, <1>4 DEF Next, Step

LEMMA LifeStep ==
  ASSUME ~Overlapping, Inv, [Next]_vars, mission' # mission
  PROVE  LifeOf(mission') \in Successors(LifeOf(mission)) \cup {LifeOf(mission)}
<1>1. /\ DocSound(mission) /\ mission \in MissionDocs /\ Evidence
      /\ DocSound(mission') /\ mission' \in MissionDocs
  <2>1. Inv'
    BY NextInv
  <2> QED BY <2>1, Indices DEF Inv
<1>2. CASE Write
  <2>1. /\ mission'.state = mission.state /\ mission'.begun = mission.begun
        /\ mission'.phases = mission.phases
    BY <1>2, WriteMakes
  <2> QED BY <1>1, <2>1, SameLife DEF InFlightOf
<1>3. ASSUME NEW r \in Runners, EndMission(r) \/ Block(r) PROVE LifeOf(mission') \in Stopped(LifeOf(mission))
  <2>1. pc[r] \in {"end", "block"}
    BY <1>3 DEF EndMission, Block, Saves, Goto
  <2>2. mem[r].doc = mission /\ mission.state \notin Ended
    BY <2>1 DEF Inv, AtWork, Sessions
  <2>3. EndOf(Decide(mission)) = "BLOCKED"
    <3>1. Unsatisfied(mission) # {}
      BY <1>1, <2>2 DEF DocSound
    <3> QED BY <3>1, DecideEnds DEF EndOf
  <2>4. mission' = [mission EXCEPT !.state = "BLOCKED"]
    BY <1>3, <2>2, <2>3 DEF EndMission, Block, Saves
  <2>5. mission'.state = "BLOCKED" /\ mission'.phases = mission.phases
    BY <1>1, <2>4 DEF MissionDocs
  <2> QED BY <1>1, <2>2, <2>5, StoppedLife DEF InFlightOf
<1>4. ASSUME NEW r \in Runners, Repair(r) \/ Exhausted(r) PROVE LifeOf(mission') = LifeOf(mission)
  <2>1. pc[r] \in {"repair", "exhausted"}
    BY <1>4 DEF Repair, Exhausted, Saves, Goto
  <2>2. mem[r].doc = mission
    BY <2>1 DEF Inv, AtWork
  <2>3. \E n : mission' = WithRepair(mission, n)
    BY <1>4, <2>2 DEF Repair, Exhausted, Saves, WithRepair
  <2> DEFINE new == NewPhase("REPAIR", mission.used)
  <2>4. mission' = [mission EXCEPT !.phases = Append(@, new)]
    BY <2>3 DEF WithRepair
  <2>5. /\ mission'.state = mission.state /\ mission'.begun = mission.begun
        /\ mission'.phases = Append(mission.phases, new)
    <3> HIDE DEF new
    <3> QED BY <1>1, <2>4 DEF MissionDocs
  <2>6. new.state = "PENDING"
    BY DEF NewPhase
  <2> HIDE DEF new
  <2>7. mission.phases \in Seq(PhaseDocs)
    BY <1>1, DocTypes
  <2>8. /\ DOMAIN mission'.phases = DOMAIN mission.phases \cup {Len(mission.phases) + 1}
        /\ mission'.phases[Len(mission.phases) + 1] = new
        /\ \A i \in DOMAIN mission.phases : mission'.phases[i] = mission.phases[i]
    BY <2>5, <2>7
  <2>9. InFlightOf(mission') <=> InFlightOf(mission)
    BY <2>6, <2>8 DEF InFlightOf
  <2> QED BY <1>1, <2>5, <2>9, SameLife
<1>5. ASSUME NEW r \in Runners, WriteRunning(r) PROVE LifeOf(mission') \in Launched(LifeOf(mission))
  <2> DEFINE i == mem[r].phase
  <2>1. /\ Changes(mission, mission', i, [mission.phases[i] EXCEPT !.state = "RUNNING"])
        /\ mission'.begun /\ mission'.state \notin Ended
        /\ Legal(mission.state, mission'.state) /\ mission.state \notin Ended
        /\ Ready(mission, i)
    BY <1>5, WriteRunningMakes
  <2> HIDE DEF i
  <2>2. i \in DOMAIN mission'.phases /\ mission'.phases[i] = [mission.phases[i] EXCEPT !.state = "RUNNING"]
    BY <1>1, <2>1, ChangesAre DEF Changes
  <2>3. mission.phases[i] \in PhaseDocs
    BY <1>1, <2>1, DocTypes DEF Ready
  <2>4. mission'.phases[i].state = "RUNNING"
    BY <2>2, <2>3 DEF PhaseDocs
  <2>5. InFlightOf(mission') /\ ~InFlightOf(mission)
    BY <2>1, <2>2, <2>4 DEF InFlightOf, Ready
  <2> QED BY <1>1, <2>1, <2>5, LaunchedLife
<1>6. ASSUME NEW r \in Runners, CountStarted(r) PROVE LifeOf(mission') = LifeOf(mission)
  <2> DEFINE i == mem[r].phase
  <2>1. pc[r] = "counted"
    BY <1>6 DEF CountStarted, Saves, Goto
  <2>2. mem[r].doc = mission /\ Launching(r)
    BY <2>1 DEF Inv, AtWork
  <2>3. i \in DOMAIN mission.phases /\ mission.phases \in Seq(PhaseDocs)
    BY <1>1, <2>2, DocTypes DEF Launching
  <2>4. mission' = [mission EXCEPT !.phases[i].last = mem[r].attempt, !.started = @ + 1]
    BY <1>6, <2>2 DEF CountStarted, Saves
  <2> HIDE DEF i
  <2>5. /\ mission'.state = mission.state /\ mission'.begun = mission.begun
        /\ mission'.phases = [mission.phases EXCEPT ![i].last = mem[r].attempt]
    BY <1>1, <2>4 DEF MissionDocs
  <2>6. \A j \in DOMAIN mission.phases : mission.phases[j] \in PhaseDocs
    BY <1>1, DocTypes
  <2>7. /\ DOMAIN mission'.phases = DOMAIN mission.phases
        /\ \A j \in DOMAIN mission.phases : mission'.phases[j].state = mission.phases[j].state
    BY <2>3, <2>5, <2>6 DEF PhaseDocs
  <2>8. InFlightOf(mission') <=> InFlightOf(mission)
    BY <2>7 DEF InFlightOf
  <2> QED BY <1>1, <2>5, <2>8, SameLife
<1>7. ASSUME NEW r \in Runners, Advance(r) PROVE LifeOf(mission') \in Recorded(LifeOf(mission))
  <2> DEFINE i == mem[r].phase
             s == PhaseAfter(mem[r].class)
             p == [mission.phases[i] EXCEPT !.attempt = mission.phases[i].last,
                                            !.used = mission.used, !.state = s]
  <2>1. /\ Changes(mission, mission', i, p)
        /\ mission.phases[i].state = "RUNNING"
        /\ mission'.begun = mission.begun
        /\ Legal(mission.state, mission'.state) /\ mission.state \notin Ended
    <3>1. ~(Goto(r, "advance", "idle", Blank) /\ Reads)
      BY DEF Reads
    <3> QED BY <1>7, <3>1, AdvanceMakes
  <2>2. i \in DOMAIN mission.phases
    BY <2>1 DEF Changes
  <2>3. mission.begun /\ mission.phases[i] \in PhaseDocs
    BY <1>1, <2>1, <2>2, DocTypes DEF DocSound, PhaseSound
  <2>4. s \in Proof
    BY DEF PhaseAfter, Proof
  <2> HIDE DEF i, s
  <2>5. p.state = s
    BY <2>3 DEF PhaseDocs
  <2> HIDE DEF p
  <2>6. /\ DOMAIN mission'.phases = DOMAIN mission.phases /\ mission'.phases[i] = p
        /\ \A j \in DOMAIN mission.phases : j # i => mission'.phases[j] = mission.phases[j]
    BY <1>1, <2>1, ChangesAre
  <2>7. InFlightOf(mission) /\ ~InFlightOf(mission')
    BY <1>1, <2>1, <2>2, <2>4, <2>5, <2>6, OneRunning DEF InFlightOf, Proof
  <2> QED BY <1>1, <2>1, <2>3, <2>7, RecordedLife
<1>8. ASSUME NEW r \in Runners, RebuildSave(r)
      PROVE  LifeOf(mission') \in Successors(LifeOf(mission)) \cup {LifeOf(mission)}
  <2>1. /\ mission'.phases = RebuiltDoc.phases /\ mission'.begun = mission.begun
        /\ Legal(mission.state, mission'.state) /\ mission.state \notin Ended
        /\ mission'.state \in {mission.state, "COMPLETE", "BLOCKED"}
        /\ mission'.state = "COMPLETE" => Unsatisfied(mission') = {}
    <3>1. ~(Goto(r, "rebuild_save", "idle", Blank) /\ Reads)
      BY DEF Reads
    <3> QED BY <1>8, <3>1, RebuildSaveMakes
  <2>2. /\ DOMAIN mission'.phases = DOMAIN mission.phases
        /\ \A i \in DOMAIN mission.phases : Recovered(mission.phases[i], mission'.phases[i])
    BY <1>1, <2>1, RebuiltDocIs
  <2>3. ASSUME NEW i \in DOMAIN mission.phases
        PROVE  /\ mission'.phases[i].state # "RUNNING"
               /\ mission.phases[i].state # "RUNNING" => mission'.phases[i] = mission.phases[i]
    <3>1. Recovered(mission.phases[i], mission'.phases[i]) /\ mission.phases[i] \in PhaseDocs
      BY <1>1, <2>2, DocTypes
    <3> QED BY <3>1 DEF Recovered, Proof, PhaseDocs
  <2>4. ~InFlightOf(mission')
    BY <2>2, <2>3 DEF InFlightOf
  <2>5. CASE InFlightOf(mission)
    <3>1. mission.begun
      BY <1>1, <2>5 DEF InFlightOf, DocSound, PhaseSound
    <3>2. LifeOf(mission') \in Recorded(LifeOf(mission))
      BY <1>1, <2>1, <2>4, <2>5, <3>1, RecordedLife
    <3> QED BY <3>2 DEF Successors
  <2>6. CASE ~InFlightOf(mission)
    <3>1. Unsatisfied(mission') = Unsatisfied(mission)
      BY <2>2, <2>3, <2>6 DEF InFlightOf, Unsatisfied
    <3>2. mission'.state # "COMPLETE"
      BY <1>1, <2>1, <3>1 DEF DocSound
    <3>3. CASE mission'.state = "BLOCKED"
      <4>1. LifeOf(mission') \in Stopped(LifeOf(mission))
        BY <1>1, <2>1, <2>4, <2>6, <3>3, StoppedLife
      <4> QED BY <4>1 DEF Successors
    <3>4. CASE mission'.state = mission.state
      BY <1>1, <2>1, <2>4, <2>6, <3>4, SameLife
    <3> QED BY <2>1, <3>2, <3>3, <3>4
  <2> QED BY <2>5, <2>6
<1> QED BY <1>2, <1>3, <1>4, <1>5, <1>6, <1>7, <1>8, Writers DEF Successors

(* Whatever a session, a reconstruction or a crash does to the document, a *)
(* scheduler that reads it sees a step of MissionLife.                     *)
THEOREM LifeKept == ASSUME ~Overlapping PROVE Spec => LivesAsPromised
<1>1. Init => LifeOf(mission) = Unborn
  <2> SUFFICES ASSUME Init PROVE LifeOf(mission) = Unborn
    OBVIOUS
  <2>1. /\ mission \in MissionDocs /\ mission.state = "PLANNING" /\ mission.begun = FALSE
        /\ \A i \in DOMAIN mission.phases : mission.phases[i].state = "PENDING"
    <3>1. Created \in MissionDocs
      BY CreatedSound, Indices
    <3> QED BY <3>1 DEF Init, Created, NewPhase
  <2>2. ~InFlightOf(mission)
    BY <2>1 DEF InFlightOf
  <2>3. LifeOf(mission).stage = "new" /\ LifeOf(mission).open = FALSE
    BY <2>1, <2>2, LifeIs DEF Ended
  <2> QED BY <2>1, <2>3, LifeIs DEF Unborn
<1>2. Inv /\ [Next]_vars =>
        [LifeOf(mission)' \in Successors(LifeOf(mission)) \cup {LifeOf(mission)}]_mission
  <2> SUFFICES ASSUME Inv, [Next]_vars, mission' # mission
               PROVE  LifeOf(mission)' \in Successors(LifeOf(mission)) \cup {LifeOf(mission)}
    OBVIOUS
  <2>1. LifeOf(mission)' = LifeOf(mission')
    BY DEF LifeOf
  <2> QED BY <2>1, LifeStep
<1> QED BY <1>1, <1>2, Invariant, PTL DEF Spec, LivesAsPromised

=============================================================================
