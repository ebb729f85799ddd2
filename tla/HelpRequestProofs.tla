-------------------------- MODULE HelpRequestProofs --------------------------
(***************************************************************************)
(* Proofs about module HelpRequest, for every set of people and calls,     *)
(* every size of the pool and every bound on faults.                       *)
(***************************************************************************)
EXTENDS HelpRequest, FiniteSetTheorems, TLAPS

USE HelpRequestAssumption DEF HelpRequestAssumption

-----------------------------------------------------------------------------
(* Types.                                                                  *)

\* Every state is well-formed: the calls only ever store values of the types
\* the tables and the handlers' locals have.
THEOREM TypeCorrect == Spec => []TypeOK
<1>1. Init => TypeOK
  <2> SUFFICES ASSUME Init PROVE TypeOK
    OBVIOUS
  <2>1. 0 \in 0..MaxFaults /\ 0 \in Nat
    OBVIOUS
  <2> QED BY <2>1 DEF Init, TypeOK
<1>2. TypeOK /\ [Next]_vars => TypeOK'
  <2> SUFFICES ASSUME TypeOK, [Next]_vars PROVE TypeOK'
    OBVIOUS
  <2> USE DEF TypeOK
  <2>1. ASSUME NEW a \in AcceptCall, CheckAccept(a) PROVE TypeOK'
    BY <2>1 DEF CheckAccept, feedback
  <2>2. ASSUME NEW a \in AcceptCall, AcceptStep(a) PROVE TypeOK'
    <3>1. CASE BeginAccept(a) BY <3>1 DEF BeginAccept, feedback
    <3>2. CASE Accept(a) BY <3>2 DEF Accept, Taken, feedback
    <3>3. CASE NotifySeeker(a) BY <3>3 DEF NotifySeeker, feedback
    <3> QED BY <2>2, <3>1, <3>2, <3>3 DEF AcceptStep
  <2>3. ASSUME NEW a \in AcceptCall, AcceptFails(a) PROVE TypeOK'
    BY <2>3 DEF AcceptFails, Fault, feedback
  <2>4. ASSUME NEW f \in FeedbackCall, CheckFeedback(f) PROVE TypeOK'
    BY <2>4 DEF CheckFeedback, acceptance
  <2>5. ASSUME NEW f \in FeedbackCall, FeedbackStep(f) PROVE TypeOK'
    <3>1. CASE Open(f) BY <3>1 DEF Open, Advance, acceptance
    <3>2. CASE MarkCompleted(f)
      BY <3>2 DEF MarkCompleted, MarkAs, Advance, acceptance
    <3>3. CASE AddPoint(f) BY <3>3 DEF AddPoint, Advance, acceptance
    <3>4. CASE NotifyOther(f) BY <3>4 DEF NotifyOther, Advance, acceptance
    <3>5. CASE Commit(f)
      BY <3>5 DEF Commit, Advance, Earned, acceptance
    <3>6. CASE NotifyLate(f) BY <3>6 DEF NotifyLate, Advance, acceptance
    <3> QED BY <2>5, <3>1, <3>2, <3>3, <3>4, <3>5, <3>6 DEF FeedbackStep
  <2>6. ASSUME NEW f \in FeedbackCall, FeedbackFails(f) \/ Timeout(f)
        PROVE TypeOK'
    BY <2>6 DEF FeedbackFails, Timeout, RolledBack, Fault, acceptance
  <2>7. CASE Crash
    BY <2>7 DEF Crash, Fault
  <2>8. CASE UNCHANGED vars
    BY <2>8 DEF vars, acceptance, feedback
  <2> QED
    BY <2>1, <2>2, <2>3, <2>4, <2>5, <2>6, <2>7, <2>8 DEF Next
<1> QED
  BY <1>1, <1>2, PTL DEF Spec

-----------------------------------------------------------------------------
(* Accepting and completing.                                               *)

\* What the accept calls and the transactions rely on.  A status that is still
\* PENDING means that nobody has accepted; an accept call that no other call
\* has overlapped is alone and still finds the status it has checked.
Coordinated ==
    /\ CompletedByFeedback
    /\ OneVolunteerAlone
    /\ status = "PENDING" => accepted = {}
    /\ \A f \in FeedbackCall : sawCompleted[f] => feedbacks # {}
    /\ ~raced =>
         \A a \in AcceptCall : Accepting(a) =>
             /\ status = "PENDING"
             /\ \A b \in AcceptCall : Accepting(b) => a = b
             /\ \A f \in FeedbackCall : ~Commenting(f)

\* The invariant survives every step that touches neither a row nor the
\* history, starts nothing, and only ends calls or moves them on.
LEMMA CoordinatedByOthers ==
  ASSUME TypeOK, Coordinated,
         UNCHANGED <<caller, status, volunteer, accepted, feedbacks,
                     sawCompleted, raced>>,
         \A a \in AcceptCall : Accepting(a)' => Accepting(a),
         \A f \in FeedbackCall : Commenting(f)' => Commenting(f)
  PROVE  Coordinated'
BY DEF Coordinated, CompletedByFeedback, OneVolunteerAlone

LEMMA CoordinatedStep ==
  ASSUME TypeOK, Coordinated, [Next]_vars
  PROVE  Coordinated'
<1> USE DEF TypeOK
<1>1. ASSUME NEW a \in AcceptCall, CheckAccept(a)
      PROVE  Coordinated'
  BY <1>1 DEF CheckAccept, MayAccept, Coordinated, CompletedByFeedback,
              OneVolunteerAlone, Accepting, Commenting, InTransaction, feedback
<1>2. ASSUME NEW a \in AcceptCall, Accept(a)
      PROVE  Coordinated'
  BY <1>2 DEF Accept, Taken, Coordinated, CompletedByFeedback,
              OneVolunteerAlone, Accepting, Commenting, InTransaction, feedback
<1>3. ASSUME NEW a \in AcceptCall,
             BeginAccept(a) \/ NotifySeeker(a) \/ AcceptFails(a)
      PROVE  Coordinated'
  <2>1. \A b \in AcceptCall : Accepting(b)' => Accepting(b)
    BY <1>3 DEF BeginAccept, NotifySeeker, AcceptFails, Accepting
  <2>2. \A f \in FeedbackCall : Commenting(f)' => Commenting(f)
    BY <1>3 DEF BeginAccept, NotifySeeker, AcceptFails, Commenting,
                InTransaction, feedback
  <2> QED
    BY <1>3, <2>1, <2>2, CoordinatedByOthers
    DEF BeginAccept, NotifySeeker, AcceptFails, feedback
<1>4. ASSUME NEW f \in FeedbackCall, CheckFeedback(f)
      PROVE  Coordinated'
  BY <1>4 DEF CheckFeedback, Coordinated, CompletedByFeedback,
              OneVolunteerAlone, Accepting, Commenting, InTransaction, acceptance
<1>5. ASSUME NEW f \in FeedbackCall, Commit(f)
      PROVE  Coordinated'
  BY <1>5 DEF Commit, Advance, Coordinated, CompletedByFeedback,
              OneVolunteerAlone, Accepting, Commenting, InTransaction, acceptance
<1>6. ASSUME NEW f \in FeedbackCall,
             \/ Open(f) \/ MarkCompleted(f) \/ AddPoint(f) \/ NotifyOther(f)
             \/ NotifyLate(f) \/ FeedbackFails(f) \/ Timeout(f)
      PROVE  Coordinated'
  <2>1. \A g \in FeedbackCall : Commenting(g)' => Commenting(g)
    BY <1>6 DEF Open, MarkCompleted, MarkAs, AddPoint, NotifyOther, NotifyLate,
                FeedbackFails, Timeout, TimesOut, RolledBack, Advance,
                Commenting, InTransaction
  <2>2. UNCHANGED <<caller, status, acceptance, feedbacks, sawCompleted, raced>>
    BY <1>6 DEF Open, MarkCompleted, MarkAs, AddPoint, NotifyOther, NotifyLate,
                FeedbackFails, Timeout, RolledBack, Advance
  <2> QED
    BY <2>1, <2>2, CoordinatedByOthers DEF acceptance, Accepting
<1>7. CASE Crash
  <2>1. \A b \in AcceptCall : Accepting(b)' => Accepting(b)
    BY <1>7 DEF Crash, Accepting
  <2>2. \A f \in FeedbackCall : Commenting(f)' => Commenting(f)
    BY <1>7 DEF Crash, Commenting, InTransaction
  <2> QED
    BY <1>7, <2>1, <2>2, CoordinatedByOthers DEF Crash
<1>8. CASE UNCHANGED vars
  BY <1>8, CoordinatedByOthers
  DEF vars, acceptance, feedback, Accepting, Commenting, InTransaction
<1> QED
  BY <1>1, <1>2, <1>3, <1>4, <1>5, <1>6, <1>7, <1>8
  DEF Next, AcceptStep, FeedbackStep

LEMMA AlwaysCoordinated == Spec => []Coordinated
<1>1. Init => Coordinated
  BY DEF Init, Coordinated, CompletedByFeedback, OneVolunteerAlone, Accepting
<1>2. TypeOK /\ Coordinated /\ [Next]_vars => Coordinated'
  BY CoordinatedStep
<1> QED
  BY <1>1, <1>2, TypeCorrect, PTL DEF Spec

\* acceptRequest's check and its unconditional update give a request to one
\* person, who stays its volunteer, if no accept call overlaps another call.
THEOREM AloneHasOneVolunteer == Spec => []OneVolunteerAlone
<1>1. Coordinated => OneVolunteerAlone
  BY DEF Coordinated
<1> QED
  BY <1>1, AlwaysCoordinated, PTL

\* A completed request always has a stored feedback, and one with a stored
\* feedback is completed unless an accept call overlapped another call.
THEOREM CompletionNeedsFeedback == Spec => []CompletedByFeedback
<1>1. Coordinated => CompletedByFeedback
  BY DEF Coordinated
<1> QED
  BY <1>1, AlwaysCoordinated, PTL

-----------------------------------------------------------------------------
(* One feedback each.                                                      *)

\* Of a person whose feedback calls have never overlapped, at most one call is
\* between check and commit, and only while none of theirs is stored.
Single ==
    /\ OneFeedbackAlone
    /\ \A f \in FeedbackCall : Commenting(f) /\ caller[f] \notin doubled =>
         /\ \A g \in FeedbackCall : Commenting(g) /\ caller[g] = caller[f] => f = g
         /\ \A g \in feedbacks : caller[g] # caller[f]

LEMMA SingleByOthers ==
  ASSUME TypeOK, Single, UNCHANGED <<caller, feedbacks, doubled>>,
         \A f \in FeedbackCall : Commenting(f)' => Commenting(f)
  PROVE  Single'
BY DEF Single, OneFeedbackAlone

\* submitFeedback's look for an earlier feedback outside its transaction is
\* enough for everybody whose calls do not overlap.
THEOREM AloneGivesOneFeedback == Spec => []OneFeedbackAlone
<1>1. Init => Single
  BY DEF Init, Single, OneFeedbackAlone, Commenting, InTransaction
<1>2. TypeOK /\ Single /\ [Next]_vars => Single'
  <2> SUFFICES ASSUME TypeOK, Single, [Next]_vars PROVE Single'
    OBVIOUS
  <2> USE DEF TypeOK
  <2>1. ASSUME NEW a \in AcceptCall,
               CheckAccept(a) \/ AcceptStep(a) \/ AcceptFails(a)
        PROVE  Single'
    BY <2>1, SingleByOthers
    DEF CheckAccept, AcceptStep, BeginAccept, Accept, NotifySeeker, AcceptFails,
        feedback, Commenting, InTransaction
  <2>2. ASSUME NEW f \in FeedbackCall, CheckFeedback(f)
        PROVE  Single'
    BY <2>2 DEF CheckFeedback, MayComment, Single, OneFeedbackAlone, Commenting,
                InTransaction
  <2>3. ASSUME NEW f \in FeedbackCall, Commit(f)
        PROVE  Single'
    BY <2>3 DEF Commit, Advance, Single, OneFeedbackAlone, Commenting,
                InTransaction
  <2>4. ASSUME NEW f \in FeedbackCall,
               \/ Open(f) \/ MarkCompleted(f) \/ AddPoint(f) \/ NotifyOther(f)
               \/ NotifyLate(f) \/ FeedbackFails(f) \/ Timeout(f)
        PROVE  Single'
    <3>1. \A g \in FeedbackCall : Commenting(g)' => Commenting(g)
      BY <2>4 DEF Open, MarkCompleted, MarkAs, AddPoint, NotifyOther, NotifyLate,
                  FeedbackFails, Timeout, TimesOut, RolledBack, Advance,
                  Commenting, InTransaction
    <3>2. UNCHANGED <<caller, feedbacks, doubled>>
      BY <2>4 DEF Open, MarkCompleted, MarkAs, AddPoint, NotifyOther, NotifyLate,
                  FeedbackFails, Timeout, RolledBack, Advance
    <3> QED BY <3>1, <3>2, SingleByOthers
  <2>5. CASE Crash
    BY <2>5, SingleByOthers DEF Crash, Commenting, InTransaction
  <2>6. CASE UNCHANGED vars
    BY <2>6, SingleByOthers DEF vars, feedback, Commenting, InTransaction
  <2> QED
    BY <2>1, <2>2, <2>3, <2>4, <2>5, <2>6 DEF Next, FeedbackStep
<1>3. Single => OneFeedbackAlone
  BY DEF Single
<1> QED
  BY <1>1, <1>2, <1>3, TypeCorrect, PTL DEF Spec

-----------------------------------------------------------------------------
(* Points.                                                                 *)

\* The stored feedbacks of p that earn a point.
By(p) == {f \in feedbacks : caller[f] = p}

\* The points of a volunteer count the stored feedbacks, and a feedback is
\* stored by the last step of its call.
Counted ==
    /\ PointPerFeedback
    /\ \A f \in feedbacks : feedbackPc[f] = "done"

\* The transaction in submitFeedback keeps points and feedbacks together: no
\* failure, timeout, crash or overlap stores one without the other.
THEOREM PointsCountFeedback == Spec => []PointPerFeedback
<1>1. Init => Counted
  BY FS_EmptySet DEF Init, Counted, PointPerFeedback
<1>2. TypeOK /\ Counted /\ [Next]_vars => Counted'
  <2> SUFFICES ASSUME TypeOK, Counted, [Next]_vars PROVE Counted'
    OBVIOUS
  <2> USE DEF TypeOK
  <2>1. ASSUME UNCHANGED <<caller, feedbacks, points>>,
               \A f \in FeedbackCall :
                   feedbackPc[f] = "done" => feedbackPc'[f] = "done"
        PROVE  Counted'
    BY <2>1 DEF Counted, PointPerFeedback
  <2>2. ASSUME NEW f \in FeedbackCall, Commit(f)
        PROVE  Counted'
    <3>1. /\ f \notin feedbacks /\ feedbacks' = feedbacks \cup {f}
          /\ caller' = caller
      BY <2>2 DEF Commit, Advance, Counted
    <3>2. \A g \in feedbacks' : feedbackPc'[g] = "done"
      BY <2>2, <3>1 DEF Commit, Advance, Counted
    <3>3. ASSUME NEW p \in Person
          PROVE  points'[p] = IF p = Seeker THEN 0 ELSE Cardinality(By(p)')
      <4>1. IsFiniteSet(By(p)) /\ f \notin By(p)
        BY <3>1, FS_Subset DEF By
      <4>2. By(p)' = IF caller[f] = p THEN By(p) \cup {f} ELSE By(p)
        BY <3>1 DEF By
      <4>3. points[p] = IF p = Seeker THEN 0 ELSE Cardinality(By(p))
        BY DEF Counted, PointPerFeedback, By
      <4>4. points'[p] = IF caller[f] = p THEN points[p] + Earned(f) ELSE points[p]
        BY <2>2 DEF Commit
      <4>5. Cardinality(By(p) \cup {f}) = Cardinality(By(p)) + 1
        BY <4>1, FS_AddElement
      <4>6. Earned(f) = IF caller[f] = Seeker THEN 0 ELSE 1
        BY DEF Earned
      <4>7. Cardinality(By(p)) \in Nat
        BY <4>1, FS_CardinalityType
      <4> HIDE DEF By
      <4> QED BY <4>2, <4>3, <4>4, <4>5, <4>6, <4>7
    <3> QED BY <3>2, <3>3 DEF Counted, PointPerFeedback, By
  <2>3. ASSUME NEW a \in AcceptCall,
               CheckAccept(a) \/ AcceptStep(a) \/ AcceptFails(a)
        PROVE  Counted'
    BY <2>1, <2>3
    DEF CheckAccept, AcceptStep, BeginAccept, Accept, NotifySeeker, AcceptFails,
        feedback
  <2>4. ASSUME NEW f \in FeedbackCall,
               \/ CheckFeedback(f) \/ Open(f) \/ MarkCompleted(f) \/ AddPoint(f)
               \/ NotifyOther(f) \/ NotifyLate(f)
        PROVE  Counted'
    BY <2>1, <2>4
    DEF CheckFeedback, Open, MarkCompleted, MarkAs, AddPoint, NotifyOther,
        NotifyLate, Advance
  <2>5. ASSUME NEW f \in FeedbackCall, FeedbackFails(f) \/ Timeout(f)
        PROVE  Counted'
    BY <2>1, <2>5
    DEF FeedbackFails, Timeout, TimesOut, RolledBack, Commenting, InTransaction
  <2>6. CASE Crash
    BY <2>1, <2>6 DEF Crash, Commenting, InTransaction
  <2>7. CASE UNCHANGED vars
    BY <2>1, <2>7 DEF vars, feedback
  <2> QED
    BY <2>2, <2>3, <2>4, <2>5, <2>6, <2>7 DEF Next, FeedbackStep
<1>3. Counted => PointPerFeedback
  BY DEF Counted
<1> QED
  BY <1>1, <1>2, <1>3, TypeCorrect, PTL DEF Spec
=============================================================================
