----------------------------- MODULE HelpRequest -----------------------------
(***************************************************************************)
(* One help request: volunteers accept it, the seeker and the volunteer    *)
(* give feedback, feedback completes it and earns the volunteer a point.   *)
(*                                                                         *)
(* Every statement needs a connection of the pool.  A transaction keeps    *)
(* one from its first statement to its end, and submitFeedback sends its   *)
(* notification from inside the transaction over a second connection: the  *)
(* notification repository does not know of the transaction.               *)
(***************************************************************************)
EXTENDS Integers, FiniteSets

CONSTANTS
    Person,      \* users of type CLIENT
    Seeker,      \* the one who created the request
    AcceptCall,  \* calls of acceptRequest
    FeedbackCall,\* calls of submitFeedback; each owns the feedback it creates
    None,        \* no volunteer, or nobody to notify
    PoolSize,    \* connections in the pool
    MaxFaults    \* bound on failed statements and crashes

ASSUME HelpRequestAssumption ==
    /\ Seeker \in Person /\ None \notin Person
    /\ IsFiniteSet(FeedbackCall)
    /\ PoolSize \in Nat \ {0} /\ MaxFaults \in Nat

VARIABLES
    caller,      \* the user of each call
    status,      \* requests.status
    volunteer,   \* requests.volunteer_id
    feedbacks,   \* the committed feedbacks, named after their calls
    points,      \* users.points
    acceptPc,    \* progress of each acceptRequest
    feedbackPc,  \* progress of each submitFeedback
    other,       \* whom the call is going to notify
    sawCompleted \* the call has read the status COMPLETED

VARIABLES        \* history: never read by the system's actions
    accepted,    \* accept calls that have written the request
    raced,       \* an accept call overlapped another call
    doubled,     \* people two of whose feedback calls overlapped
    faults       \* number of faults so far

acceptance == <<acceptPc, accepted, volunteer>>
feedback   == <<feedbackPc, feedbacks, points, other, sawCompleted, doubled>>
vars == <<caller, status, acceptance, feedback, raced, faults>>

\* Between the read of the request and the write or the commit.
Accepting(a) == acceptPc[a] \in {"checked", "writing"}
InTransaction(f) == feedbackPc[f] \in {"marking", "scoring", "telling", "commit"}
Commenting(f) == feedbackPc[f] = "checked" \/ InTransaction(f)

\* Connections held from one step to the next: transactions, and statements
\* that wait for a lock.
Used == Cardinality({f \in FeedbackCall : InTransaction(f)})
          + Cardinality({a \in AcceptCall : acceptPc[a] = "writing"})
HasConnection == Used < PoolSize

\* A transaction holds the row of the request from its update to its end.
RowHeld == \E f \in FeedbackCall :
              ~sawCompleted[f] /\ feedbackPc[f] \in {"scoring", "telling", "commit"}

\* And the row of the user whose points it increments.
PointsHeld(p) == \E f \in FeedbackCall :
                    caller[f] = p /\ feedbackPc[f] \in {"telling", "commit"}

Init ==
    /\ caller \in [AcceptCall \cup FeedbackCall -> Person]
    /\ status = "PENDING"
    /\ volunteer = None
    /\ feedbacks = {}
    /\ points = [p \in Person |-> 0]
    /\ acceptPc = [a \in AcceptCall |-> "idle"]
    /\ feedbackPc = [f \in FeedbackCall |-> "idle"]
    /\ other = [f \in FeedbackCall |-> None]
    /\ sawCompleted = [f \in FeedbackCall |-> FALSE]
    /\ accepted = {}
    /\ raced = FALSE
    /\ doubled = {}
    /\ faults = 0

Fault == faults < MaxFaults /\ faults' = faults + 1

-----------------------------------------------------------------------------
(* acceptRequest.                                                          *)

AnyStatus(a) == caller[a] # Seeker                \* mutant: no status check
MayAccept(a) == status = "PENDING" /\ caller[a] # Seeker

\* The request is read and both guards are evaluated on that copy.
CheckAccept(a) ==
    /\ acceptPc[a] = "idle" /\ HasConnection /\ MayAccept(a)
    /\ acceptPc' = [acceptPc EXCEPT ![a] = "checked"]
    /\ raced' = (\/ raced
                 \/ \E b \in AcceptCall : Accepting(b)
                 \/ \E f \in FeedbackCall : Commenting(f))
    /\ UNCHANGED <<caller, status, accepted, volunteer, feedback, faults>>

\* The update has its connection, and may have to wait for the row.
BeginAccept(a) ==
    /\ acceptPc[a] = "checked" /\ HasConnection
    /\ acceptPc' = [acceptPc EXCEPT ![a] = "writing"]
    /\ UNCHANGED <<caller, status, accepted, volunteer, feedback, raced, faults>>

InProgress == "IN_PROGRESS"                       \* mutant: not in the enum
Taken == "ACCEPTED"

\* It writes whatever the row holds by now.
Accept(a) ==
    /\ acceptPc[a] = "writing" /\ ~RowHeld
    /\ status' = Taken
    /\ volunteer' = caller[a]
    /\ accepted' = accepted \cup {a}
    /\ acceptPc' = [acceptPc EXCEPT ![a] = "telling"]
    /\ UNCHANGED <<caller, feedback, raced, faults>>

\* The seeker's notification is stored.
NotifySeeker(a) ==
    /\ acceptPc[a] = "telling" /\ HasConnection
    /\ acceptPc' = [acceptPc EXCEPT ![a] = "done"]
    /\ UNCHANGED <<caller, status, accepted, volunteer, feedback, raced, faults>>

\* A statement throws; if it is the notification, the request stays accepted.
AcceptFails(a) ==
    /\ Accepting(a) \/ acceptPc[a] = "telling"
    /\ Fault
    /\ acceptPc' = [acceptPc EXCEPT ![a] = "failed"]
    /\ UNCHANGED <<caller, status, accepted, volunteer, feedback, raced>>

-----------------------------------------------------------------------------
(* submitFeedback.                                                         *)

InvolvedOnly(f) == caller[f] \in {Seeker, volunteer}    \* mutant
MayComment(f) ==
    /\ caller[f] \in {Seeker, volunteer}
    /\ \A g \in feedbacks : caller[g] # caller[f]

\* The request is read with its feedbacks; the role, the status and the other
\* party are taken from that copy.
CheckFeedback(f) ==
    /\ feedbackPc[f] = "idle" /\ HasConnection /\ MayComment(f)
    /\ feedbackPc' = [feedbackPc EXCEPT ![f] = "checked"]
    /\ other' = [other EXCEPT ![f] =
                    IF caller[f] = Seeker THEN volunteer ELSE Seeker]
    /\ sawCompleted' = [sawCompleted EXCEPT ![f] = (status = "COMPLETED")]
    /\ raced' = (raced \/ \E a \in AcceptCall : Accepting(a))
    /\ doubled' = IF \E g \in FeedbackCall : caller[g] = caller[f] /\ Commenting(g)
                  THEN doubled \cup {caller[f]} ELSE doubled
    /\ UNCHANGED <<caller, status, acceptance, feedbacks, points, faults>>

Advance(f, from, to) ==
    /\ feedbackPc[f] = from
    /\ feedbackPc' = [feedbackPc EXCEPT ![f] = to]
    /\ UNCHANGED <<caller, acceptance, other, sawCompleted, raced, doubled, faults>>

\* The transaction begins and inserts the feedback.
Open(f) ==
    /\ HasConnection
    /\ Advance(f, "checked", IF sawCompleted[f] THEN "scoring" ELSE "marking")
    /\ UNCHANGED <<status, feedbacks, points>>

\* The request is updated, once no other transaction holds its row; others
\* see the status after the commit.
MarkAs(f, visible) ==
    /\ ~RowHeld
    /\ Advance(f, "marking", "scoring")
    /\ status' = visible
    /\ UNCHANGED <<feedbacks, points>>

MarkAtOnce(f) == MarkAs(f, "COMPLETED")           \* mutant: not on the tx
MarkCompleted(f) == MarkAs(f, status)

\* A volunteer's points are incremented, once no other transaction holds them.
AddPoint(f) ==
    /\ caller[f] = Seeker \/ ~PointsHeld(caller[f])
    /\ Advance(f, "scoring", "telling")
    /\ UNCHANGED <<status, feedbacks, points>>

\* The other party is notified, if there is one, over a second connection.
NotifyOther(f) ==
    /\ other[f] = None \/ HasConnection
    /\ Advance(f, "telling", "commit")
    /\ UNCHANGED <<status, feedbacks, points>>

EarnedByAll(f) == 1                               \* mutant: seekers earn too
Earned(f) == IF caller[f] = Seeker THEN 0 ELSE 1

Commit(f) ==
    /\ Advance(f, "commit", "done")
    /\ feedbacks' = feedbacks \cup {f}
    /\ status' = IF sawCompleted[f] THEN status ELSE "COMPLETED"
    /\ points' = [points EXCEPT ![caller[f]] = @ + Earned(f)]

RolledBack(f) ==
    /\ feedbackPc' = [feedbackPc EXCEPT ![f] =
                        IF @ = "telling" THEN "late" ELSE "failed"]
    /\ UNCHANGED <<caller, status, acceptance, feedbacks, points, other,
                   sawCompleted, raced, doubled>>

\* A statement or the connection fails.
FeedbackFails(f) == Commenting(f) /\ Fault /\ RolledBack(f)

NeverTimesOut(f) == FALSE                         \* mutant
TimesOut(f) == feedbackPc[f] = "telling"

\* Prisma rolls back a transaction that has been open for five seconds: here,
\* one whose callback is waiting for the second connection.
Timeout(f) == TimesOut(f) /\ RolledBack(f) /\ UNCHANGED faults

\* The callback does not know: it goes on and stores its notification.
NotifyLate(f) ==
    /\ HasConnection
    /\ Advance(f, "late", "failed")
    /\ UNCHANGED <<status, feedbacks, points>>

-----------------------------------------------------------------------------
Crash ==
    /\ Fault
    /\ acceptPc' = [a \in AcceptCall |->
                      IF Accepting(a) \/ acceptPc[a] = "telling" THEN "failed"
                      ELSE acceptPc[a]]
    /\ feedbackPc' = [f \in FeedbackCall |->
                        IF Commenting(f) \/ feedbackPc[f] = "late" THEN "failed"
                        ELSE feedbackPc[f]]
    /\ UNCHANGED <<caller, status, accepted, volunteer, feedbacks, points, other,
                   sawCompleted, raced, doubled>>

AcceptStep(a) == BeginAccept(a) \/ Accept(a) \/ NotifySeeker(a)

FeedbackStep(f) ==
    \/ Open(f) \/ MarkCompleted(f) \/ AddPoint(f)
    \/ NotifyOther(f) \/ Commit(f) \/ NotifyLate(f)

Next ==
    \/ \E a \in AcceptCall : CheckAccept(a) \/ AcceptStep(a) \/ AcceptFails(a)
    \/ \E f \in FeedbackCall :
         \/ CheckFeedback(f) \/ FeedbackStep(f)
         \/ FeedbackFails(f) \/ Timeout(f)
    \/ Crash

Spec == Init /\ [][Next]_vars

\* Calls run on, the pool and the database serve whoever waits, and a
\* transaction that waits for the pool is timed out.
Fairness ==
    /\ \A a \in AcceptCall : WF_vars(AcceptStep(a))
    /\ \A f \in FeedbackCall : WF_vars(FeedbackStep(f)) /\ WF_vars(Timeout(f))

FairSpec == Spec /\ Fairness

-----------------------------------------------------------------------------
(* Properties.                                                             *)

\* The shape of the state, and no more connections in use than there are.
TypeOK ==
    /\ caller \in [AcceptCall \cup FeedbackCall -> Person]
    /\ status \in {"PENDING", "ACCEPTED", "COMPLETED"}
    /\ volunteer \in Person \cup {None}
    /\ feedbacks \subseteq FeedbackCall
    /\ points \in [Person -> Nat]
    /\ acceptPc \in [AcceptCall -> {"idle", "checked", "writing", "telling",
                                    "done", "failed"}]
    /\ feedbackPc \in [FeedbackCall -> {"idle", "checked", "marking", "scoring",
                                        "telling", "commit", "late", "done",
                                        "failed"}]
    /\ other \in [FeedbackCall -> Person \cup {None}]
    /\ sawCompleted \in [FeedbackCall -> BOOLEAN]
    /\ accepted \subseteq AcceptCall
    /\ raced \in BOOLEAN
    /\ doubled \subseteq Person
    /\ faults \in 0..MaxFaults

\* If no accept call overlaps another call, one person is told that the request
\* is theirs: a single call writes it, and its caller stays the volunteer.
OneVolunteerAlone ==
    ~raced => \A a \in accepted : volunteer = caller[a] /\ accepted = {a}

\* Under the same condition a request is completed exactly when a feedback for
\* it is stored, whatever was rolled back, timed out or killed on the way.
CompletedByFeedback ==
    /\ status = "COMPLETED" => feedbacks # {}
    /\ ~raced /\ feedbacks # {} => status = "COMPLETED"

\* The duplicate check lets one feedback per person through unless two calls of
\* that person were between check and commit at the same time.
OneFeedbackAlone ==
    \A p \in Person \ doubled :
        \A f, g \in feedbacks : caller[f] = p /\ caller[g] = p => f = g

\* Points are earned with feedback, all or nothing: one for each feedback a
\* volunteer has stored, none for the seeker's, none for what was rolled back.
PointPerFeedback ==
    \A p \in Person :
        points[p] = IF p = Seeker THEN 0
                    ELSE Cardinality({f \in feedbacks : caller[f] = p})

\* Every call that got past its checks ends, even with as many transactions
\* open as the pool has connections: the timeout breaks the circle.
CallsEnd ==
    /\ \A a \in AcceptCall : Accepting(a) ~> acceptPc[a] \in {"done", "failed"}
    /\ \A f \in FeedbackCall : Commenting(f) ~> feedbackPc[f] \in {"done", "failed"}

-----------------------------------------------------------------------------
(* Claims of the repository that the code does not keep.                   *)

\* request.service.ts:586 "Status check (Only PENDING can be accepted)".
OnlyPendingAccepted ==
    [][accepted' # accepted => status = "PENDING"]_vars
=============================================================================
