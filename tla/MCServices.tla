----------------------------- MODULE MCServices -----------------------------
(***************************************************************************)
(* The services on small instances, with the codes that expire beside      *)
(* them.  They have no variable in common, so one run explores them side   *)
(* by side: the initial state chooses the part that moves, and every other *)
(* component stands still.  A component that needs several instances to    *)
(* meet all of its cases has several parts, and a part says which of the   *)
(* component's requests it leaves alone.                                   *)
(***************************************************************************)
EXTENDS Services, TLC

CONSTANTS
    c1, c2, g1, x2, r1, r2, b2, u1, u2, m2, n2, e1, e2, e3, i1, v1, v2

VARIABLE part    \* the part that moves

VARIABLES
    email, verified, code, issue, use, mail, proven, left, unproven, resets,
    reused, racing, codesCrossed, late, interrupted, codesFaults

codesVars == <<email, verified, code, issue, use, mail, proven, left, unproven,
    resets, reused, racing, codesCrossed, late, interrupted, codesFaults>>

MCAssigned == (c1 :> g1)

Codes == INSTANCE Verification WITH
    User <- {u1, u2}, Email <- {e1, e2, e3}, Home <- (u1 :> e1 @@ u2 :> e2),
    Issue <- {i1}, Use <- {v1, v2}, MaxFaults <- 1,
    crossed <- codesCrossed, faults <- codesFaults

MCInit ==
    /\ part \in {"bookings", "metrics", "messages", "receipts", "attachments", "sockets",
                 "pushes", "announcements", "settings", "bequests", "uploads",
                 "payouts", "appointmentList", "requestList", "messageList", "codes"}
    /\ ServicesInit
    /\ table = CASE part = "requestList" -> "requests"
                 [] part = "messageList" -> "messages"
                 [] OTHER -> "appointments"
    /\ Codes!Init

\* Requests a part leaves alone do not begin.
Quiet(f, xs) == \A x \in xs : f'[x].pc = "idle"

AppointmentsMove ==
    /\ part \in {"bookings", "metrics"} /\ MoveAppointment
    /\ part = "bookings" => Quiet(booking, {b2}) /\ Quiet(report, {r1})
    /\ part = "metrics" =>
         /\ Quiet(change, {x2})
         /\ \A b \in Booking : appointment'[b].slot #
                                IF b = b2 THEN "before" ELSE "lastWeek"

ChatMoves ==
    /\ part \in {"messages", "receipts", "attachments"} /\ MoveChat
    /\ \A m \in Post : sending'[m].file # n2
    /\ part = "messages" => Quiet(sending, {m2}) /\ Quiet(reading, {r2})
    /\ part = "receipts" => Quiet(opening, {c2}) /\ Quiet(sending, {m2})
    /\ part = "attachments" => Quiet(opening, {c2}) /\ Quiet(reading, {r1, r2})

NoticesMove ==
    /\ part \in {"pushes", "announcements", "settings"} /\ MoveNotice
    /\ Quiet(call, IF part = "announcements" THEN Single ELSE {r1} \X User)
    /\ IF part = "settings" THEN holder' = holder /\ dead' = dead
       ELSE settings' = settings

BequestsMove ==
    /\ part \in {"bequests", "uploads"} /\ MoveBequest
    /\ part = "bequests" => /\ \A u \in Grant \cup Amendment : request'[u].file # n2
                            /\ bequestFaults' = 0
    /\ part = "uploads" => Quiet(request, {x2})

\* Only the list of messages has a third row and instant, and only that of
\* requests a second user.  Nothing is later than instant 2 of the others,
\* and CANCELLED is the one status to filter by.
ListsMove ==
    /\ part \in {"appointmentList", "requestList", "messageList"} /\ MoveList
    /\ part # "messageList" =>
         /\ listed'[3].state = "none" /\ walk'.query.after < 2
         /\ walk'.query.status # "PENDING"
         /\ \A r \in {1, 2} : listed'[r].at # 3
    /\ part # "requestList" =>
         /\ walk'.query.viewer # u2
         /\ \A r \in 1..3 : u2 \notin {listed'[r].owner, listed'[r].other}

\* No address is updated without a code here; Account's run has that.
CodesMove ==
    /\ part = "codes" /\ Codes!Next /\ unproven' = {}
    /\ UNCHANGED services

MCNext ==
    /\ UNCHANGED part
    /\ \/ /\ \/ AppointmentsMove
             \/ ChatMoves
             \/ part = "sockets" /\ MoveGateway
             \/ NoticesMove
             \/ BequestsMove
             \/ ListsMove
             \/ part = "payouts" /\ MovePayout
          /\ UNCHANGED codesVars
       \/ CodesMove

mcVars == <<part, services, codesVars>>

\* Calls and requests that have started go on, as in Notice and Verification.
MCFairness ==
    /\ \A n \in {r1} \X {u1, u2} :
         WF_noticesVars(part = "announcements" /\ Notices!Progress(n))
    /\ \A i \in {i1} :
         /\ WF_codesVars(part = "codes" /\ Codes!IssueStep(i))
         /\ WF_codesVars(part = "codes" /\ Codes!Send(i))
    /\ \A v \in {v1, v2} :
         WF_codesVars(part = "codes" /\ Codes!UseStep(v))

MCSpec == MCInit /\ [][MCNext]_mcVars /\ MCFairness
-----------------------------------------------------------------------------
\* Notifications: once one user has been told of a request every user is.
AllAreTold == part = "announcements" => Notices!AllAreTold

\* Codes: a code in the table is mailed, a request that presents one answered.
CodesGoOn == part = "codes" => Codes!CodesGoOn
=============================================================================
