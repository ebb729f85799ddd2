------------------------------ MODULE Services ------------------------------
(***************************************************************************)
(* The services around the wallet, the wills and the requests, composed:   *)
(* appointments, chat, the message gateway, notifications, bequests, the   *)
(* lists and payout accounts, for any number of users and requests.  Each  *)
(* has the columns it reads and writes; what others do to them (the edit   *)
(* of a will, a login's device token, the removal of an agent) is an       *)
(* action of its own, so a step of the whole is a step of one of them.     *)
(* Payout is extended, the others are instantiated.                        *)
(***************************************************************************)
EXTENDS Payout, FiniteSets, Sequences

CONSTANTS
    Client, Agent, Booking, Edit, Report, assigned,    \* appointments
    Open, Post, Reading, Name,                         \* chat
    Caller, Socket, Username, Recording, MaxChunk,     \* gateway
    Device, Single, Request, Kind, Setting,            \* notifications
    Grant, Amendment, Beneficiary,                     \* bequests
    MaxRow, NewStatus, Limit, MaxAt                    \* lists

VARIABLES
    live, appointment, booking, change, report, seen, confirmedFor, overlap,
    moving,
    conversation, opening, message, sending, lastRead, reading, erasing,
    files, chatCrossed, slipped, chatClash, chatFaults, chatHit,
    socket, clients, activeUsers, recorded, ended, flight, chunks, writing, file,
    joined, replaced, carried, torn, gatewayFaults,
    token, holder, dead, event, call, notice, push, settings, noticeCrossed,
    latest, handed, raced, swept, wanted, pushed, noticeFaults, noticeLost,
    beneficiaries, bequest, request, disk, former, stripped, given, overrun,
    bequestClash, refused, bequestFaults,
    table, listed, walk, always, disturbed

appointmentsVars == <<live, appointment, booking, change, report, seen,
    confirmedFor, overlap, moving>>
chatsVars == <<conversation, opening, message, sending, lastRead, reading,
    erasing, files, chatCrossed, slipped, chatClash, chatFaults, chatHit>>
gatewayVars == <<socket, clients, activeUsers, recorded, ended, flight,
    chunks, writing, file, joined, replaced, carried, torn, gatewayFaults>>
noticesVars == <<token, holder, dead, event, call, notice, push, settings,
    noticeCrossed, latest, handed, raced, swept, wanted, pushed, noticeFaults,
    noticeLost>>
bequestsVars == <<beneficiaries, bequest, request, disk, former, stripped,
    given, overrun, bequestClash, refused, bequestFaults>>
listsVars == <<table, listed, walk, always, disturbed>>

\* What the proofs assume of the parameters: a client has one agent or none;
\* Nobody and the ids of rows of different kinds are apart; what the metrics
\* count is finite.
ASSUME ServicesAssumption ==
    /\ assigned \in [Client -> Agent \cup {Nobody}]
    /\ IsFiniteSet(Booking)
    /\ Grant \cap Amendment = {}
    /\ Nobody \notin User \cup Setup \cup Device \cup Kind \cup Open \cup Socket
                      \cup Beneficiary \cup Grant
    /\ MaxChunk \in Nat /\ MaxFaults \in Nat
    /\ MaxRow \in Nat /\ Limit \in Nat \ {0} /\ MaxAt \in Nat

Appointments == INSTANCE Appointment WITH Change <- Edit
Chats == INSTANCE Chat WITH
    Person <- User, Send <- Post, Nothing <- Nobody,
    crossed <- chatCrossed, clash <- chatClash, faults <- chatFaults, hit <- chatHit
Sockets == INSTANCE Gateway WITH
    User <- Caller, faults <- gatewayFaults
Notices == INSTANCE Notice WITH
    crossed <- noticeCrossed, faults <- noticeFaults, lost <- noticeLost
Bequests == INSTANCE Bequest WITH
    Create <- Grant, Change <- Amendment, Nothing <- Nobody,
    clash <- bequestClash, faults <- bequestFaults
Pages == INSTANCE Listing WITH
    Person <- User, NoFilter <- Nobody, row <- listed

services == <<appointmentsVars, chatsVars, gatewayVars, noticesVars, bequestsVars,
              listsVars, vars>>

ServicesInit ==
    /\ Appointments!Init /\ Chats!Init /\ Sockets!Init /\ Notices!Init
    /\ Bequests!Init /\ Pages!Init /\ Init

\* One component moves and the others stand still.
MoveAppointment ==
    /\ Appointments!Next
    /\ UNCHANGED <<chatsVars, gatewayVars, noticesVars, bequestsVars,
                   listsVars, vars>>

MoveChat ==
    /\ Chats!Next
    /\ UNCHANGED <<appointmentsVars, gatewayVars, noticesVars, bequestsVars,
                   listsVars, vars>>

MoveGateway ==
    /\ Sockets!Next
    /\ UNCHANGED <<appointmentsVars, chatsVars, noticesVars, bequestsVars,
                   listsVars, vars>>

MoveNotice ==
    /\ Notices!Next
    /\ UNCHANGED <<appointmentsVars, chatsVars, gatewayVars, bequestsVars,
                   listsVars, vars>>

MoveBequest ==
    /\ Bequests!Next
    /\ UNCHANGED <<appointmentsVars, chatsVars, gatewayVars, noticesVars,
                   listsVars, vars>>

MoveList ==
    /\ Pages!Next
    /\ UNCHANGED <<appointmentsVars, chatsVars, gatewayVars, noticesVars,
                   bequestsVars, vars>>

MovePayout ==
    /\ Next
    /\ UNCHANGED <<appointmentsVars, chatsVars, gatewayVars, noticesVars,
                   bequestsVars, listsVars>>

ServicesNext ==
    \/ MoveAppointment
    \/ MoveChat
    \/ MoveGateway
    \/ MoveNotice
    \/ MoveBequest
    \/ MoveList
    \/ MovePayout

ServicesSpec == ServicesInit /\ [][ServicesNext]_services
-----------------------------------------------------------------------------
(* Properties, besides PayoutsAreSound, which is Payout's own.             *)

\* The state of every component keeps its shape.
ServicesTypeOK ==
    /\ Appointments!TypeOK /\ Chats!TypeOK /\ Sockets!TypeOK
    /\ Notices!TypeOK /\ Bequests!TypeOK /\ Pages!TypeOK /\ TypeOK

\* Appointments: what is confirmed, of whom, and how it is counted.
AppointmentsAreSound == Appointments!AppointmentsAreSound

\* Chat: one conversation, nothing failed, unread or unopened in it.
ChatIsSound == Chats!ChatIsSound

\* Gateway: who is reached, whom a call rings, what is recorded.
GatewayIsSound == Sockets!GatewayIsSound

\* Notifications: kinds, devices, receivers and settings.
NoticesAreSound == Notices!NoticesAreSound

\* Bequests: their beneficiaries, attachments and files.
BequestsAreSound == Bequests!BequestsAreSound

\* Lists: who turns the pages sees every row, once, and as many as the total.
ListsAreSound == Pages!ListsAreSound
=============================================================================
