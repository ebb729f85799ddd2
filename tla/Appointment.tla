---------------------------- MODULE Appointment ----------------------------
(***************************************************************************)
(* Appointments between a client and the agent assigned to the client: the *)
(* booking, the agent's changes of status and of time, the agent's metrics *)
(* and the removal of an agent's account.                                  *)
(*                                                                         *)
(* Each handler reads the row, gives up the processor and then writes      *)
(* without a condition.  The seven queries of the metrics run side by side *)
(* on the connection pool, each on its own snapshot.  No handler here has  *)
(* two writes, so a crash is a handler that never goes on.                 *)
(***************************************************************************)
EXTENDS Naturals, FiniteSets

CONSTANTS
    Client,      \* users of type client
    Agent,       \* users of type agent
    Booking,     \* booking requests; each is the id of the row it creates
    Change,      \* requests of agents to change an appointment
    Report,      \* requests for an agent's metrics
    assigned,    \* users.assigned_agent_id: written once, at registration,
                 \* a column without a foreign key
    Nobody       \* no agent, no client

VARIABLES
    live,        \* agents whose account exists
    appointment, \* the rows, NoRow where there is none
    booking,     \* AppointmentsController.clientBook
    change,      \* AppointmentsService.updateStatus and reschedule
    report       \* AppointmentsService.getAgentMetrics

VARIABLES        \* history: never read by the system's actions
    seen,        \* the time a change found on the appointment it checked
    confirmedFor, \* the time the agent saw who last set an appointment's status
    overlap,     \* appointments two of whose changes ran at the same time
    moving       \* reports during which an appointment was written

vars == <<live, appointment, booking, change, report, seen, confirmedFor,
          overlap, moving>>

Status == {"PENDING", "CONFIRMED", "COMPLETED", "CANCELLED"}

\* scheduledAt, as far as the metrics tell times apart, seen from the moment
\* they are asked for.  No DTO bounds it: "before" is older than last week.
Slot == {"before", "lastWeek", "today", "later"}

NoRow == [client |-> Nobody, agent |-> Nobody, status |-> "none",
          zoomLink |-> FALSE, slot |-> "none"]

Row == [client : Client, agent : Agent, status : Status, zoomLink : BOOLEAN,
        slot : Slot]

IdleChange == [pc |-> "idle", kind |-> "none", of |-> Nobody, agent |-> Nobody,
               status |-> "none", zoomLink |-> FALSE, slot |-> "none"]

Query == {"thisWeek", "lastWeek", "pending", "today", "confirmedWeek"}

IdleReport == [pc |-> "idle", agent |-> Nobody, due |-> {},
               count |-> [q \in Query |-> 0]]

Init ==
    /\ live = Agent
    /\ appointment = [b \in Booking |-> NoRow]
    /\ booking = [b \in Booking |-> [pc |-> "idle", client |-> Nobody,
                                     agent |-> Nobody]]
    /\ change = [x \in Change |-> IdleChange]
    /\ report = [m \in Report |-> IdleReport]
    /\ seen = [x \in Change |-> "none"]
    /\ confirmedFor = [b \in Booking |-> "none"]
    /\ overlap = {}
    /\ moving = {}

Present(b) == appointment[b] # NoRow

\* A write to the rows: every report that is being computed is disturbed.
Disturb == moving' = moving \cup {m \in Report : report[m].pc = "counting"}

-----------------------------------------------------------------------------
(* Booking.                                                                *)

\* clientBook reads assigned_agent_id and refuses a client without one.
ReadAgent(b, c) ==
    /\ booking[b].pc = "idle"
    /\ assigned[c] # Nobody
    /\ booking' = [booking EXCEPT ![b] =
                     [pc |-> "assigned", client |-> c, agent |-> assigned[c]]]
    /\ UNCHANGED <<live, appointment, change, report, seen, confirmedFor,
                   overlap, moving>>

CreateUnchecked(b, s) ==                  \* mutant: no foreign key
    /\ booking[b].pc = "assigned"
    /\ booking' = [booking EXCEPT ![b].pc = "done"]
    /\ appointment' = [appointment EXCEPT ![b] =
         [client |-> booking[b].client, agent |-> booking[b].agent,
          status |-> "PENDING", zoomLink |-> FALSE, slot |-> s]]
    /\ Disturb
    /\ UNCHANGED <<live, change, report, seen, confirmedFor, overlap>>

\* create inserts the row; the foreign key refuses an agent that has gone.
Create(b, s) ==
    /\ booking[b].pc = "assigned"
    /\ booking' = [booking EXCEPT ![b].pc = "done"]
    /\ IF booking[b].agent \in live
       THEN /\ appointment' = [appointment EXCEPT ![b] =
                 [client |-> booking[b].client, agent |-> booking[b].agent,
                  status |-> "PENDING", zoomLink |-> FALSE, slot |-> s]]
            /\ Disturb
       ELSE UNCHANGED <<appointment, moving>>
    /\ UNCHANGED <<live, change, report, seen, confirmedFor,
                   overlap>>

-----------------------------------------------------------------------------
(* The agent's changes.                                                    *)

Overlapping(b) == \E y \in Change : change[y].pc = "checked" /\ change[y].of = b

\* The row is read and the guards are evaluated on that copy of it.
Check(x, b, request) ==
    /\ change[x].pc = "idle"
    /\ Present(b)
    /\ change' = [change EXCEPT ![x] = request]
    /\ seen' = [seen EXCEPT ![x] = appointment[b].slot]
    /\ overlap' = IF Overlapping(b) THEN overlap \cup {b} ELSE overlap
    /\ UNCHANGED <<live, appointment, booking, report, confirmedFor, moving>>

LinkUnasked(s, z) == TRUE                 \* mutant: no link is asked for
LinkGiven(s, z) == s = "CONFIRMED" => z

CheckStatus(x, b, s, z) ==
    /\ LinkGiven(s, z)
    /\ Check(x, b, [pc |-> "checked", kind |-> "status", of |-> b,
                    agent |-> appointment[b].agent, status |-> s,
                    zoomLink |-> z, slot |-> "none"])

CheckReschedule(x, b, s) ==
    Check(x, b, [pc |-> "checked", kind |-> "reschedule", of |-> b,
                 agent |-> appointment[b].agent, status |-> "PENDING",
                 zoomLink |-> FALSE, slot |-> s])

\* One update by id, which throws when the row has gone meanwhile.
Write(x, row) ==
    /\ change[x].pc = "checked"
    /\ change' = [change EXCEPT ![x].pc = "done"]
    /\ IF Present(change[x].of)
       THEN appointment' = [appointment EXCEPT ![change[x].of] = row] /\ Disturb
       ELSE UNCHANGED <<appointment, moving>>
    /\ confirmedFor' = [confirmedFor EXCEPT ![change[x].of] = seen[x]]
    /\ UNCHANGED <<live, booking, report, seen, overlap>>

\* The status is written whatever it is now; a link that is not given is
\* undefined and leaves the stored one.
WriteStatus(x) ==
    /\ change[x].kind = "status"
    /\ Write(x, [appointment[change[x].of] EXCEPT !.status = change[x].status,
                                                  !.zoomLink = @ \/ change[x].zoomLink])

MoveOnly(x) ==                            \* mutant: the status stays
    /\ change[x].kind = "reschedule"
    /\ Write(x, [appointment[change[x].of] EXCEPT !.slot = change[x].slot])

WriteReschedule(x) ==
    /\ change[x].kind = "reschedule"
    /\ Write(x, [appointment[change[x].of] EXCEPT !.slot = change[x].slot,
                                                  !.status = "PENDING"])

-----------------------------------------------------------------------------
(* Removing an agent's account: the appointments go with it (cascade), the *)
(* assigned_agent_id of the clients stays.                                 *)

RemoveAgent(g) ==
    /\ g \in live
    /\ live' = live \ {g}
    /\ appointment' = [b \in Booking |-> IF appointment[b].agent = g THEN NoRow
                                         ELSE appointment[b]]
    /\ Disturb
    /\ UNCHANGED <<booking, change, report, seen, confirmedFor,
                   overlap>>

-----------------------------------------------------------------------------
(* getAgentMetrics: independent queries, in any order.                     *)

StartReport(m, g) ==
    /\ report[m].pc = "idle"
    /\ report' = [report EXCEPT ![m] = [@ EXCEPT !.pc = "counting", !.agent = g,
                                                 !.due = Query]]
    /\ UNCHANGED <<live, appointment, booking, change, seen, confirmedFor,
                   overlap, moving>>

CountedLate(q, row) ==                    \* mutant: this week without today
    CASE q = "thisWeek" -> row.slot = "later"
      [] q = "lastWeek" -> row.slot = "lastWeek"
      [] q = "pending" -> row.status = "PENDING"
      [] q = "today" -> row.slot = "today"
      [] q = "confirmedWeek" -> row.slot = "today" /\ row.status = "CONFIRMED"

\* The where clause of each query; "this week" has no upper end.
Counted(q, row) ==
    CASE q = "thisWeek" -> row.slot \in {"today", "later"}
      [] q = "lastWeek" -> row.slot = "lastWeek"
      [] q = "pending" -> row.status = "PENDING"
      [] q = "today" -> row.slot = "today"
      [] q = "confirmedWeek" -> /\ row.slot \in {"today", "later"}
                                /\ row.status = "CONFIRMED"

Matches(q, g) ==
    {b \in Booking : appointment[b].agent = g /\ Counted(q, appointment[b])}

Count(m, q) ==
    /\ q \in report[m].due
    /\ report' = [report EXCEPT ![m].due = @ \ {q},
                    ![m].count[q] = Cardinality(Matches(q, report[m].agent)),
                    ![m].pc = IF report[m].due = {q} THEN "answered" ELSE @]
    /\ UNCHANGED <<live, appointment, booking, change, seen, confirmedFor,
                   overlap, moving>>

-----------------------------------------------------------------------------
Next ==
    \/ \E b \in Booking, c \in Client : ReadAgent(b, c)
    \/ \E b \in Booking, s \in Slot : Create(b, s)
    \/ \E x \in Change, b \in Booking :
         \/ \E s \in Status, z \in BOOLEAN : CheckStatus(x, b, s, z)
         \/ \E s \in Slot : CheckReschedule(x, b, s)
    \/ \E x \in Change : WriteStatus(x) \/ WriteReschedule(x)
    \/ \E g \in Agent : RemoveAgent(g)
    \/ \E m \in Report, g \in Agent : StartReport(m, g)
    \/ \E m \in Report, q \in Query : Count(m, q)

Spec == Init /\ [][Next]_vars
-----------------------------------------------------------------------------
(* Properties.                                                             *)

\* The shape of the state.
TypeOK ==
    /\ live \subseteq Agent
    /\ appointment \in [Booking -> Row \cup {NoRow}]
    /\ booking \in [Booking -> [pc : {"idle", "assigned", "done"},
                                client : Client \cup {Nobody},
                                agent : Agent \cup {Nobody}]]
    /\ change \in [Change ->
         [pc : {"idle", "checked", "done"},
          kind : {"none", "status", "reschedule"}, of : Booking \cup {Nobody},
          agent : Agent \cup {Nobody}, status : Status \cup {"none"},
          zoomLink : BOOLEAN, slot : Slot \cup {"none"}]]
    /\ report \in [Report -> [pc : {"idle", "counting", "answered"},
                              agent : Agent \cup {Nobody}, due : SUBSET Query,
                              count : [Query -> Nat]]]
    /\ seen \in [Change -> Slot \cup {"none"}]
    /\ confirmedFor \in [Booking -> Slot \cup {"none"}]
    /\ overlap \subseteq Booking
    /\ moving \subseteq Report

\* A confirmed appointment can be attended: its row holds a zoom link, after
\* any number of confirmations, cancellations and reschedulings, however the
\* unconditional updates of updateStatus and reschedule interleave.
ConfirmedHasLink ==
    \A b \in Booking : appointment[b].status = "CONFIRMED" =>
                         appointment[b].zoomLink

\* What is confirmed is the time the agent had before him: the time of a
\* confirmed appointment is the one its confirmation read, unless two changes
\* of the appointment were between their check and their write together (a
\* confirmation of the old time then lands on the new one).
ConfirmedAsSeen ==
    \A b \in Booking \ overlap :
        appointment[b].status = "CONFIRMED" =>
            appointment[b].slot = confirmedFor[b]

\* The numbers of getAgentMetrics agree with each other when no appointment
\* was written while the seven queries ran: today's and the week's confirmed
\* ones are among this week's.  Those that wait for approval need not be: they
\* are counted whatever their time.
MetricsAgreeAlone ==
    \A m \in Report \ moving :
        report[m].pc = "answered" =>
            /\ report[m].count["today"] <= report[m].count["thisWeek"]
            /\ report[m].count["confirmedWeek"] <= report[m].count["thisWeek"]

\* No row of a removed agent is left behind: a booking or a change that read
\* the agent before the account was removed adds or revives no appointment.
NoOrphan == \A b \in Booking : Present(b) => appointment[b].agent \in live

\* A confirmed appointment is the one its agent saw and can be attended, none
\* outlives its agent, and the numbers of a report agree.
AppointmentsAreSound ==
    /\ ConfirmedHasLink
    /\ ConfirmedAsSeen
    /\ NoOrphan
    /\ MetricsAgreeAlone
=============================================================================
