------------------------------- MODULE Notice -------------------------------
(***************************************************************************)
(* Notifications: the rows NotificationRepository creates, the pushes it   *)
(* sends to the device a user last logged in on, and the list and settings *)
(* of the notification endpoints.  A push is a background task: nobody     *)
(* awaits it.  A new request announces itself to every client by calls     *)
(* nobody awaits either, so one that throws ends the process.              *)
(***************************************************************************)
EXTENDS Naturals

CONSTANTS
    User,        \* users
    Device,      \* devices, each with the push token of its installation
    Single,      \* calls of createNotification their caller awaits
    Request,     \* new help requests, each announced to every user
    Kind,        \* type and text of a notification
    Setting,     \* values of the settings of a user
    Nobody,      \* no user, no device, no kind, no call, no settings
    MaxFaults    \* bound on failures of the database or the process

Call == Single \cup (Request \X User)

VARIABLES
    token,       \* user.fcm_token
    holder,      \* external: who uses each device
    dead,        \* external: devices the push service no longer knows
    event,       \* rows of notification_event, by the call that created them
    call,        \* progress of each createNotification
    notice,      \* rows of table notification: none, live or deleted
    push,        \* progress of each sendFCM
    settings     \* the row that holds a user's settings

VARIABLES        \* history: never read by the system's actions
    crossed,     \* kinds two calls found missing together
    latest,      \* the device each user last logged in on
    handed,      \* devices a second user has logged in on
    raced,       \* users who logged in while a push to them was under way
    swept,       \* users whose settings someone's removeAll has deleted
    wanted,      \* the settings each user last sent
    pushed,      \* who used the device a push was shown on
    faults, lost \* number of faults; calls and pushes a fault ended

vars == <<token, holder, dead, event, call, notice, push, settings, crossed,
          latest, handed, raced, swept, wanted, pushed, faults, lost>>

devices == <<token, holder, dead, latest, handed, raced>>
rows == <<event, call, notice, crossed>>
chosen == <<settings, swept, wanted>>

Idle == [pc |-> "idle", receiver |-> Nobody, kind |-> Nobody, event |-> Nobody]
NoPush == [pc |-> "none", token |-> Nobody]

Init ==
    /\ token = [u \in User |-> Nobody]
    /\ holder = [d \in Device |-> Nobody]
    /\ latest = [u \in User |-> Nobody]
    /\ event = [n \in Call |-> Nobody]
    /\ call = [n \in Call |-> Idle]
    /\ notice = [n \in Call |-> "none"]
    /\ push = [n \in Call |-> NoPush]
    /\ settings = [u \in User |-> Nobody]
    /\ wanted = [u \in User |-> Nobody]
    /\ pushed = [n \in Call |-> Nobody]
    /\ dead = {} /\ crossed = {} /\ handed = {} /\ raced = {} /\ swept = {} /\ lost = {}
    /\ faults = 0

Fault(ns) ==
    /\ faults < MaxFaults
    /\ faults' = faults + 1
    /\ lost' = lost \cup ns

-----------------------------------------------------------------------------
(* Devices.                                                                *)

TokenToAll(u, d) == [v \in User |-> d]    \* mutant: no where clause
TokenTo(u, d) == [token EXCEPT ![u] = d]

\* AuthService.login stores the token it is sent.  Nothing takes it away from
\* the user who had it, and a logout leaves it too.
Login(u, d) ==
    /\ d \notin dead /\ holder[d] # u
    /\ token' = TokenTo(u, d)
    /\ latest' = [latest EXCEPT ![u] = d]
    /\ holder' = [holder EXCEPT ![d] = u]
    /\ handed' = IF holder[d] = Nobody THEN handed ELSE handed \cup {d}
    /\ raced' = IF \E n \in Call : /\ call[n].receiver = u
                                   /\ push[n].pc \in {"sending", "failed"}
                THEN raced \cup {u} ELSE raced
    /\ UNCHANGED <<dead, rows, push, chosen, pushed, faults, lost>>

\* External: the application is removed from a device.
Uninstall(d) ==
    /\ d \notin dead
    /\ dead' = dead \cup {d}
    /\ UNCHANGED <<token, holder, latest, handed, raced, rows, push, chosen, pushed, faults, lost>>

-----------------------------------------------------------------------------
(* createNotification.                                                     *)

Start(n, u, k) == [Idle EXCEPT !.pc = "open", !.receiver = u, !.kind = k]

Notify(n, u, k) ==
    /\ call[n].pc = "idle"
    /\ call' = [call EXCEPT ![n] = Start(n, u, k)]
    /\ UNCHANGED <<devices, event, notice, crossed, push, chosen, pushed, faults, lost>>

\* createRequest: the calls are made together and their promises dropped.
AnnounceToOne(r, k) ==                    \* mutant: the first client only
    /\ \A u \in User : call[<<r, u>>].pc = "idle"
    /\ call' = [n \in Call |-> IF n \in {r} \X {CHOOSE u \in User : TRUE}
                               THEN Start(n, n[2], k)
                               ELSE IF n \in {r} \X User
                                    THEN [Idle EXCEPT !.pc = "done"] ELSE call[n]]
    /\ UNCHANGED <<devices, event, notice, crossed, push, chosen, pushed, faults, lost>>

Announce(r, k) ==
    /\ \A u \in User : call[<<r, u>>].pc = "idle"
    /\ call' = [n \in Call |-> IF n \in {r} \X User THEN Start(n, n[2], k) ELSE call[n]]
    /\ UNCHANGED <<devices, event, notice, crossed, push, chosen, pushed, faults, lost>>

NoEvent(k) == {}                          \* mutant: no look-up
EventsOf(k) == {m \in Call : event[m] = k}

\* findFirst, with no order: any row of the kind.
FindEvent(n) ==
    LET k == call[n].kind IN
    /\ call[n].pc = "open"
    /\ \/ \E m \in EventsOf(k) :
            /\ call' = [call EXCEPT ![n].pc = "found", ![n].event = m]
            /\ UNCHANGED crossed
       \/ /\ EventsOf(k) = {}
          /\ call' = [call EXCEPT ![n].pc = "missing"]
          /\ crossed' = IF \E m \in Call : call[m].pc = "missing" /\ call[m].kind = k
                        THEN crossed \cup {k} ELSE crossed
    /\ UNCHANGED <<devices, event, notice, push, chosen, pushed, faults, lost>>

CreateEvent(n) ==
    /\ call[n].pc = "missing"
    /\ call' = [call EXCEPT ![n].pc = "found", ![n].event = n]
    /\ event' = [event EXCEPT ![n] = call[n].kind]
    /\ UNCHANGED <<devices, notice, crossed, push, chosen, pushed, faults, lost>>

\* The row is created, the push is started and the caller is answered.
SaveNotification(n) ==
    /\ call[n].pc = "found"
    /\ call' = [call EXCEPT ![n].pc = "done"]
    /\ notice' = [notice EXCEPT ![n] = "live"]
    /\ push' = [push EXCEPT ![n].pc = "started"]
    /\ UNCHANGED <<devices, event, crossed, chosen, pushed, faults, lost>>

\* A statement fails and the call throws: an awaited one to its caller.
NotifyFails(n) ==
    /\ n \in Single /\ call[n].pc \in {"open", "missing", "found"}
    /\ Fault({n})
    /\ call' = [call EXCEPT ![n].pc = "done"]
    /\ UNCHANGED <<devices, event, notice, crossed, push, chosen, pushed>>

\* The process ends: by itself, or because a call nobody awaits has thrown.
Running(n) == call[n].pc \in {"open", "missing", "found"}
                  \/ push[n].pc \notin {"none", "ended"}
Crash ==
    /\ Fault({n \in Call : Running(n)})
    /\ call' = [n \in Call |-> IF Running(n) THEN [call[n] EXCEPT !.pc = "done"] ELSE call[n]]
    /\ push' = [n \in Call |-> IF Running(n) THEN [push[n] EXCEPT !.pc = "ended"]
                               ELSE push[n]]
    /\ UNCHANGED <<devices, event, notice, crossed, chosen, pushed>>

-----------------------------------------------------------------------------
(* sendFCM.                                                                *)

ReadToken(n) ==
    /\ push[n].pc = "started"
    /\ push' = [push EXCEPT ![n] = IF token[call[n].receiver] = Nobody
                                   THEN [pc |-> "ended", token |-> Nobody]
                                   ELSE [pc |-> "sending", token |-> token[call[n].receiver]]]
    /\ UNCHANGED <<devices, rows, chosen, pushed, faults, lost>>

\* External: the push service shows the notification, or says that it does not
\* know the token, or fails in another way.
AnyError(d) == TRUE                       \* mutant: any error condemns the token
Condemned(d) == d \in dead

Send(n) ==
    LET d == push[n].token IN
    /\ push[n].pc = "sending" /\ d \notin dead
    /\ push' = [push EXCEPT ![n].pc = "ended"]
    /\ pushed' = [pushed EXCEPT ![n] = holder[d]]
    /\ UNCHANGED <<devices, rows, chosen, faults, lost>>

SendFails(n) ==
    LET d == push[n].token IN
    /\ push[n].pc = "sending"
    /\ push' = [push EXCEPT ![n].pc = IF Condemned(d) THEN "failed" ELSE "ended"]
    /\ UNCHANGED <<devices, rows, chosen, pushed, faults, lost>>

\* The token is removed by the user's id, whatever it is by now.
RemoveToken(n) ==
    /\ push[n].pc = "failed"
    /\ push' = [push EXCEPT ![n].pc = "ended"]
    /\ token' = [token EXCEPT ![call[n].receiver] = Nobody]
    /\ UNCHANGED <<holder, dead, latest, handed, raced, rows, chosen, pushed, faults, lost>>

-----------------------------------------------------------------------------
(* The notification endpoints.  A user's settings are a row of the same    *)
(* table whose id is the user's and whose receiver is nobody.              *)

KeepSettings(u, v) ==                     \* mutant: a row that is there is kept
    /\ settings' = [settings EXCEPT ![u] = IF @ = Nobody THEN v ELSE @]
    /\ wanted' = [wanted EXCEPT ![u] = v]
    /\ swept' = swept \ {u}
    /\ UNCHANGED <<devices, rows, push, pushed, faults, lost>>

UpdateSettings(u, v) ==
    /\ settings' = [settings EXCEPT ![u] = v]
    /\ wanted' = [wanted EXCEPT ![u] = v]
    /\ swept' = swept \ {u}
    /\ UNCHANGED <<devices, rows, push, pushed, faults, lost>>

Remove(n) ==
    /\ notice[n] = "live"
    /\ notice' = [notice EXCEPT ![n] = "deleted"]
    /\ UNCHANGED <<devices, event, call, crossed, push, chosen, pushed, faults, lost>>

Theirs(u, n) == call[n].receiver = u

\* removeAll deletes the user's rows and every row whose receiver is nobody:
\* the settings of all users.
RemoveAll(u) ==
    /\ \/ \E n \in Call : notice[n] = "live" /\ Theirs(u, n)
       \/ \E v \in User : settings[v] # Nobody
    /\ notice' = [n \in Call |-> IF notice[n] = "live" /\ Theirs(u, n) THEN "deleted"
                                 ELSE notice[n]]
    /\ settings' = [v \in User |-> Nobody]
    /\ swept' = swept \cup {v \in User : settings[v] # Nobody}
    /\ UNCHANGED <<devices, event, call, crossed, push, wanted, pushed, faults, lost>>

-----------------------------------------------------------------------------
Progress(n) ==
    \/ FindEvent(n) \/ CreateEvent(n) \/ SaveNotification(n)
    \/ ReadToken(n) \/ Send(n) \/ SendFails(n) \/ RemoveToken(n)

Next ==
    \/ \E u \in User, d \in Device : Login(u, d)
    \/ \E d \in Device : Uninstall(d)
    \/ \E n \in Single, u \in User, k \in Kind : Notify(n, u, k)
    \/ \E r \in Request, k \in Kind : Announce(r, k)
    \/ \E n \in Call : Progress(n) \/ NotifyFails(n) \/ Remove(n)
    \/ \E u \in User : \/ \E v \in Setting : UpdateSettings(u, v)
                       \/ RemoveAll(u)
    \/ Crash

Spec == Init /\ [][Next]_vars

\* A call that has started continues: the driver and the push service answer.
Fairness == \A n \in Call : WF_vars(Progress(n))
FairSpec == Spec /\ Fairness
-----------------------------------------------------------------------------
(* Properties.                                                             *)

\* The shape of the state.
TypeOK ==
    /\ token \in [User -> Device \cup {Nobody}]
    /\ latest \in [User -> Device \cup {Nobody}]
    /\ holder \in [Device -> User \cup {Nobody}] /\ dead \subseteq Device
    /\ event \in [Call -> Kind \cup {Nobody}]
    /\ call \in [Call -> [pc : {"idle", "open", "missing", "found", "done"},
                          receiver : User \cup {Nobody}, kind : Kind \cup {Nobody},
                          event : Call \cup {Nobody}]]
    /\ notice \in [Call -> {"none", "live", "deleted"}]
    /\ push \in [Call -> [pc : {"none", "started", "sending", "failed", "ended"},
                          token : Device \cup {Nobody}]]
    /\ settings \in [User -> Setting \cup {Nobody}]
    /\ wanted \in [User -> Setting \cup {Nobody}]
    /\ crossed \subseteq Kind /\ handed \subseteq Device
    /\ raced \subseteq User /\ swept \subseteq User
    /\ pushed \in [Call -> User \cup {Nobody}]
    /\ faults \in 0..MaxFaults /\ lost \subseteq Call

\* A kind of notification has one row, unless two calls looked for it before
\* either had created it, which the announcement of a request invites.
OneEventAlone ==
    \A k \in Kind \ crossed : \A m, n \in EventsOf(k) : m = n

\* The device a user last logged in on is where their pushes go for as long as
\* the push service knows it, unless they logged in while an earlier push to
\* them was under way: if it fails it removes the token by the user's id.
LatestTokenIsKeptAlone ==
    \A u \in User \ raced :
        latest[u] \notin dead => token[u] = latest[u]

\* A push is shown to the user it is for, unless a second user has logged in
\* on the device: the first one's token is never taken back.
ShownToItsReceiverAlone ==
    \A n \in Call :
        pushed[n] \in {call[n].receiver, Nobody} \/ \E d \in handed : push[n].token = d

\* The settings of a user are the last they sent, unless somebody, the user or
\* another, has since removed all of their notifications.
SettingsAreKeptAlone ==
    \A u \in User : settings[u] = IF u \in swept THEN Nobody ELSE wanted[u]

\* Once one user has been told of a new request every user is, unless the
\* process ended: nobody awaits the calls, and the answer to the author says
\* that all were told.
AllAreTold ==
    \A r \in Request : \A u, v \in User :
        notice[<<r, u>>] # "none" ~> notice[<<r, v>>] # "none" \/ <<r, v>> \in lost

\* One row for a kind, pushes to the latest device and to nobody else's, and
\* settings that stay.
NoticesAreSound ==
    /\ OneEventAlone
    /\ LatestTokenIsKeptAlone
    /\ ShownToItsReceiverAlone
    /\ SettingsAreKeptAlone
=============================================================================
