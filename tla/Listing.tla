------------------------------ MODULE Listing ------------------------------
(***************************************************************************)
(* The lists of appointments, help requests and messages, and a client who *)
(* reads one of them page by page while others change the table.  A page   *)
(* is a number of rows to skip, in the order the list has at that moment,  *)
(* and the total is counted by a statement of its own; nothing keeps the   *)
(* two, or two pages, on one state of the table.  The transaction around   *)
(* the messages' pair is READ COMMITTED and does not either.  A request or *)
(* a message has the time its insert started at, and shows once that is    *)
(* committed: of two, the later may be there first.                        *)
(***************************************************************************)
EXTENDS Naturals, FiniteSets, Sequences

CONSTANTS
    MaxRow,      \* rows of the table, numbered in the order of their creation
    Person,      \* users; of messages, conversations
    NewStatus,   \* the statuses an administrator can give an appointment
    NoFilter,    \* no filter
    Nobody,      \* no user
    Limit,       \* rows of a page
    MaxAt        \* instants are 1..MaxAt

Row == 1..MaxRow
Label == NewStatus \cup {"PENDING", "ACCEPTED", "COMPLETED", "SENT", NoFilter}
ListName == {"admin", "agent", "client", "available", "disasters", "completed",
             "mine", "messages"}

VARIABLES
    table,       \* "appointments", "requests" or "messages"
    row,         \* the table; at is scheduledAt, or when the insert of the row began
    walk         \* the client: what it asked for and what it was shown

VARIABLES        \* history: never read by the system's actions
    always,      \* rows the list has had ever since the client began to read
    disturbed    \* what has happened to the list since

vars == <<table, row, walk, always, disturbed>>

NoRow == [state |-> "none", owner |-> Nobody, other |-> Nobody, status |-> NoFilter, at |-> 0]
NoQuery == [list |-> NoFilter, viewer |-> Nobody, status |-> NoFilter, after |-> 0]
Idle == [pc |-> "idle", query |-> NoQuery, page |-> 0, total |-> 0, shown |-> <<>>,
         pending |-> {}, empty |-> FALSE]

Init ==
    /\ table \in {"appointments", "requests", "messages"}
    /\ row = [r \in Row |-> NoRow]
    /\ walk = Idle
    /\ always = {} /\ disturbed = {}

Live(r) == row[r].state = "live"
HasStatus(r, s) == s = NoFilter \/ row[r].status = s

-----------------------------------------------------------------------------
(* What each list shows to a viewer who may filter by status.              *)

FindAllForAdmin(q) == {r \in Row : /\ Live(r) /\ HasStatus(r, q.status)
                                   /\ q.viewer \in {Nobody, row[r].other}
                                   /\ row[r].at > q.after}
FindAllForAgent(q) == {r \in Row : Live(r) /\ row[r].other = q.viewer
                                   /\ HasStatus(r, q.status)}
FindAllForClient(q) == {r \in Row : Live(r) /\ row[r].owner = q.viewer
                                    /\ HasStatus(r, q.status)}

GetAvailableRequests(q) == {r \in Row : Live(r) /\ row[r].status = "PENDING"}

\* The same rows; a filter by category is left out.
GetAllDisasters(q) == {r \in Row : Live(r) /\ row[r].status = "PENDING"}

\* The list is called completed and holds what is ACCEPTED.
GetCompletedRequests(q) == {r \in Row : /\ Live(r) /\ row[r].status = "ACCEPTED"
                                        /\ q.viewer \in {row[r].owner, row[r].other}}

\* One page with everything.
GetMyRequests(q) == {r \in Row : Live(r) /\ row[r].owner = q.viewer}

\* Messages of the conversation q.viewer.
FindAllMessages(q) == {r \in Row : Live(r) /\ row[r].owner = q.viewer}

Lists ==
    CASE table = "appointments" -> {"admin", "agent", "client"}
      [] table = "requests" -> {"available", "disasters", "completed", "mine"}
      [] table = "messages" -> {"messages"}

Visible(q) ==
    CASE q.list = "admin" -> FindAllForAdmin(q)
      [] q.list = "agent" -> FindAllForAgent(q)
      [] q.list = "client" -> FindAllForClient(q)
      [] q.list = "available" -> GetAvailableRequests(q)
      [] q.list = "disasters" -> GetAllDisasters(q)
      [] q.list = "completed" -> GetCompletedRequests(q)
      [] q.list = "mine" -> GetMyRequests(q)
      [] q.list = "messages" -> FindAllMessages(q)
      [] OTHER -> {}

-----------------------------------------------------------------------------
(* What others do to the table.  History: how it changes the list read.    *)

Tied(S) == \E r, s \in S : r # s /\ row[r].at = row[s].at

Observe ==
    LET before == Visible(walk.query)
        after == Visible(walk.query)'
        what == (IF before \subseteq after THEN {} ELSE {"left"})
            \cup (IF after \subseteq before THEN {} ELSE {"entered"})
            \cup (IF \E r \in before \cap after : row'[r].at # row[r].at THEN {"moved"} ELSE {})
            \cup (IF Tied(Visible(walk.query))' THEN {"tied"} ELSE {})
            \cup (IF before # after /\ walk.pending # {} THEN {"between"} ELSE {})
            \cup (IF \E r \in after \ before, s \in before : row'[r].at < row[s].at
                 THEN {"late"} ELSE {})
    IN  /\ always' = always \cap after
        /\ disturbed' = IF walk.pc = "reading" THEN disturbed \cup what ELSE disturbed

\* The clock does not go back.
Now(k) == \A r \in Row : row[r].at <= k

Insert(r, v, p, q, s, k) ==
    /\ row[r].state = "none" /\ \A j \in 1..(r - 1) : row[j].state # "none"
    /\ row' = [row EXCEPT ![r] = [state |-> v, owner |-> p, other |-> q,
                                  status |-> s, at |-> k]]
    /\ UNCHANGED walk /\ Observe

\* The insert of a request or a message is committed, or never is.
Commit(r) ==
    /\ row[r].state = "pending"
    /\ row' = [row EXCEPT ![r].state = "live"]
    /\ UNCHANGED walk /\ Observe

\* Appointments are booked for any time, moved and relabelled, never deleted.
Book(r, p, q, k) == table = "appointments" /\ Insert(r, "live", p, q, "PENDING", k)
UpdateStatus(r, s) ==
    /\ table = "appointments" /\ Live(r)
    /\ row' = [row EXCEPT ![r].status = s]
    /\ UNCHANGED walk /\ Observe
Reschedule(r, k) ==
    /\ table = "appointments" /\ Live(r)
    /\ row' = [row EXCEPT ![r].at = k, ![r].status = "PENDING"]
    /\ UNCHANGED walk /\ Observe

\* Requests begin to be created now, are accepted by another, and completed.
CreateRequest(r, p, k) ==
    /\ table = "requests" /\ Now(k)
    /\ Insert(r, "pending", p, Nobody, "PENDING", k)
AcceptRequest(r, q) ==
    /\ table = "requests" /\ Live(r) /\ row[r].status = "PENDING" /\ q # row[r].owner
    /\ row' = [row EXCEPT ![r].status = "ACCEPTED", ![r].other = q]
    /\ UNCHANGED walk /\ Observe
CompleteRequest(r) ==
    /\ table = "requests" /\ Live(r) /\ row[r].status = "ACCEPTED"
    /\ row' = [row EXCEPT ![r].status = "COMPLETED"]
    /\ UNCHANGED walk /\ Observe

\* Messages begin to be stored now, and are deleted.
SendMessage(r, c, k) ==
    /\ table = "messages" /\ Now(k)
    /\ Insert(r, "pending", c, Nobody, "SENT", k)
DeleteMessage(r) ==
    /\ table = "messages" /\ Live(r)
    /\ row' = [row EXCEPT ![r].state = "deleted"]
    /\ UNCHANGED walk /\ Observe

-----------------------------------------------------------------------------
(* The client reads a list.                                                *)

\* Only the administrators' list has a range of time, and only appointments
\* have the filters.
Query(l, u, s, k) ==
    /\ l \in Lists
    /\ s # NoFilter => table = "appointments"
    /\ k > 0 => l = "admin"
    /\ u = Nobody => l \in {"admin", "available", "disasters"}

Begin(l, u, s, k) ==
    /\ walk.pc = "idle" /\ Query(l, u, s, k)
    /\ LET q == [list |-> l, viewer |-> u, status |-> s, after |-> k] IN
       /\ walk' = [Idle EXCEPT !.pc = "reading", !.query = q, !.page = 1,
                               !.pending = {"count", "find"}]
       /\ always' = Visible(q)
       /\ disturbed' = IF Tied(Visible(q)) THEN {"tied"} ELSE {}
    /\ UNCHANGED row

CountAll(q) == Cardinality({r \in Row : Live(r)})   \* mutant: no filter
\* A user's own requests come with the numbers of two statuses instead.
Total(q) == Cardinality({r \in Visible(q) : q.list = "mine" =>
                                              row[r].status \in {"PENDING", "ACCEPTED"}})

\* What the client is told: of messages, its page where the total belongs.
Told(q, p) == IF q.list = "messages" THEN p ELSE Total(q)

\* The statements of a page go out together; those of a transaction in order.
Count ==
    /\ walk.pc = "reading" /\ "count" \in walk.pending
    /\ walk' = [walk EXCEPT !.total = Told(walk.query, walk.page),
                              !.pending = @ \ {"count"}]
    /\ UNCHANGED <<row, always, disturbed>>

Ordered(a, b, q) == IF q.list = "messages" THEN row[a].at <= row[b].at
                    ELSE row[a].at >= row[b].at

SomeOrder(S, q) ==                        \* mutant: no orderBy
    {f \in [1..Cardinality(S) -> S] : \A i, j \in DOMAIN f : i < j => f[i] # f[j]}

\* The orders the database may return: rows of one instant in any.
Orders(S, q) ==
    {f \in [1..Cardinality(S) -> S] :
       \A i, j \in DOMAIN f : i < j => f[i] # f[j] /\ Ordered(f[i], f[j], q)}

SkipOne(p) == p * Limit                   \* mutant: pages are numbered from 0
Skip(p) == (p - 1) * Limit

PageOf(f, q, p) == IF q.list = "mine" THEN f
                   ELSE SubSeq(f, Skip(p) + 1, IF Skip(p) + Limit < Len(f)
                                               THEN Skip(p) + Limit ELSE Len(f))

Find ==
    LET q == walk.query IN
    /\ walk.pc = "reading" /\ "find" \in walk.pending
    /\ q.list = "messages" => "count" \notin walk.pending
    /\ \E f \in Orders(Visible(q), q) :
         walk' = [walk EXCEPT !.shown = @ \o PageOf(f, q, walk.page),
                              !.empty = PageOf(f, q, walk.page) = <<>>,
                              !.pending = @ \ {"find"}]
    /\ UNCHANGED <<row, always, disturbed>>

\* The client goes on until the total is reached; of messages, which it is not
\* told, until a page is empty.  An empty page of requests is an error
\* (NotFoundException) and ends the reading; of disasters only the first page
\* is, and then there is no other.
NextPage ==
    LET last == \/ walk.query.list # "messages" /\ walk.page * Limit >= walk.total
                \/ walk.query.list = "mine"
                \/ walk.query.list \in {"available", "completed", "messages"} /\ walk.empty
    IN  /\ walk.pc = "reading" /\ walk.pending = {}
        /\ walk' = IF last THEN [walk EXCEPT !.pc = "done"]
                   ELSE [walk EXCEPT !.page = @ + 1, !.pending = {"count", "find"}]
        /\ UNCHANGED <<row, always, disturbed>>

Change ==
    \/ \E r \in Row, k \in 1..MaxAt :
         \/ \E p, q \in Person : Book(r, p, q, k)
         \/ Reschedule(r, k)
         \/ \E p \in Person : CreateRequest(r, p, k) \/ SendMessage(r, p, k)
    \/ \E r \in Row :
         \/ \E s \in NewStatus : UpdateStatus(r, s)
         \/ \E q \in Person : AcceptRequest(r, q)
         \/ Commit(r) \/ CompleteRequest(r) \/ DeleteMessage(r)

\* The model ends when the client has read the list to its end.
Next ==
    /\ UNCHANGED table
    /\ \/ walk.pc # "done" /\ Change
       \/ \E l \in Lists, u \in Person \cup {Nobody}, s \in NewStatus \cup {NoFilter},
             k \in 0..MaxAt : Begin(l, u, s, k)
       \/ Count \/ Find \/ NextPage

Spec == Init /\ [][Next]_vars
-----------------------------------------------------------------------------
(* Properties.                                                             *)

\* The client: its query, and how far it has come.
Walk == [pc : {"idle", "reading", "done"},
         query : [list : ListName \cup {NoFilter}, viewer : Person \cup {Nobody},
                  status : NewStatus \cup {NoFilter}, after : 0..MaxAt],
         page : Nat, total : Nat, shown : Seq(Row),
         pending : SUBSET {"count", "find"}, empty : BOOLEAN]

\* The shape of the state.
TypeOK ==
    /\ table \in {"appointments", "requests", "messages"}
    /\ row \in [Row -> [state : {"none", "pending", "live", "deleted"},
                        owner : Person \cup {Nobody}, other : Person \cup {Nobody},
                        status : Label, at : 0..MaxAt]]
    /\ walk \in Walk
    /\ always \subseteq Row
    /\ disturbed \subseteq {"left", "entered", "moved", "tied", "between", "late"}

Read == {walk.shown[i] : i \in DOMAIN walk.shown}

\* A client who has read a list to its end has seen every row that was in it
\* all the time, unless a row before it left the list or moved (the rows after
\* it are then on an earlier page), two rows have one instant, or the total it
\* went by was counted on another state of the list than the page.
NoneIsMissedAlone ==
    walk.pc = "done" =>
        \/ always \subseteq Read
        \/ disturbed \cap {"left", "moved", "tied"} # {}
        \/ "between" \in disturbed /\ table # "messages"

\* No row is shown twice, unless rows moved or tie, or one came in at the top
\* of a list that shows the newest first.  In a conversation, read from its
\* oldest message, a new message repeats old ones only when a newer one, whose
\* insert overlapped with its own, was there before it.
NoneIsTwiceAlone ==
    (\E i, j \in DOMAIN walk.shown : i # j /\ walk.shown[i] = walk.shown[j]) =>
        \/ disturbed \cap {"moved", "tied"} # {}
        \/ (IF table = "messages" THEN "late" ELSE "entered") \in disturbed

\* The total of a list nobody disturbed is the number of rows shown.  A user's
\* own requests come with other numbers, and messages with that of their page.
TotalIsShownAlone ==
    walk.pc = "done" /\ disturbed = {} /\ walk.query.list \notin {"mine", "messages"} =>
        Len(walk.shown) = walk.total

\* A client who turns the pages sees every row, once, and as many as the total.
ListsAreSound ==
    /\ NoneIsMissedAlone
    /\ NoneIsTwiceAlone
    /\ TotalIsShownAlone
=============================================================================
