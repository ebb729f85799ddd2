------------------------------ MODULE Gateway ------------------------------
(***************************************************************************)
(* The socket server of the chat: MessageGateway.  It keeps three maps in  *)
(* the memory of one process: who is connected, who can be called, and the *)
(* parts of recordings.  Handlers have no await, so each is one action;    *)
(* what one hands to a stream is on the disk only later.                   *)
(* A socket delivers in order what was sent on it; what two sockets carry  *)
(* arrives in any order, and a socket that drops takes what it carried.    *)
(***************************************************************************)
EXTENDS Naturals, Sequences, SequencesExt

CONSTANTS
    User,        \* users
    Socket,      \* connections, each used once
    Username,    \* names people join calls under
    Recording,   \* recordings; each is made by one client
    MaxChunk,    \* parts a recording has at most
    Nobody,      \* no user, no socket
    MaxFaults    \* bound on restarts of the process

VARIABLES
    socket,      \* connections: their state and whose they are
    clients,     \* clients: user -> socket id
    activeUsers, \* activeUsers: call name -> socket id
    recorded,    \* parts a recording's client has sent
    ended,       \* recordings whose client has sent the end
    flight,      \* what each socket carries to the server
    chunks,      \* chunks: parts of a recording in the memory of the process
    writing,     \* parts handed to the stream of a recording's file
    file         \* parts written to the recording's file

VARIABLES        \* history: never read by the system's actions
    joined,      \* names each socket has joined calls under
    replaced,    \* sockets whose user has connected again
    carried,     \* sockets that have carried parts of each recording
    torn,        \* recordings that lost a part to a dropped socket or a restart
    faults       \* number of faults

vars == <<socket, clients, activeUsers, recorded, ended, flight, chunks, writing,
          file, joined, replaced, carried, torn, faults>>

recording == <<recorded, ended, flight, chunks, writing, file, carried, torn>>
presence == <<socket, clients, activeUsers, joined, replaced>>

Init ==
    /\ socket = [s \in Socket |-> [state |-> "new", user |-> Nobody]]
    /\ clients = [u \in User |-> Nobody]
    /\ activeUsers = [n \in Username |-> Nobody]
    /\ recorded = [r \in Recording |-> 0]
    /\ ended = {}
    /\ flight = [s \in Socket |-> <<>>]
    /\ chunks = [r \in Recording |-> <<>>]
    /\ writing = [r \in Recording |-> <<>>]
    /\ file = [r \in Recording |-> <<>>]
    /\ joined = [s \in Socket |-> {}]
    /\ replaced = {} /\ torn = {}
    /\ carried = [r \in Recording |-> {}]
    /\ faults = 0

Connected(s) == socket[s].state = "open"

-----------------------------------------------------------------------------
(* Connections.                                                            *)

\* handleConnection with a token that names user u: the socket takes the
\* place of the one the user had, which stays open.
HandleConnection(s, u) ==
    /\ socket[s].state = "new"
    /\ socket' = [socket EXCEPT ![s] = [state |-> "open", user |-> u]]
    /\ clients' = [clients EXCEPT ![u] = s]
    /\ replaced' = replaced \cup ({clients[u]} \ {Nobody})
    /\ UNCHANGED <<activeUsers, joined, recording, faults>>

\* A handshake without a token, or with one the key does not verify.
RefuseConnection(s) ==
    /\ socket[s].state = "new"
    /\ socket' = [socket EXCEPT ![s].state = "closed"]
    /\ UNCHANGED <<clients, activeUsers, joined, replaced, recording, faults>>

KeepNames(s) == {}                        \* mutant: call names are kept

\* The names handleDisconnect looks at: none, when the socket is no longer
\* its user's; the first it finds otherwise.
NamesFreed(s) ==
    IF \E u \in User : clients[u] = s
    THEN {n \in Username : activeUsers[n] = s} ELSE {}

ForgetUser(s, u) == TRUE                  \* mutant: whatever the user's socket is
Forgets(s, u) == clients[u] = s

HandleDisconnect(s) ==
    /\ Connected(s)
    /\ socket' = [socket EXCEPT ![s].state = "closed"]
    /\ clients' = [u \in User |-> IF u = socket[s].user /\ Forgets(s, u)
                                  THEN Nobody ELSE clients[u]]
    /\ IF NamesFreed(s) = {} THEN UNCHANGED activeUsers
       ELSE \E n \in NamesFreed(s) : activeUsers' = [activeUsers EXCEPT ![n] = Nobody]
    /\ flight' = [flight EXCEPT ![s] = <<>>]
    /\ torn' = torn \cup {r \in Recording : \E k \in 0..MaxChunk :
                                               Contains(flight[s], <<r, k>>)}
    /\ UNCHANGED <<joined, replaced, recorded, ended, chunks, writing, file, carried,
                   faults>>

-----------------------------------------------------------------------------
(* Whom the gateway sends to: messages and signs of typing to the socket   *)
(* of a user, calls, answers, candidates and ends of calls to the socket   *)
(* of a call name.  Nobody is told that there is none.                     *)

Reached(u) == clients[u]
Rung(n) == activeUsers[n]

HandleJoin(s, n) ==
    /\ Connected(s)
    /\ activeUsers' = [activeUsers EXCEPT ![n] = s]
    /\ joined' = [joined EXCEPT ![s] = @ \cup {n}]
    /\ UNCHANGED <<socket, clients, replaced, recording, faults>>

-----------------------------------------------------------------------------
(* Recordings.  Parts are numbered, and the number is not looked at.       *)

SendChunk(s, r) ==
    /\ Connected(s) /\ r \notin ended /\ recorded[r] < MaxChunk
    /\ recorded' = [recorded EXCEPT ![r] = @ + 1]
    /\ flight' = [flight EXCEPT ![s] = Append(@, <<r, recorded[r] + 1>>)]
    /\ carried' = [carried EXCEPT ![r] = @ \cup {s}]
    /\ UNCHANGED <<presence, ended, chunks, writing, file, torn, faults>>

\* The end travels as part 0.
SendEnd(s, r) ==
    /\ Connected(s) /\ r \notin ended /\ recorded[r] > 0
    /\ ended' = ended \cup {r}
    /\ flight' = [flight EXCEPT ![s] = Append(@, <<r, 0>>)]
    /\ carried' = [carried EXCEPT ![r] = @ \cup {s}]
    /\ UNCHANGED <<presence, recorded, chunks, writing, file, torn, faults>>

PutFirst(r, k) == <<k>> \o chunks[r]      \* mutant: parts are put in front
AddPart(r, k) == Append(chunks[r], k)

HandleRecordingChunk(s) ==
    /\ flight[s] # <<>> /\ Head(flight[s])[2] > 0
    /\ LET r == Head(flight[s])[1] IN
       chunks' = [chunks EXCEPT ![r] = AddPart(r, Head(flight[s])[2])]
    /\ flight' = [flight EXCEPT ![s] = Tail(@)]
    /\ UNCHANGED <<presence, recorded, ended, writing, file, carried, torn, faults>>

\* The parts are handed to a stream that appends to the file, and forgotten:
\* nobody waits for the stream or hears its errors.  A part that comes later
\* waits for an end that never comes.
HandleRecordingEnd(s) ==
    /\ flight[s] # <<>> /\ Head(flight[s])[2] = 0
    /\ LET r == Head(flight[s])[1] IN
       /\ writing' = [writing EXCEPT ![r] = @ \o chunks[r]]
       /\ chunks' = [chunks EXCEPT ![r] = <<>>]
    /\ flight' = [flight EXCEPT ![s] = Tail(@)]
    /\ UNCHANGED <<presence, recorded, ended, file, carried, torn, faults>>

\* The stream goes on, whatever the process does meanwhile.
WritePart(r) ==
    /\ writing[r] # <<>>
    /\ file' = [file EXCEPT ![r] = Append(@, Head(writing[r]))]
    /\ writing' = [writing EXCEPT ![r] = Tail(@)]
    /\ UNCHANGED <<presence, recorded, ended, flight, chunks, carried, torn, faults>>

-----------------------------------------------------------------------------
\* The process restarts with empty maps; every socket is closed and what its
\* streams had not written is lost.  A stream that cannot write ends the process
\* in the same way: no listener takes its error.
Restart ==
    /\ faults < MaxFaults
    /\ faults' = faults + 1
    /\ socket' = [s \in Socket |-> IF Connected(s) THEN [socket[s] EXCEPT !.state = "closed"]
                                   ELSE socket[s]]
    /\ clients' = [u \in User |-> Nobody]
    /\ activeUsers' = [n \in Username |-> Nobody]
    /\ torn' = torn \cup {r \in Recording :
                            \/ chunks[r] # <<>> \/ writing[r] # <<>>
                            \/ \E s \in Socket, k \in 0..MaxChunk : Contains(flight[s], <<r, k>>)}
    /\ flight' = [s \in Socket |-> <<>>]
    /\ chunks' = [r \in Recording |-> <<>>]
    /\ writing' = [r \in Recording |-> <<>>]
    /\ UNCHANGED <<recorded, ended, file, joined, replaced, carried>>

Next ==
    \/ \E s \in Socket :
         \/ \E u \in User : HandleConnection(s, u)
         \/ RefuseConnection(s) \/ HandleDisconnect(s)
         \/ \E n \in Username : HandleJoin(s, n)
         \/ \E r \in Recording : SendChunk(s, r) \/ SendEnd(s, r)
         \/ HandleRecordingChunk(s) \/ HandleRecordingEnd(s)
    \/ \E r \in Recording : WritePart(r)
    \/ Restart

Spec == Init /\ [][Next]_vars
-----------------------------------------------------------------------------
(* Properties.                                                             *)

\* The shape of the state.
TypeOK ==
    /\ socket \in [Socket -> [state : {"new", "open", "closed"},
                              user : User \cup {Nobody}]]
    /\ clients \in [User -> Socket \cup {Nobody}]
    /\ activeUsers \in [Username -> Socket \cup {Nobody}]
    /\ recorded \in [Recording -> 0..MaxChunk] /\ ended \subseteq Recording
    /\ flight \in [Socket -> Seq(Recording \X (0..MaxChunk))]
    /\ chunks \in [Recording -> Seq(1..MaxChunk)]
    /\ writing \in [Recording -> Seq(1..MaxChunk)]
    /\ file \in [Recording -> Seq(1..MaxChunk)]
    /\ joined \in [Socket -> SUBSET Username] /\ replaced \subseteq Socket
    /\ carried \in [Recording -> SUBSET Socket] /\ torn \subseteq Recording
    /\ faults \in 0..MaxFaults

\* What the gateway sends a user goes to an open socket of that user, and an
\* open socket that no later one replaced is the one it goes to: a user with
\* two tabs is reached on the tab opened last, for as long as that is open.
ReachedOnTheLast ==
    /\ \A u \in User : Reached(u) # Nobody =>
           Connected(Reached(u)) /\ socket[Reached(u)].user = u
    /\ \A s \in Socket : Connected(s) /\ s \notin replaced => Reached(socket[s].user) = s

\* A call reaches an open socket, unless the socket's user had connected again
\* or it had joined under two names: handleDisconnect then leaves the entry of
\* a closed socket behind and callers ring it in vain.
CalledIsConnectedAlone ==
    \A n \in Username :
        LET s == Rung(n) IN
        s # Nobody => \/ Connected(s) \/ s \in replaced
                      \/ \E k \in joined[s] : k # n

\* A recording that has ended, all of whose parts have arrived, is whole and in
\* order on the disk as soon as its stream has nothing left to write, if one
\* socket carried it and neither that socket nor the process went before that: a
\* restart between the end and the last write loses what the stream held.
RecordingIsWholeAlone ==
    \A r \in ended \ torn :
        /\ \E s \in Socket : carried[r] = {s}
        /\ \A s \in Socket, k \in 0..MaxChunk : ~Contains(flight[s], <<r, k>>)
        /\ writing[r] = <<>>
        => file[r] = [k \in 1..recorded[r] |-> k]

\* Messages, calls and recordings end up where they belong.
GatewayIsSound ==
    /\ ReachedOnTheLast
    /\ CalledIsConnectedAlone
    /\ RecordingIsWholeAlone
=============================================================================
