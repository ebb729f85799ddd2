-------------------------------- MODULE Chat --------------------------------
(***************************************************************************)
(* Conversations of two people, their messages and attachments, and the    *)
(* read receipts: ConversationService and MessageService.                  *)
(*                                                                         *)
(* One action is the code between two awaits.  Instants are compared, never *)
(* used as numbers: lastReadAt is the set of messages whose createdAt is   *)
(* before it, and createdAt is taken when the insert starts (now()).       *)
(* Transactions run at READ COMMITTED: what readMessages writes shows when *)
(* it commits, what it selects is what was committed when it selected.     *)
(***************************************************************************)
EXTENDS Naturals

CONSTANTS
    Person,      \* users
    Open,        \* requests to open a conversation; each is the row it creates
    Send,        \* requests to send a message; each is the row it creates
    Reading,     \* slots of readMessages requests
    Name,        \* names an attachment can get (see Profile)
    Nothing,     \* no person, no conversation, no file
    MaxFaults    \* bound on failures of the database or the process

VARIABLES
    conversation, \* rows: whether they exist and who takes part
    opening,     \* progress of ConversationService.create
    message,     \* rows of table messages
    sending,     \* progress of MessageService.create
    lastRead,    \* participant.lastReadAt, as the messages created before it
    reading,     \* progress of MessageService.readMessages
    erasing,     \* messages whose attachment deleteMessage has deleted
    files        \* attachments on the disk

VARIABLES        \* history: never read by the system's actions
    crossed,     \* pairs whose conversation two requests found missing together
    slipped,     \* messages whose insert was under way when a readMessages
                 \* marked, or began before it took the time
    clash,       \* names two attachments were given
    faults, hit  \* number of faults; messages a fault hit

vars == <<conversation, opening, message, sending, lastRead, reading, erasing,
          files, crossed, slipped, clash, faults, hit>>

talking == <<conversation, opening, crossed>>
marking == <<lastRead, reading, slipped>>

NoRow == [state |-> "none", pair |-> {}]
NoMessage == [state |-> "none", conversation |-> Nothing, sender |-> Nothing,
              read |-> FALSE, file |-> Nothing]
IdleSend == [pc |-> "idle", conversation |-> Nothing, sender |-> Nothing,
             file |-> Nothing]
IdleReading == [pc |-> "idle", person |-> Nothing, conversation |-> Nothing,
                since |-> {}, marked |-> {}, until |-> {}]

Init ==
    /\ conversation = [c \in Open |-> NoRow]
    /\ opening = [c \in Open |-> [pc |-> "idle", pair |-> {}]]
    /\ message = [m \in Send |-> NoMessage]
    /\ sending = [m \in Send |-> IdleSend]
    /\ lastRead = [p \in Person |-> {}]
    /\ reading = [r \in Reading |-> IdleReading]
    /\ erasing = {} /\ files = {}
    /\ crossed = {} /\ slipped = {} /\ clash = {} /\ hit = {}
    /\ faults = 0

Live(c) == conversation[c].state = "live"
Stored(m) == message[m].state = "live"

\* The messages of conversation c that others sent to person p.
Received(p, c) == {m \in Send : Stored(m) /\ message[m].conversation = c
                                /\ message[m].sender # p}

\* Message m is for the reader of request r, and in the conversation he opened.
Reaches(m, r) == /\ sending[m].conversation = reading[r].conversation
                 /\ sending[m].sender # reading[r].person

\* Those of them whose insert has its createdAt and is not committed.
Inserting(r) == {m \in Send : sending[m].pc = "inserting" /\ Reaches(m, r)}

Fault(ms) ==
    /\ faults < MaxFaults
    /\ faults' = faults + 1
    /\ hit' = hit \cup ms

-----------------------------------------------------------------------------
(* ConversationService.create and remove.                                  *)

NoneCreatedBy(pair) == TRUE               \* mutant: no look-up
NoneOf(pair) == \A d \in Open : Live(d) => conversation[d].pair # pair

FindConversation(c, pair) ==
    /\ opening[c].pc = "idle"
    /\ NoneOf(pair)
    /\ opening' = [opening EXCEPT ![c] = [pc |-> "missing", pair |-> pair]]
    /\ crossed' = IF \E d \in Open : opening[d].pc = "missing" /\ opening[d].pair = pair
                  THEN crossed \cup {pair} ELSE crossed
    /\ UNCHANGED <<conversation, message, sending, marking, erasing, files, clash,
                   faults, hit>>

\* The row and both participants in one statement.  The notification that
\* follows can fail; the conversation exists all the same.
CreateConversation(c) ==
    /\ opening[c].pc = "missing"
    /\ opening' = [opening EXCEPT ![c].pc = "done"]
    /\ conversation' = [conversation EXCEPT ![c] = [state |-> "live",
                                                    pair |-> opening[c].pair]]
    /\ UNCHANGED <<message, sending, marking, erasing, files, crossed, clash,
                   faults, hit>>

RemoveKeeping(c) ==                       \* mutant: the messages stay
    /\ Live(c)
    /\ conversation' = [conversation EXCEPT ![c].state = "deleted"]
    /\ UNCHANGED <<opening, message, sending, marking, erasing, files, crossed, clash,
                   faults, hit>>

\* Messages and participants go with the row; attachments stay on the disk.
RemoveConversation(c) ==
    /\ Live(c)
    /\ conversation' = [conversation EXCEPT ![c].state = "deleted"]
    /\ message' = [m \in Send |-> IF message[m].conversation = c
                                  THEN [message[m] EXCEPT !.state = "deleted"]
                                  ELSE message[m]]
    /\ UNCHANGED <<opening, sending, marking, erasing, files, crossed, clash,
                   faults, hit>>

-----------------------------------------------------------------------------
(* MessageService.create and deleteMessage.                                *)

CheckParticipant(m, c, p, n) ==
    /\ sending[m].pc = "idle"
    /\ Live(c) /\ p \in conversation[c].pair
    /\ sending' = [sending EXCEPT ![m] = [pc |-> "checked", conversation |-> c,
                                          sender |-> p, file |-> n]]
    /\ clash' = clash \cup (({n} \ {Nothing}) \cap {sending[k].file : k \in Send \ {m}})
    /\ UNCHANGED <<talking, message, marking, erasing, files, faults, hit>>

PutAttachment(m) ==
    LET n == sending[m].file IN
    /\ sending[m].pc = "checked" /\ n # Nothing
    /\ sending' = [sending EXCEPT ![m].pc = "stored"]
    /\ files' = files \cup {n}
    /\ UNCHANGED <<talking, message, marking, erasing, clash, faults, hit>>

\* LocalAdapter.put logs an error and returns; the message names the file.
PutFails(m) ==
    /\ sending[m].pc = "checked" /\ sending[m].file # Nothing
    /\ Fault({m})
    /\ sending' = [sending EXCEPT ![m].pc = "stored"]
    /\ UNCHANGED <<talking, message, marking, erasing, files, clash>>

CreateEarly(m) ==                         \* mutant: does not wait for the file
    /\ sending[m].pc = "checked"
    /\ sending' = [sending EXCEPT ![m].pc = "inserting"]
    /\ UNCHANGED <<talking, message, marking, erasing, files, clash, faults, hit>>

\* The insert takes its createdAt; nobody else sees the row before it commits.
BeginCreate(m) ==
    LET s == sending[m] IN
    /\ s.pc = IF s.file = Nothing THEN "checked" ELSE "stored"
    /\ sending' = [sending EXCEPT ![m].pc = "inserting"]
    /\ slipped' = IF \E r \in Reading : reading[r].pc = "marked" /\ Reaches(m, r)
                  THEN slipped \cup {m} ELSE slipped
    /\ UNCHANGED <<talking, message, lastRead, reading, erasing, files, clash, faults,
                   hit>>

\* The row shows, unless the foreign key refuses it: a conversation that has
\* gone meanwhile.
CreateMessage(m) ==
    LET s == sending[m] IN
    /\ s.pc = "inserting"
    /\ IF Live(s.conversation)
       THEN /\ message' = [message EXCEPT ![m] =
                 [state |-> "live", conversation |-> s.conversation,
                  sender |-> s.sender, read |-> FALSE, file |-> s.file]]
            /\ sending' = [sending EXCEPT ![m].pc = "created"]
       ELSE /\ sending' = [sending EXCEPT ![m].pc = "failed"]
            /\ UNCHANGED message
    /\ UNCHANGED <<talking, marking, erasing, files, clash, faults, hit>>

\* conversation.update throws when the row has gone: the sender is told that
\* the message failed and nobody hears of it.  Otherwise the room does.
Announce(m) ==
    /\ sending[m].pc = "created"
    /\ sending' = [sending EXCEPT ![m].pc = IF Live(sending[m].conversation)
                                            THEN "sent" ELSE "failed"]
    /\ UNCHANGED <<talking, message, marking, erasing, files, clash, faults, hit>>

\* A statement of create fails: before the commit of the insert there is no
\* message, after it the sender is told that a message failed that is stored.
StatementFails(m) ==
    /\ sending[m].pc \in {"inserting", "created"}
    /\ Fault({m} \cap {k \in Send : sending[k].pc = "created"})
    /\ sending' = [sending EXCEPT ![m].pc = "failed"]
    /\ UNCHANGED <<talking, message, marking, erasing, files, clash>>

\* deleteMessage: in one transaction the row is deleted and then the files,
\* which no transaction holds.
EraseFile(m) ==
    /\ Stored(m) /\ m \notin erasing
    /\ erasing' = erasing \cup {m}
    /\ files' = files \ {message[m].file}
    /\ UNCHANGED <<talking, message, sending, marking, clash, faults, hit>>

EraseRow(m) ==
    /\ m \in erasing
    /\ erasing' = erasing \ {m}
    /\ message' = [message EXCEPT ![m].state = "deleted"]
    /\ UNCHANGED <<talking, sending, marking, files, clash, faults, hit>>

\* The transaction runs out of time or does not commit: the row stays.
EraseFails(m) ==
    /\ m \in erasing
    /\ Fault({m})
    /\ erasing' = erasing \ {m}
    /\ UNCHANGED <<talking, message, sending, marking, files, clash>>

-----------------------------------------------------------------------------
(* readMessages and getUnreadMessage.                                      *)

FindParticipant(r, p, c) ==
    /\ reading[r].pc = "idle"
    /\ Live(c) /\ p \in conversation[c].pair
    /\ reading' = [reading EXCEPT ![r] =
         [pc |-> "found", person |-> p, conversation |-> c,
          since |-> lastRead[p] \cap {m \in Send : sending[m].conversation = c},
          marked |-> {}, until |-> {}]]
    /\ UNCHANGED <<talking, message, sending, lastRead, erasing, files, slipped,
                   clash, faults, hit>>

\* updateMany: what is unread and newer than the lastReadAt read before.
MarkRead(r) ==
    LET s == reading[r] IN
    /\ s.pc = "found"
    /\ reading' = [reading EXCEPT ![r].pc = "marked",
         ![r].marked = {m \in Received(s.person, s.conversation) \ s.since :
                          ~message[m].read}]
    /\ slipped' = slipped \cup Inserting(r)
    /\ UNCHANGED <<talking, message, sending, lastRead, erasing, files, clash, faults,
                   hit>>

\* new Date(), taken after the messages were marked: messages that are being
\* inserted are older than it, too.
Stamp(r) ==
    LET s == reading[r] IN
    /\ s.pc = "marked"
    /\ reading' = [reading EXCEPT ![r].pc = "stamped",
                                  ![r].until = Received(s.person, s.conversation)
                                                \cup Inserting(r)]
    /\ UNCHANGED <<talking, message, sending, lastRead, erasing, files, slipped,
                   clash, faults, hit>>

StampOnly(r, m) == message[m].read        \* mutant: the messages stay unread
ReadAfter(r, m) == message[m].read \/ m \in reading[r].marked

\* Both writes show at the commit; without the participant's row the second
\* one throws and neither does.
CommitRead(r) ==
    LET s == reading[r] IN
    /\ s.pc = "stamped"
    /\ reading' = [reading EXCEPT ![r] = IdleReading]
    /\ IF Live(s.conversation)
       THEN /\ message' = [m \in Send |-> IF m \in s.marked
                             THEN [message[m] EXCEPT !.read = ReadAfter(r, m)]
                             ELSE message[m]]
            /\ lastRead' = [lastRead EXCEPT ![s.person] =
                 {m \in @ : sending[m].conversation # s.conversation} \cup s.until]
       ELSE UNCHANGED <<message, lastRead>>
    /\ UNCHANGED <<talking, sending, erasing, files, slipped, clash, faults, hit>>

\* getUnreadMessage: what it counts for person p.
Unread(p, c) == {m \in Received(p, c) : ~message[m].read /\ m \notin lastRead[p]}

-----------------------------------------------------------------------------
\* The process dies.  Open transactions are rolled back; a file that was
\* deleted stays deleted.
Crash ==
    /\ Fault(erasing \cup {m \in Send : sending[m].pc = "created"})
    /\ opening' = [c \in Open |-> IF opening[c].pc = "missing"
                                  THEN [opening[c] EXCEPT !.pc = "done"]
                                  ELSE opening[c]]
    /\ sending' = [m \in Send |-> IF sending[m].pc \in {"checked", "stored", "inserting",
                                                     "created"}
                                  THEN [sending[m] EXCEPT !.pc = "failed"]
                                  ELSE sending[m]]
    /\ reading' = [r \in Reading |-> IdleReading]
    /\ erasing' = {}
    /\ UNCHANGED <<conversation, message, lastRead, files, crossed, slipped, clash>>

Pairs == {{p, q} : p \in Person, q \in Person} \ {{p} : p \in Person}

Next ==
    \/ \E c \in Open :
         \/ \E pair \in Pairs : FindConversation(c, pair)
         \/ CreateConversation(c) \/ RemoveConversation(c)
    \/ \E m \in Send :
         \/ \E c \in Open, p \in Person, n \in Name \cup {Nothing} :
              CheckParticipant(m, c, p, n)
         \/ PutAttachment(m) \/ PutFails(m) \/ BeginCreate(m) \/ CreateMessage(m)
         \/ Announce(m) \/ StatementFails(m)
         \/ EraseFile(m) \/ EraseRow(m) \/ EraseFails(m)
    \/ \E r \in Reading :
         \/ \E p \in Person, c \in Open : FindParticipant(r, p, c)
         \/ MarkRead(r) \/ Stamp(r) \/ CommitRead(r)
    \/ Crash

Spec == Init /\ [][Next]_vars
-----------------------------------------------------------------------------
(* Properties.                                                             *)

\* The shape of the state.
TypeOK ==
    /\ conversation \in [Open -> [state : {"none", "live", "deleted"},
                                  pair : SUBSET Person]]
    /\ opening \in [Open -> [pc : {"idle", "missing", "done"}, pair : SUBSET Person]]
    /\ message \in [Send -> [state : {"none", "live", "deleted"},
                             conversation : Open \cup {Nothing},
                             sender : Person \cup {Nothing}, read : BOOLEAN,
                             file : Name \cup {Nothing}]]
    /\ sending \in [Send -> [pc : {"idle", "checked", "stored", "inserting", "created",
                                   "sent", "failed"},
                             conversation : Open \cup {Nothing},
                             sender : Person \cup {Nothing},
                             file : Name \cup {Nothing}]]
    /\ lastRead \in [Person -> SUBSET Send]
    /\ reading \in [Reading -> [pc : {"idle", "found", "marked", "stamped"},
                                person : Person \cup {Nothing},
                                conversation : Open \cup {Nothing},
                                since : SUBSET Send, marked : SUBSET Send,
                                until : SUBSET Send]]
    /\ erasing \subseteq Send /\ files \subseteq Name
    /\ crossed \subseteq SUBSET Person /\ slipped \subseteq Send
    /\ clash \subseteq Name /\ faults \in Nat /\ hit \subseteq Send

\* Two people share one conversation, unless two requests to open it both
\* looked before either had created it: nothing in the database forbids two.
OneConversationAlone ==
    \A c, d \in Open :
        Live(c) /\ Live(d) /\ conversation[c].pair = conversation[d].pair =>
            c = d \/ conversation[c].pair \in crossed

\* A message its receiver has not read is counted as unread, whatever reads,
\* deletions and crashes do.  It is missed for ever when its insert was under
\* way while a readMessages marked the messages, or began after that and before
\* the readMessages took its time: then it is older than lastReadAt, unmarked.
UnreadIsCounted ==
    \A m \in Send, p \in Person :
        LET c == message[m].conversation IN
        Stored(m) /\ p \in conversation[c].pair /\ p # message[m].sender =>
            message[m].read \/ m \in Unread(p, c) \/ m \in slipped

\* The attachment a message names can be opened, unless the disk refused it,
\* it is being deleted with the message, a crash kept the message and not the
\* file, or a deletion whose transaction ran out of time did, or another message
\* has an attachment of the same name.
AttachmentIsStoredAlone ==
    \A m \in Send \ (hit \cup erasing) :
        Stored(m) => message[m].file \in files \cup clash \cup {Nothing}

\* A sender who is told that a message failed finds it in no conversation and
\* can send it again without doubling it, unless the process died or a statement
\* (the update of the conversation, too) failed between the row and the answer.
FailedIsNotStored ==
    \A m \in Send \ hit : sending[m].pc = "failed" => ~Stored(m)

\* Two people share one conversation, what failed is not in it, what is in it
\* is counted until it is read, and its attachments can be opened.
ChatIsSound ==
    /\ OneConversationAlone
    /\ UnreadIsCounted
    /\ AttachmentIsStoredAlone
    /\ FailedIsNotStored
=============================================================================
