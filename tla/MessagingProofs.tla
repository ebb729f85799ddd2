-------------------------- MODULE MessagingProofs ---------------------------
(***************************************************************************)
(* Proofs about chat, the message gateway and notifications as parts of    *)
(* the services, for any users, requests, sockets and recordings.          *)
(***************************************************************************)
EXTENDS Services, SequenceTheorems, TLAPS

\* The services are their components beside one another: each takes its own steps.
LEMMA PartsBehave ==
    ServicesSpec => /\ Appointments!Spec /\ Chats!Spec /\ Sockets!Spec
                    /\ Notices!Spec /\ Bequests!Spec /\ Pages!Spec /\ Spec
<1>1. ServicesInit => /\ Appointments!Init /\ Chats!Init /\ Sockets!Init
                      /\ Notices!Init /\ Bequests!Init /\ Pages!Init /\ Init
  BY DEF ServicesInit
<1> USE DEF ServicesNext, MoveAppointment, MoveChat, MoveGateway, MoveNotice, MoveBequest,
            MoveList, MovePayout, services
<1>2. [ServicesNext]_services => [Appointments!Next]_Appointments!vars
  BY DEF appointmentsVars, Appointments!vars
<1>3. [ServicesNext]_services => [Chats!Next]_Chats!vars
  BY DEF chatsVars, Chats!vars
<1>4. [ServicesNext]_services => [Sockets!Next]_Sockets!vars
  BY DEF gatewayVars, Sockets!vars
<1>5. [ServicesNext]_services => [Notices!Next]_Notices!vars
  BY DEF noticesVars, Notices!vars
<1>6. [ServicesNext]_services => [Bequests!Next]_Bequests!vars
  BY DEF bequestsVars, Bequests!vars
<1>7. [ServicesNext]_services => [Pages!Next]_Pages!vars
  BY DEF listsVars, Pages!vars
<1>8. [ServicesNext]_services => [Next]_vars
  OBVIOUS
<1> QED
  BY <1>1, <1>2, <1>3, <1>4, <1>5, <1>6, <1>7, <1>8, PTL
  DEF ServicesSpec, Appointments!Spec, Chats!Spec, Sockets!Spec, Notices!Spec, Bequests!Spec,
      Pages!Spec, Spec

-----------------------------------------------------------------------------
(* Chat.                                                                   *)

\* The columns of conversations, messages and requests.
ConversationRow == [state : {"none", "live", "deleted"}, pair : SUBSET User]
Finding == [pc : {"idle", "missing", "done"}, pair : SUBSET User]
MessageRow == [state : {"none", "live", "deleted"}, conversation : Open \cup {Nobody},
               sender : User \cup {Nobody}, read : BOOLEAN, file : Name \cup {Nobody}]
Sending == [pc : {"idle", "checked", "stored", "inserting", "created", "sent", "failed"},
            conversation : Open \cup {Nobody}, sender : User \cup {Nobody},
            file : Name \cup {Nobody}]
ReadingRow == [pc : {"idle", "found", "marked", "stamped"}, person : User \cup {Nobody},
               conversation : Open \cup {Nobody}, since : SUBSET Post,
               marked : SUBSET Post, until : SUBSET Post]

\* A request that found no conversation of the pair is alone to have done so, and
\* there is none, unless the history says that two looked together.
OpeningsFit ==
    /\ \A c \in Open : opening[c].pc # "done" => conversation[c].state = "none"
    /\ \A c, d \in Open :
         opening[c].pc = "missing" /\ opening[c].pair \notin chatCrossed =>
           /\ Chats!Live(d) => conversation[d].pair # opening[c].pair
           /\ opening[d].pc = "missing" /\ opening[d].pair = opening[c].pair => c = d

\* A row is what its request wrote, in a conversation that was there; it goes with
\* the conversation, and what is erased was there.
MessagesFit ==
    \A m \in Post :
        /\ m \in erasing => message[m].state # "none"
        /\ sending[m].pc # "idle" =>
             /\ sending[m].conversation \in Open
             /\ conversation[sending[m].conversation].state # "none"
        /\ IF message[m].state = "none"
           THEN message[m].conversation = Nobody /\ ~message[m].read
           ELSE /\ sending[m].pc \in {"created", "sent", "failed"}
                /\ message[m].conversation = sending[m].conversation
                /\ message[m].sender = sending[m].sender
                /\ message[m].file = sending[m].file
        /\ Chats!Stored(m) => Chats!Live(message[m].conversation)

\* Only messages whose insert has begun are older than a lastReadAt, and only
\* stored ones are marked; what a request leaves out of what it marks was read or
\* had slipped through.
Begun(m) == sending[m].pc \notin {"idle", "checked", "stored"}
InReach(m) == Chats!Stored(m) \/ sending[m].pc = "inserting"
ReadOrSlipped(m) == message[m].read \/ m \in slipped
OlderFits(p, m) ==
    /\ Begun(m)
    /\ sending[m].pc = "inserting" /\ sending[m].sender # p => m \in slipped
ReadsFit ==
    /\ \A p \in User : \A m \in lastRead[p] : OlderFits(p, m)
    /\ \A r \in Reading :
         LET s == reading[r] IN
         /\ \A m \in s.since \cup s.marked \cup s.until : Begun(m)
         /\ \A m \in s.marked : message[m].state # "none"
         /\ \A m \in s.since : InReach(m) /\ sending[m].sender # s.person
                => ReadOrSlipped(m)
         /\ s.pc = "marked" =>
              /\ \A m \in Chats!Received(s.person, s.conversation) : ReadOrSlipped(m)
                   \/ m \in s.marked
              /\ Chats!Inserting(r) \subseteq slipped
         /\ s.pc = "stamped" =>
              \A m \in s.until : InReach(m) => ReadOrSlipped(m) \/ m \in s.marked

\* A file that was put stays until its own message goes, but for a clash.
AttachmentsFit ==
    /\ \A m, k \in Post : m # k /\ sending[m].file = sending[k].file
                             => sending[m].file \in chatClash \cup {Nobody}
    /\ \A m \in Post \ chatHit : sending[m].pc \in {"stored", "inserting"}
                                => sending[m].file \in files \cup chatClash \cup {Nobody}

\* The inductive invariant.
ChatInv == Chats!TypeOK /\ OpeningsFit /\ MessagesFit /\ ReadsFit /\ AttachmentsFit
      /\ Chats!ChatIsSound

\* Rows and requests have their columns.
LEMMA ChatTyped ==
    ASSUME Chats!TypeOK
    PROVE  /\ conversation \in [Open -> ConversationRow] /\ opening \in [Open -> Finding]
           /\ message \in [Post -> MessageRow] /\ sending \in [Post -> Sending]
           /\ reading \in [Reading -> ReadingRow]
BY DEF Chats!TypeOK, ConversationRow, Finding, MessageRow, Sending, ReadingRow

\* A request to send takes a step and the others stay where they are.
SendMoves(m, pc) ==
    /\ sending' \in [Post -> Sending]
    /\ \A k \in Post \ {m} : sending'[k] = sending[k]
    /\ sending'[m].pc = pc /\ sending'[m].conversation = sending[m].conversation
    /\ sending'[m].sender = sending[m].sender /\ sending'[m].file = sending[m].file

\* A step of its progress alone moves a request to send.
LEMMA SendGoesOn ==
    ASSUME Chats!TypeOK, NEW m \in Post, NEW pc \in {"stored", "inserting", "created", "sent", "failed"},
           sending' = [sending EXCEPT ![m].pc = pc]
    PROVE  SendMoves(m, pc)
<1>1. sending \in [Post -> Sending]
  BY ChatTyped
<1> QED BY <1>1 DEF Sending, SendMoves

\* A conversation is looked for.
LEMMA FindConversationKeeps ==
    ASSUME ChatInv, NEW c \in Open, NEW pair \in Chats!Pairs, Chats!FindConversation(c, pair)
    PROVE  ChatInv'
<1>1. opening \in [Open -> Finding] /\ conversation \in [Open -> ConversationRow]
  BY ChatTyped DEF ChatInv
<1>2. pair \in SUBSET User
  BY DEF Chats!Pairs
<1>3. /\ opening[c].pc = "idle"
      /\ opening' \in [Open -> Finding]
      /\ \A d \in Open \ {c} : opening'[d] = opening[d]
      /\ opening'[c].pc = "missing" /\ opening'[c].pair = pair
  BY <1>1, <1>2 DEF Chats!FindConversation, Finding
<1>4. Chats!TypeOK'
  BY <1>1, <1>2, <1>3, ServicesAssumption DEF Chats!FindConversation, Chats!NoneOf, SendMoves,
     ChatInv, Chats!ChatIsSound, Chats!TypeOK, ConversationRow, Finding, MessageRow, Sending,
     ReadingRow, Chats!talking, Chats!marking
<1>5. OpeningsFit'
  BY <1>1, <1>2, <1>3, ServicesAssumption DEF Chats!FindConversation, Chats!NoneOf, SendMoves,
     ChatInv, Chats!ChatIsSound, OpeningsFit, Chats!Live, Chats!talking, Chats!marking
<1>6. MessagesFit'
  BY <1>1, <1>2, <1>3, ServicesAssumption DEF Chats!FindConversation, Chats!NoneOf, SendMoves,
     ChatInv, Chats!ChatIsSound, MessagesFit, OpeningsFit, Chats!Stored, Chats!Live,
     Chats!talking, Chats!marking
<1>7. ReadsFit'
  BY <1>1, <1>2, <1>3, ServicesAssumption DEF Chats!FindConversation, Chats!NoneOf, SendMoves,
     ChatInv, Chats!ChatIsSound, ReadsFit, MessagesFit, ReadOrSlipped, Begun, InReach,
     OlderFits, Chats!Inserting, Chats!Reaches, Chats!Stored,
     Chats!Received, Chats!talking, Chats!marking
<1>8. AttachmentsFit'
  BY <1>1, <1>2, <1>3, ServicesAssumption DEF Chats!FindConversation, Chats!NoneOf, SendMoves,
     ChatInv, Chats!ChatIsSound, AttachmentsFit, MessagesFit, Chats!talking, Chats!marking
<1>9. Chats!OneConversationAlone'
  BY <1>1, <1>2, <1>3, ServicesAssumption DEF Chats!FindConversation, Chats!NoneOf, SendMoves,
     ChatInv, Chats!ChatIsSound, Chats!OneConversationAlone, Chats!Live, OpeningsFit,
     Chats!talking, Chats!marking
<1>10. Chats!UnreadIsCounted'
  BY <1>1, <1>2, <1>3, ServicesAssumption DEF Chats!FindConversation, Chats!NoneOf, SendMoves,
     ChatInv, Chats!ChatIsSound, Chats!UnreadIsCounted, Chats!Stored, Chats!Unread,
     Chats!Received, ReadsFit, MessagesFit, OpeningsFit, Chats!talking, Chats!marking
<1>11. Chats!AttachmentIsStoredAlone'
  BY <1>1, <1>2, <1>3, ServicesAssumption DEF Chats!FindConversation, Chats!NoneOf, SendMoves,
     ChatInv, Chats!ChatIsSound, Chats!AttachmentIsStoredAlone, Chats!Stored, AttachmentsFit,
     MessagesFit, Chats!talking, Chats!marking
<1>12. Chats!FailedIsNotStored'
  BY <1>1, <1>2, <1>3, ServicesAssumption DEF Chats!FindConversation, Chats!NoneOf, SendMoves,
     ChatInv, Chats!ChatIsSound, Chats!FailedIsNotStored, Chats!Stored, MessagesFit,
     Chats!talking, Chats!marking
<1> QED BY <1>4, <1>5, <1>6, <1>7, <1>8, <1>9, <1>10, <1>11, <1>12 DEF ChatInv,
           Chats!ChatIsSound

\* A conversation is created.
LEMMA CreateConversationKeeps ==
    ASSUME ChatInv, NEW c \in Open, Chats!CreateConversation(c)
    PROVE  ChatInv'
<1>1. opening \in [Open -> Finding] /\ conversation \in [Open -> ConversationRow]
  BY ChatTyped DEF ChatInv
<1>2. /\ opening[c].pc = "missing"
      /\ opening' \in [Open -> Finding]
      /\ \A d \in Open \ {c} : opening'[d] = opening[d]
      /\ opening'[c].pc = "done" /\ opening'[c].pair = opening[c].pair
  BY <1>1 DEF Chats!CreateConversation, Finding
<1>3. /\ conversation' \in [Open -> ConversationRow]
      /\ \A d \in Open \ {c} : conversation'[d] = conversation[d]
      /\ conversation'[c].state = "live" /\ conversation'[c].pair = opening[c].pair
  BY <1>1 DEF Chats!CreateConversation, Finding, ConversationRow
<1>4. Chats!TypeOK'
  BY <1>1, <1>2, <1>3, ServicesAssumption DEF Chats!CreateConversation, ChatInv,
     Chats!ChatIsSound, Chats!TypeOK, ConversationRow, Finding, MessageRow, Sending,
     ReadingRow, Chats!talking, Chats!marking
<1>5. OpeningsFit'
  BY <1>1, <1>2, <1>3, ServicesAssumption DEF Chats!CreateConversation, ChatInv,
     Chats!ChatIsSound, OpeningsFit, Chats!Live, Chats!talking, Chats!marking
<1>6. MessagesFit'
  BY <1>1, <1>2, <1>3, ServicesAssumption DEF Chats!CreateConversation, ChatInv,
     Chats!ChatIsSound, MessagesFit, OpeningsFit, Chats!Stored, Chats!Live, Chats!talking,
     Chats!marking
<1>7. ReadsFit'
  BY <1>1, <1>2, <1>3, ServicesAssumption DEF Chats!CreateConversation, ChatInv,
     Chats!ChatIsSound, ReadsFit, MessagesFit, ReadOrSlipped, Begun, InReach, OlderFits,
     Chats!Inserting, Chats!Reaches, Chats!Stored, Chats!Received,
     Chats!talking, Chats!marking
<1>8. AttachmentsFit'
  BY <1>1, <1>2, <1>3, ServicesAssumption DEF Chats!CreateConversation, ChatInv,
     Chats!ChatIsSound, AttachmentsFit, MessagesFit, Chats!talking, Chats!marking
<1>9. Chats!OneConversationAlone'
  BY <1>1, <1>2, <1>3, ServicesAssumption DEF Chats!CreateConversation, ChatInv,
     Chats!ChatIsSound, Chats!OneConversationAlone, Chats!Live, OpeningsFit, Chats!talking,
     Chats!marking
<1>10. Chats!UnreadIsCounted'
  BY <1>1, <1>2, <1>3, ServicesAssumption DEF Chats!CreateConversation, ChatInv,
     Chats!ChatIsSound, Chats!UnreadIsCounted, Chats!Stored, Chats!Unread, Chats!Received,
     ReadsFit, MessagesFit, OpeningsFit, Chats!talking, Chats!marking
<1>11. Chats!AttachmentIsStoredAlone'
  BY <1>1, <1>2, <1>3, ServicesAssumption DEF Chats!CreateConversation, ChatInv,
     Chats!ChatIsSound, Chats!AttachmentIsStoredAlone, Chats!Stored, AttachmentsFit,
     MessagesFit, Chats!talking, Chats!marking
<1>12. Chats!FailedIsNotStored'
  BY <1>1, <1>2, <1>3, ServicesAssumption DEF Chats!CreateConversation, ChatInv,
     Chats!ChatIsSound, Chats!FailedIsNotStored, Chats!Stored, MessagesFit, Chats!talking,
     Chats!marking
<1> QED BY <1>4, <1>5, <1>6, <1>7, <1>8, <1>9, <1>10, <1>11, <1>12 DEF ChatInv,
           Chats!ChatIsSound

\* A conversation is removed with its messages.
LEMMA RemoveConversationKeeps ==
    ASSUME ChatInv, NEW c \in Open, Chats!RemoveConversation(c)
    PROVE  ChatInv'
<1>1. conversation \in [Open -> ConversationRow] /\ message \in [Post -> MessageRow]
  BY ChatTyped DEF ChatInv
<1>2. /\ conversation[c].state = "live"
      /\ conversation' \in [Open -> ConversationRow]
      /\ \A d \in Open \ {c} : conversation'[d] = conversation[d]
      /\ conversation'[c].state = "deleted" /\ conversation'[c].pair = conversation[c].pair
  BY <1>1 DEF Chats!RemoveConversation, Chats!Live, ConversationRow
<1>3. /\ message' \in [Post -> MessageRow]
      /\ \A m \in Post :
           /\ message'[m].state = 
                  IF message[m].conversation = c THEN "deleted" ELSE message[m].state
           /\ message'[m].conversation = message[m].conversation
           /\ message'[m].sender = message[m].sender
           /\ message'[m].read = message[m].read /\ message'[m].file = message[m].file
  BY <1>1 DEF Chats!RemoveConversation, MessageRow
<1>4. Chats!TypeOK'
  BY <1>1, <1>2, <1>3, ServicesAssumption DEF Chats!RemoveConversation, Chats!Live, ChatInv,
     Chats!ChatIsSound, Chats!TypeOK, ConversationRow, Finding, MessageRow, Sending,
     ReadingRow, Chats!talking, Chats!marking
<1>5. OpeningsFit'
  BY <1>1, <1>2, <1>3, ServicesAssumption DEF Chats!RemoveConversation, Chats!Live, ChatInv,
     Chats!ChatIsSound, OpeningsFit, Chats!Live, Chats!talking, Chats!marking
<1>6. MessagesFit'
  BY <1>1, <1>2, <1>3, ServicesAssumption DEF Chats!RemoveConversation, Chats!Live, ChatInv,
     Chats!ChatIsSound, MessagesFit, OpeningsFit, Chats!Stored, Chats!Live, Chats!talking,
     Chats!marking
<1>7. ReadsFit'
  <2>0. lastRead \in [User -> SUBSET Post] /\ lastRead' \in [User -> SUBSET Post]
        /\ \A q \in Reading : /\ reading[q].since \cup reading[q].marked \cup reading[q].until
                                  \subseteq Post
                              /\ reading'[q].since \cup reading'[q].marked
                                   \cup reading'[q].until \subseteq Post
    BY ChatTyped, <1>4 DEF ChatInv, Chats!TypeOK
  <2>1. ASSUME NEW p \in User, NEW m \in lastRead'[p] PROVE OlderFits(p, m)'
    BY <1>1, <1>2, <1>3, <2>0, <2>1 DEF Chats!RemoveConversation, ChatInv, ReadsFit,
       MessagesFit, ReadOrSlipped, Begun, InReach, OlderFits, Chats!Inserting,
       Chats!Reaches, Chats!Stored, Chats!Received, Chats!talking, Chats!marking
  <2>2. ASSUME NEW q \in Reading,
               NEW m \in reading'[q].since \cup reading'[q].marked \cup reading'[q].until
        PROVE  /\ Begun(m)'
               /\ m \in reading'[q].marked => message'[m].state # "none"
    BY <1>1, <1>2, <1>3, <2>0, <2>2 DEF Chats!RemoveConversation, ChatInv, ReadsFit,
       MessagesFit, ReadOrSlipped, Begun, InReach, OlderFits, Chats!Inserting,
       Chats!Reaches, Chats!Stored, Chats!Received, Chats!talking, Chats!marking
  <2>3. ASSUME NEW q \in Reading, NEW m \in reading'[q].since, InReach(m)',
               sending'[m].sender # reading'[q].person
        PROVE  ReadOrSlipped(m)'
    BY <1>1, <1>2, <1>3, <2>0, <2>3 DEF Chats!RemoveConversation, ChatInv, ReadsFit,
       MessagesFit, ReadOrSlipped, Begun, InReach, OlderFits, Chats!Inserting,
       Chats!Reaches, Chats!Stored, Chats!Received, Chats!talking, Chats!marking
  <2>4. ASSUME NEW q \in Reading, reading'[q].pc = "marked",
               NEW m \in Chats!Received(reading[q].person, reading[q].conversation)'
        PROVE  ReadOrSlipped(m)' \/ m \in reading'[q].marked
    BY <1>1, <1>2, <1>3, <2>0, <2>4 DEF Chats!RemoveConversation, ChatInv, ReadsFit,
       MessagesFit, ReadOrSlipped, Begun, InReach, OlderFits, Chats!Inserting,
       Chats!Reaches, Chats!Stored, Chats!Received, Chats!talking, Chats!marking
  <2>5. ASSUME NEW q \in Reading, reading'[q].pc = "stamped", NEW m \in reading'[q].until,
               InReach(m)'
        PROVE  ReadOrSlipped(m)' \/ m \in reading'[q].marked
    BY <1>1, <1>2, <1>3, <2>0, <2>5 DEF Chats!RemoveConversation, ChatInv, ReadsFit,
       MessagesFit, ReadOrSlipped, Begun, InReach, OlderFits, Chats!Inserting,
       Chats!Reaches, Chats!Stored, Chats!Received, Chats!talking, Chats!marking
  <2>6. ASSUME NEW q \in Reading, reading'[q].pc = "marked"
        PROVE  Chats!Inserting(q)' \subseteq slipped'
    BY <1>1, <1>2, <1>3, <2>0, <2>6 DEF Chats!RemoveConversation, ChatInv, ReadsFit,
       MessagesFit, ReadOrSlipped, Begun, InReach, OlderFits, Chats!Inserting,
       Chats!Reaches, Chats!Stored, Chats!Received, Chats!talking, Chats!marking
  <2> QED BY <2>1, <2>2, <2>3, <2>4, <2>5, <2>6 DEF ReadsFit
<1>8. AttachmentsFit'
  BY <1>1, <1>2, <1>3, ServicesAssumption DEF Chats!RemoveConversation, Chats!Live, ChatInv,
     Chats!ChatIsSound, AttachmentsFit, MessagesFit, Chats!talking, Chats!marking
<1>9. Chats!OneConversationAlone'
  BY <1>1, <1>2, <1>3, ServicesAssumption DEF Chats!RemoveConversation, Chats!Live, ChatInv,
     Chats!ChatIsSound, Chats!OneConversationAlone, Chats!Live, OpeningsFit, Chats!talking,
     Chats!marking
<1>10. Chats!UnreadIsCounted'
  BY <1>1, <1>2, <1>3, ServicesAssumption DEF Chats!RemoveConversation, Chats!Live, ChatInv,
     Chats!ChatIsSound, Chats!UnreadIsCounted, Chats!Stored, Chats!Unread, Chats!Received,
     ReadsFit, MessagesFit, OpeningsFit, Chats!talking, Chats!marking
<1>11. Chats!AttachmentIsStoredAlone'
  BY <1>1, <1>2, <1>3, ServicesAssumption DEF Chats!RemoveConversation, Chats!Live, ChatInv,
     Chats!ChatIsSound, Chats!AttachmentIsStoredAlone, Chats!Stored, AttachmentsFit,
     MessagesFit, Chats!talking, Chats!marking
<1>12. Chats!FailedIsNotStored'
  BY <1>1, <1>2, <1>3, ServicesAssumption DEF Chats!RemoveConversation, Chats!Live, ChatInv,
     Chats!ChatIsSound, Chats!FailedIsNotStored, Chats!Stored, MessagesFit, Chats!talking,
     Chats!marking
<1> QED BY <1>4, <1>5, <1>6, <1>7, <1>8, <1>9, <1>10, <1>11, <1>12 DEF ChatInv,
           Chats!ChatIsSound

\* A request to send begins.
LEMMA CheckParticipantKeeps ==
    ASSUME ChatInv, NEW m \in Post, NEW c \in Open, NEW p \in User,
           NEW n \in Name \cup {Nobody}, Chats!CheckParticipant(m, c, p, n)
    PROVE  ChatInv'
<1>1. sending \in [Post -> Sending]
  BY ChatTyped DEF ChatInv
<1>2. /\ sending[m].pc = "idle"
      /\ sending' \in [Post -> Sending]
      /\ \A k \in Post \ {m} : sending'[k] = sending[k]
      /\ sending'[m].pc = "checked" /\ sending'[m].conversation = c
      /\ sending'[m].sender = p /\ sending'[m].file = n
  BY <1>1 DEF Chats!CheckParticipant, Sending
<1>3. Chats!TypeOK'
  BY <1>1, <1>2, ServicesAssumption DEF Chats!CheckParticipant, ChatInv, Chats!ChatIsSound,
     Chats!TypeOK, ConversationRow, Finding, MessageRow, Sending, ReadingRow, Chats!talking,
     Chats!marking
<1>4. OpeningsFit'
  BY <1>1, <1>2, ServicesAssumption DEF Chats!CheckParticipant, ChatInv, Chats!ChatIsSound,
     OpeningsFit, Chats!Live, Chats!talking, Chats!marking
<1>5. MessagesFit'
  BY <1>1, <1>2, ServicesAssumption DEF Chats!CheckParticipant, ChatInv, Chats!ChatIsSound,
     MessagesFit, OpeningsFit, Chats!Stored, Chats!Live, Chats!talking, Chats!marking
<1>6. ReadsFit'
  BY <1>1, <1>2, ServicesAssumption DEF Chats!CheckParticipant, ChatInv, Chats!ChatIsSound,
     ReadsFit, MessagesFit, ReadOrSlipped, Begun, InReach, OlderFits, Chats!Inserting,
     Chats!Reaches, Chats!Stored, Chats!Received, Chats!talking,
     Chats!marking
<1>7. AttachmentsFit'
  BY <1>1, <1>2, ServicesAssumption DEF Chats!CheckParticipant, ChatInv, Chats!ChatIsSound,
     AttachmentsFit, MessagesFit, Chats!talking, Chats!marking
<1>8. Chats!OneConversationAlone'
  BY <1>1, <1>2, ServicesAssumption DEF Chats!CheckParticipant, ChatInv, Chats!ChatIsSound,
     Chats!OneConversationAlone, Chats!Live, OpeningsFit, Chats!talking, Chats!marking
<1>9. Chats!UnreadIsCounted'
  BY <1>1, <1>2, ServicesAssumption DEF Chats!CheckParticipant, ChatInv, Chats!ChatIsSound,
     Chats!UnreadIsCounted, Chats!Stored, Chats!Unread, Chats!Received, ReadsFit, MessagesFit,
     OpeningsFit, Chats!talking, Chats!marking
<1>10. Chats!AttachmentIsStoredAlone'
  BY <1>1, <1>2, ServicesAssumption DEF Chats!CheckParticipant, ChatInv, Chats!ChatIsSound,
     Chats!AttachmentIsStoredAlone, Chats!Stored, AttachmentsFit, MessagesFit, Chats!talking,
     Chats!marking
<1>11. Chats!FailedIsNotStored'
  BY <1>1, <1>2, ServicesAssumption DEF Chats!CheckParticipant, ChatInv, Chats!ChatIsSound,
     Chats!FailedIsNotStored, Chats!Stored, MessagesFit, Chats!talking, Chats!marking
<1> QED BY <1>3, <1>4, <1>5, <1>6, <1>7, <1>8, <1>9, <1>10, <1>11 DEF ChatInv, Chats!ChatIsSound

\* An attachment is put on the disk.
LEMMA PutAttachmentKeeps ==
    ASSUME ChatInv, NEW m \in Post, Chats!PutAttachment(m)
    PROVE  ChatInv'
<1>1. SendMoves(m, "stored")
  BY SendGoesOn DEF Chats!PutAttachment, ChatInv
<1>2. Chats!TypeOK'
  BY <1>1, ServicesAssumption DEF Chats!PutAttachment, SendMoves, ChatInv, Chats!ChatIsSound,
     Chats!TypeOK, ConversationRow, Finding, MessageRow, Sending, ReadingRow, Chats!talking,
     Chats!marking
<1>3. OpeningsFit'
  BY <1>1, ServicesAssumption DEF Chats!PutAttachment, SendMoves, ChatInv, Chats!ChatIsSound,
     OpeningsFit, Chats!Live, Chats!talking, Chats!marking
<1>4. MessagesFit'
  BY <1>1, ServicesAssumption DEF Chats!PutAttachment, SendMoves, ChatInv, Chats!ChatIsSound,
     MessagesFit, OpeningsFit, Chats!Stored, Chats!Live, Chats!talking, Chats!marking
<1>5. ReadsFit'
  BY <1>1, ServicesAssumption DEF Chats!PutAttachment, SendMoves, ChatInv, Chats!ChatIsSound,
     ReadsFit, MessagesFit, ReadOrSlipped, Begun, InReach, OlderFits, Chats!Inserting,
     Chats!Reaches, Chats!Stored, Chats!Received, Chats!talking,
     Chats!marking
<1>6. AttachmentsFit'
  BY <1>1, ServicesAssumption DEF Chats!PutAttachment, SendMoves, ChatInv, Chats!ChatIsSound,
     AttachmentsFit, MessagesFit, Chats!talking, Chats!marking
<1>7. Chats!OneConversationAlone'
  BY <1>1, ServicesAssumption DEF Chats!PutAttachment, SendMoves, ChatInv, Chats!ChatIsSound,
     Chats!OneConversationAlone, Chats!Live, OpeningsFit, Chats!talking, Chats!marking
<1>8. Chats!UnreadIsCounted'
  BY <1>1, ServicesAssumption DEF Chats!PutAttachment, SendMoves, ChatInv, Chats!ChatIsSound,
     Chats!UnreadIsCounted, Chats!Stored, Chats!Unread, Chats!Received, ReadsFit, MessagesFit,
     OpeningsFit, Chats!talking, Chats!marking
<1>9. Chats!AttachmentIsStoredAlone'
  BY <1>1, ServicesAssumption DEF Chats!PutAttachment, SendMoves, ChatInv, Chats!ChatIsSound,
     Chats!AttachmentIsStoredAlone, Chats!Stored, AttachmentsFit, MessagesFit, Chats!talking,
     Chats!marking
<1>10. Chats!FailedIsNotStored'
  BY <1>1, ServicesAssumption DEF Chats!PutAttachment, SendMoves, ChatInv, Chats!ChatIsSound,
     Chats!FailedIsNotStored, Chats!Stored, MessagesFit, Chats!talking, Chats!marking
<1> QED BY <1>2, <1>3, <1>4, <1>5, <1>6, <1>7, <1>8, <1>9, <1>10 DEF ChatInv, Chats!ChatIsSound

\* The disk refuses an attachment.
LEMMA PutFailsKeeps ==
    ASSUME ChatInv, NEW m \in Post, Chats!PutFails(m)
    PROVE  ChatInv'
<1>1. SendMoves(m, "stored")
  BY SendGoesOn DEF Chats!PutFails, ChatInv
<1>2. Chats!TypeOK'
  BY <1>1, ServicesAssumption DEF Chats!PutFails, Chats!Fault, SendMoves, ChatInv,
     Chats!ChatIsSound, Chats!TypeOK, ConversationRow, Finding, MessageRow, Sending,
     ReadingRow, Chats!talking, Chats!marking
<1>3. OpeningsFit'
  BY <1>1, ServicesAssumption DEF Chats!PutFails, Chats!Fault, SendMoves, ChatInv,
     Chats!ChatIsSound, OpeningsFit, Chats!Live, Chats!talking, Chats!marking
<1>4. MessagesFit'
  BY <1>1, ServicesAssumption DEF Chats!PutFails, Chats!Fault, SendMoves, ChatInv,
     Chats!ChatIsSound, MessagesFit, OpeningsFit, Chats!Stored, Chats!Live, Chats!talking,
     Chats!marking
<1>5. ReadsFit'
  BY <1>1, ServicesAssumption DEF Chats!PutFails, Chats!Fault, SendMoves, ChatInv,
     Chats!ChatIsSound, ReadsFit, MessagesFit, ReadOrSlipped, Begun, InReach, OlderFits,
     Chats!Inserting, Chats!Reaches, Chats!Stored, Chats!Received,
     Chats!talking, Chats!marking
<1>6. AttachmentsFit'
  BY <1>1, ServicesAssumption DEF Chats!PutFails, Chats!Fault, SendMoves, ChatInv,
     Chats!ChatIsSound, AttachmentsFit, MessagesFit, Chats!talking, Chats!marking
<1>7. Chats!OneConversationAlone'
  BY <1>1, ServicesAssumption DEF Chats!PutFails, Chats!Fault, SendMoves, ChatInv,
     Chats!ChatIsSound, Chats!OneConversationAlone, Chats!Live, OpeningsFit, Chats!talking,
     Chats!marking
<1>8. Chats!UnreadIsCounted'
  BY <1>1, ServicesAssumption DEF Chats!PutFails, Chats!Fault, SendMoves, ChatInv,
     Chats!ChatIsSound, Chats!UnreadIsCounted, Chats!Stored, Chats!Unread, Chats!Received,
     ReadsFit, MessagesFit, OpeningsFit, Chats!talking, Chats!marking
<1>9. Chats!AttachmentIsStoredAlone'
  BY <1>1, ServicesAssumption DEF Chats!PutFails, Chats!Fault, SendMoves, ChatInv,
     Chats!ChatIsSound, Chats!AttachmentIsStoredAlone, Chats!Stored, AttachmentsFit,
     MessagesFit, Chats!talking, Chats!marking
<1>10. Chats!FailedIsNotStored'
  BY <1>1, ServicesAssumption DEF Chats!PutFails, Chats!Fault, SendMoves, ChatInv,
     Chats!ChatIsSound, Chats!FailedIsNotStored, Chats!Stored, MessagesFit, Chats!talking,
     Chats!marking
<1> QED BY <1>2, <1>3, <1>4, <1>5, <1>6, <1>7, <1>8, <1>9, <1>10 DEF ChatInv, Chats!ChatIsSound

\* The insert of a message begins.
LEMMA BeginCreateKeeps ==
    ASSUME ChatInv, NEW m \in Post, Chats!BeginCreate(m)
    PROVE  ChatInv'
<1>1. SendMoves(m, "inserting")
  BY SendGoesOn DEF Chats!BeginCreate, ChatInv
<1>2. Chats!TypeOK'
  BY <1>1, ServicesAssumption DEF Chats!BeginCreate, Chats!Reaches, SendMoves, ChatInv,
     Chats!ChatIsSound, Chats!TypeOK, ConversationRow, Finding, MessageRow, Sending,
     ReadingRow, Chats!talking, Chats!marking
<1>3. OpeningsFit'
  BY <1>1, ServicesAssumption DEF Chats!BeginCreate, Chats!Reaches, SendMoves, ChatInv,
     Chats!ChatIsSound, OpeningsFit, Chats!Live, Chats!talking, Chats!marking
<1>4. MessagesFit'
  BY <1>1, ServicesAssumption DEF Chats!BeginCreate, Chats!Reaches, SendMoves, ChatInv,
     Chats!ChatIsSound, MessagesFit, OpeningsFit, Chats!Stored, Chats!Live, Chats!talking,
     Chats!marking
<1>5. ReadsFit'
  BY <1>1, ServicesAssumption DEF Chats!BeginCreate, Chats!Reaches, SendMoves, ChatInv,
     Chats!ChatIsSound, ReadsFit, MessagesFit, ReadOrSlipped, Begun, InReach, OlderFits,
     Chats!Inserting, Chats!Reaches, Chats!Stored, Chats!Received,
     Chats!talking, Chats!marking
<1>6. AttachmentsFit'
  BY <1>1, ServicesAssumption DEF Chats!BeginCreate, Chats!Reaches, SendMoves, ChatInv,
     Chats!ChatIsSound, AttachmentsFit, MessagesFit, Chats!talking, Chats!marking
<1>7. Chats!OneConversationAlone'
  BY <1>1, ServicesAssumption DEF Chats!BeginCreate, Chats!Reaches, SendMoves, ChatInv,
     Chats!ChatIsSound, Chats!OneConversationAlone, Chats!Live, OpeningsFit, Chats!talking,
     Chats!marking
<1>8. Chats!UnreadIsCounted'
  BY <1>1, ServicesAssumption DEF Chats!BeginCreate, Chats!Reaches, SendMoves, ChatInv,
     Chats!ChatIsSound, Chats!UnreadIsCounted, Chats!Stored, Chats!Unread, Chats!Received,
     ReadsFit, MessagesFit, OpeningsFit, Chats!talking, Chats!marking
<1>9. Chats!AttachmentIsStoredAlone'
  BY <1>1, ServicesAssumption DEF Chats!BeginCreate, Chats!Reaches, SendMoves, ChatInv,
     Chats!ChatIsSound, Chats!AttachmentIsStoredAlone, Chats!Stored, AttachmentsFit,
     MessagesFit, Chats!talking, Chats!marking
<1>10. Chats!FailedIsNotStored'
  BY <1>1, ServicesAssumption DEF Chats!BeginCreate, Chats!Reaches, SendMoves, ChatInv,
     Chats!ChatIsSound, Chats!FailedIsNotStored, Chats!Stored, MessagesFit, Chats!talking,
     Chats!marking
<1> QED BY <1>2, <1>3, <1>4, <1>5, <1>6, <1>7, <1>8, <1>9, <1>10 DEF ChatInv, Chats!ChatIsSound

\* A message is created, or refused.
LEMMA CreateMessageKeeps ==
    ASSUME ChatInv, NEW m \in Post, Chats!CreateMessage(m)
    PROVE  ChatInv'
<1>1. sending \in [Post -> Sending] /\ message \in [Post -> MessageRow]
  BY ChatTyped DEF ChatInv
<1>2. IF Chats!Live(sending[m].conversation)
      THEN /\ message' \in [Post -> MessageRow]
           /\ \A k \in Post \ {m} : message'[k] = message[k]
           /\ message'[m].state = "live" /\ message'[m].conversation = sending[m].conversation
           /\ message'[m].sender = sending[m].sender /\ message'[m].read = FALSE
           /\ message'[m].file = sending[m].file
           /\ SendMoves(m, "created")
      ELSE message' = message /\ SendMoves(m, "failed")
  <2>1. CASE Chats!Live(sending[m].conversation)
    <3> DEFINE row == [state |-> "live", conversation |-> sending[m].conversation,
                       sender |-> sending[m].sender, read |-> FALSE,
                       file |-> sending[m].file]
    <3>1. SendMoves(m, "created")
      BY <2>1, SendGoesOn DEF Chats!CreateMessage, ChatInv
    <3>2. /\ row \in MessageRow /\ row.state = "live"
          /\ row.conversation = sending[m].conversation /\ row.sender = sending[m].sender
          /\ row.read = FALSE /\ row.file = sending[m].file
      BY <1>1 DEF Sending, MessageRow
    <3>3. message' = [message EXCEPT ![m] = row]
      BY <2>1 DEF Chats!CreateMessage
    <3> HIDE DEF row
    <3> QED BY <1>1, <2>1, <3>1, <3>2, <3>3
  <2>2. CASE ~Chats!Live(sending[m].conversation)
    BY <2>2, SendGoesOn DEF Chats!CreateMessage, ChatInv
  <2> QED BY <2>1, <2>2
<1>3. Chats!TypeOK'
  BY <1>1, <1>2, ServicesAssumption DEF Chats!CreateMessage, SendMoves, ChatInv,
     Chats!ChatIsSound, Chats!TypeOK, ConversationRow, Finding, MessageRow, Sending,
     ReadingRow, Chats!talking, Chats!marking
<1>4. OpeningsFit'
  BY <1>1, <1>2, ServicesAssumption DEF Chats!CreateMessage, SendMoves, ChatInv,
     Chats!ChatIsSound, OpeningsFit, Chats!Live, Chats!talking, Chats!marking
<1>5. MessagesFit'
  BY <1>1, <1>2, ServicesAssumption DEF Chats!CreateMessage, SendMoves, ChatInv,
     Chats!ChatIsSound, MessagesFit, OpeningsFit, Chats!Stored, Chats!Live, Chats!talking,
     Chats!marking
<1>6. ReadsFit'
  <2>0. lastRead \in [User -> SUBSET Post] /\ lastRead' \in [User -> SUBSET Post]
        /\ \A q \in Reading : /\ reading[q].since \cup reading[q].marked \cup reading[q].until
                                  \subseteq Post
                              /\ reading'[q].since \cup reading'[q].marked
                                   \cup reading'[q].until \subseteq Post
    BY ChatTyped, <1>3 DEF ChatInv, Chats!TypeOK
  <2>1. ASSUME NEW p \in User, NEW k \in lastRead'[p] PROVE OlderFits(p, k)'
    BY <1>1, <1>2, <2>0, <2>1 DEF Chats!CreateMessage, SendMoves, ChatInv, ReadsFit,
       MessagesFit, ReadOrSlipped, Begun, InReach, OlderFits, Chats!Inserting,
       Chats!Reaches, Chats!Stored, Chats!Received, Chats!talking, Chats!marking
  <2>2. ASSUME NEW q \in Reading,
               NEW k \in reading'[q].since \cup reading'[q].marked \cup reading'[q].until
        PROVE  /\ Begun(k)'
               /\ k \in reading'[q].marked => message'[k].state # "none"
    BY <1>1, <1>2, <2>0, <2>2 DEF Chats!CreateMessage, SendMoves, ChatInv, ReadsFit,
       MessagesFit, ReadOrSlipped, Begun, InReach, OlderFits, Chats!Inserting,
       Chats!Reaches, Chats!Stored, Chats!Received, Chats!talking, Chats!marking
  <2>3. ASSUME NEW q \in Reading, NEW k \in reading'[q].since, InReach(k)',
               sending'[k].sender # reading'[q].person
        PROVE  ReadOrSlipped(k)'
    BY <1>1, <1>2, <2>0, <2>3 DEF Chats!CreateMessage, SendMoves, ChatInv, ReadsFit,
       MessagesFit, ReadOrSlipped, Begun, InReach, OlderFits, Chats!Inserting,
       Chats!Reaches, Chats!Stored, Chats!Received, Chats!talking, Chats!marking
  <2>4. ASSUME NEW q \in Reading, reading'[q].pc = "marked",
               NEW k \in Chats!Received(reading[q].person, reading[q].conversation)'
        PROVE  ReadOrSlipped(k)' \/ k \in reading'[q].marked
    BY <1>1, <1>2, <2>0, <2>4 DEF Chats!CreateMessage, SendMoves, ChatInv, ReadsFit,
       MessagesFit, ReadOrSlipped, Begun, InReach, OlderFits, Chats!Inserting,
       Chats!Reaches, Chats!Stored, Chats!Received, Chats!talking, Chats!marking
  <2>5. ASSUME NEW q \in Reading, reading'[q].pc = "stamped", NEW k \in reading'[q].until,
               InReach(k)'
        PROVE  ReadOrSlipped(k)' \/ k \in reading'[q].marked
    BY <1>1, <1>2, <2>0, <2>5 DEF Chats!CreateMessage, SendMoves, ChatInv, ReadsFit,
       MessagesFit, ReadOrSlipped, Begun, InReach, OlderFits, Chats!Inserting,
       Chats!Reaches, Chats!Stored, Chats!Received, Chats!talking, Chats!marking
  <2>6. ASSUME NEW q \in Reading, reading'[q].pc = "marked"
        PROVE  Chats!Inserting(q)' \subseteq slipped'
    BY <1>1, <1>2, <2>0, <2>6 DEF Chats!CreateMessage, SendMoves, ChatInv, ReadsFit,
       MessagesFit, ReadOrSlipped, Begun, InReach, OlderFits, Chats!Inserting,
       Chats!Reaches, Chats!Stored, Chats!Received, Chats!talking, Chats!marking
  <2> QED BY <2>1, <2>2, <2>3, <2>4, <2>5, <2>6 DEF ReadsFit
<1>7. AttachmentsFit'
  BY <1>1, <1>2, ServicesAssumption DEF Chats!CreateMessage, SendMoves, ChatInv,
     Chats!ChatIsSound, AttachmentsFit, MessagesFit, Chats!talking, Chats!marking
<1>8. Chats!OneConversationAlone'
  BY <1>1, <1>2, ServicesAssumption DEF Chats!CreateMessage, SendMoves, ChatInv,
     Chats!ChatIsSound, Chats!OneConversationAlone, Chats!Live, OpeningsFit, Chats!talking,
     Chats!marking
<1>9. Chats!UnreadIsCounted'
  <2>1. /\ UNCHANGED <<conversation, lastRead, slipped>> /\ sending[m].pc = "inserting"
        /\ lastRead \in [User -> SUBSET Post]
    BY DEF Chats!CreateMessage, Chats!talking, Chats!marking, ChatInv, Chats!TypeOK
  <2> SUFFICES ASSUME NEW k \in Post, NEW p \in User, Chats!Stored(k)',
                      p \in conversation[message'[k].conversation].pair,
                      p # message'[k].sender, ~message'[k].read, k \notin slipped
               PROVE  k \notin lastRead[p]
    BY <2>1 DEF Chats!Stored, Chats!Unread, Chats!Received, Chats!UnreadIsCounted
  <2>2. CASE message'[k] = message[k]
    BY <2>1, <2>2 DEF ChatInv, Chats!ChatIsSound, Chats!UnreadIsCounted, Chats!Unread,
       Chats!Stored
  <2>3. CASE message'[k] # message[k]
    <3>1. k = m /\ message'[m].sender = sending[m].sender
      BY <1>2, <2>3
    <3> QED BY <2>1, <3>1 DEF ChatInv, ReadsFit, OlderFits
  <2> QED BY <2>2, <2>3
<1>10. Chats!AttachmentIsStoredAlone'
  BY <1>1, <1>2, ServicesAssumption DEF Chats!CreateMessage, SendMoves, ChatInv,
     Chats!ChatIsSound, Chats!AttachmentIsStoredAlone, Chats!Stored, AttachmentsFit,
     MessagesFit, Chats!talking, Chats!marking
<1>11. Chats!FailedIsNotStored'
  BY <1>1, <1>2, ServicesAssumption DEF Chats!CreateMessage, SendMoves, ChatInv,
     Chats!ChatIsSound, Chats!FailedIsNotStored, Chats!Stored, MessagesFit, Chats!talking,
     Chats!marking
<1> QED BY <1>3, <1>4, <1>5, <1>6, <1>7, <1>8, <1>9, <1>10, <1>11 DEF ChatInv, Chats!ChatIsSound

\* A message is announced.
LEMMA AnnounceKeeps ==
    ASSUME ChatInv, NEW m \in Post, Chats!Announce(m)
    PROVE  ChatInv'
<1>1. SendMoves(m, IF Chats!Live(sending[m].conversation) THEN "sent" ELSE "failed")
  BY SendGoesOn DEF Chats!Announce, ChatInv
<1>2. Chats!TypeOK'
  BY <1>1, ServicesAssumption DEF Chats!Announce, SendMoves, Chats!Live, ChatInv,
     Chats!ChatIsSound, Chats!TypeOK, ConversationRow, Finding, MessageRow, Sending,
     ReadingRow, Chats!talking, Chats!marking
<1>3. OpeningsFit'
  BY <1>1, ServicesAssumption DEF Chats!Announce, SendMoves, Chats!Live, ChatInv,
     Chats!ChatIsSound, OpeningsFit, Chats!Live, Chats!talking, Chats!marking
<1>4. MessagesFit'
  BY <1>1, ServicesAssumption DEF Chats!Announce, SendMoves, Chats!Live, ChatInv,
     Chats!ChatIsSound, MessagesFit, OpeningsFit, Chats!Stored, Chats!Live, Chats!talking,
     Chats!marking
<1>5. ReadsFit'
  BY <1>1, ServicesAssumption DEF Chats!Announce, SendMoves, Chats!Live, ChatInv,
     Chats!ChatIsSound, ReadsFit, MessagesFit, ReadOrSlipped, Begun, InReach, OlderFits,
     Chats!Inserting, Chats!Reaches, Chats!Stored, Chats!Received,
     Chats!talking, Chats!marking
<1>6. AttachmentsFit'
  BY <1>1, ServicesAssumption DEF Chats!Announce, SendMoves, Chats!Live, ChatInv,
     Chats!ChatIsSound, AttachmentsFit, MessagesFit, Chats!talking, Chats!marking
<1>7. Chats!OneConversationAlone'
  BY <1>1, ServicesAssumption DEF Chats!Announce, SendMoves, Chats!Live, ChatInv,
     Chats!ChatIsSound, Chats!OneConversationAlone, Chats!Live, OpeningsFit, Chats!talking,
     Chats!marking
<1>8. Chats!UnreadIsCounted'
  BY <1>1, ServicesAssumption DEF Chats!Announce, SendMoves, Chats!Live, ChatInv,
     Chats!ChatIsSound, Chats!UnreadIsCounted, Chats!Stored, Chats!Unread, Chats!Received,
     ReadsFit, MessagesFit, OpeningsFit, Chats!talking, Chats!marking
<1>9. Chats!AttachmentIsStoredAlone'
  BY <1>1, ServicesAssumption DEF Chats!Announce, SendMoves, Chats!Live, ChatInv,
     Chats!ChatIsSound, Chats!AttachmentIsStoredAlone, Chats!Stored, AttachmentsFit,
     MessagesFit, Chats!talking, Chats!marking
<1>10. Chats!FailedIsNotStored'
  BY <1>1, ServicesAssumption DEF Chats!Announce, SendMoves, Chats!Live, ChatInv,
     Chats!ChatIsSound, Chats!FailedIsNotStored, Chats!Stored, MessagesFit, Chats!talking,
     Chats!marking
<1> QED BY <1>2, <1>3, <1>4, <1>5, <1>6, <1>7, <1>8, <1>9, <1>10 DEF ChatInv, Chats!ChatIsSound

\* A statement of a request to send fails.
LEMMA StatementFailsKeeps ==
    ASSUME ChatInv, NEW m \in Post, Chats!StatementFails(m)
    PROVE  ChatInv'
<1>1. SendMoves(m, "failed")
  BY SendGoesOn DEF Chats!StatementFails, ChatInv
<1>2. Chats!TypeOK'
  BY <1>1, ServicesAssumption DEF Chats!StatementFails, Chats!Fault, SendMoves, ChatInv,
     Chats!ChatIsSound, Chats!TypeOK, ConversationRow, Finding, MessageRow, Sending,
     ReadingRow, Chats!talking, Chats!marking
<1>3. OpeningsFit'
  BY <1>1, ServicesAssumption DEF Chats!StatementFails, Chats!Fault, SendMoves, ChatInv,
     Chats!ChatIsSound, OpeningsFit, Chats!Live, Chats!talking, Chats!marking
<1>4. MessagesFit'
  BY <1>1, ServicesAssumption DEF Chats!StatementFails, Chats!Fault, SendMoves, ChatInv,
     Chats!ChatIsSound, MessagesFit, OpeningsFit, Chats!Stored, Chats!Live, Chats!talking,
     Chats!marking
<1>5. ReadsFit'
  BY <1>1, ServicesAssumption DEF Chats!StatementFails, Chats!Fault, SendMoves, ChatInv,
     Chats!ChatIsSound, ReadsFit, MessagesFit, ReadOrSlipped, Begun, InReach, OlderFits,
     Chats!Inserting, Chats!Reaches, Chats!Stored, Chats!Received,
     Chats!talking, Chats!marking
<1>6. AttachmentsFit'
  BY <1>1, ServicesAssumption DEF Chats!StatementFails, Chats!Fault, SendMoves, ChatInv,
     Chats!ChatIsSound, AttachmentsFit, MessagesFit, Chats!talking, Chats!marking
<1>7. Chats!OneConversationAlone'
  BY <1>1, ServicesAssumption DEF Chats!StatementFails, Chats!Fault, SendMoves, ChatInv,
     Chats!ChatIsSound, Chats!OneConversationAlone, Chats!Live, OpeningsFit, Chats!talking,
     Chats!marking
<1>8. Chats!UnreadIsCounted'
  BY <1>1, ServicesAssumption DEF Chats!StatementFails, Chats!Fault, SendMoves, ChatInv,
     Chats!ChatIsSound, Chats!UnreadIsCounted, Chats!Stored, Chats!Unread, Chats!Received,
     ReadsFit, MessagesFit, OpeningsFit, Chats!talking, Chats!marking
<1>9. Chats!AttachmentIsStoredAlone'
  BY <1>1, ServicesAssumption DEF Chats!StatementFails, Chats!Fault, SendMoves, ChatInv,
     Chats!ChatIsSound, Chats!AttachmentIsStoredAlone, Chats!Stored, AttachmentsFit,
     MessagesFit, Chats!talking, Chats!marking
<1>10. Chats!FailedIsNotStored'
  BY <1>1, ServicesAssumption DEF Chats!StatementFails, Chats!Fault, SendMoves, ChatInv,
     Chats!ChatIsSound, Chats!FailedIsNotStored, Chats!Stored, MessagesFit, Chats!talking,
     Chats!marking
<1> QED BY <1>2, <1>3, <1>4, <1>5, <1>6, <1>7, <1>8, <1>9, <1>10 DEF ChatInv, Chats!ChatIsSound

\* The file of a message is deleted.
LEMMA EraseFileKeeps ==
    ASSUME ChatInv, NEW m \in Post, Chats!EraseFile(m)
    PROVE  ChatInv'
<1>1. message \in [Post -> MessageRow]
  BY ChatTyped DEF ChatInv
<1>2. Chats!TypeOK'
  BY <1>1, ServicesAssumption DEF Chats!EraseFile, ChatInv, Chats!ChatIsSound, Chats!TypeOK,
     ConversationRow, Finding, MessageRow, Sending, ReadingRow, Chats!talking, Chats!marking
<1>3. OpeningsFit'
  BY <1>1, ServicesAssumption DEF Chats!EraseFile, ChatInv, Chats!ChatIsSound, OpeningsFit,
     Chats!Live, Chats!talking, Chats!marking
<1>4. MessagesFit'
  BY <1>1, ServicesAssumption DEF Chats!EraseFile, ChatInv, Chats!ChatIsSound, MessagesFit,
     OpeningsFit, Chats!Stored, Chats!Live, Chats!talking, Chats!marking
<1>5. ReadsFit'
  BY <1>1, ServicesAssumption DEF Chats!EraseFile, ChatInv, Chats!ChatIsSound, ReadsFit,
     MessagesFit, ReadOrSlipped, Begun, InReach, OlderFits, Chats!Inserting,
     Chats!Reaches, Chats!Stored, Chats!Received, Chats!talking, Chats!marking
<1>6. AttachmentsFit'
  <2>1. \A k \in Post \ {m} : sending[k].file = message[m].file
                                => sending[k].file \in chatClash \cup {Nobody}
    BY DEF Chats!EraseFile, Chats!Stored, ChatInv, MessagesFit, AttachmentsFit
  <2>2. sending[m].pc \notin {"stored", "inserting"}
    BY DEF Chats!EraseFile, Chats!Stored, ChatInv, MessagesFit
  <2> QED BY <2>1, <2>2 DEF Chats!EraseFile, ChatInv, AttachmentsFit, Chats!talking,
             Chats!marking
<1>7. Chats!OneConversationAlone'
  BY <1>1, ServicesAssumption DEF Chats!EraseFile, ChatInv, Chats!ChatIsSound,
     Chats!OneConversationAlone, Chats!Live, OpeningsFit, Chats!talking, Chats!marking
<1>8. Chats!UnreadIsCounted'
  BY <1>1, ServicesAssumption DEF Chats!EraseFile, ChatInv, Chats!ChatIsSound,
     Chats!UnreadIsCounted, Chats!Stored, Chats!Unread, Chats!Received, ReadsFit, MessagesFit,
     OpeningsFit, Chats!talking, Chats!marking
<1>9. Chats!AttachmentIsStoredAlone'
  BY <1>1, ServicesAssumption DEF Chats!EraseFile, ChatInv, Chats!ChatIsSound,
     Chats!AttachmentIsStoredAlone, Chats!Stored, AttachmentsFit, MessagesFit, Chats!talking,
     Chats!marking
<1>10. Chats!FailedIsNotStored'
  BY <1>1, ServicesAssumption DEF Chats!EraseFile, ChatInv, Chats!ChatIsSound,
     Chats!FailedIsNotStored, Chats!Stored, MessagesFit, Chats!talking, Chats!marking
<1> QED BY <1>2, <1>3, <1>4, <1>5, <1>6, <1>7, <1>8, <1>9, <1>10 DEF ChatInv, Chats!ChatIsSound

\* The row of a message is deleted.
LEMMA EraseRowKeeps ==
    ASSUME ChatInv, NEW m \in Post, Chats!EraseRow(m)
    PROVE  ChatInv'
<1>1. message \in [Post -> MessageRow]
  BY ChatTyped DEF ChatInv
<1>2. /\ message' \in [Post -> MessageRow]
      /\ \A k \in Post \ {m} : message'[k] = message[k]
      /\ message'[m].state = "deleted" /\ message'[m].conversation = message[m].conversation
      /\ message'[m].sender = message[m].sender
      /\ message'[m].read = message[m].read /\ message'[m].file = message[m].file
  BY <1>1 DEF Chats!EraseRow, MessageRow
<1>3. Chats!TypeOK'
  BY <1>1, <1>2, ServicesAssumption DEF Chats!EraseRow, ChatInv, Chats!ChatIsSound,
     Chats!TypeOK, ConversationRow, Finding, MessageRow, Sending, ReadingRow, Chats!talking,
     Chats!marking
<1>4. OpeningsFit'
  BY <1>1, <1>2, ServicesAssumption DEF Chats!EraseRow, ChatInv, Chats!ChatIsSound,
     OpeningsFit, Chats!Live, Chats!talking, Chats!marking
<1>5. MessagesFit'
  BY <1>1, <1>2, ServicesAssumption DEF Chats!EraseRow, ChatInv, Chats!ChatIsSound,
     MessagesFit, OpeningsFit, Chats!Stored, Chats!Live, Chats!talking, Chats!marking
<1>6. ReadsFit'
  BY <1>1, <1>2, ServicesAssumption DEF Chats!EraseRow, ChatInv, Chats!ChatIsSound, ReadsFit,
     MessagesFit, ReadOrSlipped, Begun, InReach, OlderFits, Chats!Inserting,
     Chats!Reaches, Chats!Stored, Chats!Received, Chats!talking, Chats!marking
<1>7. AttachmentsFit'
  BY <1>1, <1>2, ServicesAssumption DEF Chats!EraseRow, ChatInv, Chats!ChatIsSound,
     AttachmentsFit, MessagesFit, Chats!talking, Chats!marking
<1>8. Chats!OneConversationAlone'
  BY <1>1, <1>2, ServicesAssumption DEF Chats!EraseRow, ChatInv, Chats!ChatIsSound,
     Chats!OneConversationAlone, Chats!Live, OpeningsFit, Chats!talking, Chats!marking
<1>9. Chats!UnreadIsCounted'
  BY <1>1, <1>2, ServicesAssumption DEF Chats!EraseRow, ChatInv, Chats!ChatIsSound,
     Chats!UnreadIsCounted, Chats!Stored, Chats!Unread, Chats!Received, ReadsFit, MessagesFit,
     OpeningsFit, Chats!talking, Chats!marking
<1>10. Chats!AttachmentIsStoredAlone'
  BY <1>1, <1>2, ServicesAssumption DEF Chats!EraseRow, ChatInv, Chats!ChatIsSound,
     Chats!AttachmentIsStoredAlone, Chats!Stored, AttachmentsFit, MessagesFit, Chats!talking,
     Chats!marking
<1>11. Chats!FailedIsNotStored'
  BY <1>1, <1>2, ServicesAssumption DEF Chats!EraseRow, ChatInv, Chats!ChatIsSound,
     Chats!FailedIsNotStored, Chats!Stored, MessagesFit, Chats!talking, Chats!marking
<1> QED BY <1>3, <1>4, <1>5, <1>6, <1>7, <1>8, <1>9, <1>10, <1>11 DEF ChatInv, Chats!ChatIsSound

\* The deletion of a message is rolled back.
LEMMA EraseFailsKeeps ==
    ASSUME ChatInv, NEW m \in Post, Chats!EraseFails(m)
    PROVE  ChatInv'
<1>1. message \in [Post -> MessageRow]
  BY ChatTyped DEF ChatInv
<1>3. Chats!TypeOK'
  BY <1>1, ServicesAssumption DEF Chats!EraseFails, Chats!Fault, ChatInv, Chats!ChatIsSound,
     Chats!TypeOK, ConversationRow, Finding, MessageRow, Sending, ReadingRow, Chats!talking,
     Chats!marking
<1>4. OpeningsFit'
  BY <1>1, ServicesAssumption DEF Chats!EraseFails, Chats!Fault, ChatInv, Chats!ChatIsSound,
     OpeningsFit, Chats!Live, Chats!talking, Chats!marking
<1>5. MessagesFit'
  BY <1>1, ServicesAssumption DEF Chats!EraseFails, Chats!Fault, ChatInv, Chats!ChatIsSound,
     MessagesFit, OpeningsFit, Chats!Stored, Chats!Live, Chats!talking, Chats!marking
<1>6. ReadsFit'
  BY <1>1, ServicesAssumption DEF Chats!EraseFails, Chats!Fault, ChatInv,
     Chats!ChatIsSound, ReadsFit,
     MessagesFit, ReadOrSlipped, Begun, InReach, OlderFits, Chats!Inserting,
     Chats!Reaches, Chats!Stored, Chats!Received, Chats!talking, Chats!marking
<1>7. AttachmentsFit'
  BY <1>1, ServicesAssumption DEF Chats!EraseFails, Chats!Fault, ChatInv, Chats!ChatIsSound,
     AttachmentsFit, MessagesFit, Chats!talking, Chats!marking
<1>8. Chats!OneConversationAlone'
  BY <1>1, ServicesAssumption DEF Chats!EraseFails, Chats!Fault, ChatInv, Chats!ChatIsSound,
     Chats!OneConversationAlone, Chats!Live, OpeningsFit, Chats!talking, Chats!marking
<1>9. Chats!UnreadIsCounted'
  BY <1>1, ServicesAssumption DEF Chats!EraseFails, Chats!Fault, ChatInv, Chats!ChatIsSound,
     Chats!UnreadIsCounted, Chats!Stored, Chats!Unread, Chats!Received, ReadsFit, MessagesFit,
     OpeningsFit, Chats!talking, Chats!marking
<1>10. Chats!AttachmentIsStoredAlone'
  BY <1>1, ServicesAssumption DEF Chats!EraseFails, Chats!Fault, ChatInv, Chats!ChatIsSound,
     Chats!AttachmentIsStoredAlone, Chats!Stored, AttachmentsFit, MessagesFit, Chats!talking,
     Chats!marking
<1>11. Chats!FailedIsNotStored'
  BY <1>1, ServicesAssumption DEF Chats!EraseFails, Chats!Fault, ChatInv, Chats!ChatIsSound,
     Chats!FailedIsNotStored, Chats!Stored, MessagesFit, Chats!talking, Chats!marking
<1> QED BY <1>3, <1>4, <1>5, <1>6, <1>7, <1>8, <1>9, <1>10, <1>11 DEF ChatInv, Chats!ChatIsSound

\* A reader begins.
LEMMA FindParticipantKeeps ==
    ASSUME ChatInv, NEW r \in Reading, NEW p \in User, NEW c \in Open, Chats!FindParticipant(r,
           p, c)
    PROVE  ChatInv'
<1>1. reading \in [Reading -> ReadingRow]
  BY ChatTyped DEF ChatInv
<1>2. /\ reading' \in [Reading -> ReadingRow]
      /\ \A q \in Reading \ {r} : reading'[q] = reading[q]
      /\ reading'[r].pc = "found" /\ reading'[r].person = p
      /\ reading'[r].conversation = c
      /\ reading'[r].since = lastRead[p] \cap {m \in Post : sending[m].conversation = c}
      /\ reading'[r].marked = {}
      /\ reading'[r].until = {}
  BY <1>1 DEF Chats!FindParticipant, ReadingRow
<1>3. Chats!TypeOK'
  BY <1>1, <1>2, ServicesAssumption DEF Chats!FindParticipant, ChatInv, Chats!ChatIsSound,
     Chats!TypeOK, ConversationRow, Finding, MessageRow, Sending, ReadingRow, Chats!talking,
     Chats!marking
<1>4. OpeningsFit'
  BY <1>1, <1>2, ServicesAssumption DEF Chats!FindParticipant, ChatInv, Chats!ChatIsSound,
     OpeningsFit, Chats!Live, Chats!talking, Chats!marking
<1>5. MessagesFit'
  BY <1>1, <1>2, ServicesAssumption DEF Chats!FindParticipant, ChatInv, Chats!ChatIsSound,
     MessagesFit, OpeningsFit, Chats!Stored, Chats!Live, Chats!talking, Chats!marking
<1>6. ReadsFit'
  <2>0. lastRead \in [User -> SUBSET Post] /\ lastRead' \in [User -> SUBSET Post]
        /\ \A q \in Reading : /\ reading[q].since \cup reading[q].marked \cup reading[q].until
                                  \subseteq Post
                              /\ reading'[q].since \cup reading'[q].marked
                                   \cup reading'[q].until \subseteq Post
    BY ChatTyped, <1>3 DEF ChatInv, Chats!TypeOK
  <2>1. ASSUME NEW o \in User, NEW m \in lastRead'[o] PROVE OlderFits(o, m)'
    BY <1>1, <1>2, <2>0, <2>1 DEF Chats!FindParticipant, Chats!Live, ChatInv, ReadsFit,
       MessagesFit, ReadOrSlipped, Begun, InReach, OlderFits, Chats!Inserting,
       Chats!Reaches, Chats!Stored, Chats!Received, Chats!talking, Chats!marking
  <2>2. ASSUME NEW q \in Reading,
               NEW m \in reading'[q].since \cup reading'[q].marked \cup reading'[q].until
        PROVE  /\ Begun(m)'
               /\ m \in reading'[q].marked => message'[m].state # "none"
    BY <1>1, <1>2, <2>0, <2>2 DEF Chats!FindParticipant, Chats!Live, ChatInv, ReadsFit,
       MessagesFit, ReadOrSlipped, Begun, InReach, OlderFits, Chats!Inserting,
       Chats!Reaches, Chats!Stored, Chats!Received, Chats!talking, Chats!marking
  <2>3. ASSUME NEW q \in Reading, NEW m \in reading'[q].since, InReach(m)',
               sending'[m].sender # reading'[q].person
        PROVE  ReadOrSlipped(m)'
    <3>1. CASE q = r
      <4>1. /\ m \in Post /\ m \in lastRead[p] /\ sending[m].conversation = c
            /\ sending[m].sender # p /\ p \in conversation[c].pair
            /\ UNCHANGED <<message, sending, slipped>>
        BY <1>2, <2>0, <2>3, <3>1 DEF Chats!FindParticipant
      <4>2. CASE Chats!Stored(m)
        <5>1. message[m].conversation = c /\ message[m].sender = sending[m].sender
          BY <4>1, <4>2 DEF ChatInv, MessagesFit, Chats!Stored
        <5>2. message[m].read \/ m \in Chats!Unread(p, c) \/ m \in slipped
          BY <4>1, <4>2, <5>1 DEF ChatInv, Chats!ChatIsSound, Chats!UnreadIsCounted
        <5> QED BY <4>1, <5>2 DEF Chats!Unread, ReadOrSlipped
      <4>3. CASE sending[m].pc = "inserting"
        BY <4>1, <4>3 DEF ChatInv, ReadsFit, OlderFits, ReadOrSlipped
      <4>4. Chats!Stored(m) \/ sending[m].pc = "inserting"
        BY <2>3, <4>1 DEF InReach, Chats!Stored
      <4> QED BY <4>2, <4>3, <4>4
    <3>2. CASE q # r
      BY <1>2, <2>0, <2>3, <3>2 DEF Chats!FindParticipant, ChatInv, ReadsFit,
         ReadOrSlipped, Begun, InReach, OlderFits, Chats!Inserting, Chats!Reaches,
         Chats!Stored
    <3> QED BY <3>1, <3>2
  <2>4. ASSUME NEW q \in Reading, reading'[q].pc = "marked",
               NEW m \in Chats!Received(reading[q].person, reading[q].conversation)'
        PROVE  ReadOrSlipped(m)' \/ m \in reading'[q].marked
    BY <1>1, <1>2, <2>0, <2>4 DEF Chats!FindParticipant, Chats!Live, ChatInv, ReadsFit,
       MessagesFit, ReadOrSlipped, Begun, InReach, OlderFits, Chats!Inserting,
       Chats!Reaches, Chats!Stored, Chats!Received, Chats!talking, Chats!marking
  <2>5. ASSUME NEW q \in Reading, reading'[q].pc = "stamped", NEW m \in reading'[q].until,
               InReach(m)'
        PROVE  ReadOrSlipped(m)' \/ m \in reading'[q].marked
    BY <1>1, <1>2, <2>0, <2>5 DEF Chats!FindParticipant, Chats!Live, ChatInv, ReadsFit,
       MessagesFit, ReadOrSlipped, Begun, InReach, OlderFits, Chats!Inserting,
       Chats!Reaches, Chats!Stored, Chats!Received, Chats!talking, Chats!marking
  <2>6. ASSUME NEW q \in Reading, reading'[q].pc = "marked"
        PROVE  Chats!Inserting(q)' \subseteq slipped'
    BY <1>1, <1>2, <2>0, <2>6 DEF Chats!FindParticipant, Chats!Live, ChatInv, ReadsFit,
       MessagesFit, ReadOrSlipped, Begun, InReach, OlderFits, Chats!Inserting,
       Chats!Reaches, Chats!Stored, Chats!Received, Chats!talking, Chats!marking
  <2> QED BY <2>1, <2>2, <2>3, <2>4, <2>5, <2>6 DEF ReadsFit
<1>7. AttachmentsFit'
  BY <1>1, <1>2, ServicesAssumption DEF Chats!FindParticipant, ChatInv, Chats!ChatIsSound,
     AttachmentsFit, MessagesFit, Chats!talking, Chats!marking
<1>8. Chats!OneConversationAlone'
  BY <1>1, <1>2, ServicesAssumption DEF Chats!FindParticipant, ChatInv, Chats!ChatIsSound,
     Chats!OneConversationAlone, Chats!Live, OpeningsFit, Chats!talking, Chats!marking
<1>9. Chats!UnreadIsCounted'
  BY <1>1, <1>2, ServicesAssumption DEF Chats!FindParticipant, ChatInv, Chats!ChatIsSound,
     Chats!UnreadIsCounted, Chats!Stored, Chats!Unread, Chats!Received, ReadsFit, MessagesFit,
     OpeningsFit, Chats!talking, Chats!marking
<1>10. Chats!AttachmentIsStoredAlone'
  BY <1>1, <1>2, ServicesAssumption DEF Chats!FindParticipant, ChatInv, Chats!ChatIsSound,
     Chats!AttachmentIsStoredAlone, Chats!Stored, AttachmentsFit, MessagesFit, Chats!talking,
     Chats!marking
<1>11. Chats!FailedIsNotStored'
  BY <1>1, <1>2, ServicesAssumption DEF Chats!FindParticipant, ChatInv, Chats!ChatIsSound,
     Chats!FailedIsNotStored, Chats!Stored, MessagesFit, Chats!talking, Chats!marking
<1> QED BY <1>3, <1>4, <1>5, <1>6, <1>7, <1>8, <1>9, <1>10, <1>11 DEF ChatInv, Chats!ChatIsSound

\* A reader marks the messages.
LEMMA MarkReadKeeps ==
    ASSUME ChatInv, NEW r \in Reading, Chats!MarkRead(r)
    PROVE  ChatInv'
<1>1. reading \in [Reading -> ReadingRow]
  BY ChatTyped DEF ChatInv
<1>2. /\ reading[r].pc = "found" /\ reading' \in [Reading -> ReadingRow]
      /\ \A q \in Reading \ {r} : reading'[q] = reading[q]
      /\ reading'[r].pc = "marked" /\ reading'[r].person = reading[r].person
      /\ reading'[r].conversation = reading[r].conversation
      /\ reading'[r].since = reading[r].since
      /\ reading'[r].marked
             = {m \in Chats!Received(reading[r].person, reading[r].conversation) \ reading[r].since :
                               ~message[m].read}
      /\ reading'[r].until = reading[r].until
  BY <1>1 DEF Chats!MarkRead, ReadingRow, Chats!Received
<1>3. Chats!TypeOK'
  <2>1. slipped' \subseteq Post
    BY DEF Chats!MarkRead, Chats!Inserting, ChatInv, Chats!TypeOK
  <2> QED BY <1>1, <1>2, <2>1, ServicesAssumption DEF Chats!MarkRead, ChatInv,
             Chats!ChatIsSound, Chats!TypeOK, ConversationRow, Finding, MessageRow, Sending,
             ReadingRow, Chats!talking, Chats!marking
<1>4. OpeningsFit'
  BY <1>1, <1>2, ServicesAssumption DEF Chats!MarkRead, ChatInv, Chats!ChatIsSound,
     OpeningsFit, Chats!Live, Chats!talking, Chats!marking
<1>5. MessagesFit'
  BY <1>1, <1>2, ServicesAssumption DEF Chats!MarkRead, ChatInv, Chats!ChatIsSound,
     MessagesFit, OpeningsFit, Chats!Stored, Chats!Live, Chats!talking, Chats!marking
<1>6. ReadsFit'
  <2>1. /\ UNCHANGED <<message, sending, lastRead>> /\ slipped \subseteq slipped'
        /\ slipped' = slipped \cup Chats!Inserting(r)
        /\ lastRead \in [User -> SUBSET Post]
        /\ \A q \in Reading : reading[q] \in ReadingRow /\ reading'[q] \in ReadingRow
    BY <1>1, <1>2 DEF Chats!MarkRead, ChatInv, Chats!TypeOK
  <2>2. ASSUME NEW p \in User, NEW m \in lastRead'[p] PROVE OlderFits(p, m)'
    BY <2>1, <2>2 DEF ChatInv, ReadsFit, OlderFits, Begun
  <2>3. ASSUME NEW q \in Reading,
               NEW m \in reading'[q].since \cup reading'[q].marked \cup reading'[q].until
        PROVE  /\ Begun(m)'
               /\ m \in reading'[q].marked => message'[m].state # "none"
    <3>1. CASE q # r
      BY <1>2, <2>1, <2>3, <3>1 DEF ChatInv, ReadsFit, Begun
    <3>2. CASE q = r /\ m \in reading[r].since \cup reading[r].until /\ m \notin reading'[r].marked
      BY <1>2, <2>1, <3>2 DEF ChatInv, ReadsFit, Begun
    <3>3. CASE q = r /\ m \in reading'[r].marked
      <4>1. m \in Post /\ message[m].state = "live"
        BY <1>2, <3>3 DEF Chats!Received, Chats!Stored
      <4> QED BY <2>1, <4>1 DEF ChatInv, MessagesFit, Begun
    <3> QED BY <1>2, <2>3, <3>1, <3>2, <3>3
  <2>4. ASSUME NEW q \in Reading, NEW m \in reading'[q].since, InReach(m)',
               sending'[m].sender # reading'[q].person
        PROVE  ReadOrSlipped(m)'
    <3>1. reading'[q].since = reading[q].since /\ reading'[q].person = reading[q].person
      BY <1>2
    <3> QED BY <2>1, <2>4, <3>1 DEF ChatInv, ReadsFit, ReadOrSlipped, InReach, Chats!Stored
  <2>5. ASSUME NEW q \in Reading, reading'[q].pc = "marked",
               NEW m \in Chats!Received(reading[q].person, reading[q].conversation)'
        PROVE  ReadOrSlipped(m)' \/ m \in reading'[q].marked
    <3>0. /\ m \in Post /\ Chats!Stored(m) /\ message[m].sender # reading'[q].person
          /\ message[m].conversation = reading'[q].conversation
      BY <2>1, <2>5 DEF Chats!Received, Chats!Stored
    <3>1. CASE q # r
      BY <1>2, <2>1, <2>5, <3>0, <3>1 DEF ChatInv, ReadsFit, ReadOrSlipped, Chats!Received
    <3>2. CASE q = r /\ m \in reading[r].since
      <4>1. message[m].sender = sending[m].sender
        BY <3>0 DEF ChatInv, MessagesFit, Chats!Stored
      <4> QED BY <1>2, <2>1, <3>0, <3>2, <4>1 DEF ChatInv, ReadsFit, ReadOrSlipped, InReach
    <3>3. CASE q = r /\ m \notin reading[r].since
      BY <1>2, <2>1, <3>0, <3>3 DEF ReadOrSlipped, Chats!Received
    <3> QED BY <3>1, <3>2, <3>3
  <2>6. ASSUME NEW q \in Reading, reading'[q].pc = "stamped", NEW m \in reading'[q].until,
               InReach(m)'
        PROVE  ReadOrSlipped(m)' \/ m \in reading'[q].marked
    <3>1. q # r /\ reading'[q] = reading[q]
      BY <1>2, <2>6
    <3> QED BY <2>1, <2>6, <3>1 DEF ChatInv, ReadsFit, ReadOrSlipped, InReach, Chats!Stored
  <2>7. ASSUME NEW q \in Reading, reading'[q].pc = "marked"
        PROVE  Chats!Inserting(q)' \subseteq slipped'
    <3>1. Chats!Inserting(q)' = Chats!Inserting(q)
      BY <1>2, <2>1 DEF Chats!Inserting, Chats!Reaches
    <3>2. CASE q = r
      BY <2>1, <3>1, <3>2
    <3>3. CASE q # r
      BY <1>2, <2>1, <2>7, <3>1, <3>3 DEF ChatInv, ReadsFit
    <3> QED BY <3>2, <3>3
  <2> QED BY <2>2, <2>3, <2>4, <2>5, <2>6, <2>7 DEF ReadsFit
<1>7. AttachmentsFit'
  BY <1>1, <1>2, ServicesAssumption DEF Chats!MarkRead, ChatInv, Chats!ChatIsSound,
     AttachmentsFit, MessagesFit, Chats!talking, Chats!marking
<1>8. Chats!OneConversationAlone'
  BY <1>1, <1>2, ServicesAssumption DEF Chats!MarkRead, ChatInv, Chats!ChatIsSound,
     Chats!OneConversationAlone, Chats!Live, OpeningsFit, Chats!talking, Chats!marking
<1>9. Chats!UnreadIsCounted'
  BY <1>1, <1>2, ServicesAssumption DEF Chats!MarkRead, ChatInv, Chats!ChatIsSound,
     Chats!UnreadIsCounted, Chats!Stored, Chats!Unread, Chats!Received, ReadsFit, MessagesFit,
     OpeningsFit, Chats!talking, Chats!marking
<1>10. Chats!AttachmentIsStoredAlone'
  BY <1>1, <1>2, ServicesAssumption DEF Chats!MarkRead, ChatInv, Chats!ChatIsSound,
     Chats!AttachmentIsStoredAlone, Chats!Stored, AttachmentsFit, MessagesFit, Chats!talking,
     Chats!marking
<1>11. Chats!FailedIsNotStored'
  BY <1>1, <1>2, ServicesAssumption DEF Chats!MarkRead, ChatInv, Chats!ChatIsSound,
     Chats!FailedIsNotStored, Chats!Stored, MessagesFit, Chats!talking, Chats!marking
<1> QED BY <1>3, <1>4, <1>5, <1>6, <1>7, <1>8, <1>9, <1>10, <1>11 DEF ChatInv, Chats!ChatIsSound

\* A reader takes the time.
LEMMA StampKeeps ==
    ASSUME ChatInv, NEW r \in Reading, Chats!Stamp(r)
    PROVE  ChatInv'
<1>1. reading \in [Reading -> ReadingRow]
  BY ChatTyped DEF ChatInv
<1>2. /\ reading[r].pc = "marked" /\ reading' \in [Reading -> ReadingRow]
      /\ \A q \in Reading \ {r} : reading'[q] = reading[q]
      /\ reading'[r].pc = "stamped" /\ reading'[r].person = reading[r].person
      /\ reading'[r].conversation = reading[r].conversation
      /\ reading'[r].since = reading[r].since
      /\ reading'[r].marked = reading[r].marked
      /\ reading'[r].until = Chats!Received(reading[r].person, reading[r].conversation)
                               \cup Chats!Inserting(r)
  <2>1. /\ Chats!Received(reading[r].person, reading[r].conversation) \in SUBSET Post
        /\ Chats!Inserting(r) \in SUBSET Post
    BY DEF Chats!Received, Chats!Inserting
  <2> QED BY <1>1, <2>1 DEF Chats!Stamp, ReadingRow
<1>3. Chats!TypeOK'
  BY <1>1, <1>2, ServicesAssumption DEF Chats!Stamp, ChatInv, Chats!ChatIsSound, Chats!TypeOK,
     ConversationRow, Finding, MessageRow, Sending, ReadingRow, Chats!talking, Chats!marking
<1>4. OpeningsFit'
  BY <1>1, <1>2, ServicesAssumption DEF Chats!Stamp, ChatInv, Chats!ChatIsSound, OpeningsFit,
     Chats!Live, Chats!talking, Chats!marking
<1>5. MessagesFit'
  BY <1>1, <1>2, ServicesAssumption DEF Chats!Stamp, ChatInv, Chats!ChatIsSound, MessagesFit,
     OpeningsFit, Chats!Stored, Chats!Live, Chats!talking, Chats!marking
<1>6. ReadsFit'
  BY <1>1, <1>2, ServicesAssumption DEF Chats!Stamp, ChatInv, Chats!ChatIsSound, ReadsFit,
     MessagesFit, ReadOrSlipped, Begun, InReach, OlderFits, Chats!Inserting,
     Chats!Reaches, Chats!Stored, Chats!Received, Chats!talking, Chats!marking
<1>7. AttachmentsFit'
  BY <1>1, <1>2, ServicesAssumption DEF Chats!Stamp, ChatInv, Chats!ChatIsSound,
     AttachmentsFit, MessagesFit, Chats!talking, Chats!marking
<1>8. Chats!OneConversationAlone'
  BY <1>1, <1>2, ServicesAssumption DEF Chats!Stamp, ChatInv, Chats!ChatIsSound,
     Chats!OneConversationAlone, Chats!Live, OpeningsFit, Chats!talking, Chats!marking
<1>9. Chats!UnreadIsCounted'
  BY <1>1, <1>2, ServicesAssumption DEF Chats!Stamp, ChatInv, Chats!ChatIsSound,
     Chats!UnreadIsCounted, Chats!Stored, Chats!Unread, Chats!Received, ReadsFit, MessagesFit,
     OpeningsFit, Chats!talking, Chats!marking
<1>10. Chats!AttachmentIsStoredAlone'
  BY <1>1, <1>2, ServicesAssumption DEF Chats!Stamp, ChatInv, Chats!ChatIsSound,
     Chats!AttachmentIsStoredAlone, Chats!Stored, AttachmentsFit, MessagesFit, Chats!talking,
     Chats!marking
<1>11. Chats!FailedIsNotStored'
  BY <1>1, <1>2, ServicesAssumption DEF Chats!Stamp, ChatInv, Chats!ChatIsSound,
     Chats!FailedIsNotStored, Chats!Stored, MessagesFit, Chats!talking, Chats!marking
<1> QED BY <1>3, <1>4, <1>5, <1>6, <1>7, <1>8, <1>9, <1>10, <1>11 DEF ChatInv, Chats!ChatIsSound

\* A reader commits.
LEMMA CommitReadKeeps ==
    ASSUME ChatInv, NEW r \in Reading, Chats!CommitRead(r)
    PROVE  ChatInv'
<1>1. reading \in [Reading -> ReadingRow] /\ message \in [Post -> MessageRow]
  BY ChatTyped DEF ChatInv
<1>2. /\ reading' \in [Reading -> ReadingRow]
      /\ \A q \in Reading \ {r} : reading'[q] = reading[q]
      /\ reading'[r].pc = "idle" /\ reading'[r].person = Nobody
      /\ reading'[r].conversation = Nobody
      /\ reading'[r].since = {}
      /\ reading'[r].marked = {}
      /\ reading'[r].until = {}
  BY <1>1 DEF Chats!CommitRead, ReadingRow, Chats!IdleReading
<1>3. /\ message' \in [Post -> MessageRow]
      /\ \A m \in Post :
           /\ message'[m].state = message[m].state
           /\ message'[m].conversation = message[m].conversation
           /\ message'[m].sender = message[m].sender /\ message'[m].file = message[m].file
           /\ message[m].read => message'[m].read
  <2>1. CASE message' = message
    BY <1>1, <2>1
  <2>2. CASE message' = [m \in Post |-> IF m \in reading[r].marked
                           THEN [message[m] EXCEPT !.read = Chats!ReadAfter(r, m)] ELSE message[m]]
    <3>1. ASSUME NEW m \in Post
          PROVE  /\ message'[m] \in MessageRow
                 /\ message'[m].state = message[m].state
                 /\ message'[m].conversation = message[m].conversation
                 /\ message'[m].sender = message[m].sender
                 /\ message'[m].file = message[m].file
                 /\ message[m].read \/ m \in reading[r].marked => message'[m].read
                 /\ message'[m].read => message[m].read \/ m \in reading[r].marked
      <4> DEFINE row == [message[m] EXCEPT !.read = Chats!ReadAfter(r, m)]
      <4>1. message[m] \in MessageRow /\ Chats!ReadAfter(r, m) \in BOOLEAN
        BY <1>1 DEF Chats!ReadAfter
      <4>2. /\ row \in MessageRow /\ row.state = message[m].state
            /\ row.conversation = message[m].conversation /\ row.sender = message[m].sender
            /\ row.file = message[m].file /\ row.read = Chats!ReadAfter(r, m)
        BY <4>1 DEF MessageRow
      <4>3. message'[m] = IF m \in reading[r].marked THEN row ELSE message[m]
        BY <2>2
      <4> HIDE DEF row
      <4> QED BY <4>1, <4>2, <4>3 DEF Chats!ReadAfter
    <3> QED BY <2>2, <3>1
  <2> QED BY <2>1, <2>2 DEF Chats!CommitRead
<1>4. Chats!TypeOK'
  <2>1. lastRead' \in [User -> SUBSET Post]
    BY <1>1 DEF Chats!CommitRead, ChatInv, Chats!TypeOK, ReadingRow
  <2>2. UNCHANGED <<conversation, opening, chatCrossed, sending, erasing, files, slipped,
  chatClash,
                    chatFaults, chatHit>>
    BY DEF Chats!CommitRead, Chats!talking
  <2> QED BY <1>1, <1>2, <1>3, <2>1, <2>2 DEF ChatInv, Chats!TypeOK, MessageRow, ReadingRow
<1>5. OpeningsFit'
  BY <1>1, <1>2, <1>3, ServicesAssumption DEF Chats!CommitRead, ChatInv, Chats!ChatIsSound,
     OpeningsFit, Chats!Live, Chats!talking, Chats!marking
<1>6. MessagesFit'
  <2>1. UNCHANGED <<conversation, sending, erasing>>
    BY DEF Chats!CommitRead, Chats!talking
  <2>2. ASSUME NEW m \in Post, message[m].state = "none" PROVE message'[m].read = message[m].read
    BY <2>2 DEF Chats!CommitRead, ChatInv, ReadsFit
  <2> QED BY <1>3, <2>1, <2>2 DEF ChatInv, MessagesFit, Chats!Stored, Chats!Live
<1>7. ReadsFit'
  <2>0. lastRead \in [User -> SUBSET Post] /\ lastRead' \in [User -> SUBSET Post]
        /\ \A q \in Reading : /\ reading[q].since \cup reading[q].marked \cup reading[q].until
                                  \subseteq Post
                              /\ reading'[q].since \cup reading'[q].marked
                                   \cup reading'[q].until \subseteq Post
    BY ChatTyped, <1>4 DEF ChatInv, Chats!TypeOK
  <2>1. ASSUME NEW p \in User, NEW m \in lastRead'[p] PROVE OlderFits(p, m)'
    BY <1>1, <1>2, <1>3, <2>0, <2>1 DEF Chats!CommitRead, ChatInv, ReadsFit, MessagesFit,
       ReadOrSlipped, Begun, InReach, OlderFits, Chats!Inserting, Chats!Reaches,
       Chats!Stored, Chats!Received, Chats!talking, Chats!marking
  <2>2. ASSUME NEW q \in Reading,
               NEW m \in reading'[q].since \cup reading'[q].marked \cup reading'[q].until
        PROVE  /\ Begun(m)'
               /\ m \in reading'[q].marked => message'[m].state # "none"
    BY <1>1, <1>2, <1>3, <2>0, <2>2 DEF Chats!CommitRead, ChatInv, ReadsFit, MessagesFit,
       ReadOrSlipped, Begun, InReach, OlderFits, Chats!Inserting, Chats!Reaches,
       Chats!Stored, Chats!Received, Chats!talking, Chats!marking
  <2>3. ASSUME NEW q \in Reading, NEW m \in reading'[q].since, InReach(m)',
               sending'[m].sender # reading'[q].person
        PROVE  ReadOrSlipped(m)'
    BY <1>1, <1>2, <1>3, <2>0, <2>3 DEF Chats!CommitRead, ChatInv, ReadsFit, MessagesFit,
       ReadOrSlipped, Begun, InReach, OlderFits, Chats!Inserting, Chats!Reaches,
       Chats!Stored, Chats!Received, Chats!talking, Chats!marking
  <2>4. ASSUME NEW q \in Reading, reading'[q].pc = "marked",
               NEW m \in Chats!Received(reading[q].person, reading[q].conversation)'
        PROVE  ReadOrSlipped(m)' \/ m \in reading'[q].marked
    BY <1>1, <1>2, <1>3, <2>0, <2>4 DEF Chats!CommitRead, ChatInv, ReadsFit, MessagesFit,
       ReadOrSlipped, Begun, InReach, OlderFits, Chats!Inserting, Chats!Reaches,
       Chats!Stored, Chats!Received, Chats!talking, Chats!marking
  <2>5. ASSUME NEW q \in Reading, reading'[q].pc = "stamped", NEW m \in reading'[q].until,
               InReach(m)'
        PROVE  ReadOrSlipped(m)' \/ m \in reading'[q].marked
    BY <1>1, <1>2, <1>3, <2>0, <2>5 DEF Chats!CommitRead, ChatInv, ReadsFit, MessagesFit,
       ReadOrSlipped, Begun, InReach, OlderFits, Chats!Inserting, Chats!Reaches,
       Chats!Stored, Chats!Received, Chats!talking, Chats!marking
  <2>6. ASSUME NEW q \in Reading, reading'[q].pc = "marked"
        PROVE  Chats!Inserting(q)' \subseteq slipped'
    BY <1>1, <1>2, <1>3, <2>0, <2>6 DEF Chats!CommitRead, ChatInv, ReadsFit, MessagesFit,
       ReadOrSlipped, Begun, InReach, OlderFits, Chats!Inserting, Chats!Reaches,
       Chats!Stored, Chats!Received, Chats!talking, Chats!marking
  <2> QED BY <2>1, <2>2, <2>3, <2>4, <2>5, <2>6 DEF ReadsFit
<1>8. AttachmentsFit'
  BY <1>1, <1>2, <1>3, ServicesAssumption DEF Chats!CommitRead, ChatInv, Chats!ChatIsSound,
     AttachmentsFit, MessagesFit, Chats!talking, Chats!marking
<1>9. Chats!OneConversationAlone'
  BY <1>1, <1>2, <1>3, ServicesAssumption DEF Chats!CommitRead, ChatInv, Chats!ChatIsSound,
     Chats!OneConversationAlone, Chats!Live, OpeningsFit, Chats!talking, Chats!marking
<1>10. Chats!UnreadIsCounted'
  <2> SUFFICES ASSUME NEW m \in Post, NEW p \in User, Chats!Stored(m)',
                      p \in conversation[message[m].conversation].pair,
                      p # message[m].sender, ~message'[m].read, m \notin slipped
               PROVE  m \notin lastRead'[p]
    BY <1>3 DEF Chats!CommitRead, Chats!talking, Chats!Stored, Chats!Unread, Chats!Received,
       Chats!UnreadIsCounted
  <2>1. Chats!Stored(m) /\ ~message[m].read
    BY <1>3 DEF Chats!Stored
  <2>2. m \notin lastRead[p]
    BY <2>1 DEF ChatInv, Chats!ChatIsSound, Chats!UnreadIsCounted, Chats!Unread
  <2>3. CASE lastRead' = lastRead
    BY <2>2, <2>3
  <2>4. CASE /\ Chats!Live(reading[r].conversation)
             /\ message' = [k \in Post |-> IF k \in reading[r].marked
                             THEN [message[k] EXCEPT !.read = Chats!ReadAfter(r, k)]
                              ELSE message[k]]
             /\ lastRead' = [lastRead EXCEPT ![reading[r].person] =
                  {k \in @ : sending[k].conversation # reading[r].conversation}
                    \cup reading[r].until]
    <3>1. m \notin reading[r].marked
      <4> SUFFICES ASSUME m \in reading[r].marked PROVE message'[m].read
        OBVIOUS
      <4>1. message[m] \in MessageRow
        BY <1>1
      <4>2. message'[m] = [message[m] EXCEPT !.read = Chats!ReadAfter(r, m)]
        BY <2>4
      <4>3. message'[m].read = Chats!ReadAfter(r, m)
        BY <4>1, <4>2 DEF MessageRow
      <4> QED BY <4>3 DEF Chats!ReadAfter
    <3>2. m \notin reading[r].until
      BY <2>1, <3>1 DEF Chats!CommitRead, ChatInv, ReadsFit, ReadOrSlipped, InReach
    <3> QED BY <2>2, <2>4, <3>2 DEF ChatInv, Chats!TypeOK
  <2> QED BY <2>3, <2>4 DEF Chats!CommitRead
<1>11. Chats!AttachmentIsStoredAlone'
  BY <1>1, <1>2, <1>3, ServicesAssumption DEF Chats!CommitRead, ChatInv, Chats!ChatIsSound,
     Chats!AttachmentIsStoredAlone, Chats!Stored, AttachmentsFit, MessagesFit, Chats!talking,
     Chats!marking
<1>12. Chats!FailedIsNotStored'
  BY <1>1, <1>2, <1>3, ServicesAssumption DEF Chats!CommitRead, ChatInv, Chats!ChatIsSound,
     Chats!FailedIsNotStored, Chats!Stored, MessagesFit, Chats!talking, Chats!marking
<1> QED BY <1>4, <1>5, <1>6, <1>7, <1>8, <1>9, <1>10, <1>11, <1>12 DEF ChatInv,
           Chats!ChatIsSound

\* The process dies.
LEMMA CrashKeeps ==
    ASSUME ChatInv, Chats!Crash
    PROVE  ChatInv'
<1>1. /\ opening \in [Open -> Finding] /\ sending \in [Post -> Sending]
      /\ reading \in [Reading -> ReadingRow]
  BY ChatTyped DEF ChatInv
<1>2. /\ opening' \in [Open -> Finding]
      /\ \A c \in Open : /\ opening'[c].pair = opening[c].pair
                          /\ opening'[c].pc = IF opening[c].pc = "missing" THEN "done"
                                             ELSE opening[c].pc
  BY <1>1 DEF Chats!Crash, Finding
<1>3. /\ sending' \in [Post -> Sending]
      /\ \A m \in Post :
           /\ sending'[m].conversation = sending[m].conversation
           /\ sending'[m].sender = sending[m].sender /\ sending'[m].file = sending[m].file
           /\ sending'[m].pc = IF sending[m].pc \in {"checked", "stored", "inserting", "created"}
                               THEN "failed" ELSE sending[m].pc
  BY <1>1 DEF Chats!Crash, Sending
<1>4. /\ reading' \in [Reading -> ReadingRow]
      /\ \A r \in Reading : reading'[r] = Chats!IdleReading
  BY DEF Chats!Crash, ReadingRow, Chats!IdleReading
<1>5. Chats!TypeOK'
  <2>1. chatFaults' \in 0..MaxFaults /\ chatHit' \subseteq Post /\ erasing' = {}
    BY ServicesAssumption DEF Chats!Crash, Chats!Fault, ChatInv, Chats!TypeOK
  <2>2. UNCHANGED <<conversation, message, lastRead, files, chatCrossed, slipped, chatClash>>
    BY DEF Chats!Crash
  <2> QED BY <1>2, <1>3, <1>4, <2>1, <2>2 DEF ChatInv, Chats!TypeOK, Finding, Sending,
             ReadingRow
<1>6. OpeningsFit'
  BY <1>1, <1>2, <1>3, <1>4, ServicesAssumption DEF Chats!Crash, Chats!Fault, ChatInv,
     Chats!ChatIsSound, OpeningsFit, Chats!Live, Chats!talking, Chats!marking
<1>7. MessagesFit'
  BY <1>1, <1>2, <1>3, <1>4, ServicesAssumption DEF Chats!Crash, Chats!Fault, ChatInv,
     Chats!ChatIsSound, MessagesFit, OpeningsFit, Chats!Stored, Chats!Live, Chats!talking,
     Chats!marking
<1>8. ReadsFit'
  <2>0. lastRead \in [User -> SUBSET Post] /\ lastRead' \in [User -> SUBSET Post]
        /\ \A q \in Reading : /\ reading[q].since \cup reading[q].marked \cup reading[q].until
                                  \subseteq Post
                              /\ reading'[q].since \cup reading'[q].marked
                                   \cup reading'[q].until \subseteq Post
    BY ChatTyped, <1>5 DEF ChatInv, Chats!TypeOK
  <2>1. ASSUME NEW p \in User, NEW m \in lastRead'[p] PROVE OlderFits(p, m)'
    BY <1>1, <1>2, <1>3, <1>4, <2>0, <2>1 DEF Chats!Crash, Chats!IdleReading, ChatInv,
       ReadsFit, MessagesFit, ReadOrSlipped, Begun, InReach, OlderFits, Chats!Inserting,
       Chats!Reaches, Chats!Stored, Chats!Received, Chats!talking,
       Chats!marking
  <2>2. ASSUME NEW q \in Reading,
               NEW m \in reading'[q].since \cup reading'[q].marked \cup reading'[q].until
        PROVE  /\ Begun(m)'
               /\ m \in reading'[q].marked => message'[m].state # "none"
    BY <1>1, <1>2, <1>3, <1>4, <2>0, <2>2 DEF Chats!Crash, Chats!IdleReading, ChatInv,
       ReadsFit, MessagesFit, ReadOrSlipped, Begun, InReach, OlderFits, Chats!Inserting,
       Chats!Reaches, Chats!Stored, Chats!Received, Chats!talking,
       Chats!marking
  <2>3. ASSUME NEW q \in Reading, NEW m \in reading'[q].since, InReach(m)',
               sending'[m].sender # reading'[q].person
        PROVE  ReadOrSlipped(m)'
    BY <1>1, <1>2, <1>3, <1>4, <2>0, <2>3 DEF Chats!Crash, Chats!IdleReading, ChatInv,
       ReadsFit, MessagesFit, ReadOrSlipped, Begun, InReach, OlderFits, Chats!Inserting,
       Chats!Reaches, Chats!Stored, Chats!Received, Chats!talking,
       Chats!marking
  <2>4. ASSUME NEW q \in Reading, reading'[q].pc = "marked",
               NEW m \in Chats!Received(reading[q].person, reading[q].conversation)'
        PROVE  ReadOrSlipped(m)' \/ m \in reading'[q].marked
    BY <1>1, <1>2, <1>3, <1>4, <2>0, <2>4 DEF Chats!Crash, Chats!IdleReading, ChatInv,
       ReadsFit, MessagesFit, ReadOrSlipped, Begun, InReach, OlderFits, Chats!Inserting,
       Chats!Reaches, Chats!Stored, Chats!Received, Chats!talking,
       Chats!marking
  <2>5. ASSUME NEW q \in Reading, reading'[q].pc = "stamped", NEW m \in reading'[q].until,
               InReach(m)'
        PROVE  ReadOrSlipped(m)' \/ m \in reading'[q].marked
    BY <1>1, <1>2, <1>3, <1>4, <2>0, <2>5 DEF Chats!Crash, Chats!IdleReading, ChatInv,
       ReadsFit, MessagesFit, ReadOrSlipped, Begun, InReach, OlderFits, Chats!Inserting,
       Chats!Reaches, Chats!Stored, Chats!Received, Chats!talking,
       Chats!marking
  <2>6. ASSUME NEW q \in Reading, reading'[q].pc = "marked"
        PROVE  Chats!Inserting(q)' \subseteq slipped'
    BY <1>1, <1>2, <1>3, <1>4, <2>0, <2>6 DEF Chats!Crash, Chats!IdleReading, ChatInv,
       ReadsFit, MessagesFit, ReadOrSlipped, Begun, InReach, OlderFits, Chats!Inserting,
       Chats!Reaches, Chats!Stored, Chats!Received, Chats!talking,
       Chats!marking
  <2> QED BY <2>1, <2>2, <2>3, <2>4, <2>5, <2>6 DEF ReadsFit
<1>9. AttachmentsFit'
  BY <1>1, <1>2, <1>3, <1>4, ServicesAssumption DEF Chats!Crash, Chats!Fault, ChatInv,
     Chats!ChatIsSound, AttachmentsFit, MessagesFit, Chats!talking, Chats!marking
<1>10. Chats!OneConversationAlone'
  BY <1>1, <1>2, <1>3, <1>4, ServicesAssumption DEF Chats!Crash, Chats!Fault, ChatInv,
     Chats!ChatIsSound, Chats!OneConversationAlone, Chats!Live, OpeningsFit, Chats!talking,
     Chats!marking
<1>11. Chats!UnreadIsCounted'
  BY <1>1, <1>2, <1>3, <1>4, ServicesAssumption DEF Chats!Crash, Chats!Fault, ChatInv,
     Chats!ChatIsSound, Chats!UnreadIsCounted, Chats!Stored, Chats!Unread, Chats!Received,
     ReadsFit, MessagesFit, OpeningsFit, Chats!talking, Chats!marking
<1>12. Chats!AttachmentIsStoredAlone'
  BY <1>1, <1>2, <1>3, <1>4, ServicesAssumption DEF Chats!Crash, Chats!Fault, ChatInv,
     Chats!ChatIsSound, Chats!AttachmentIsStoredAlone, Chats!Stored, AttachmentsFit,
     MessagesFit, Chats!talking, Chats!marking
<1>13. Chats!FailedIsNotStored'
  BY <1>1, <1>2, <1>3, <1>4, ServicesAssumption DEF Chats!Crash, Chats!Fault, ChatInv,
     Chats!ChatIsSound, Chats!FailedIsNotStored, Chats!Stored, MessagesFit, Chats!talking,
     Chats!marking
<1> QED BY <1>5, <1>6, <1>7, <1>8, <1>9, <1>10, <1>11, <1>12, <1>13 DEF ChatInv,
           Chats!ChatIsSound

\* The invariant holds of empty tables.
LEMMA ChatStarts == Chats!Init => ChatInv
<1> SUFFICES ASSUME Chats!Init PROVE ChatInv
  OBVIOUS
<1>1. Chats!TypeOK
  BY ServicesAssumption DEF Chats!Init, Chats!TypeOK, Chats!NoRow, Chats!NoMessage,
     Chats!IdleSend, Chats!IdleReading
<1>2. OpeningsFit /\ MessagesFit /\ AttachmentsFit
  BY DEF Chats!Init, Chats!NoRow, Chats!NoMessage, Chats!IdleSend, OpeningsFit, MessagesFit,
     AttachmentsFit, Chats!Live, Chats!Stored
<1>3. ReadsFit
  BY DEF Chats!Init, Chats!IdleReading, ReadsFit
<1>4. Chats!ChatIsSound
  BY DEF Chats!Init, Chats!NoRow, Chats!NoMessage, Chats!IdleSend, Chats!ChatIsSound,
     Chats!OneConversationAlone, Chats!UnreadIsCounted,
         Chats!AttachmentIsStoredAlone, Chats!FailedIsNotStored, Chats!Live, Chats!Stored
<1> QED BY <1>1, <1>2, <1>3, <1>4 DEF ChatInv

\* The invariant holds on when nothing changes.
LEMMA ChatStands ==
    ASSUME ChatInv, UNCHANGED Chats!vars PROVE ChatInv'
<1>1. Chats!TypeOK' /\ OpeningsFit' /\ MessagesFit' /\ AttachmentsFit'
  BY DEF Chats!vars, ChatInv, Chats!TypeOK, OpeningsFit, MessagesFit, AttachmentsFit,
     Chats!Live, Chats!Stored
<1>2. ReadsFit'
  BY DEF Chats!vars, ChatInv, ReadsFit, ReadOrSlipped, Begun, InReach, OlderFits,
     Chats!Inserting, Chats!Reaches, Chats!Stored, Chats!Received
<1>3. Chats!ChatIsSound'
  BY DEF Chats!vars, ChatInv, Chats!ChatIsSound, Chats!OneConversationAlone,
     Chats!UnreadIsCounted, Chats!Unread, Chats!Received,
         Chats!AttachmentIsStoredAlone, Chats!FailedIsNotStored, Chats!Live, Chats!Stored
<1> QED BY <1>1, <1>2, <1>3 DEF ChatInv

\* Chat: two people share one conversation, what is unread is counted, and what
\* failed is not stored, but for the races and faults the histories record.
LEMMA ChatAlone == Chats!Spec => []Chats!TypeOK /\ []Chats!ChatIsSound
<1>1. Chats!Init => ChatInv
  BY ChatStarts
<1>2. ChatInv /\ [Chats!Next]_Chats!vars => ChatInv'
  <2> SUFFICES ASSUME ChatInv, [Chats!Next]_Chats!vars PROVE ChatInv'
    OBVIOUS
  <2>1. ASSUME NEW c \in Open, NEW pair \in Chats!Pairs, Chats!FindConversation(c, pair)
        PROVE  ChatInv'
    BY <2>1, FindConversationKeeps
  <2>2. ASSUME NEW c \in Open, Chats!CreateConversation(c) \/ Chats!RemoveConversation(c)
        PROVE  ChatInv'
    BY <2>2, CreateConversationKeeps, RemoveConversationKeeps
  <2>3. ASSUME NEW m \in Post, NEW c \in Open, NEW p \in User, NEW n \in Name \cup {Nobody},
               Chats!CheckParticipant(m, c, p, n)
        PROVE  ChatInv'
    BY <2>3, CheckParticipantKeeps
  <2>4. ASSUME NEW m \in Post,
               \/ Chats!PutAttachment(m) \/ Chats!PutFails(m) \/ Chats!BeginCreate(m)
               \/ Chats!CreateMessage(m) \/ Chats!Announce(m) \/ Chats!StatementFails(m)
        PROVE  ChatInv'
    BY <2>4, PutAttachmentKeeps, PutFailsKeeps, BeginCreateKeeps, CreateMessageKeeps,
       AnnounceKeeps, StatementFailsKeeps
  <2>5. ASSUME NEW m \in Post,
               Chats!EraseFile(m) \/ Chats!EraseRow(m) \/ Chats!EraseFails(m)
        PROVE  ChatInv'
    BY <2>5, EraseFileKeeps, EraseRowKeeps, EraseFailsKeeps
  <2>6. ASSUME NEW r \in Reading, NEW p \in User, NEW c \in Open, Chats!FindParticipant(r, p, c)
        PROVE  ChatInv'
    BY <2>6, FindParticipantKeeps
  <2>7. ASSUME NEW r \in Reading, Chats!MarkRead(r) \/ Chats!Stamp(r) \/ Chats!CommitRead(r)
        PROVE  ChatInv'
    BY <2>7, MarkReadKeeps, StampKeeps, CommitReadKeeps
  <2>8. CASE Chats!Crash
    BY <2>8, CrashKeeps
  <2>9. CASE UNCHANGED Chats!vars
    BY <2>9, ChatStands
  <2> QED BY <2>1, <2>2, <2>3, <2>4, <2>5, <2>6, <2>7, <2>8, <2>9 DEF Chats!Next
<1>3. ChatInv => Chats!TypeOK /\ Chats!ChatIsSound
  BY DEF ChatInv
<1> QED BY <1>1, <1>2, <1>3, PTL DEF Chats!Spec

\* A pair has one conversation, nothing unread goes uncounted, nothing failed is
\* stored and an attachment can be opened, each unless the history says why not.
THEOREM ChatHolds == ServicesSpec => []ChatIsSound
BY PartsBehave, ChatAlone, PTL DEF ChatIsSound

-----------------------------------------------------------------------------
(* The message gateway.                                                    *)

\* A connected socket is somebody's, and the one who is to be rung under a name
\* has joined under it.
PresenceFits ==
    /\ \A s \in Socket : Sockets!Connected(s) => socket[s].user \in Caller
    /\ \A n \in Username : Sockets!Rung(n) # Nobody => n \in joined[Sockets!Rung(n)]

\* A recording that one socket carries and nothing tore.
OnOneSocket(r, s) == carried[r] \subseteq {s} /\ r \notin torn

\* A part is under way.
UnderWay(s, r, k) == \E i \in 1..Len(flight[s]) : flight[s][i] = <<r, k>>

\* What a socket carries was sent on it.
CarriedIsKnown ==
    \A s \in Socket, r \in Recording, k \in 0..MaxChunk :
        UnderWay(s, r, k) => s \in carried[r]

\* Part 0 comes after every other, and no part comes twice.
InOrder(j, k) == j > 0 /\ (k = 0 \/ j < k)

\* The parts of a recording are in order on their way.
Ordered(r, s) ==
    \A i, j \in 1..Len(flight[s]) :
        i < j /\ flight[s][i][1] = r /\ flight[s][j][1] = r
          => InOrder(flight[s][i][2], flight[s][j][2])

\* As long as its end is to come, the parts in memory are the first, and the
\* others are under way in order, the end behind them.
Arriving(r, s) ==
    /\ file[r] = <<>> /\ writing[r] = <<>>
    /\ \A k \in 1..Len(chunks[r]) : chunks[r][k] = k
    /\ Len(chunks[r]) =< recorded[r]
    /\ \A k \in (Len(chunks[r]) + 1)..recorded[r] : UnderWay(s, r, k)
    /\ \A k \in 1..MaxChunk :
         UnderWay(s, r, k) => k > Len(chunks[r]) /\ k =< recorded[r]
    /\ UnderWay(s, r, 0) <=> r \in ended
    /\ Ordered(r, s)

\* Afterwards the first are on the disk, the others wait for the stream, and
\* nothing is under way.
Arrived(r, s) ==
    /\ r \in ended
    /\ Len(file[r]) + Len(writing[r]) = recorded[r]
    /\ \A k \in 1..Len(file[r]) : file[r][k] = k
    /\ \A k \in 1..Len(writing[r]) : writing[r][k] = Len(file[r]) + k
    /\ chunks[r] = <<>>
    /\ \A k \in 0..MaxChunk : ~UnderWay(s, r, k)

\* Numbers: nothing on the disk, and one part that goes over to it.
LEMMA NothingAdds ==
    ASSUME NEW n \in Nat PROVE 0 + n = n
OBVIOUS

LEMMA OneMovesOver ==
    ASSUME NEW a \in Nat, NEW b \in Nat \ {0}
    PROVE  /\ (a + 1) + (b - 1) = a + b
           /\ \A k \in Nat : a + (k + 1) = (a + 1) + k
OBVIOUS

\* One socket, untorn: the recording is arriving, or has arrived.
RecordingFits ==
    \A r \in Recording, s \in Socket :
        OnOneSocket(r, s) => Arriving(r, s) \/ Arrived(r, s)

\* What a socket carries.
Part == Recording \X (0..MaxChunk)

\* The state keeps its shape.
LEMMA GatewayTyped ==
    ASSUME Sockets!TypeOK, [Sockets!Next]_Sockets!vars PROVE Sockets!TypeOK'
<1> USE ServicesAssumption DEF Sockets!TypeOK, Sockets!recording, Sockets!presence
<1>1. ASSUME NEW s \in Socket, NEW u \in Caller, Sockets!HandleConnection(s, u)
      PROVE  Sockets!TypeOK'
  BY <1>1 DEF Sockets!HandleConnection
<1>2. ASSUME NEW s \in Socket, Sockets!RefuseConnection(s) PROVE Sockets!TypeOK'
  BY <1>2 DEF Sockets!RefuseConnection
<1>3. ASSUME NEW s \in Socket, Sockets!HandleDisconnect(s) PROVE Sockets!TypeOK'
  <2>1. flight' \in [Socket -> Seq(Recording \X (0..MaxChunk))]
    BY <1>3 DEF Sockets!HandleDisconnect
  <2>2. socket' \in [Socket -> [state : {"new", "open", "closed"}, user : Caller \cup {Nobody}]]
    BY <1>3 DEF Sockets!HandleDisconnect
  <2>3. clients' \in [Caller -> Socket \cup {Nobody}]
    BY <1>3 DEF Sockets!HandleDisconnect
  <2>4. activeUsers' \in [Username -> Socket \cup {Nobody}]
    BY <1>3 DEF Sockets!HandleDisconnect, Sockets!NamesFreed
  <2>5. torn' \subseteq Recording
    BY <1>3 DEF Sockets!HandleDisconnect
  <2> QED BY <1>3, <2>1, <2>2, <2>3, <2>4, <2>5 DEF Sockets!HandleDisconnect
<1>4. ASSUME NEW s \in Socket, NEW n \in Username, Sockets!HandleJoin(s, n)
      PROVE  Sockets!TypeOK'
  BY <1>4 DEF Sockets!HandleJoin
<1>5. ASSUME NEW s \in Socket, NEW r \in Recording, Sockets!SendChunk(s, r)
      PROVE  Sockets!TypeOK'
  <2>1. <<r, recorded[r] + 1>> \in Part /\ recorded[r] + 1 \in 0..MaxChunk
    BY <1>5 DEF Sockets!SendChunk, Part
  <2>2. flight' \in [Socket -> Seq(Part)]
    BY <1>5, <2>1 DEF Sockets!SendChunk, Part
  <2> QED BY <1>5, <2>1, <2>2 DEF Sockets!SendChunk, Part
<1>6. ASSUME NEW s \in Socket, NEW r \in Recording, Sockets!SendEnd(s, r) PROVE Sockets!TypeOK'
  <2>1. <<r, 0>> \in Part
    BY DEF Part
  <2>2. flight' \in [Socket -> Seq(Part)]
    <3>1. flight \in [Socket -> Seq(Part)]
      BY DEF Part
    <3>2. Append(flight[s], <<r, 0>>) \in Seq(Part)
      BY <2>1, <3>1
    <3>3. flight' = [flight EXCEPT ![s] = Append(flight[s], <<r, 0>>)]
      BY <1>6 DEF Sockets!SendEnd
    <3> QED BY <3>1, <3>2, <3>3
  <2> QED BY <1>6, <2>2 DEF Sockets!SendEnd, Part
<1>7. ASSUME NEW s \in Socket, Sockets!HandleRecordingChunk(s) PROVE Sockets!TypeOK'
  <2>1. /\ flight[s] \in Seq(Part) /\ flight[s] # <<>>
        /\ Head(flight[s]) \in Part /\ Tail(flight[s]) \in Seq(Part)
    BY <1>7 DEF Sockets!HandleRecordingChunk, Part
  <2>2. Head(flight[s])[1] \in Recording /\ Head(flight[s])[2] \in 1..MaxChunk
    BY <1>7, <2>1 DEF Sockets!HandleRecordingChunk, Part
  <2>3. flight' \in [Socket -> Seq(Part)]
    BY <1>7, <2>1 DEF Sockets!HandleRecordingChunk, Part
  <2>4. chunks' \in [Recording -> Seq(1..MaxChunk)]
    BY <1>7, <2>2 DEF Sockets!HandleRecordingChunk, Sockets!AddPart
  <2> QED BY <1>7, <2>3, <2>4 DEF Sockets!HandleRecordingChunk, Part
<1>8. ASSUME NEW s \in Socket, Sockets!HandleRecordingEnd(s) PROVE Sockets!TypeOK'
  <2>1. /\ flight[s] \in Seq(Part) /\ flight[s] # <<>>
        /\ Head(flight[s]) \in Part /\ Tail(flight[s]) \in Seq(Part)
    BY <1>8 DEF Sockets!HandleRecordingEnd, Part
  <2>2. Head(flight[s])[1] \in Recording
    BY <2>1 DEF Part
  <2>3. flight' \in [Socket -> Seq(Part)]
    BY <1>8, <2>1 DEF Sockets!HandleRecordingEnd, Part
  <2>4. /\ chunks' \in [Recording -> Seq(1..MaxChunk)]
        /\ writing' \in [Recording -> Seq(1..MaxChunk)]
    BY <1>8, <2>2 DEF Sockets!HandleRecordingEnd
  <2> QED BY <1>8, <2>3, <2>4 DEF Sockets!HandleRecordingEnd, Part
<1>9. ASSUME Sockets!Restart PROVE Sockets!TypeOK'
  <2>1. socket' \in [Socket -> [state : {"new", "open", "closed"}, user : Caller \cup {Nobody}]]
    BY <1>9 DEF Sockets!Restart
  <2>2. /\ flight' \in [Socket -> Seq(Recording \X (0..MaxChunk))]
        /\ chunks' \in [Recording -> Seq(1..MaxChunk)]
        /\ writing' \in [Recording -> Seq(1..MaxChunk)]
        /\ torn' \subseteq Recording
    BY <1>9 DEF Sockets!Restart
  <2> QED BY <1>9, <2>1, <2>2 DEF Sockets!Restart
<1>10. ASSUME NEW r \in Recording, Sockets!WritePart(r) PROVE Sockets!TypeOK'
  <2>1. /\ writing[r] \in Seq(1..MaxChunk) /\ Head(writing[r]) \in 1..MaxChunk
        /\ Tail(writing[r]) \in Seq(1..MaxChunk)
    BY <1>10 DEF Sockets!WritePart
  <2>2. /\ file' \in [Recording -> Seq(1..MaxChunk)]
        /\ writing' \in [Recording -> Seq(1..MaxChunk)]
    BY <1>10, <2>1 DEF Sockets!WritePart
  <2> QED BY <1>10, <2>2 DEF Sockets!WritePart
<1> QED BY <1>1, <1>2, <1>3, <1>4, <1>5, <1>6, <1>7, <1>8, <1>9, <1>10
        DEF Sockets!Next, Sockets!vars

\* Who is reached and who is rung, with what that rests on.
PresenceInv == PresenceFits /\ Sockets!ReachedOnTheLast /\ Sockets!CalledIsConnectedAlone

\* Who is reached and who is rung.
LEMMA PresenceKept ==
    ASSUME Sockets!TypeOK, PresenceInv, [Sockets!Next]_Sockets!vars PROVE PresenceInv'
<1> USE ServicesAssumption DEF PresenceInv, PresenceFits, Sockets!ReachedOnTheLast,
        Sockets!CalledIsConnectedAlone, Sockets!Reached, Sockets!Rung, Sockets!Connected
<1>0. /\ socket \in [Socket -> [state : {"new", "open", "closed"}, user : Caller \cup {Nobody}]]
      /\ clients \in [Caller -> Socket \cup {Nobody}]
      /\ activeUsers \in [Username -> Socket \cup {Nobody}]
      /\ joined \in [Socket -> SUBSET Username] /\ replaced \subseteq Socket
  BY DEF Sockets!TypeOK
<1>1. ASSUME NEW s \in Socket, NEW u \in Caller, Sockets!HandleConnection(s, u)
      PROVE  PresenceInv'
  <2>1. /\ socket[s].state = "new" /\ socket'[s].state = "open" /\ socket'[s].user = u
        /\ \A t \in Socket \ {s} : socket'[t] = socket[t]
        /\ clients'[u] = s /\ \A v \in Caller \ {u} : clients'[v] = clients[v]
        /\ clients[u] # Nobody => clients[u] \in replaced'
        /\ replaced \subseteq replaced'
        /\ UNCHANGED <<activeUsers, joined>>
    BY <1>0, <1>1 DEF Sockets!HandleConnection
  <2>2. \A v \in Caller : clients[v] # s
    BY <1>0, <2>1
  <2>3. PresenceFits'
    BY <1>0, <2>1
  <2>4. Sockets!ReachedOnTheLast'
    <3>1. ASSUME NEW v \in Caller, clients'[v] # Nobody
          PROVE  socket'[clients'[v]].state = "open" /\ socket'[clients'[v]].user = v
      BY <1>0, <2>1, <2>2, <3>1
    <3>2. ASSUME NEW t \in Socket, socket'[t].state = "open", t \notin replaced'
          PROVE  clients'[socket'[t].user] = t
      BY <1>0, <2>1, <2>2, <3>2
    <3> QED BY <3>1, <3>2
  <2>5. Sockets!CalledIsConnectedAlone'
    BY <1>0, <2>1
  <2> QED BY <1>0, <2>3, <2>4, <2>5
<1>2. ASSUME NEW s \in Socket, Sockets!RefuseConnection(s) PROVE PresenceInv'
  <2>1. /\ socket[s].state = "new" /\ socket'[s].state = "closed"
        /\ \A t \in Socket \ {s} : socket'[t] = socket[t]
        /\ UNCHANGED <<clients, activeUsers, joined, replaced>>
    BY <1>0, <1>2 DEF Sockets!RefuseConnection
  <2>2. PresenceFits'
    BY <1>0, <2>1
  <2>3. Sockets!ReachedOnTheLast'
    <3>1. ASSUME NEW v \in Caller, clients'[v] # Nobody
          PROVE  socket'[clients'[v]].state = "open" /\ socket'[clients'[v]].user = v
      BY <1>0, <2>1, <3>1
    <3>2. ASSUME NEW t \in Socket, socket'[t].state = "open", t \notin replaced'
          PROVE  clients'[socket'[t].user] = t
      BY <1>0, <2>1, <3>2
    <3> QED BY <3>1, <3>2
  <2>4. Sockets!CalledIsConnectedAlone'
    BY <1>0, <2>1
  <2> QED BY <1>0, <2>2, <2>3, <2>4
<1>3. ASSUME NEW s \in Socket, Sockets!HandleDisconnect(s) PROVE PresenceInv'
  <2>1. /\ socket[s].state = "open" /\ socket'[s].state = "closed"
        /\ \A t \in Socket \ {s} : socket'[t] = socket[t]
        /\ UNCHANGED <<joined, replaced>>
    BY <1>0, <1>3 DEF Sockets!HandleDisconnect
  <2>2. \A u \in Caller : clients'[u] = IF clients[u] = s THEN Nobody ELSE clients[u]
    BY <1>0, <1>3 DEF Sockets!HandleDisconnect, Sockets!Forgets
  <2>3. \/ /\ UNCHANGED activeUsers
           /\ s \in replaced \/ \A n \in Username : activeUsers[n] # s
        \/ \E n \in Username : /\ activeUsers[n] = s
                               /\ activeUsers' = [activeUsers EXCEPT ![n] = Nobody]
    <3>1. CASE Sockets!NamesFreed(s) = {}
      <4>1. UNCHANGED activeUsers
        BY <1>0, <1>3, <3>1 DEF Sockets!HandleDisconnect
      <4>2. s \notin replaced => clients[socket[s].user] = s /\ socket[s].user \in Caller
        BY <1>0, <2>1
      <4> QED BY <3>1, <4>1, <4>2 DEF Sockets!NamesFreed
    <3>2. CASE Sockets!NamesFreed(s) # {}
      BY <1>0, <1>3, <3>2 DEF Sockets!HandleDisconnect, Sockets!NamesFreed
    <3> QED BY <3>1, <3>2
  <2>4. PresenceFits' /\ Sockets!ReachedOnTheLast'
    <3>1. \A n \in Username : activeUsers'[n] = activeUsers[n] \/ activeUsers'[n] = Nobody
      BY <1>0, <2>3
    <3>2. PresenceFits'
      BY <1>0, <2>1, <3>1
    <3>3. Sockets!ReachedOnTheLast'
      BY <1>0, <2>1, <2>2
    <3> QED BY <3>2, <3>3
  <2>5. Sockets!CalledIsConnectedAlone'
    <3>1. CASE UNCHANGED activeUsers /\ (s \in replaced \/ \A n \in Username : activeUsers[n] # s)
      BY <1>0, <2>1, <3>1
    <3>2. ASSUME NEW n \in Username, activeUsers[n] = s,
                 activeUsers' = [activeUsers EXCEPT ![n] = Nobody]
          PROVE  Sockets!CalledIsConnectedAlone'
      <4>1. n \in joined[s]
        BY <3>2
      <4> QED BY <1>0, <2>1, <3>2, <4>1
    <3> QED BY <1>0, <2>3, <3>1, <3>2
  <2> QED BY <1>0, <2>4, <2>5
<1>4. ASSUME NEW s \in Socket, NEW n \in Username, Sockets!HandleJoin(s, n) PROVE PresenceInv'
  <2>1. /\ socket[s].state = "open"
        /\ activeUsers'[n] = s
        /\ \A m \in Username \ {n} : activeUsers'[m] = activeUsers[m]
        /\ joined'[s] = joined[s] \cup {n}
        /\ \A t \in Socket \ {s} : joined'[t] = joined[t]
        /\ UNCHANGED <<socket, clients, replaced>>
    BY <1>0, <1>4 DEF Sockets!HandleJoin
  <2>2. PresenceFits' /\ Sockets!ReachedOnTheLast'
    BY <1>0, <2>1
  <2>3. Sockets!CalledIsConnectedAlone'
    <3> SUFFICES ASSUME NEW m \in Username, activeUsers'[m] # Nobody
                 PROVE  LET t == activeUsers'[m]
                        IN  \/ socket'[t].state = "open" \/ t \in replaced'
                            \/ \E k \in joined'[t] : k # m
      BY Zenon
    <3>1. CASE m = n
      BY <2>1, <3>1
    <3>2. CASE m # n
      <4>1. activeUsers'[m] = activeUsers[m] /\ activeUsers[m] \in Socket
        BY <1>0, <2>1, <3>2
      <4>2. joined[activeUsers[m]] \subseteq joined'[activeUsers[m]]
        BY <1>0, <2>1, <4>1
      <4> QED BY <2>1, <4>1, <4>2
    <3> QED BY <3>1, <3>2
  <2> QED BY <2>2, <2>3
<1>5. ASSUME UNCHANGED Sockets!presence PROVE PresenceInv'
  BY <1>0, <1>5 DEF Sockets!presence
<1>6. ASSUME Sockets!Restart PROVE PresenceInv'
  <2>1. /\ \A s \in Socket : socket'[s].state # "open"
        /\ \A u \in Caller : clients'[u] = Nobody
        /\ \A n \in Username : activeUsers'[n] = Nobody
    BY <1>0, <1>6 DEF Sockets!Restart
  <2> QED BY <1>0, <2>1
<1> QED BY <1>1, <1>2, <1>3, <1>4, <1>5, <1>6
        DEF Sockets!Next, Sockets!vars, Sockets!SendChunk, Sockets!SendEnd,
            Sockets!HandleRecordingChunk, Sockets!HandleRecordingEnd, Sockets!WritePart,
            Sockets!presence

\* A part on a socket is under way.
LEMMA PartIsUnderWay ==
    ASSUME Sockets!TypeOK, NEW s \in Socket, NEW i \in 1..Len(flight[s])
    PROVE  /\ flight[s][i][1] \in Recording /\ flight[s][i][2] \in 0..MaxChunk
           /\ flight[s][i] = <<flight[s][i][1], flight[s][i][2]>>
           /\ UnderWay(s, flight[s][i][1], flight[s][i][2])
<1>1. flight[s] \in Seq(Part)
  BY DEF Sockets!TypeOK, Part
<1>2. flight[s][i] \in Part
  BY <1>1
<1> QED BY <1>2 DEF Part, UnderWay

\* A part is sent on a socket.
Added(s, e) ==
    /\ \A t \in Socket \ {s} : flight'[t] = flight[t]
    /\ Len(flight'[s]) = Len(flight[s]) + 1
    /\ \A i \in 1..Len(flight[s]) : flight'[s][i] = flight[s][i]
    /\ flight'[s][Len(flight[s]) + 1] = e

\* The first part on a socket arrives.
Taken(s, e) ==
    /\ \A t \in Socket \ {s} : flight'[t] = flight[t]
    /\ Len(flight[s]) > 0 /\ flight[s][1] = e
    /\ Len(flight'[s]) = Len(flight[s]) - 1
    /\ \A i \in 1..Len(flight'[s]) : flight'[s][i] = flight[s][i + 1]

\* What is appended to what a socket carries is sent on it.
LEMMA AppendAdds ==
    ASSUME Sockets!TypeOK, NEW s \in Socket, NEW e \in Part,
           flight' = [flight EXCEPT ![s] = Append(@, e)]
    PROVE  Added(s, e)
<1>1. flight \in [Socket -> Seq(Part)]
  BY DEF Sockets!TypeOK, Part
<1>2. flight'[s] = Append(flight[s], e) /\ flight[s] \in Seq(Part)
  BY <1>1
<1> QED BY <1>1, <1>2 DEF Added

\* What is taken off the front has arrived.
LEMMA TailTakes ==
    ASSUME Sockets!TypeOK, NEW s \in Socket, flight[s] # <<>>,
           flight' = [flight EXCEPT ![s] = Tail(@)]
    PROVE  /\ Taken(s, Head(flight[s]))
           /\ Head(flight[s])[1] \in Recording /\ Head(flight[s])[2] \in 0..MaxChunk
           /\ Head(flight[s]) = <<Head(flight[s])[1], Head(flight[s])[2]>>
<1>1. flight \in [Socket -> Seq(Part)]
  BY DEF Sockets!TypeOK, Part
<1>2. flight'[s] = Tail(flight[s]) /\ flight[s] \in Seq(Part)
  BY <1>1
<1>3. Head(flight[s]) \in Part
  BY <1>2
<1> QED BY <1>1, <1>2, <1>3, HeadTailProperties DEF Taken, Part

\* What is sent is under way, and what was stays so.
LEMMA AddedIsUnderWay ==
    ASSUME Sockets!TypeOK, NEW s \in Socket, NEW e \in Part, Added(s, e), NEW t \in Socket,
           NEW r, NEW k
    PROVE  UnderWay(t, r, k)' <=> UnderWay(t, r, k) \/ (t = s /\ e = <<r, k>>)
<1>1. Len(flight[s]) \in Nat
  BY DEF Sockets!TypeOK
<1>2. CASE t # s
  BY <1>2 DEF UnderWay, Added
<1>3. CASE t = s
  <2>1. ASSUME UnderWay(s, r, k)' PROVE UnderWay(s, r, k) \/ e = <<r, k>>
    <3>1. PICK i \in 1..Len(flight'[s]) : flight'[s][i] = <<r, k>>
      BY <2>1 DEF UnderWay
    <3>2. i \in 1..Len(flight[s]) \/ i = Len(flight[s]) + 1
      BY <1>1 DEF Added
    <3> QED BY <3>1, <3>2 DEF UnderWay, Added
  <2>2. ASSUME UnderWay(s, r, k) PROVE UnderWay(s, r, k)'
    <3>1. PICK i \in 1..Len(flight[s]) : flight[s][i] = <<r, k>>
      BY <2>2 DEF UnderWay
    <3>2. i \in 1..Len(flight'[s]) /\ flight'[s][i] = <<r, k>>
      BY <1>1, <3>1 DEF Added
    <3> QED BY <3>2 DEF UnderWay
  <2>3. ASSUME e = <<r, k>> PROVE UnderWay(s, r, k)'
    <3>1. Len(flight[s]) + 1 \in 1..Len(flight'[s])
      BY <1>1 DEF Added
    <3> QED BY <2>3, <3>1 DEF UnderWay, Added
  <2> QED BY <1>3, <2>1, <2>2, <2>3
<1> QED BY <1>2, <1>3

\* What has arrived is under way no more.
LEMMA TakenIsNot ==
    ASSUME Sockets!TypeOK, NEW s \in Socket, NEW e, Taken(s, e), NEW t \in Socket, NEW r, NEW k
    PROVE  UnderWay(t, r, k) <=> UnderWay(t, r, k)' \/ (t = s /\ e = <<r, k>>)
<1>1. Len(flight[s]) \in Nat
  BY DEF Sockets!TypeOK
<1>2. CASE t # s
  BY <1>2 DEF UnderWay, Taken
<1>3. CASE t = s
  <2>1. ASSUME UnderWay(s, r, k) PROVE UnderWay(s, r, k)' \/ e = <<r, k>>
    <3>1. PICK i \in 1..Len(flight[s]) : flight[s][i] = <<r, k>>
      BY <2>1 DEF UnderWay
    <3>2. CASE i = 1
      BY <3>1, <3>2 DEF Taken
    <3>3. CASE i # 1
      <4>1. i - 1 \in 1..Len(flight'[s]) /\ (i - 1) + 1 = i
        BY <1>1, <3>3 DEF Taken
      <4>2. flight'[s][i - 1] = <<r, k>>
        BY <3>1, <4>1 DEF Taken
      <4> QED BY <4>1, <4>2 DEF UnderWay
    <3> QED BY <3>2, <3>3
  <2>2. ASSUME UnderWay(s, r, k)' PROVE UnderWay(s, r, k)
    <3>1. PICK i \in 1..Len(flight'[s]) : flight'[s][i] = <<r, k>>
      BY <2>2 DEF UnderWay
    <3>2. i + 1 \in 1..Len(flight[s]) /\ flight[s][i + 1] = <<r, k>>
      BY <1>1, <3>1 DEF Taken
    <3> QED BY <3>2 DEF UnderWay
  <2>3. ASSUME e = <<r, k>> PROVE UnderWay(s, r, k)
    <3>1. 1 \in 1..Len(flight[s]) /\ flight[s][1] = <<r, k>>
      BY <1>1, <2>3 DEF Taken
    <3> QED BY <3>1 DEF UnderWay
  <2> QED BY <1>3, <2>1, <2>2, <2>3
<1> QED BY <1>2, <1>3

\* What holds of recordings, together.
RecordingInv == CarriedIsKnown /\ RecordingFits

\* The parts of a recording in order are so on their way.
LEMMA AlwaysOrdered ==
    ASSUME Sockets!TypeOK, NEW r \in Recording, NEW s \in Socket, Arriving(r, s) \/ Arrived(r,
           s)
    PROVE  Ordered(r, s)
<1>1. CASE Arriving(r, s)
  BY <1>1 DEF Arriving
<1>2. CASE Arrived(r, s)
  <2>1. ASSUME NEW i \in 1..Len(flight[s]) PROVE flight[s][i][1] # r
    BY <1>2, PartIsUnderWay DEF Arrived
  <2> QED BY <2>1 DEF Ordered
<1> QED BY <1>1, <1>2

\* What is sent for others and what arrives leaves the order as it is.
LEMMA AddedStaysOrdered ==
    ASSUME Sockets!TypeOK, NEW s \in Socket, NEW e, Added(s, e), NEW r \in Recording,
           NEW t \in Socket,
           Ordered(r, t), t = s => e[1] # r
    PROVE  Ordered(r, t)'
<1>1. Len(flight[t]) \in Nat
  BY DEF Sockets!TypeOK
<1>2. CASE t # s
  BY <1>2 DEF Ordered, Added
<1>3. CASE t = s
  <2> SUFFICES ASSUME NEW i \in 1..Len(flight'[s]), NEW j \in 1..Len(flight'[s]), i < j,
                      flight'[s][i][1] = r, flight'[s][j][1] = r
               PROVE  InOrder(flight'[s][i][2], flight'[s][j][2])
    BY <1>3 DEF Ordered
  <2>1. j # Len(flight[s]) + 1
    BY <1>3 DEF Added
  <2>2. i \in 1..Len(flight[s]) /\ j \in 1..Len(flight[s])
    BY <1>1, <1>3, <2>1 DEF Added
  <2> QED BY <1>3, <2>2 DEF Ordered, Added
<1> QED BY <1>2, <1>3

\* What arrives leaves the order of the rest as it is.
LEMMA TakenStaysOrdered ==
    ASSUME Sockets!TypeOK, NEW s \in Socket, NEW e, Taken(s, e), NEW r \in Recording,
           NEW t \in Socket,
           Ordered(r, t)
    PROVE  Ordered(r, t)'
<1>1. Len(flight[s]) \in Nat
  BY DEF Sockets!TypeOK
<1>2. CASE t # s
  BY <1>2 DEF Ordered, Taken
<1>3. CASE t = s
  <2> SUFFICES ASSUME NEW i \in 1..Len(flight'[s]), NEW j \in 1..Len(flight'[s]), i < j,
                      flight'[s][i][1] = r, flight'[s][j][1] = r
               PROVE  InOrder(flight'[s][i][2], flight'[s][j][2])
    BY <1>3 DEF Ordered
  <2>1. i + 1 \in 1..Len(flight[s]) /\ j + 1 \in 1..Len(flight[s]) /\ i + 1 < j + 1
    BY <1>1 DEF Taken
  <2>2. flight'[s][i] = flight[s][i + 1] /\ flight'[s][j] = flight[s][j + 1]
    BY DEF Taken
  <2> QED BY <1>3, <2>1, <2>2 DEF Ordered
<1> QED BY <1>2, <1>3

\* What a recording in order looks like after a step that leaves it alone.
LEMMA OthersStay ==
    ASSUME NEW r \in Recording, NEW s \in Socket, Arriving(r, s) \/ Arrived(r, s),
           recorded'[r] = recorded[r], r \in ended' <=> r \in ended,
           file'[r] = file[r], writing'[r] = writing[r], chunks'[r] = chunks[r],
           \A k \in 0..MaxChunk : UnderWay(s, r, k)' <=> UnderWay(s, r, k),
           Ordered(r, s)', Sockets!TypeOK
    PROVE  Arriving(r, s)' \/ Arrived(r, s)'
<1>1. recorded[r] \in 0..MaxChunk /\ Len(chunks[r]) \in Nat /\ MaxChunk \in Nat
  BY ServicesAssumption DEF Sockets!TypeOK
<1>2. \A k \in (Len(chunks[r]) + 1)..recorded[r] : k \in 0..MaxChunk
  BY <1>1
<1>3. \A k \in 1..MaxChunk : k \in 0..MaxChunk
  BY <1>1
<1>4. 0 \in 0..MaxChunk
  BY <1>1
<1>5. CASE Arriving(r, s)
  BY <1>2, <1>3, <1>4, <1>5 DEF Arriving
<1>6. CASE Arrived(r, s)
  BY <1>6 DEF Arrived
<1> QED BY <1>5, <1>6

\* The next part of a recording is sent.
LEMMA SendChunkKeeps ==
    ASSUME Sockets!TypeOK, RecordingInv, NEW s \in Socket, NEW r \in Recording,
           Sockets!SendChunk(s, r)
    PROVE  RecordingInv'
<1> DEFINE e == <<r, recorded[r] + 1>>
<1>1. /\ recorded[r] \in 0..MaxChunk /\ recorded[r] + 1 \in 1..MaxChunk
      /\ MaxChunk \in Nat /\ e \in Part
  BY ServicesAssumption DEF Sockets!TypeOK, Sockets!SendChunk, Part
<1>2. Added(s, e)
  BY <1>1, AppendAdds DEF Sockets!SendChunk
<1>3. /\ r \notin ended /\ recorded'[r] = recorded[r] + 1
      /\ \A q \in Recording \ {r} : recorded'[q] = recorded[q] /\ carried'[q] = carried[q]
      /\ carried'[r] = carried[r] \cup {s}
      /\ UNCHANGED <<ended, chunks, writing, file, torn>>
  BY DEF Sockets!SendChunk, Sockets!TypeOK
<1> HIDE DEF e
<1>4. \A t \in Socket, q \in Recording, k \in 0..MaxChunk :
        UnderWay(t, q, k)' <=> UnderWay(t, q, k) \/ (t = s /\ e = <<q, k>>)
  BY <1>1, <1>2, AddedIsUnderWay
<1>5. CarriedIsKnown'
  BY <1>3, <1>4 DEF RecordingInv, CarriedIsKnown, e
<1>6. ASSUME NEW q \in Recording, NEW t \in Socket, OnOneSocket(q, t)'
      PROVE  Arriving(q, t)' \/ Arrived(q, t)'
  <2>1. OnOneSocket(q, t) /\ (Arriving(q, t) \/ Arrived(q, t))
    BY <1>3, <1>6 DEF RecordingInv, RecordingFits, OnOneSocket
  <2>2. CASE q # r
    <3>1. \A k \in 0..MaxChunk : UnderWay(t, q, k)' <=> UnderWay(t, q, k)
      BY <1>4, <2>2 DEF e
    <3>2. Ordered(q, t)'
      <4>1. e[1] # q
        BY <2>2 DEF e
      <4> QED BY <1>2, <2>1, <4>1, AlwaysOrdered, AddedStaysOrdered
    <3> QED BY <1>3, <2>1, <2>2, <3>1, <3>2, OthersStay
  <2>3. CASE q = r
    <3>1. t = s
      BY <1>3, <1>6, <2>3 DEF OnOneSocket
    <3>2. Arriving(r, s)
      BY <1>3, <2>1, <2>3, <3>1 DEF Arrived
    <3>3. \A i \in 1..Len(flight[s]) :
             flight[s][i][1] = r => flight[s][i][2] \in 1..recorded[r]
      <4> SUFFICES ASSUME NEW i \in 1..Len(flight[s]), flight[s][i][1] = r
                   PROVE  flight[s][i][2] \in 1..recorded[r]
        OBVIOUS
      <4>1. UnderWay(s, r, flight[s][i][2]) /\ flight[s][i][2] \in 0..MaxChunk
        BY PartIsUnderWay
      <4>2. flight[s][i][2] # 0
        BY <1>3, <3>2, <4>1 DEF Arriving
      <4> QED BY <1>1, <3>2, <4>1, <4>2 DEF Arriving
    <3>4. Ordered(r, s)'
      <4> SUFFICES ASSUME NEW i \in 1..Len(flight'[s]), NEW j \in 1..Len(flight'[s]), i < j,
                          flight'[s][i][1] = r, flight'[s][j][1] = r
                   PROVE  InOrder(flight'[s][i][2], flight'[s][j][2])
        BY DEF Ordered
      <4>1. Len(flight[s]) \in Nat
        BY DEF Sockets!TypeOK
      <4>2. i \in 1..Len(flight[s]) /\ flight'[s][i] = flight[s][i]
        BY <1>2, <4>1 DEF Added
      <4>3. CASE j = Len(flight[s]) + 1
        <5>1. flight'[s][j][2] = recorded[r] + 1
          BY <1>2, <4>3 DEF Added, e
        <5> QED BY <1>1, <3>3, <4>2, <5>1 DEF InOrder
      <4>4. CASE j # Len(flight[s]) + 1
        <5>1. j \in 1..Len(flight[s]) /\ flight'[s][j] = flight[s][j]
          BY <1>2, <4>1, <4>4 DEF Added
        <5> QED BY <3>2, <4>2, <5>1 DEF Arriving, Ordered
      <4> QED BY <4>3, <4>4
    <3>5. \A k \in 0..MaxChunk : UnderWay(s, r, k)' <=> UnderWay(s, r, k) \/ k = recorded[r] + 1
      BY <1>4 DEF e
    <3>6. Arriving(r, s)'
      <4>1. Len(chunks[r]) \in Nat
        BY DEF Sockets!TypeOK
      <4>2. \A k \in (Len(chunks[r]) + 1)..recorded'[r] : UnderWay(s, r, k)'
        BY <1>1, <1>3, <3>2, <3>5, <4>1 DEF Arriving
      <4>3. \A k \in 1..MaxChunk :
              UnderWay(s, r, k)' => k > Len(chunks[r]) /\ k =< recorded'[r]
        BY <1>1, <1>3, <3>2, <3>5, <4>1 DEF Arriving
      <4>4. UnderWay(s, r, 0)' <=> r \in ended'
        BY <1>1, <1>3, <3>2, <3>5 DEF Arriving
      <4> QED BY <1>1, <1>3, <3>2, <3>4, <4>1, <4>2, <4>3, <4>4 DEF Arriving
    <3> QED BY <2>3, <3>1, <3>6
  <2> QED BY <2>2, <2>3
<1> QED BY <1>5, <1>6 DEF RecordingInv, RecordingFits

\* The end of a recording is sent.
LEMMA SendEndKeeps ==
    ASSUME Sockets!TypeOK, RecordingInv, NEW s \in Socket, NEW r \in Recording,
           Sockets!SendEnd(s, r)
    PROVE  RecordingInv'
<1> DEFINE e == <<r, 0>>
<1>1. MaxChunk \in Nat /\ recorded[r] \in 0..MaxChunk /\ e \in Part
  BY ServicesAssumption DEF Sockets!TypeOK, Part
<1>2. Added(s, e)
  BY <1>1, AppendAdds DEF Sockets!SendEnd
<1>3. /\ r \notin ended /\ ended' = ended \cup {r}
      /\ \A q \in Recording \ {r} : carried'[q] = carried[q]
      /\ carried'[r] = carried[r] \cup {s}
      /\ UNCHANGED <<recorded, chunks, writing, file, torn>>
  BY DEF Sockets!SendEnd, Sockets!TypeOK
<1> HIDE DEF e
<1>4. \A t \in Socket, q \in Recording, k \in 0..MaxChunk :
        UnderWay(t, q, k)' <=> UnderWay(t, q, k) \/ (t = s /\ e = <<q, k>>)
  BY <1>1, <1>2, AddedIsUnderWay
<1>5. CarriedIsKnown'
  BY <1>3, <1>4 DEF RecordingInv, CarriedIsKnown, e
<1>6. ASSUME NEW q \in Recording, NEW t \in Socket, OnOneSocket(q, t)'
      PROVE  Arriving(q, t)' \/ Arrived(q, t)'
  <2>1. OnOneSocket(q, t) /\ (Arriving(q, t) \/ Arrived(q, t))
    BY <1>3, <1>6 DEF RecordingInv, RecordingFits, OnOneSocket
  <2>2. CASE q # r
    <3>1. \A k \in 0..MaxChunk : UnderWay(t, q, k)' <=> UnderWay(t, q, k)
      BY <1>4, <2>2 DEF e
    <3>2. Ordered(q, t)'
      <4>1. e[1] # q
        BY <2>2 DEF e
      <4> QED BY <1>2, <2>1, <4>1, AlwaysOrdered, AddedStaysOrdered
    <3> QED BY <1>3, <2>1, <2>2, <3>1, <3>2, OthersStay
  <2>3. CASE q = r
    <3>1. t = s
      BY <1>3, <1>6, <2>3 DEF OnOneSocket
    <3>2. Arriving(r, s)
      BY <1>3, <2>1, <2>3, <3>1 DEF Arrived
    <3>3. \A i \in 1..Len(flight[s]) : flight[s][i][1] = r => flight[s][i][2] > 0
      <4> SUFFICES ASSUME NEW i \in 1..Len(flight[s]), flight[s][i][1] = r
                   PROVE  flight[s][i][2] > 0
        OBVIOUS
      <4>1. UnderWay(s, r, flight[s][i][2]) /\ flight[s][i][2] \in 0..MaxChunk
        BY PartIsUnderWay
      <4>2. flight[s][i][2] # 0
        BY <1>3, <3>2, <4>1 DEF Arriving
      <4> QED BY <1>1, <4>1, <4>2
    <3>4. Ordered(r, s)'
      <4> SUFFICES ASSUME NEW i \in 1..Len(flight'[s]), NEW j \in 1..Len(flight'[s]), i < j,
                          flight'[s][i][1] = r, flight'[s][j][1] = r
                   PROVE  InOrder(flight'[s][i][2], flight'[s][j][2])
        BY DEF Ordered
      <4>1. Len(flight[s]) \in Nat
        BY DEF Sockets!TypeOK
      <4>2. i \in 1..Len(flight[s]) /\ flight'[s][i] = flight[s][i]
        BY <1>2, <4>1 DEF Added
      <4>3. CASE j = Len(flight[s]) + 1
        <5>1. flight'[s][j][2] = 0
          BY <1>2, <4>3 DEF Added, e
        <5> QED BY <1>1, <3>3, <4>2, <5>1 DEF InOrder
      <4>4. CASE j # Len(flight[s]) + 1
        <5>1. j \in 1..Len(flight[s]) /\ flight'[s][j] = flight[s][j]
          BY <1>2, <4>1, <4>4 DEF Added
        <5> QED BY <3>2, <4>2, <5>1 DEF Arriving, Ordered
      <4> QED BY <4>3, <4>4
    <3>5. \A k \in 0..MaxChunk : UnderWay(s, r, k)' <=> UnderWay(s, r, k) \/ k = 0
      BY <1>4 DEF e
    <3>6. Arriving(r, s)'
      <4>1. Len(chunks[r]) \in Nat
        BY DEF Sockets!TypeOK
      <4>2. \A k \in (Len(chunks[r]) + 1)..recorded[r] : UnderWay(s, r, k)'
        BY <1>1, <3>2, <3>5, <4>1 DEF Arriving
      <4>3. \A k \in 1..MaxChunk : UnderWay(s, r, k)' => k > Len(chunks[r]) /\ k =< recorded[r]
        BY <1>1, <3>2, <3>5, <4>1 DEF Arriving
      <4>4. UnderWay(s, r, 0)' <=> r \in ended'
        BY <1>1, <1>3, <3>5
      <4> QED BY <1>1, <1>3, <3>2, <3>4, <4>1, <4>2, <4>3, <4>4 DEF Arriving
    <3> QED BY <2>3, <3>1, <3>6
  <2> QED BY <2>2, <2>3
<1> QED BY <1>5, <1>6 DEF RecordingInv, RecordingFits

\* A part arrives: it is the next one.
LEMMA HandleRecordingChunkKeeps ==
    ASSUME Sockets!TypeOK, RecordingInv, NEW s \in Socket, Sockets!HandleRecordingChunk(s)
    PROVE  RecordingInv'
<1>0. PICK r \in Recording, p \in 1..MaxChunk :
        /\ Taken(s, <<r, p>>)
        /\ chunks' = [chunks EXCEPT ![r] = Append(chunks[r], p)]
  <2> DEFINE e == Head(flight[s])
  <2>1. /\ flight[s] # <<>> /\ e[2] > 0 /\ flight' = [flight EXCEPT ![s] = Tail(@)]
        /\ chunks' = [chunks EXCEPT ![e[1]] = Append(chunks[e[1]], e[2])]
    BY DEF Sockets!HandleRecordingChunk, Sockets!AddPart
  <2>2. Taken(s, e) /\ e[1] \in Recording /\ e[2] \in 0..MaxChunk /\ e = <<e[1], e[2]>>
    BY <2>1, TailTakes
  <2>3. e[2] \in 1..MaxChunk
    BY <2>1, <2>2, ServicesAssumption
  <2> HIDE DEF e
  <2> QED BY <2>1, <2>2, <2>3
<1> DEFINE e == <<r, p>>
<1>1. Taken(s, e) /\ r \in Recording /\ p \in 1..MaxChunk /\ e = <<r, p>> /\ MaxChunk \in Nat
  BY <1>0, ServicesAssumption
<1>2. /\ chunks' = [chunks EXCEPT ![r] = Append(chunks[r], p)]
      /\ UNCHANGED <<recorded, ended, writing, file, carried, torn>>
  BY <1>0 DEF Sockets!HandleRecordingChunk
<1> HIDE DEF e
<1>3. \A t \in Socket, q \in Recording, k \in 0..MaxChunk :
        UnderWay(t, q, k) <=> UnderWay(t, q, k)' \/ (t = s /\ e = <<q, k>>)
  BY <1>1, TakenIsNot
<1>4. CarriedIsKnown'
  BY <1>2, <1>3 DEF RecordingInv, CarriedIsKnown
<1>5. ASSUME NEW q \in Recording, NEW t \in Socket, OnOneSocket(q, t)'
      PROVE  Arriving(q, t)' \/ Arrived(q, t)'
  <2>1. OnOneSocket(q, t) /\ (Arriving(q, t) \/ Arrived(q, t)) /\ Ordered(q, t)
    BY <1>2, <1>5, AlwaysOrdered DEF RecordingInv, RecordingFits, OnOneSocket
  <2>2. Ordered(q, t)'
    BY <1>1, <2>1, TakenStaysOrdered
  <2>3. CASE q # r
    <3>1. \A k \in 0..MaxChunk : UnderWay(t, q, k)' <=> UnderWay(t, q, k)
      BY <1>1, <1>3, <2>3
    <3>2. chunks'[q] = chunks[q]
      BY <1>2, <2>3 DEF Sockets!TypeOK
    <3> QED BY <1>2, <2>1, <2>2, <3>1, <3>2, OthersStay
  <2>4. CASE q = r
    <3>1. UnderWay(s, r, p) /\ p \in 0..MaxChunk
      BY <1>1, <1>3
    <3>2. t = s
      BY <1>1, <2>1, <2>4, <3>1 DEF RecordingInv, CarriedIsKnown, OnOneSocket
    <3>3. Arriving(r, s)
      BY <2>1, <2>4, <3>1, <3>2 DEF Arrived
    <3>4. /\ recorded[r] \in 0..MaxChunk /\ chunks[r] \in Seq(1..MaxChunk)
          /\ Len(chunks[r]) \in Nat /\ Len(flight[s]) \in Nat
      BY <1>1 DEF Sockets!TypeOK
    <3>5. \A k \in 0..MaxChunk : UnderWay(s, r, k)' => UnderWay(s, r, k) /\ InOrder(p, k)
      <4> SUFFICES ASSUME NEW k \in 0..MaxChunk, UnderWay(s, r, k)'
                   PROVE  UnderWay(s, r, k) /\ InOrder(p, k)
        OBVIOUS
      <4>1. PICK i \in 1..Len(flight'[s]) : flight'[s][i] = <<r, k>>
        BY DEF UnderWay
      <4>2. i + 1 \in 1..Len(flight[s]) /\ flight[s][i + 1] = <<r, k>> /\ 1 < i + 1
        BY <1>1, <3>4, <4>1 DEF Taken
      <4>3. 1 \in 1..Len(flight[s]) /\ flight[s][1] = <<r, p>>
        BY <1>1, <3>4 DEF Taken
      <4>4. UnderWay(s, r, k)
        BY <4>2 DEF UnderWay
      <4>5. InOrder(p, k)
        BY <3>3, <4>2, <4>3 DEF Arriving, Ordered
      <4> QED BY <4>4, <4>5
    <3>6. p = Len(chunks[r]) + 1
      <4>1. PICK c \in Nat : c = Len(chunks[r])
        BY <3>4
      <4>2. p > c /\ p =< recorded[r]
        BY <1>1, <3>1, <3>3, <4>1 DEF Arriving
      <4>3. UnderWay(s, r, c + 1) /\ c + 1 \in 0..MaxChunk
        <5>1. c + 1 \in (Len(chunks[r]) + 1)..recorded[r] /\ c + 1 \in 0..MaxChunk
          BY <1>1, <3>4, <4>1, <4>2
        <5> QED BY <3>3, <5>1 DEF Arriving
      <4>4. CASE UnderWay(s, r, c + 1)'
        <5>1. InOrder(p, c + 1)
          BY <3>5, <4>3, <4>4
        <5> QED BY <1>1, <4>1, <4>2, <5>1 DEF InOrder
      <4>5. CASE e = <<r, c + 1>>
        BY <1>1, <4>1, <4>5
      <4> QED BY <1>3, <4>3, <4>4, <4>5
    <3>7. /\ Len(chunks'[r]) = Len(chunks[r]) + 1
          /\ \A k \in 1..Len(chunks[r]) : chunks'[r][k] = chunks[r][k]
          /\ chunks'[r][Len(chunks[r]) + 1] = p
      BY <1>1, <1>2, <3>4 DEF Sockets!TypeOK
    <3>8. \A k \in 1..Len(chunks'[r]) : chunks'[r][k] = k
      BY <3>3, <3>4, <3>6, <3>7 DEF Arriving
    <3>9. p =< recorded[r]
      BY <1>1, <3>1, <3>3 DEF Arriving
    <3>10. \A k \in (Len(chunks'[r]) + 1)..recorded[r] : UnderWay(s, r, k)'
      <4> SUFFICES ASSUME NEW k \in (Len(chunks'[r]) + 1)..recorded[r]
                   PROVE  UnderWay(s, r, k)'
        OBVIOUS
      <4>1. k \in (Len(chunks[r]) + 1)..recorded[r] /\ k \in 0..MaxChunk /\ k # p
        BY <1>1, <3>4, <3>6, <3>7
      <4>2. UnderWay(s, r, k)
        BY <3>3, <4>1 DEF Arriving
      <4>3. e # <<r, k>>
        BY <1>1, <4>1
      <4> QED BY <1>3, <4>1, <4>2, <4>3
    <3>11. \A k \in 1..MaxChunk : UnderWay(s, r, k)' => k > Len(chunks'[r]) /\ k =< recorded[r]
      BY <1>1, <3>3, <3>4, <3>5, <3>6, <3>7 DEF Arriving, InOrder
    <3>12. UnderWay(s, r, 0)' <=> r \in ended
      BY <1>1, <1>3, <3>3 DEF Arriving
    <3> QED BY <1>2, <2>2, <2>4, <3>2, <3>3, <3>4, <3>6, <3>7, <3>8, <3>9, <3>10, <3>11, <3>12
            DEF Arriving
  <2> QED BY <2>3, <2>4
<1> QED BY <1>4, <1>5 DEF RecordingInv, RecordingFits

\* The end arrives: behind everything else, so the stream gets all of it.
LEMMA HandleRecordingEndKeeps ==
    ASSUME Sockets!TypeOK, RecordingInv, NEW s \in Socket, Sockets!HandleRecordingEnd(s)
    PROVE  RecordingInv'
<1>0. PICK r \in Recording :
        /\ Taken(s, <<r, 0>>)
        /\ writing' = [writing EXCEPT ![r] = writing[r] \o chunks[r]]
        /\ chunks' = [chunks EXCEPT ![r] = <<>>]
  <2> DEFINE e == Head(flight[s])
  <2>1. /\ flight[s] # <<>> /\ e[2] = 0 /\ flight' = [flight EXCEPT ![s] = Tail(@)]
        /\ writing' = [writing EXCEPT ![e[1]] = writing[e[1]] \o chunks[e[1]]]
        /\ chunks' = [chunks EXCEPT ![e[1]] = <<>>]
    BY DEF Sockets!HandleRecordingEnd
  <2>2. Taken(s, e) /\ e[1] \in Recording /\ e = <<e[1], e[2]>>
    BY <2>1, TailTakes
  <2> HIDE DEF e
  <2> QED BY <2>1, <2>2
<1> DEFINE e == <<r, 0>>
<1>1. Taken(s, e) /\ r \in Recording /\ e = <<r, 0>> /\ MaxChunk \in Nat
  BY <1>0, ServicesAssumption
<1>2. /\ writing' = [writing EXCEPT ![r] = writing[r] \o chunks[r]]
      /\ chunks' = [chunks EXCEPT ![r] = <<>>]
      /\ UNCHANGED <<recorded, ended, file, carried, torn>>
  BY <1>0 DEF Sockets!HandleRecordingEnd
<1> HIDE DEF e
<1>3. \A t \in Socket, q \in Recording, k \in 0..MaxChunk :
        UnderWay(t, q, k) <=> UnderWay(t, q, k)' \/ (t = s /\ e = <<q, k>>)
  BY <1>1, TakenIsNot
<1>4. CarriedIsKnown'
  BY <1>2, <1>3 DEF RecordingInv, CarriedIsKnown
<1>5. ASSUME NEW q \in Recording, NEW t \in Socket, OnOneSocket(q, t)'
      PROVE  Arriving(q, t)' \/ Arrived(q, t)'
  <2>1. OnOneSocket(q, t) /\ (Arriving(q, t) \/ Arrived(q, t)) /\ Ordered(q, t)
    BY <1>2, <1>5, AlwaysOrdered DEF RecordingInv, RecordingFits, OnOneSocket
  <2>2. Ordered(q, t)'
    BY <1>1, <2>1, TakenStaysOrdered
  <2>3. CASE q # r
    <3>1. \A k \in 0..MaxChunk : UnderWay(t, q, k)' <=> UnderWay(t, q, k)
      BY <1>1, <1>3, <2>3
    <3>2. chunks'[q] = chunks[q] /\ writing'[q] = writing[q]
      BY <1>2, <2>3 DEF Sockets!TypeOK
    <3> QED BY <1>2, <2>1, <2>2, <3>1, <3>2, OthersStay
  <2>4. CASE q = r
    <3>1. UnderWay(s, r, 0) /\ 0 \in 0..MaxChunk
      BY <1>1, <1>3
    <3>2. t = s
      BY <1>1, <2>1, <2>4, <3>1 DEF RecordingInv, CarriedIsKnown, OnOneSocket
    <3>3. Arriving(r, s)
      BY <2>1, <2>4, <3>1, <3>2 DEF Arrived
    <3>4. /\ recorded[r] \in 0..MaxChunk /\ chunks[r] \in Seq(1..MaxChunk)
          /\ Len(chunks[r]) \in Nat /\ Len(flight[s]) \in Nat
      BY <1>1 DEF Sockets!TypeOK
    <3>5. \A k \in 0..MaxChunk : ~UnderWay(s, r, k)'
      <4> SUFFICES ASSUME NEW k \in 0..MaxChunk, UnderWay(s, r, k)' PROVE FALSE
        OBVIOUS
      <4>1. PICK i \in 1..Len(flight'[s]) : flight'[s][i] = <<r, k>>
        BY DEF UnderWay
      <4>2. i + 1 \in 1..Len(flight[s]) /\ flight[s][i + 1] = <<r, k>> /\ 1 < i + 1
        BY <1>1, <3>4, <4>1 DEF Taken
      <4>3. 1 \in 1..Len(flight[s]) /\ flight[s][1] = <<r, 0>>
        BY <1>1, <3>4 DEF Taken
      <4> QED BY <3>3, <4>2, <4>3 DEF Arriving, Ordered, InOrder
    <3>6. Len(chunks[r]) = recorded[r]
      <4>1. ASSUME Len(chunks[r]) # recorded[r] PROVE FALSE
        <5>1. /\ Len(chunks[r]) + 1 \in (Len(chunks[r]) + 1)..recorded[r]
              /\ Len(chunks[r]) + 1 \in 0..MaxChunk /\ Len(chunks[r]) + 1 # 0
          BY <1>1, <3>3, <3>4, <4>1 DEF Arriving
        <5>2. UnderWay(s, r, Len(chunks[r]) + 1)
          BY <3>3, <5>1 DEF Arriving
        <5> QED BY <1>1, <1>3, <3>5, <5>1, <5>2
      <4> QED BY <4>1
    <3>7. file[r] = <<>> /\ \A k \in 1..Len(chunks[r]) : chunks[r][k] = k
      BY <3>3, <3>4, <3>6 DEF Arriving
    <3>8. writing'[r] = chunks[r] /\ chunks'[r] = <<>>
      <4>1. writing'[r] = writing[r] \o chunks[r] /\ chunks'[r] = <<>>
        BY <1>1, <1>2 DEF Sockets!TypeOK
      <4>2. <<>> \o chunks[r] = chunks[r]
        BY <3>4
      <4> QED BY <3>3, <4>1, <4>2 DEF Arriving
    <3>9. r \in ended
      BY <3>1, <3>3 DEF Arriving
    <3>10. Len(file[r]) = 0 /\ recorded[r] \in Nat /\ Len(chunks[r]) \in Nat
      BY <3>4, <3>7
    <3>11. Len(file'[r]) + Len(writing'[r]) = recorded'[r]
      <4>1. Len(file'[r]) = 0 /\ Len(writing'[r]) = recorded'[r] /\ recorded'[r] \in Nat
        BY <1>2, <3>6, <3>8, <3>10, Zenon
      <4> QED BY <4>1, NothingAdds, Zenon
    <3>12. \A k \in 1..Len(file'[r]) : file'[r][k] = k
      BY <1>2, <3>10
    <3>13. \A k \in 1..Len(writing'[r]) : writing'[r][k] = Len(file'[r]) + k
      <4> SUFFICES ASSUME NEW k \in 1..Len(writing'[r])
                   PROVE  writing'[r][k] = Len(file'[r]) + k
        OBVIOUS
      <4>1. k \in 1..Len(chunks[r]) /\ k \in Nat /\ writing'[r][k] = chunks[r][k]
        BY <3>8, <3>10
      <4>2. chunks[r][k] = k /\ Len(file'[r]) = 0
        BY <1>2, <3>7, <3>10, <4>1
      <4> QED BY <4>1, <4>2
    <3> QED BY <1>2, <2>4, <3>2, <3>5, <3>8, <3>9, <3>11, <3>12, <3>13 DEF Arrived
  <2> QED BY <2>3, <2>4
<1> QED BY <1>4, <1>5 DEF RecordingInv, RecordingFits

\* The stream writes one part after the other.
LEMMA WritePartKeeps ==
    ASSUME Sockets!TypeOK, RecordingInv, NEW r \in Recording, Sockets!WritePart(r)
    PROVE  RecordingInv'
<1>1. /\ UNCHANGED <<recorded, ended, flight, chunks, carried, torn>>
      /\ writing[r] # <<>>
      /\ file'[r] = Append(file[r], Head(writing[r])) /\ writing'[r] = Tail(writing[r])
      /\ \A q \in Recording \ {r} : file'[q] = file[q] /\ writing'[q] = writing[q]
      /\ file[r] \in Seq(1..MaxChunk) /\ writing[r] \in Seq(1..MaxChunk)
  BY DEF Sockets!WritePart, Sockets!TypeOK
<1>2. \A s \in Socket : \A q, k : UnderWay(s, q, k)' <=> UnderWay(s, q, k)
  BY <1>1 DEF UnderWay
<1>3. CarriedIsKnown'
  BY <1>1, <1>2 DEF RecordingInv, CarriedIsKnown
<1>4. ASSUME NEW q \in Recording, NEW s \in Socket, OnOneSocket(q, s)'
      PROVE  Arriving(q, s)' \/ Arrived(q, s)'
  <2>1. (Arriving(q, s) \/ Arrived(q, s)) /\ Ordered(q, s)
    BY <1>1, <1>4, AlwaysOrdered DEF RecordingInv, RecordingFits, OnOneSocket
  <2>2. CASE q # r
    <3>1. Ordered(q, s)'
      BY <1>1, <2>1 DEF Ordered
    <3> QED BY <1>1, <1>2, <2>1, <2>2, <3>1, OthersStay
  <2>3. CASE q = r
    <3>1. Arrived(r, s)
      BY <1>1, <2>1, <2>3 DEF Arriving
    <3>2. /\ Len(file[r]) \in Nat /\ Len(writing[r]) \in Nat \ {0}
          /\ Len(file'[r]) = Len(file[r]) + 1 /\ Len(writing'[r]) = Len(writing[r]) - 1
          /\ \A k \in 1..Len(file[r]) : file'[r][k] = file[r][k]
          /\ file'[r][Len(file[r]) + 1] = writing[r][1]
          /\ \A k \in 1..(Len(writing[r]) - 1) : writing'[r][k] = writing[r][k + 1]
      BY <1>1
    <3>3. file'[r][Len(file[r]) + 1] = Len(file[r]) + 1
      BY <3>1, <3>2 DEF Arrived
    <3>4. \A k \in 1..Len(file'[r]) : file'[r][k] = k
      <4> SUFFICES ASSUME NEW k \in 1..Len(file'[r]) PROVE file'[r][k] = k
        OBVIOUS
      <4>1. k \in 1..Len(file[r]) \/ k = Len(file[r]) + 1
        BY <3>2
      <4> QED BY <3>1, <3>2, <3>3, <4>1 DEF Arrived
    <3>5. \A k \in 1..Len(writing'[r]) : writing'[r][k] = Len(file'[r]) + k
      <4> SUFFICES ASSUME NEW k \in 1..Len(writing'[r])
                   PROVE  writing'[r][k] = Len(file'[r]) + k
        OBVIOUS
      <4>1. k \in 1..(Len(writing[r]) - 1) /\ k + 1 \in 1..Len(writing[r]) /\ k \in Nat
        BY <3>2
      <4>2. writing'[r][k] = writing[r][k + 1]
        BY <3>2, <4>1
      <4>3. writing[r][k + 1] = Len(file[r]) + (k + 1)
        BY <3>1, <4>1 DEF Arrived
      <4>4. Len(file[r]) + (k + 1) = Len(file'[r]) + k
        BY <3>2, <4>1, OneMovesOver
      <4> QED BY <4>2, <4>3, <4>4
    <3>6. Len(file'[r]) + Len(writing'[r]) = recorded'[r]
      <4>1. Len(file[r]) + Len(writing[r]) = recorded[r] /\ recorded'[r] = recorded[r]
        BY <1>1, <3>1 DEF Arrived
      <4> QED BY <3>2, <4>1, OneMovesOver
    <3> QED BY <1>1, <1>2, <2>3, <3>1, <3>4, <3>5, <3>6 DEF Arrived
  <2> QED BY <2>2, <2>3
<1> QED BY <1>3, <1>4 DEF RecordingInv, RecordingFits

\* A socket takes what it carried along, and tears the recordings it was of.
LEMMA HandleDisconnectKeeps ==
    ASSUME Sockets!TypeOK, RecordingInv, NEW s \in Socket, Sockets!HandleDisconnect(s)
    PROVE  RecordingInv'
<1>1. /\ \A t \in Socket \ {s} : flight'[t] = flight[t]
      /\ flight'[s] = <<>>
      /\ UNCHANGED <<recorded, ended, chunks, writing, file, carried>>
  BY DEF Sockets!HandleDisconnect, Sockets!TypeOK
<1>2. /\ torn \subseteq torn'
      /\ \A r \in Recording \ torn' : \A k \in 0..MaxChunk : ~UnderWay(s, r, k)
  BY DEF Sockets!HandleDisconnect, Sockets!Contains, UnderWay
<1>3. \A r, k : ~UnderWay(s, r, k)'
  BY <1>1 DEF UnderWay
<1>4. \A t \in Socket \ {s} : \A r, k : UnderWay(t, r, k)' <=> UnderWay(t, r, k)
  BY <1>1 DEF UnderWay
<1>5. CarriedIsKnown'
  BY <1>1, <1>3, <1>4 DEF RecordingInv, CarriedIsKnown
<1>6. ASSUME NEW r \in Recording, NEW t \in Socket, OnOneSocket(r, t)'
      PROVE  Arriving(r, t)' \/ Arrived(r, t)'
  <2>1. (Arriving(r, t) \/ Arrived(r, t)) /\ Ordered(r, t)
    BY <1>1, <1>2, <1>6, AlwaysOrdered DEF RecordingInv, RecordingFits, OnOneSocket
  <2>2. \A k \in 0..MaxChunk : UnderWay(t, r, k)' <=> UnderWay(t, r, k)
    BY <1>2, <1>3, <1>4, <1>6 DEF OnOneSocket
  <2>3. Ordered(r, t)'
    BY <1>1, <2>1 DEF Ordered
  <2> QED BY <1>1, <2>1, <2>2, <2>3, OthersStay
<1> QED BY <1>5, <1>6 DEF RecordingInv, RecordingFits

\* So does the process, with what it had in memory.
LEMMA RestartKeeps ==
    ASSUME Sockets!TypeOK, RecordingInv, Sockets!Restart PROVE RecordingInv'
<1>1. /\ \A t \in Socket : flight'[t] = <<>>
      /\ \A r \in Recording : chunks'[r] = <<>> /\ writing'[r] = <<>>
      /\ UNCHANGED <<recorded, ended, file, carried>>
  BY DEF Sockets!Restart
<1>2. /\ torn \subseteq torn'
      /\ \A r \in Recording \ torn' :
           /\ chunks[r] = <<>> /\ writing[r] = <<>>
           /\ \A t \in Socket, k \in 0..MaxChunk : ~UnderWay(t, r, k)
  BY DEF Sockets!Restart, Sockets!Contains, UnderWay
<1>3. \A t \in Socket : \A r, k : ~UnderWay(t, r, k)'
  BY <1>1 DEF UnderWay
<1>4. CarriedIsKnown'
  BY <1>3 DEF CarriedIsKnown
<1>5. ASSUME NEW r \in Recording, NEW t \in Socket, OnOneSocket(r, t)'
      PROVE  Arriving(r, t)' \/ Arrived(r, t)'
  <2>1. Arriving(r, t) \/ Arrived(r, t)
    BY <1>1, <1>2, <1>5 DEF RecordingInv, RecordingFits, OnOneSocket
  <2>2. \A k \in 0..MaxChunk : UnderWay(t, r, k)' <=> UnderWay(t, r, k)
    BY <1>2, <1>3, <1>5 DEF OnOneSocket
  <2>3. Ordered(r, t)'
    BY <1>1 DEF Ordered
  <2>4. chunks'[r] = chunks[r] /\ writing'[r] = writing[r]
    BY <1>1, <1>2, <1>5 DEF OnOneSocket
  <2> QED BY <1>1, <2>1, <2>2, <2>3, <2>4, OthersStay
<1> QED BY <1>4, <1>5 DEF RecordingInv, RecordingFits

\* Whatever is carried in order ends up in order.
LEMMA RecordingsHold == Sockets!Spec => [](Sockets!TypeOK /\ RecordingInv)
<1>1. Sockets!Init => Sockets!TypeOK /\ RecordingInv
  <2> SUFFICES ASSUME Sockets!Init PROVE Sockets!TypeOK /\ RecordingInv
    OBVIOUS
  <2>1. Sockets!TypeOK
    BY ServicesAssumption DEF Sockets!Init, Sockets!TypeOK
  <2>2. \A s \in Socket : flight[s] = <<>>
    BY DEF Sockets!Init
  <2>3. \A s \in Socket : \A r, k : ~UnderWay(s, r, k)
    BY <2>2 DEF UnderWay
  <2>4. ASSUME NEW r \in Recording, NEW s \in Socket PROVE Arriving(r, s)
    <3>1. file[r] = <<>> /\ writing[r] = <<>> /\ chunks[r] = <<>> /\ recorded[r] = 0 /\ r \notin ended
      BY DEF Sockets!Init
    <3>2. Ordered(r, s)
      BY <2>2 DEF Ordered
    <3> QED BY <2>3, <3>1, <3>2 DEF Arriving
  <2> QED BY <2>1, <2>3, <2>4 DEF RecordingInv, CarriedIsKnown, RecordingFits
<1>2. Sockets!TypeOK /\ RecordingInv /\ [Sockets!Next]_Sockets!vars
          => Sockets!TypeOK' /\ RecordingInv'
  <2> SUFFICES ASSUME Sockets!TypeOK, RecordingInv, [Sockets!Next]_Sockets!vars
      PROVE  RecordingInv'
    BY GatewayTyped
  <2>1. ASSUME UNCHANGED Sockets!recording PROVE RecordingInv'
    <3>1. UNCHANGED <<recorded, ended, flight, chunks, writing, file, carried, torn>>
      BY <2>1 DEF Sockets!recording
    <3>2. CarriedIsKnown'
      BY <3>1 DEF RecordingInv, CarriedIsKnown, UnderWay
    <3>3. ASSUME NEW r \in Recording, NEW s \in Socket, OnOneSocket(r, s)'
          PROVE  Arriving(r, s)' \/ Arrived(r, s)'
      <4>1. (Arriving(r, s) \/ Arrived(r, s)) /\ Ordered(r, s)
        BY <3>1, <3>3, AlwaysOrdered DEF RecordingInv, RecordingFits, OnOneSocket
      <4>2. /\ \A k \in 0..MaxChunk : UnderWay(s, r, k)' <=> UnderWay(s, r, k)
            /\ Ordered(r, s)'
        BY <3>1, <4>1 DEF UnderWay, Ordered
      <4> QED BY <3>1, <4>1, <4>2, OthersStay
    <3> QED BY <3>2, <3>3 DEF RecordingInv, RecordingFits
  <2>2. ASSUME NEW s \in Socket, NEW u \in Caller, Sockets!HandleConnection(s, u)
        PROVE  RecordingInv'
    BY <2>1, <2>2 DEF Sockets!HandleConnection
  <2>3. ASSUME NEW s \in Socket, Sockets!RefuseConnection(s) PROVE RecordingInv'
    BY <2>1, <2>3 DEF Sockets!RefuseConnection
  <2>4. ASSUME NEW s \in Socket, NEW n \in Username, Sockets!HandleJoin(s, n)
        PROVE  RecordingInv'
    BY <2>1, <2>4 DEF Sockets!HandleJoin
  <2>5. ASSUME UNCHANGED Sockets!vars PROVE RecordingInv'
    BY <2>1, <2>5 DEF Sockets!vars, Sockets!recording
  <2> QED BY <2>2, <2>3, <2>4, <2>5, HandleDisconnectKeeps, SendChunkKeeps, SendEndKeeps,
             HandleRecordingChunkKeeps, HandleRecordingEndKeeps, WritePartKeeps,
             RestartKeeps DEF Sockets!Next
<1> QED BY <1>1, <1>2, PTL DEF Sockets!Spec

\* Who is connected is reached, a call rings, and a recording is whole.
LEMMA GatewayAlone == Sockets!Spec => []Sockets!TypeOK /\ []Sockets!GatewayIsSound
<1>1. Sockets!Init => PresenceInv
  BY ServicesAssumption DEF Sockets!Init, PresenceInv, PresenceFits, Sockets!ReachedOnTheLast,
     Sockets!CalledIsConnectedAlone,
         Sockets!Connected, Sockets!Reached, Sockets!Rung
<1>2. Sockets!TypeOK /\ PresenceInv /\ [Sockets!Next]_Sockets!vars => PresenceInv'
  BY PresenceKept
<1>3. ASSUME Sockets!TypeOK, RecordingInv PROVE Sockets!RecordingIsWholeAlone
  <2> SUFFICES ASSUME NEW r \in ended \ torn, NEW s \in Socket, carried[r] = {s},
                      \A t \in Socket, k \in 0..MaxChunk : ~Sockets!Contains(flight[t], <<r, k>>),
                      writing[r] = <<>>
               PROVE  file[r] = [k \in 1..recorded[r] |-> k]
    BY DEF Sockets!RecordingIsWholeAlone
  <2>1. r \in Recording /\ OnOneSocket(r, s)
    BY <1>3 DEF Sockets!TypeOK, OnOneSocket
  <2>2. 0 \in 0..MaxChunk
    BY ServicesAssumption
  <2>3. ~UnderWay(s, r, 0)
    BY <2>2 DEF Sockets!Contains, UnderWay
  <2>4. ~Arriving(r, s)
    BY <2>3 DEF Arriving
  <2>5. Arrived(r, s) /\ file[r] \in Seq(1..MaxChunk) /\ Len(writing[r]) = 0
    BY <1>3, <2>1, <2>4 DEF RecordingInv, RecordingFits, Sockets!TypeOK
  <2> QED BY <2>5 DEF Arrived
<1>4. Sockets!TypeOK /\ RecordingInv /\ PresenceInv => Sockets!GatewayIsSound
  BY <1>3 DEF PresenceInv, Sockets!GatewayIsSound
<1> QED BY <1>1, <1>2, <1>4, RecordingsHold, PTL DEF Sockets!Spec

\* Users are reached on the socket they opened last, calls ring a socket that is
\* open, and a recording one socket carried is whole and in order.
THEOREM GatewayHolds == ServicesSpec => []GatewayIsSound
BY PartsBehave, GatewayAlone, PTL DEF GatewayIsSound

-----------------------------------------------------------------------------
(* Notifications.                                                          *)

\* The rows of calls and of pushes.
Progressing == [pc : {"idle", "open", "missing", "found", "done"},
                receiver : User \cup {Nobody}, kind : Kind \cup {Nobody},
                event : Notices!Call \cup {Nobody}]

Pushing == [pc : {"none", "started", "sending", "failed", "ended"},
            token : Device \cup {Nobody}]

\* A call at work has a receiver and a kind, its push starts when it is done,
\* and a push under way has the token of a device.
CallInv ==
    \A n \in Notices!Call :
        /\ call[n].pc \in {"open", "missing", "found"} =>
             call[n].receiver \in User /\ call[n].kind \in Kind
        /\ call[n].pc # "done" => push[n].pc = "none"
        /\ push[n].pc \in {"started", "sending", "failed"} => call[n].receiver \in User
        /\ push[n].pc \in {"sending", "failed"} => push[n].token \in Device

\* The shape of the state with what calls and pushes in progress hold.
NoticeShape == Notices!TypeOK /\ CallInv

\* Calls and pushes have the columns of their rows, and keep them when they end.
LEMMA CallsFit ==
    /\ Notices!TypeOK
           => call \in [Notices!Call -> Progressing] /\ push \in [Notices!Call -> Pushing]
    /\ Notices!Idle \in Progressing /\ Notices!NoPush \in Pushing
    /\ \A c \in Progressing : [c EXCEPT !.pc = "done"] \in Progressing
    /\ \A p \in Pushing : [p EXCEPT !.pc = "ended"] \in Pushing
BY DEF Notices!TypeOK, Progressing, Pushing, Notices!Idle, Notices!NoPush, Notices!Start

\* What a call holds when it starts.
LEMMA CallStarted ==
    ASSUME NEW n, NEW u \in User, NEW k \in Kind
    PROVE  /\ Notices!Start(n, u, k) \in Progressing
           /\ Notices!Start(n, u, k).pc = "open" /\ Notices!Start(n, u, k).receiver = u
           /\ Notices!Start(n, u, k).kind = k
BY DEF Progressing, Notices!Start, Notices!Idle

\* The state keeps its shape, and whatever is in progress holds what it needs.
LEMMA NoticesShaped == Notices!Spec => []NoticeShape
<1>1. Notices!Init => NoticeShape
  BY ServicesAssumption DEF Notices!Init, NoticeShape, Notices!TypeOK, CallInv, Notices!Idle,
     Notices!NoPush
<1>2. NoticeShape /\ [Notices!Next]_Notices!vars => NoticeShape'
  <2> SUFFICES ASSUME NoticeShape, [Notices!Next]_Notices!vars PROVE NoticeShape'
    OBVIOUS
  <2> USE DEF NoticeShape
  <2>0. call \in [Notices!Call -> Progressing] /\ push \in [Notices!Call -> Pushing]
    BY CallsFit
  <2>1. ASSUME NEW u \in User, NEW d \in Device, Notices!Login(u, d) PROVE NoticeShape'
    BY <2>1 DEF Notices!Login, Notices!TokenTo, Notices!rows, Notices!chosen, Notices!TypeOK,
       CallInv
  <2>2. ASSUME NEW d \in Device, Notices!Uninstall(d) PROVE NoticeShape'
    BY <2>2 DEF Notices!Uninstall, Notices!rows, Notices!chosen, Notices!TypeOK, CallInv
  <2>3. ASSUME NEW n \in Single, NEW u \in User, NEW k \in Kind, Notices!Notify(n, u, k)
        PROVE  NoticeShape'
    <3>1. /\ call[n].pc = "idle" /\ n \in Notices!Call
          /\ \A m \in Notices!Call \ {n} : call'[m] = call[m]
          /\ call'[n] = Notices!Start(n, u, k) /\ push' = push
          /\ call' = [call EXCEPT ![n] = Notices!Start(n, u, k)]
      BY <2>0, <2>3 DEF Notices!Notify, Notices!Call
    <3>2. call' \in [Notices!Call -> Progressing]
      BY <2>0, <3>1, CallStarted
    <3>3. Notices!TypeOK'
      BY <2>3, <3>2 DEF Notices!Notify, Notices!devices, Notices!chosen, Notices!TypeOK,
         Progressing
    <3> QED BY <3>1, <3>3, CallStarted DEF CallInv
  <2>4. ASSUME NEW r \in Request, NEW k \in Kind, Notices!Announce(r, k) PROVE NoticeShape'
    <3>1. \A n \in {r} \X User : n \in Notices!Call /\ call[n].pc = "idle" /\ n[2] \in User
      BY <2>4 DEF Notices!Announce, Notices!Call
    <3>2. /\ push' = push /\ DOMAIN call' = Notices!Call
            /\ call' = [n \in Notices!Call |-> call'[n]]
          /\ \A n \in Notices!Call : \/ call'[n] = call[n]
                                     \/ /\ call[n].pc = "idle" /\ n[2] \in User
                                        /\ call'[n] = Notices!Start(n, n[2], k)
      BY <2>4, <3>1 DEF Notices!Announce
    <3>3. call' \in [Notices!Call -> Progressing]
      <4>1. \A n \in Notices!Call : call'[n] \in Progressing
        BY <2>0, <3>2, CallStarted
      <4> QED BY <3>2, <4>1
    <3>4. Notices!TypeOK'
      BY <2>4, <3>3 DEF Notices!Announce, Notices!devices, Notices!chosen, Notices!TypeOK,
         Progressing
    <3>5. CallInv'
      <4>1. \A n \in Notices!Call : \/ call'[n] = call[n]
                                    \/ /\ push[n].pc = "none" /\ call'[n].pc = "open"
                                       /\ call'[n].receiver \in User /\ call'[n].kind \in Kind
        BY <3>2, CallStarted DEF CallInv
      <4> QED BY <3>2, <4>1 DEF CallInv
    <3> QED BY <3>4, <3>5
  <2>5. ASSUME NEW n \in Notices!Call, Notices!FindEvent(n) PROVE NoticeShape'
    <3>1. /\ call[n].pc = "open" /\ call[n].kind \in Kind
          /\ UNCHANGED <<Notices!devices, event, notice, push, Notices!chosen, pushed,
                         noticeFaults, noticeLost>>
      BY <2>5 DEF Notices!FindEvent, CallInv
    <3>2. CASE \E m \in Notices!EventsOf(call[n].kind) :
                 /\ call' = [call EXCEPT ![n].pc = "found", ![n].event = m]
                 /\ UNCHANGED noticeCrossed
      <4>1. PICK m \in Notices!Call : call' = [call EXCEPT ![n].pc = "found", ![n].event = m]
        BY <3>2 DEF Notices!EventsOf
      <4>2. call' = [call EXCEPT ![n] = [call[n] EXCEPT !.pc = "found", !.event = m]]
        BY <4>1
      <4>3. [call[n] EXCEPT !.pc = "found", !.event = m] \in Progressing
        BY <2>0 DEF Progressing
      <4>4. call' \in [Notices!Call -> Progressing]
        BY <2>0, <4>2, <4>3
      <4>5. Notices!TypeOK'
        BY <3>1, <3>2, <4>4 DEF Notices!devices, Notices!chosen, Notices!TypeOK, Progressing
      <4>6. /\ \A l \in Notices!Call \ {n} : call'[l] = call[l]
            /\ call'[n].pc = "found" /\ call'[n].receiver = call[n].receiver
            /\ call'[n].kind = call[n].kind
        BY <2>0, <4>2 DEF Progressing
      <4> QED BY <3>1, <4>5, <4>6 DEF CallInv
    <3>3. CASE /\ call' = [call EXCEPT ![n].pc = "missing"]
               /\ noticeCrossed' \in {noticeCrossed, noticeCrossed \cup {call[n].kind}}
      <4>1. call' \in [Notices!Call -> Progressing]
        BY <2>0, <3>3 DEF Progressing
      <4>2. Notices!TypeOK'
        BY <3>1, <3>3, <4>1 DEF Notices!devices, Notices!chosen, Notices!TypeOK, Progressing
      <4> QED BY <2>0, <3>1, <3>3, <4>2 DEF CallInv, Progressing
    <3> QED BY <2>5, <3>2, <3>3 DEF Notices!FindEvent
  <2>6. ASSUME NEW n \in Notices!Call, Notices!CreateEvent(n) PROVE NoticeShape'
    <3>1. call' = [call EXCEPT ![n] = [call[n] EXCEPT !.pc = "found", !.event = n]]
      BY <2>6 DEF Notices!CreateEvent
    <3>2. [call[n] EXCEPT !.pc = "found", !.event = n] \in Progressing
      BY <2>0 DEF Progressing
    <3>3. call' \in [Notices!Call -> Progressing]
      BY <2>0, <3>1, <3>2
    <3>4. Notices!TypeOK'
      BY <2>6, <3>3 DEF Notices!CreateEvent, Notices!devices, Notices!chosen, Notices!TypeOK,
         Progressing
    <3>5. /\ \A l \in Notices!Call \ {n} : call'[l] = call[l]
          /\ call'[n].pc = "found" /\ call'[n].receiver = call[n].receiver
          /\ call'[n].kind = call[n].kind
      BY <2>0, <3>1 DEF Progressing
    <3> QED BY <2>6, <3>4, <3>5 DEF Notices!CreateEvent, CallInv
  <2>7. ASSUME NEW n \in Notices!Call, Notices!SaveNotification(n) PROVE NoticeShape'
    BY <2>7 DEF Notices!SaveNotification, Notices!devices, Notices!chosen, Notices!TypeOK,
       CallInv
  <2>8. ASSUME NEW n \in Notices!Call, Notices!NotifyFails(n) PROVE NoticeShape'
    <3>1. noticeFaults' \in 0..MaxFaults /\ noticeLost' \subseteq Notices!Call
      BY <2>8, ServicesAssumption DEF Notices!NotifyFails, Notices!Fault, Notices!TypeOK
    <3>2. call' \in [Notices!Call -> Progressing]
      BY <2>0, <2>8, CallsFit DEF Notices!NotifyFails
    <3>3. Notices!TypeOK'
      BY <2>8, <3>1, <3>2 DEF Notices!NotifyFails, Notices!devices, Notices!chosen,
         Notices!TypeOK, Progressing
    <3>4. CallInv'
      BY <2>0, <2>8 DEF Notices!NotifyFails, Progressing, CallInv
    <3> QED BY <3>3, <3>4
  <2>9. ASSUME Notices!Crash PROVE NoticeShape'
    <3>1. noticeFaults' \in 0..MaxFaults /\ noticeLost' \subseteq Notices!Call
      BY <2>9, ServicesAssumption DEF Notices!Crash, Notices!Fault, Notices!TypeOK
    <3>2. \A n \in Notices!Call : \/ call'[n] = call[n] /\ push'[n] = push[n]
                                  \/ /\ call'[n] = [call[n] EXCEPT !.pc = "done"]
                                     /\ push'[n] = [push[n] EXCEPT !.pc = "ended"]
      BY <2>9 DEF Notices!Crash
    <3>3. call' \in [Notices!Call -> Progressing] /\ push' \in [Notices!Call -> Pushing]
      BY <2>0, <2>9, CallsFit DEF Notices!Crash
    <3>4. Notices!TypeOK'
      BY <2>9, <3>1, <3>3 DEF Notices!Crash, Notices!devices, Notices!chosen, Notices!TypeOK,
         Progressing, Pushing
    <3>5. CallInv'
      <4> SUFFICES ASSUME NEW n \in Notices!Call
                   PROVE  /\ call'[n].pc \in {"open", "missing", "found"} =>
                               call'[n].receiver \in User /\ call'[n].kind \in Kind
                          /\ call'[n].pc # "done" => push'[n].pc = "none"
                          /\ push'[n].pc \in {"started", "sending", "failed"} =>
                               call'[n].receiver \in User
                          /\ push'[n].pc \in {"sending", "failed"} => push'[n].token \in Device
        BY DEF CallInv
      <4>1. CASE call'[n] = call[n] /\ push'[n] = push[n]
        BY <4>1 DEF CallInv
      <4>2. CASE /\ call'[n] = [call[n] EXCEPT !.pc = "done"]
                 /\ push'[n] = [push[n] EXCEPT !.pc = "ended"]
        <5>1. call'[n].pc = "done" /\ push'[n].pc = "ended"
          BY <2>0, <4>2 DEF Progressing, Pushing
        <5> QED BY <5>1
      <4> QED BY <3>2, <4>1, <4>2
    <3> QED BY <3>4, <3>5
  <2>10. ASSUME NEW n \in Notices!Call, Notices!ReadToken(n) PROVE NoticeShape'
    <3>1. token[call[n].receiver] \in Device \cup {Nobody}
      BY <2>10 DEF Notices!ReadToken, Notices!TypeOK, CallInv
    <3>2. Notices!TypeOK'
      BY <2>10, <3>1 DEF Notices!ReadToken, Notices!devices, Notices!rows, Notices!chosen,
         Notices!TypeOK
    <3>3. CallInv'
      BY <2>0, <2>10, <3>1 DEF Notices!ReadToken, Notices!rows, CallInv
    <3> QED BY <3>2, <3>3
  <2>11. ASSUME NEW n \in Notices!Call, Notices!Send(n) PROVE NoticeShape'
    <3>1. holder[push[n].token] \in User \cup {Nobody}
      BY <2>11 DEF Notices!Send, Notices!TypeOK, CallInv
    <3> QED BY <2>11, <3>1 DEF Notices!Send, Notices!devices, Notices!rows, Notices!chosen,
               Notices!TypeOK, CallInv
  <2>12. ASSUME NEW n \in Notices!Call, Notices!SendFails(n) PROVE NoticeShape'
    <3>1. PICK p \in {"failed", "ended"} : push' = [push EXCEPT ![n].pc = p]
      BY <2>12 DEF Notices!SendFails
    <3> QED BY <2>12, <3>1 DEF Notices!SendFails, Notices!devices, Notices!rows,
               Notices!chosen, Notices!TypeOK, CallInv
  <2>13. ASSUME NEW n \in Notices!Call, Notices!RemoveToken(n) PROVE NoticeShape'
    BY <2>13 DEF Notices!RemoveToken, Notices!rows, Notices!chosen, Notices!TypeOK, CallInv
  <2>14. ASSUME NEW u \in User, NEW v \in Setting, Notices!UpdateSettings(u, v)
         PROVE  NoticeShape'
    BY <2>14 DEF Notices!UpdateSettings, Notices!devices, Notices!rows, Notices!TypeOK, CallInv
  <2>15. ASSUME NEW n \in Notices!Call, Notices!Remove(n) PROVE NoticeShape'
    BY <2>15 DEF Notices!Remove, Notices!devices, Notices!chosen, Notices!TypeOK, CallInv
  <2>16. ASSUME NEW u \in User, Notices!RemoveAll(u) PROVE NoticeShape'
    <3>1. swept' \subseteq User
      BY <2>16 DEF Notices!RemoveAll, Notices!TypeOK
    <3> QED BY <2>16, <3>1 DEF Notices!RemoveAll, Notices!devices, Notices!TypeOK, CallInv
  <2>17. CASE UNCHANGED Notices!vars
    BY <2>17 DEF Notices!vars, Notices!TypeOK, CallInv
  <2> QED BY <2>1, <2>2, <2>3, <2>4, <2>5, <2>6, <2>7, <2>8, <2>9, <2>10, <2>11, <2>12, <2>13,
             <2>14, <2>15, <2>16, <2>17 DEF Notices!Next, Notices!Progress
<1> QED BY <1>1, <1>2, PTL DEF Notices!Spec

\* A call that has found no row for its kind is the only one looking, and there
\* is still none, unless two of them crossed.
MissingAlone ==
    \A n \in Notices!Call : call[n].pc = "missing" /\ call[n].kind \notin noticeCrossed =>
        /\ Notices!EventsOf(call[n].kind) = {}
        /\ \A m \in Notices!Call : call[m].pc = "missing" /\ call[m].kind = call[n].kind
               => m = n

\* A kind of notification keeps to one row.
LEMMA EventsAreAlone == Notices!Spec => []Notices!OneEventAlone
<1>1. Notices!Init => Notices!OneEventAlone /\ MissingAlone
  BY ServicesAssumption DEF Notices!Init, Notices!OneEventAlone, MissingAlone,
     Notices!EventsOf, Notices!Idle
<1>2. NoticeShape /\ Notices!OneEventAlone /\ MissingAlone /\ [Notices!Next]_Notices!vars
          => Notices!OneEventAlone' /\ MissingAlone'
  <2> SUFFICES ASSUME NoticeShape, Notices!OneEventAlone, MissingAlone,
                      [Notices!Next]_Notices!vars
               PROVE  Notices!OneEventAlone' /\ MissingAlone'
    OBVIOUS
  <2>0. call \in [Notices!Call -> Progressing] /\ event \in [Notices!Call -> Kind \cup {Nobody}]
    BY CallsFit DEF NoticeShape, Notices!TypeOK
  <2>1. ASSUME NEW n \in Notices!Call, Notices!FindEvent(n)
        PROVE  Notices!OneEventAlone' /\ MissingAlone'
    <3> DEFINE k == call[n].kind
    <3>1. /\ event' = event /\ noticeCrossed \subseteq noticeCrossed'
          /\ \A m \in Notices!Call \ {n} : call'[m] = call[m]
          /\ call'[n].kind = k
          /\ \/ call'[n].pc = "found"
             \/ /\ call'[n].pc = "missing" /\ Notices!EventsOf(k) = {}
                /\ (\E m \in Notices!Call : call[m].pc = "missing" /\ call[m].kind = k)
                       => k \in noticeCrossed'
      <4>1. CASE \E m \in Notices!EventsOf(k) :
                   /\ call' = [call EXCEPT ![n].pc = "found", ![n].event = m]
                                                /\ UNCHANGED noticeCrossed
        <5>1. PICK m : call' = [call EXCEPT ![n] = [call[n] EXCEPT !.pc = "found", !.event = m]]
          BY <4>1
        <5>2. /\ \A l \in Notices!Call \ {n} : call'[l] = call[l]
              /\ call'[n].kind = k /\ call'[n].pc = "found"
          BY <2>0, <5>1 DEF Progressing
        <5> QED BY <2>1, <4>1, <5>2 DEF Notices!FindEvent
      <4>2. CASE /\ Notices!EventsOf(k) = {}
                 /\ call' = [call EXCEPT ![n].pc = "missing"]
                 /\ noticeCrossed' = IF \E m \in Notices!Call : call[m].pc = "missing"
                      /\ call[m].kind = k
                               THEN noticeCrossed \cup {k} ELSE noticeCrossed
        BY <2>0, <2>1, <4>2 DEF Notices!FindEvent, Progressing
      <4> QED BY <2>1, <4>1, <4>2 DEF Notices!FindEvent
    <3>2. Notices!OneEventAlone'
      BY <3>1 DEF Notices!OneEventAlone, Notices!EventsOf
    <3>3. MissingAlone'
      BY <3>1 DEF MissingAlone, Notices!EventsOf
    <3> QED BY <3>2, <3>3
  <2>2. ASSUME NEW n \in Notices!Call, Notices!CreateEvent(n)
        PROVE  Notices!OneEventAlone' /\ MissingAlone'
    <3> DEFINE k == call[n].kind
    <3>1. /\ call[n].pc = "missing" /\ call'[n].pc = "found" /\ event'[n] = k
          /\ \A m \in Notices!Call \ {n} : call'[m] = call[m] /\ event'[m] = event[m]
          /\ noticeCrossed' = noticeCrossed
      BY <2>0, <2>2 DEF Notices!CreateEvent, Progressing
    <3>2. Notices!OneEventAlone'
      BY <3>1 DEF Notices!OneEventAlone, MissingAlone, Notices!EventsOf
    <3>3. MissingAlone'
      BY <3>1 DEF MissingAlone, Notices!EventsOf
    <3> QED BY <3>2, <3>3
  <2>3. ASSUME event' = event, noticeCrossed' = noticeCrossed,
               \A n \in Notices!Call : call'[n] = call[n] \/ call'[n].pc # "missing"
        PROVE  Notices!OneEventAlone' /\ MissingAlone'
    <3>1. Notices!OneEventAlone'
      BY <2>3 DEF Notices!OneEventAlone, Notices!EventsOf
    <3>2. MissingAlone'
      BY <2>3 DEF MissingAlone, Notices!EventsOf
    <3> QED BY <3>1, <3>2
  <2>4. ASSUME NEW n \in Single, NEW u \in User, NEW k \in Kind, Notices!Notify(n, u, k)
        PROVE  Notices!OneEventAlone' /\ MissingAlone'
    <3>1. /\ event' = event /\ noticeCrossed' = noticeCrossed
          /\ \A m \in Notices!Call : call'[m] = call[m] \/ call'[m] = Notices!Start(n, u, k)
      BY <2>0, <2>4 DEF Notices!Notify
    <3> QED BY <2>3, <3>1, CallStarted
  <2>5. ASSUME NEW r \in Request, NEW k \in Kind, Notices!Announce(r, k)
        PROVE  Notices!OneEventAlone' /\ MissingAlone'
    <3>1. /\ event' = event /\ noticeCrossed' = noticeCrossed
          /\ \A m \in Notices!Call : call'[m]
                 = call[m] \/ (m[2] \in User /\ call'[m] = Notices!Start(m, m[2], k))
      BY <2>5 DEF Notices!Announce
    <3> QED BY <2>3, <3>1, CallStarted
  <2>6. ASSUME NEW n \in Notices!Call, Notices!SaveNotification(n) \/ Notices!NotifyFails(n)
        PROVE  Notices!OneEventAlone' /\ MissingAlone'
    BY <2>0, <2>3, <2>6 DEF Notices!SaveNotification, Notices!NotifyFails, Progressing
  <2>7. ASSUME Notices!Crash PROVE Notices!OneEventAlone' /\ MissingAlone'
    <3>1. /\ event' = event /\ noticeCrossed' = noticeCrossed
          /\ \A m \in Notices!Call : call'[m] = call[m]
               \/ call'[m] = [call[m] EXCEPT !.pc = "done"]
      BY <2>7 DEF Notices!Crash
    <3>2. \A m \in Notices!Call : call'[m] = call[m] \/ call'[m].pc = "done"
      BY <2>0, <3>1 DEF Progressing
    <3> QED BY <2>3, <3>1, <3>2
  <2>8. CASE UNCHANGED <<event, noticeCrossed, call>>
    BY <2>3, <2>8
  <2> QED
    BY <2>1, <2>2, <2>4, <2>5, <2>6, <2>7, <2>8
    DEF Notices!Next, Notices!Progress, Notices!vars, Notices!rows, Notices!Login,
    Notices!Uninstall, Notices!ReadToken, Notices!Send, Notices!SendFails, Notices!RemoveToken,
        Notices!UpdateSettings, Notices!Remove, Notices!RemoveAll
<1> QED BY <1>1, <1>2, NoticesShaped, PTL DEF Notices!Spec

\* The settings a user has are the last sent.
LEMMA SettingsAreKept == Notices!Spec => []Notices!SettingsAreKeptAlone
<1>1. Notices!Init => Notices!SettingsAreKeptAlone
  BY DEF Notices!Init, Notices!SettingsAreKeptAlone
<1>2. NoticeShape /\ Notices!SettingsAreKeptAlone /\ [Notices!Next]_Notices!vars
          => Notices!SettingsAreKeptAlone'
  <2> SUFFICES ASSUME NoticeShape, Notices!SettingsAreKeptAlone, [Notices!Next]_Notices!vars
      PROVE  Notices!SettingsAreKeptAlone'
    OBVIOUS
  <2>1. ASSUME NEW u \in User, NEW v \in Setting, Notices!UpdateSettings(u, v)
        PROVE  Notices!SettingsAreKeptAlone'
    BY <2>1 DEF Notices!UpdateSettings, Notices!SettingsAreKeptAlone, NoticeShape,
       Notices!TypeOK
  <2>2. ASSUME NEW u \in User, Notices!RemoveAll(u) PROVE Notices!SettingsAreKeptAlone'
    <3>1. /\ \A v \in User : settings'[v] = Nobody
          /\ wanted' = wanted
          /\ \A v \in User : v \in swept' <=> v \in swept \/ settings[v] # Nobody
      BY <2>2 DEF Notices!RemoveAll
    <3> QED BY <3>1 DEF Notices!SettingsAreKeptAlone
  <2>3. CASE UNCHANGED Notices!chosen
    BY <2>3 DEF Notices!chosen, Notices!SettingsAreKeptAlone
  <2> QED
    BY <2>1, <2>2, <2>3
    DEF Notices!Next, Notices!Progress, Notices!vars, Notices!chosen, Notices!Login,
    Notices!Uninstall, Notices!Notify, Notices!Announce, Notices!FindEvent, Notices!CreateEvent,
        Notices!SaveNotification, Notices!NotifyFails, Notices!Crash, Notices!ReadToken,
        Notices!Send, Notices!SendFails, Notices!RemoveToken, Notices!Remove
<1> QED BY <1>1, <1>2, NoticesShaped, PTL DEF Notices!Spec

\* A token is the device of its user, unless somebody else has logged in on it.
TokenIsOwn ==
    \A u \in User : token[u] # Nobody /\ token[u] \notin handed => holder[token[u]] = u

\* What a push under way knows: the device of its receiver, their latest one
\* unless they logged in meanwhile, and one that is dead when it is to be removed.
\* It is shown at its end.
PushKnows ==
    \A n \in Notices!Call :
        /\ push[n].pc # "ended" => pushed[n] = Nobody
        /\ push[n].pc \in {"sending", "failed"} =>
             /\ push[n].token \notin handed => holder[push[n].token] = call[n].receiver
             /\ call[n].receiver \notin raced =>
                  \/ push[n].token = latest[call[n].receiver]
                  \/ latest[call[n].receiver] \in dead
             /\ push[n].pc = "failed" => push[n].token \in dead

\* Where pushes go, together.
PushInv == Notices!LatestTokenIsKeptAlone /\ Notices!ShownToItsReceiverAlone /\ TokenIsOwn
      /\ PushKnows

\* Pushes go to the device of their receiver, the one they logged in on last.
LEMMA PushesGoHome == Notices!Spec => []PushInv
<1>1. Notices!Init => PushInv
  BY DEF Notices!Init, PushInv, Notices!LatestTokenIsKeptAlone,
     Notices!ShownToItsReceiverAlone, TokenIsOwn, PushKnows,
         Notices!NoPush
<1>2. NoticeShape /\ PushInv /\ [Notices!Next]_Notices!vars => PushInv'
  <2> SUFFICES ASSUME NoticeShape, PushInv, [Notices!Next]_Notices!vars PROVE PushInv'
    OBVIOUS
  <2> USE DEF PushInv
  <2>0. /\ call \in [Notices!Call -> Progressing] /\ push \in [Notices!Call -> Pushing]
        /\ token \in [User -> Device \cup {Nobody}] /\ latest \in [User -> Device \cup {Nobody}]
        /\ holder \in [Device -> User \cup {Nobody}]
        /\ pushed \in [Notices!Call -> User \cup {Nobody}]
    BY CallsFit DEF NoticeShape, Notices!TypeOK
  <2>1. ASSUME NEW u \in User, NEW d \in Device, Notices!Login(u, d) PROVE PushInv'
    <3>1. /\ \A v \in User \ {u} : token'[v] = token[v] /\ latest'[v] = latest[v]
          /\ token'[u] = d /\ latest'[u] = d /\ d \notin dead
          /\ \A e \in Device \ {d} : holder'[e] = holder[e]
          /\ holder'[d] = u /\ handed \subseteq handed'
          /\ holder[d] = Nobody \/ d \in handed'
          /\ raced \subseteq raced'
          /\ UNCHANGED <<dead, call, push, pushed>>
      BY <2>0, <2>1 DEF Notices!Login, Notices!TokenTo, Notices!rows
    <3>2. \A n \in Notices!Call : call[n].receiver = u /\ push[n].pc \in {"sending", "failed"}
                            => u \in raced'
      BY <2>1 DEF Notices!Login
    <3>3. TokenIsOwn'
      BY <2>0, <3>1, ServicesAssumption DEF TokenIsOwn
    <3>4. Notices!LatestTokenIsKeptAlone'
      BY <2>0, <3>1 DEF Notices!LatestTokenIsKeptAlone
    <3>5. Notices!ShownToItsReceiverAlone'
      BY <3>1 DEF Notices!ShownToItsReceiverAlone
    <3>6. \A n \in Notices!Call : push[n].pc \in {"sending", "failed"} =>
            call[n].receiver \in User /\ push[n].token \in Device
      BY DEF NoticeShape, CallInv
    <3>7. PushKnows'
      BY <3>1, <3>2, <3>6, ServicesAssumption DEF PushKnows
    <3> QED BY <3>3, <3>4, <3>5, <3>7
  <2>2. ASSUME NEW d \in Device, Notices!Uninstall(d) PROVE PushInv'
    <3>1. dead \subseteq dead'
            /\ UNCHANGED <<token, holder, latest, handed, raced, call, push, pushed>>
      BY <2>2 DEF Notices!Uninstall, Notices!rows
    <3>2. Notices!LatestTokenIsKeptAlone' /\ Notices!ShownToItsReceiverAlone' /\ TokenIsOwn'
      BY <3>1 DEF Notices!LatestTokenIsKeptAlone, Notices!ShownToItsReceiverAlone, TokenIsOwn
    <3>3. PushKnows'
      BY <3>1 DEF PushKnows
    <3> QED BY <3>2, <3>3
  <2>3. ASSUME UNCHANGED Notices!devices, pushed' = pushed,
               \A n \in Notices!Call :
                   /\ \/ call'[n].receiver = call[n].receiver
                      \/ push[n].pc = "none" /\ push'[n].pc = "none"
                   /\ \/ push'[n] = push[n]
                      \/ push'[n].token = push[n].token /\ push'[n].pc = "ended"
                      \/ push[n].pc = "none" /\ push'[n].pc = "started"
        PROVE  PushInv'
    <3>1. Notices!LatestTokenIsKeptAlone' /\ TokenIsOwn'
      BY <2>3 DEF Notices!devices, Notices!LatestTokenIsKeptAlone, TokenIsOwn
    <3>2. Notices!ShownToItsReceiverAlone'
      BY <2>3 DEF Notices!devices, Notices!ShownToItsReceiverAlone, PushKnows
    <3>3. PushKnows'
      BY <2>3 DEF Notices!devices, PushKnows
    <3> QED BY <3>1, <3>2, <3>3
  <2>4. ASSUME NEW n \in Single, NEW u \in User, NEW k \in Kind, Notices!Notify(n, u, k)
        PROVE  PushInv'
    <3>1. /\ n \in Notices!Call /\ push[n].pc = "none"
          /\ \A m \in Notices!Call \ {n} : call'[m] = call[m]
          /\ push' = push /\ pushed' = pushed /\ UNCHANGED Notices!devices
      BY <2>0, <2>4 DEF Notices!Notify, Notices!Call, NoticeShape, CallInv
    <3> QED BY <2>3, <3>1
  <2>5. ASSUME NEW r \in Request, NEW k \in Kind, Notices!Announce(r, k) PROVE PushInv'
    <3>1. \A n \in {r} \X User : n \in Notices!Call /\ call[n].pc = "idle" /\ n[2] \in User
      BY <2>5 DEF Notices!Announce, Notices!Call
    <3>2. /\ \A n \in Notices!Call : call'[n] = call[n] \/ push[n].pc = "none"
          /\ push' = push /\ pushed' = pushed /\ UNCHANGED Notices!devices
      BY <2>5, <3>1 DEF Notices!Announce, NoticeShape, CallInv
    <3> QED BY <2>3, <3>2
  <2>6. ASSUME NEW n \in Notices!Call, Notices!FindEvent(n) PROVE PushInv'
    <3>1. PICK m, p : \/ call' = [call EXCEPT ![n] = [call[n] EXCEPT !.pc = p, !.event = m]]
                      \/ call' = [call EXCEPT ![n] = [call[n] EXCEPT !.pc = p]]
      BY <2>6 DEF Notices!FindEvent
    <3>2. \A l \in Notices!Call : call'[l].receiver = call[l].receiver
      <4>1. CASE call' = [call EXCEPT ![n] = [call[n] EXCEPT !.pc = p, !.event = m]]
        BY <2>0, <4>1 DEF Progressing
      <4>2. CASE call' = [call EXCEPT ![n] = [call[n] EXCEPT !.pc = p]]
        BY <2>0, <4>2 DEF Progressing
      <4> QED BY <3>1, <4>1, <4>2
    <3> QED BY <2>3, <2>6, <3>2 DEF Notices!FindEvent
  <2>7. ASSUME NEW n \in Notices!Call, Notices!CreateEvent(n) PROVE PushInv'
    <3>1. call' = [call EXCEPT ![n] = [call[n] EXCEPT !.pc = "found", !.event = n]]
      BY <2>7 DEF Notices!CreateEvent
    <3>2. \A l \in Notices!Call : call'[l].receiver = call[l].receiver
      BY <2>0, <3>1 DEF Progressing
    <3> QED BY <2>3, <2>7, <3>2 DEF Notices!CreateEvent
  <2>8. ASSUME NEW n \in Notices!Call, Notices!SaveNotification(n) PROVE PushInv'
    <3>1. /\ \A l \in Notices!Call : call'[l].receiver = call[l].receiver
          /\ \A l \in Notices!Call \ {n} : push'[l] = push[l]
          /\ push'[n].pc = "started"
      BY <2>0, <2>8 DEF Notices!SaveNotification, Progressing, Pushing
    <3>2. push[n].pc = "none"
      BY <2>8 DEF Notices!SaveNotification, NoticeShape, CallInv
    <3> QED BY <2>3, <2>8, <3>1, <3>2 DEF Notices!SaveNotification
  <2>9. ASSUME NEW n \in Notices!Call, Notices!NotifyFails(n) PROVE PushInv'
    <3>1. \A l \in Notices!Call : call'[l].receiver = call[l].receiver
      BY <2>0, <2>9 DEF Notices!NotifyFails, Progressing
    <3> QED BY <2>3, <2>9, <3>1 DEF Notices!NotifyFails
  <2>10. ASSUME Notices!Crash PROVE PushInv'
    <3>1. \A n \in Notices!Call : \/ call'[n] = call[n] /\ push'[n] = push[n]
                                  \/ /\ call'[n] = [call[n] EXCEPT !.pc = "done"]
                                     /\ push'[n] = [push[n] EXCEPT !.pc = "ended"]
      BY <2>10 DEF Notices!Crash
    <3>2. \A n \in Notices!Call : /\ call'[n].receiver = call[n].receiver
                                  /\ \/ push'[n] = push[n]
                                     \/ push'[n].token = push[n].token /\ push'[n].pc = "ended"
      <4> SUFFICES ASSUME NEW n \in Notices!Call,
                          call'[n] = [call[n] EXCEPT !.pc = "done"],
                          push'[n] = [push[n] EXCEPT !.pc = "ended"]
                   PROVE  /\ call'[n].receiver = call[n].receiver
                          /\ push'[n].token = push[n].token /\ push'[n].pc = "ended"
        BY <3>1
      <4> QED BY <2>0 DEF Progressing, Pushing
    <3> QED BY <2>3, <2>10, <3>2 DEF Notices!Crash
  <2>11. ASSUME NEW n \in Notices!Call, Notices!ReadToken(n) PROVE PushInv'
    <3> DEFINE u == call[n].receiver
    <3>1. /\ u \in User /\ push[n].pc = "started"
          /\ \A m \in Notices!Call \ {n} : push'[m] = push[m]
          /\ IF token[u] = Nobody THEN push'[n].pc = "ended"
             ELSE push'[n].pc = "sending" /\ push'[n].token = token[u]
          /\ UNCHANGED <<Notices!devices, call, pushed>>
      BY <2>0, <2>11 DEF Notices!ReadToken, NoticeShape, CallInv, Notices!rows
    <3>2. Notices!LatestTokenIsKeptAlone' /\ TokenIsOwn'
      BY <3>1 DEF Notices!devices, Notices!LatestTokenIsKeptAlone, TokenIsOwn
    <3>3. pushed[n] = Nobody
      BY <3>1 DEF PushKnows
    <3>4. Notices!ShownToItsReceiverAlone'
      BY <3>1, <3>3 DEF Notices!devices, Notices!ShownToItsReceiverAlone
    <3>5. PushKnows'
      BY <3>1, <3>3 DEF Notices!devices, PushKnows, TokenIsOwn, Notices!LatestTokenIsKeptAlone
    <3> QED BY <3>2, <3>4, <3>5
  <2>12. ASSUME NEW n \in Notices!Call, Notices!Send(n) PROVE PushInv'
    <3> DEFINE d == push[n].token
    <3>1. /\ push[n].pc = "sending" /\ push'[n].pc = "ended" /\ push'[n].token = d
          /\ \A m \in Notices!Call \ {n} : push'[m] = push[m] /\ pushed'[m] = pushed[m]
          /\ pushed'[n] = holder[d]
          /\ UNCHANGED <<Notices!devices, call>>
      BY <2>0, <2>12 DEF Notices!Send, Notices!rows, Pushing
    <3>2. Notices!LatestTokenIsKeptAlone' /\ TokenIsOwn'
      BY <3>1 DEF Notices!devices, Notices!LatestTokenIsKeptAlone, TokenIsOwn
    <3>3. d \notin handed => holder[d] = call[n].receiver
      BY <3>1 DEF PushKnows
    <3>4. Notices!ShownToItsReceiverAlone'
      BY <3>1, <3>3 DEF Notices!devices, Notices!ShownToItsReceiverAlone
    <3>5. PushKnows'
      BY <3>1 DEF Notices!devices, PushKnows
    <3> QED BY <3>2, <3>4, <3>5
  <2>13. ASSUME NEW n \in Notices!Call, Notices!SendFails(n) PROVE PushInv'
    <3>1. /\ push[n].pc = "sending" /\ push'[n].token = push[n].token
          /\ push'[n].pc = IF push[n].token \in dead THEN "failed" ELSE "ended"
          /\ \A m \in Notices!Call \ {n} : push'[m] = push[m]
          /\ UNCHANGED <<Notices!devices, call, pushed>>
      BY <2>0, <2>13 DEF Notices!SendFails, Notices!Condemned, Notices!rows, Pushing
    <3>2. Notices!LatestTokenIsKeptAlone' /\ TokenIsOwn' /\ Notices!ShownToItsReceiverAlone'
      BY <3>1 DEF Notices!devices, Notices!LatestTokenIsKeptAlone, TokenIsOwn,
         Notices!ShownToItsReceiverAlone
    <3>3. PushKnows'
      BY <3>1 DEF Notices!devices, PushKnows
    <3> QED BY <3>2, <3>3
  <2>14. ASSUME NEW n \in Notices!Call, Notices!RemoveToken(n) PROVE PushInv'
    <3> DEFINE u == call[n].receiver
    <3>1. /\ u \in User /\ push[n].pc = "failed" /\ push'[n].pc = "ended"
          /\ push'[n].token = push[n].token
          /\ \A m \in Notices!Call \ {n} : push'[m] = push[m]
          /\ \A v \in User \ {u} : token'[v] = token[v]
          /\ token'[u] = Nobody
          /\ UNCHANGED <<holder, dead, latest, handed, raced, call, pushed>>
      BY <2>0, <2>14 DEF Notices!RemoveToken, NoticeShape, CallInv, Notices!rows, Pushing
    <3>2. u \notin raced => latest[u] \in dead
      BY <3>1 DEF PushKnows
    <3>3. Notices!LatestTokenIsKeptAlone'
      BY <3>1, <3>2 DEF Notices!LatestTokenIsKeptAlone
    <3>4. TokenIsOwn' /\ Notices!ShownToItsReceiverAlone'
      BY <3>1 DEF TokenIsOwn, Notices!ShownToItsReceiverAlone
    <3>5. PushKnows'
      BY <3>1 DEF PushKnows
    <3> QED BY <3>3, <3>4, <3>5
  <2>15. ASSUME UNCHANGED <<Notices!devices, call, push, pushed>> PROVE PushInv'
    BY <2>3, <2>15
  <2>16. ASSUME NEW u \in User, \/ \E v \in Setting : Notices!UpdateSettings(u, v)
                                \/ Notices!RemoveAll(u)
         PROVE  PushInv'
    BY <2>15, <2>16 DEF Notices!UpdateSettings, Notices!RemoveAll, Notices!rows
  <2>17. ASSUME NEW n \in Notices!Call, Notices!Remove(n) PROVE PushInv'
    BY <2>15, <2>17 DEF Notices!Remove
  <2>18. CASE UNCHANGED Notices!vars
    BY <2>15, <2>18 DEF Notices!vars, Notices!devices
  <2> QED
    BY <2>1, <2>2, <2>4, <2>5, <2>6, <2>7, <2>8, <2>9, <2>10, <2>11, <2>12, <2>13, <2>14,
       <2>16, <2>17, <2>18
    DEF Notices!Next, Notices!Progress
<1> QED BY <1>1, <1>2, NoticesShaped, PTL DEF Notices!Spec

\* A notification is one row, and reaches who it is for on the device they use.
LEMMA NoticesAlone == Notices!Spec => []Notices!TypeOK /\ []Notices!NoticesAreSound
<1>0. NoticeShape => Notices!TypeOK
  BY DEF NoticeShape
<1>1. PushInv => Notices!LatestTokenIsKeptAlone /\ Notices!ShownToItsReceiverAlone
  BY DEF PushInv
<1>2. Notices!OneEventAlone /\ Notices!LatestTokenIsKeptAlone /\ Notices!ShownToItsReceiverAlone
        /\ Notices!SettingsAreKeptAlone => Notices!NoticesAreSound
  BY DEF Notices!NoticesAreSound
<1> QED BY <1>0, <1>1, <1>2, NoticesShaped, EventsAreAlone, SettingsAreKept, PushesGoHome, PTL

\* A kind of notification is one row, a device gets what is meant for its user, and
\* settings are the last ones wanted, each unless calls crossed.
THEOREM NoticesHold == ServicesSpec => []NoticesAreSound
BY PartsBehave, NoticesAlone, PTL DEF NoticesAreSound
=============================================================================
