------------------------------ MODULE Bequest ------------------------------
(***************************************************************************)
(* Specific bequests with their attachments, and the beneficiaries of the  *)
(* will they go to: SpecificbequestsService, and what an edit of the will  *)
(* (see Will) does to them.  Both the agent and the client of a bequest    *)
(* may change it, each from the list of attachments they last saw.         *)
(*                                                                         *)
(* The attachment a request uploads is named by the request.               *)
(***************************************************************************)
EXTENDS Naturals

CONSTANTS
    Create,      \* requests to log a bequest; each is the row it creates
    Change,      \* requests to change a bequest
    Beneficiary, \* ids of beneficiaries, each used once
    Name,        \* file names: the millisecond and the name it was sent under
    Nothing,     \* no bequest, no beneficiary, no file
    MaxFaults    \* bound on files the disk refuses

Upload == Create \cup Change

VARIABLES
    beneficiaries, \* rows of table beneficiaries of the will
    bequest,     \* rows of table specific_bequests
    request,     \* progress of createSpecificbequest and updateBequestTransaction
    disk         \* which upload the file of each name holds

VARIABLES        \* history: never read by the system's actions
    former,      \* beneficiaries a will edit has deleted
    stripped,    \* bequests that lost their beneficiary to an edit of the will
    given,       \* the beneficiary each bequest was last given
    overrun,     \* what was added to a bequest, with each change by then made from
                 \* an earlier look at it and not yet over
    clash,       \* names two uploads were given
    refused,     \* uploads the disk refused
    faults       \* number of faults

vars == <<beneficiaries, bequest, request, disk, former, stripped, given, overrun,
          clash, refused, faults>>

NoRow == [state |-> "none", beneficiary |-> Nothing, attachments |-> {}]
Idle == [pc |-> "idle", bequest |-> Nothing, beneficiary |-> Nothing,
         list |-> "absent", keeps |-> {}, seen |-> {}, file |-> Nothing]

Init ==
    /\ beneficiaries = {} /\ former = {}
    /\ bequest = [q \in Create |-> NoRow]
    /\ request = [u \in Upload |-> Idle]
    /\ disk = [n \in Name |-> Nothing]
    /\ stripped = {} /\ overrun = {} /\ clash = {} /\ refused = {}
    /\ given = [q \in Create |-> Nothing]
    /\ faults = 0

Live(q) == bequest[q].state = "live"
Clashing(u, n) == {n} \cap {request[v].file : v \in Upload \ {u}}

-----------------------------------------------------------------------------
(* The will is edited: every beneficiary is deleted and the ones it is to  *)
(* have now are created, those that stay in it too.                        *)

KeepPointers(q) == bequest[q].beneficiary \* mutant: ids of deleted rows are kept
SetNull(q) == IF bequest[q].beneficiary \in beneficiaries THEN Nothing
              ELSE bequest[q].beneficiary

RewriteWill(new) ==
    /\ new \cap (beneficiaries \cup former) = {}
    /\ beneficiaries' = new
    /\ former' = former \cup beneficiaries
    /\ bequest' = [q \in Create |-> [bequest[q] EXCEPT !.beneficiary = SetNull(q)]]
    /\ stripped' = stripped \cup {q \in Create :
                         Live(q) /\ bequest[q].beneficiary \in beneficiaries}
    /\ UNCHANGED <<request, disk, given, overrun, clash, refused, faults>>

-----------------------------------------------------------------------------
(* createSpecificbequest.                                                  *)

\* A request names a beneficiary it was shown, which may be deleted by now.
Begin(q, y, n) ==
    /\ request[q].pc = "idle"
    /\ y \in beneficiaries \cup former
    /\ request' = [request EXCEPT ![q] = [Idle EXCEPT !.pc = "open", !.bequest = q,
                                              !.beneficiary = y, !.file = n]]
    /\ clash' = clash \cup Clashing(q, n)
    /\ UNCHANGED <<beneficiaries, bequest, disk, former, stripped, given, overrun,
                   refused, faults>>

\* The files are put before anything is looked up.
PutFile(u) ==
    LET n == request[u].file IN
    /\ request[u].pc = "open"
    /\ request' = [request EXCEPT ![u].pc = "stored"]
    /\ disk' = [disk EXCEPT ![n] = u]
    /\ UNCHANGED <<beneficiaries, bequest, former, stripped, given, overrun, clash,
                   refused, faults>>

\* LocalAdapter.put logs an error and returns.
PutFails(u) ==
    /\ request[u].pc = "open"
    /\ faults < MaxFaults /\ faults' = faults + 1
    /\ request' = [request EXCEPT ![u].pc = "stored"]
    /\ refused' = refused \cup {u}
    /\ UNCHANGED <<beneficiaries, bequest, disk, former, stripped, given, overrun, clash>>

CreateUnawaited(q) ==                     \* mutant: does not wait for the file
    /\ request[q].pc = "open" /\ request[q].beneficiary \in beneficiaries
    /\ bequest' = [bequest EXCEPT ![q] =
         [state |-> "live", beneficiary |-> request[q].beneficiary, attachments |-> {q}]]
    /\ given' = [given EXCEPT ![q] = request[q].beneficiary]
    /\ UNCHANGED <<beneficiaries, request, disk, former, stripped, overrun, clash,
                   refused, faults>>

\* One transaction: it throws when the beneficiary is not found, or is deleted
\* between the look-up and the insert.  The file stays either way.
CreateBequest(q) ==
    /\ request[q].pc = "stored"
    /\ IF request[q].beneficiary \in beneficiaries
       THEN /\ bequest' = [bequest EXCEPT ![q] =
                 [state |-> "live", beneficiary |-> request[q].beneficiary,
                  attachments |-> {q}]]
            /\ given' = [given EXCEPT ![q] = request[q].beneficiary]
            /\ request' = [request EXCEPT ![q].pc = "done"]
       ELSE /\ request' = [request EXCEPT ![q].pc = "failed"]
            /\ UNCHANGED <<bequest, given>>
    /\ UNCHANGED <<beneficiaries, disk, former, stripped, overrun, clash, refused, faults>>

-----------------------------------------------------------------------------
(* updateBequestTransaction and deleteBequest.                             *)

\* The author of a change looks at the bequest and works from what is shown.
SeeBequest(x, q) ==
    /\ request[x].pc = "idle" /\ Live(q)
    /\ request' = [request EXCEPT ![x] = [Idle EXCEPT !.pc = "viewed", !.bequest = q,
                                              !.seen = bequest[q].attachments]]
    /\ UNCHANGED <<beneficiaries, bequest, disk, former, stripped, given, overrun,
                   clash, refused, faults>>

\* At any later time the change is sent: getBequestById finds the row and the
\* requester is its agent or its client.  The request replaces the list by some
\* of the attachments its author saw, perhaps none, or leaves the list alone;
\* and it gives the bequest to another beneficiary or leaves that alone.
ReadBequest(x, y, list, keeps, n) ==
    /\ request[x].pc = "viewed" /\ Live(request[x].bequest)
    /\ list = "absent" => keeps = {}
    /\ y \in beneficiaries \cup former \cup {Nothing}
    /\ request' = [request EXCEPT ![x] = [@ EXCEPT !.pc = "open", !.beneficiary = y,
                                   !.list = list, !.keeps = keeps, !.file = n]]
    /\ clash' = clash \cup Clashing(x, n)
    /\ UNCHANGED <<beneficiaries, bequest, disk, former, stripped, given, overrun,
                   refused, faults>>

\* `set` replaces the list, and no request tells when its author saw the list.
ReplaceAll(x, q) == {x}                   \* mutant: the list is always replaced
Attached(x, q) ==
    {x} \cup (IF request[x].list = "given" THEN request[x].keeps
              ELSE bequest[q].attachments)

\* Changes of a bequest whose authors looked at it and that are not over.
Underway(q) == {v \in Change : /\ request[v].bequest = q
                               /\ request[v].pc \in {"viewed", "open", "stored"}}

UpdateBequest(x) ==
    LET s == request[x] IN
    /\ s.pc = "stored"
    /\ IF Live(s.bequest) /\ s.beneficiary \in beneficiaries \cup {Nothing}
       THEN /\ bequest' = [bequest EXCEPT
                 ![s.bequest].attachments = Attached(x, s.bequest),
                 ![s.bequest].beneficiary = IF s.beneficiary = Nothing THEN @
                                            ELSE s.beneficiary]
            /\ given' = [given EXCEPT ![s.bequest] = IF s.beneficiary = Nothing THEN @
                                                     ELSE s.beneficiary]
            /\ stripped' = IF s.beneficiary = Nothing THEN stripped
                           ELSE stripped \ {s.bequest}
            /\ overrun' = overrun \cup ({x} \X (Underway(s.bequest) \ {x}))
            /\ request' = [request EXCEPT ![x].pc = "done"]
       ELSE /\ request' = [request EXCEPT ![x].pc = "failed"]
            /\ UNCHANGED <<bequest, given, stripped, overrun>>
    /\ UNCHANGED <<beneficiaries, disk, former, clash, refused, faults>>

\* The row goes; its attachments and their files stay.
DeleteBequest(q) ==
    /\ Live(q)
    /\ bequest' = [bequest EXCEPT ![q].state = "deleted"]
    /\ UNCHANGED <<beneficiaries, request, disk, former, stripped, given, overrun,
                   clash, refused, faults>>

Next ==
    \/ \E new \in SUBSET Beneficiary : RewriteWill(new)
    \/ \E q \in Create :
         \/ \E y \in Beneficiary, n \in Name : Begin(q, y, n)
         \/ CreateBequest(q) \/ DeleteBequest(q)
    \/ \E x \in Change :
         \/ \E q \in Create : SeeBequest(x, q)
         \/ \E y \in Beneficiary \cup {Nothing}, list \in {"absent", "given"}, n \in Name :
              \E keeps \in SUBSET request[x].seen : ReadBequest(x, y, list, keeps, n)
         \/ UpdateBequest(x)
    \/ \E u \in Upload : PutFile(u) \/ PutFails(u)

Spec == Init /\ [][Next]_vars
-----------------------------------------------------------------------------
(* Properties.                                                             *)

\* The shape of the state.
TypeOK ==
    /\ beneficiaries \subseteq Beneficiary /\ former \subseteq Beneficiary
    /\ bequest \in [Create -> [state : {"none", "live", "deleted"},
                               beneficiary : Beneficiary \cup {Nothing},
                               attachments : SUBSET Upload]]
    /\ request \in [Upload -> [pc : {"idle", "viewed", "open", "stored", "done", "failed"},
                               bequest : Create \cup {Nothing},
                               beneficiary : Beneficiary \cup {Nothing},
                               list : {"absent", "given"},
                               keeps : SUBSET Upload, seen : SUBSET Upload,
                               file : Name \cup {Nothing}]]
    /\ disk \in [Name -> Upload \cup {Nothing}]
    /\ stripped \subseteq Create /\ given \in [Create -> Beneficiary \cup {Nothing}]
    /\ overrun \subseteq Change \X Change /\ clash \subseteq Name /\ refused \subseteq Upload
    /\ faults \in 0..MaxFaults

\* A bequest goes to the beneficiary it was last given, who is in the will,
\* unless the will was edited since: an edit takes the beneficiary from every
\* bequest, even if the will still names the person.
GoesToTheGivenAlone ==
    \A q \in Create :
        Live(q) => IF q \in stripped THEN bequest[q].beneficiary = Nothing
                   ELSE /\ bequest[q].beneficiary = given[q]
                        /\ bequest[q].beneficiary \in beneficiaries

\* What a change has added to a bequest is attached to it until a change sends a
\* list without it, whose author had seen it there or had looked before it was
\* added: a change that sends no list drops nothing, and whoever looks after it
\* was added is shown it.
AddedIsKeptAlone ==
    \A x \in Change :
        LET q == request[x].bequest IN
        request[x].pc = "done" /\ Live(q) =>
            \/ x \in bequest[q].attachments
            \/ \E v \in Change : /\ request[v].pc = "done" /\ request[v].list = "given"
                                 /\ x \notin request[v].keeps
                                 /\ x \in request[v].seen \/ <<x, v>> \in overrun

\* The file of an attachment is the one that was uploaded with it, unless the
\* disk refused it or two files of one name came in the same millisecond.
FileIsItsOwnAlone ==
    \A q \in Create : Live(q) =>
        \A u \in bequest[q].attachments :
            disk[request[u].file] = u \/ u \in refused \/ request[u].file \in clash

\* A bequest keeps its beneficiary, what was added to it, and its files.
BequestsAreSound ==
    /\ GoesToTheGivenAlone
    /\ AddedIsKeptAlone
    /\ FileIsItsOwnAlone
=============================================================================
