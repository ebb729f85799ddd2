---------------------------- MODULE Verification ----------------------------
(***************************************************************************)
(* One-time codes: AuthService's endpoints that issue a code and mail it,  *)
(* and those that take one to verify an address, to reset a password or to *)
(* change an address; UcodeRepository's rows; the mail queue.              *)
(*                                                                         *)
(* One action is the code between two awaits.  A request in flight holds   *)
(* a slot and frees it with its answer, so the two sorts of slots bound    *)
(* how many requests overlap, not how many there are.  The codes are named *)
(* by the request that draws them; two draws of the same six digits are    *)
(* left out.  A client presents a code only after it was mailed.           *)
(***************************************************************************)
EXTENDS Naturals, FiniteSets

CONSTANTS
    User,        \* accounts
    Email,       \* addresses
    Home,        \* the address each account registered with
    Issue,       \* requests that issue a code; each is the code it draws
    Use,         \* slots of requests that present a code
    Nobody,      \* no user, no address, no code
    MaxFaults    \* bound on crashes, failed writes and lost jobs

ASSUME VerificationAssumption ==
    /\ Home \in [User -> Email]
    /\ \A u, w \in User : Home[u] = Home[w] => u = w
    /\ Nobody \notin User \cup Email \cup Issue
    /\ MaxFaults \in Nat

VARIABLES
    email,       \* users.email, unique
    verified,    \* users whose email_verified_at is set
    code,        \* the rows of table ucodes, one per issuing request
    issue,       \* progress of the issuing requests
    use,         \* progress of the requests that present a code
    mail         \* the job of each code in mail-queue

VARIABLES        \* history: never read by the system's actions
    proven,      \* addresses whose code was presented and consumed
    left,        \* addresses an account has moved away from
    unproven,    \* accounts whose address was last set without a code
    resets,      \* pairs of a code and the user whose password it reset
    reused,      \* codes that had an effect twice
    racing,      \* codes two resets of which passed the check together
    crossed,     \* addresses two createTokens of which overlapped
    late,        \* codes marked verified after they had expired
    interrupted, \* codes of requests that met a fault
    faults       \* number of faults so far

vars == <<email, verified, code, issue, use, mail, proven, left, unproven, resets,
          reused, racing, crossed, late, interrupted, faults>>

issuing == <<issue, crossed>>
using   == <<use, verified, proven, left, unproven, resets, reused, racing, late>>

NoCode == [state |-> "none", user |-> Nobody, email |-> Nobody,
           expired |-> FALSE, verified |-> FALSE]
IdleIssue == [pc |-> "idle", kind |-> "none", user |-> Nobody, to |-> Nobody,
              target |-> Nobody]
IdleUse == [pc |-> "idle", kind |-> "none", user |-> Nobody, email |-> Nobody,
            code |-> Nobody]

Init ==
    /\ email = Home
    /\ verified = {}
    /\ code = [i \in Issue |-> NoCode]
    /\ issue = [i \in Issue |-> IdleIssue]
    /\ use = [v \in Use |-> IdleUse]
    /\ mail = [i \in Issue |-> "none"]
    /\ proven = {} /\ left = {} /\ unproven = {} /\ resets = {} /\ reused = {}
    /\ racing = {} /\ crossed = {} /\ late = {} /\ interrupted = {}
    /\ faults = 0

\* exist and getUserByEmail: the account that has the address now.
Owner(e) == {u \in User : email[u] = e}

Live(c) == code[c].state = "live"

Fault(cs) ==
    /\ faults < MaxFaults
    /\ faults' = faults + 1
    /\ interrupted' = interrupted \cup cs

-----------------------------------------------------------------------------
(* Issuing: the endpoints differ in how they find the account and where    *)
(* the code goes; resendToken's code only lives shorter.                   *)

Accept(i, kind, u, e) ==
    /\ issue[i].pc = "idle"
    /\ issue' = [issue EXCEPT ![i] = [pc |-> "found", kind |-> kind, user |-> u,
                                      to |-> e, target |-> Nobody]]
    /\ UNCHANGED <<email, code, mail, using, crossed, interrupted, faults>>

ForgotPassword(i, e) == \E u \in Owner(e) : Accept(i, "own", u, e)
ResendToken(i, e) == \E u \in Owner(e) : Accept(i, "own", u, e)
ResendVerificationEmail(i, e) == \E u \in Owner(e) : Accept(i, "own", u, e)
\* Nobody checks here that the new address is free.
RequestEmailChange(i, u, e) == Accept(i, "new", u, e)

TargetOwn(i) == email[issue[i].user]      \* mutant: the new address is ignored
\* createToken reads the user again: its address may have changed by now.
TargetOf(i) == IF issue[i].kind = "new" THEN issue[i].to
               ELSE email[issue[i].user]

Target(i) ==
    /\ issue[i].pc = "found"
    /\ issue' = [issue EXCEPT ![i].pc = "targeted", ![i].target = TargetOf(i)]
    /\ UNCHANGED <<email, code, mail, using, crossed, interrupted, faults>>

KeepCodes(e) == code                      \* mutant: older codes stay
\* deleteMany by address: every older code of the address goes.
DropCodes(e) == [c \in Issue |-> IF Live(c) /\ code[c].email = e
                                 THEN [code[c] EXCEPT !.state = "deleted"]
                                 ELSE code[c]]

Clear(i) ==
    LET e == issue[i].target IN
    /\ issue[i].pc = "targeted"
    /\ issue' = [issue EXCEPT ![i].pc = "cleared"]
    /\ code' = DropCodes(e)
    /\ crossed' = IF \E j \in Issue : issue[j].pc = "cleared" /\ issue[j].target = e
                  THEN crossed \cup {e} ELSE crossed
    /\ UNCHANGED <<email, mail, using, interrupted, faults>>

Insert(i) ==
    /\ issue[i].pc = "cleared"
    /\ issue' = [issue EXCEPT ![i].pc = "created"]
    /\ code' = [code EXCEPT ![i] = [state |-> "live", user |-> issue[i].user,
                  email |-> issue[i].target, expired |-> FALSE, verified |-> FALSE]]
    /\ UNCHANGED <<email, mail, using, crossed, interrupted, faults>>

AnswerUnmailed(i) ==                      \* mutant: no job is added
    /\ issue[i].pc = "created"
    /\ issue' = [issue EXCEPT ![i].pc = "done"]
    /\ UNCHANGED <<email, code, mail, using, crossed, interrupted, faults>>

\* sendOtpCodeToEmail adds the job; the answer is sent.
Enqueue(i) ==
    /\ issue[i].pc = "created"
    /\ issue' = [issue EXCEPT ![i].pc = "done"]
    /\ mail' = [mail EXCEPT ![i] = "waiting"]
    /\ UNCHANGED <<email, code, using, crossed, interrupted, faults>>

\* Redis refuses the job: the error is logged and the answer says "sent".
\* A failure of the statements before ends the request with its error text.
IssueFails(i) ==
    /\ issue[i].pc \in {"found", "targeted", "cleared", "created"}
    /\ Fault({i})
    /\ issue' = [issue EXCEPT ![i].pc = "done"]
    /\ UNCHANGED <<email, code, mail, using, crossed>>

-----------------------------------------------------------------------------
(* The mail queue: one job per code.  A job whose worker dies is found      *)
(* stalled and goes back to the queue, so it is still waiting.             *)

Send(i) ==
    /\ mail[i] = "waiting"
    /\ mail' = [mail EXCEPT ![i] = "sent"]
    /\ UNCHANGED <<email, code, issuing, using, interrupted, faults>>

\* process rethrows; no attempts are configured, so the job has failed for good.
SendFails(i) ==
    /\ mail[i] = "waiting"
    /\ Fault({i})
    /\ mail' = [mail EXCEPT ![i] = "failed"]
    /\ UNCHANGED <<email, code, issuing, using>>

Expire(i) ==
    /\ Live(i) /\ ~code[i].expired
    /\ code' = [code EXCEPT ![i].expired = TRUE]
    /\ UNCHANGED <<email, mail, issuing, using, interrupted, faults>>

-----------------------------------------------------------------------------
(* Presenting a code: the account is looked up first.                      *)

\* The client gives the code with the address of the mailbox it came to.
Present(v, kind, u, c) ==
    /\ use[v].pc = "idle"
    /\ mail[c] = "sent"
    /\ use' = [use EXCEPT ![v] = [pc |-> "found", kind |-> kind, user |-> u,
                                  email |-> issue[c].to, code |-> c]]
    /\ UNCHANGED <<email, code, mail, issuing, verified, proven, left, unproven, resets,
                   reused, racing, late, interrupted, faults>>

VerifyToken(v, c) == \E u \in Owner(issue[c].to) : Present(v, "verifyToken", u, c)
ResetPassword(v, c) == \E u \in Owner(issue[c].to) : Present(v, "resetPassword", u, c)
VerifyEmail(v, c) == \E u \in Owner(issue[c].to) : Present(v, "verifyEmail", u, c)
\* The account is the signed-in one, whoever the code was issued to.
ChangeEmail(v, u, c) == Present(v, "changeEmail", u, c)

\* The row that token and email select, for the request in slot v.
Selects(v) == Live(use[v].code) /\ code[use[v].code].email = use[v].email

Goto(v, pc) == use' = [use EXCEPT ![v].pc = pc]
Answer(v) == use' = [use EXCEPT ![v] = IdleUse]

\* The code does not match; nothing is written.
Reject(v) ==
    /\ use[v].pc = "found"
    /\ \/ ~Selects(v)
       \/ use[v].kind = "verifyEmail" /\ Owner(use[v].email) = {}
    /\ Answer(v)
    /\ UNCHANGED <<email, code, mail, issuing, verified, proven, left, unproven, resets,
                   reused, racing, late, interrupted, faults>>

\* UcodeRepository.verifyToken: verified_at is written without looking at
\* the expiry ...
Mark(v) ==
    LET c == use[v].code IN
    /\ use[v].kind = "verifyToken" /\ use[v].pc = "found"
    /\ Selects(v)
    /\ IF code[c].verified
       THEN Answer(v) /\ UNCHANGED <<code, late>>
       ELSE /\ Goto(v, "marked")
            /\ code' = [code EXCEPT ![c].verified = TRUE]
            /\ late' = IF code[c].expired THEN late \cup {c} ELSE late
    /\ UNCHANGED <<email, mail, issuing, verified, proven, left, unproven, resets,
                   reused, racing, interrupted, faults>>

\* ... which is tested on the row as it is read again; ...
Recheck(v) ==
    /\ use[v].pc = "marked"
    /\ IF Selects(v) /\ code[use[v].code].expired THEN Goto(v, "lapsed") ELSE Answer(v)
    /\ UNCHANGED <<email, code, mail, issuing, verified, proven, left, unproven, resets,
                   reused, racing, late, interrupted, faults>>

Unmark(c) == code                         \* mutant: the expired row stays
DropExpired(c) == [code EXCEPT ![c].state = "deleted"]

\* ... and an expired code is deleted by id, which throws when another request has
\* deleted it meanwhile; the request is answered either way.
DeleteExpired(v) ==
    /\ use[v].pc = "lapsed"
    /\ code' = DropExpired(use[v].code)
    /\ Answer(v)
    /\ UNCHANGED <<email, mail, issuing, verified, proven, left, unproven, resets,
                   reused, racing, late, interrupted, faults>>

-----------------------------------------------------------------------------
(* resetPassword: verifycheckToken, changePassword, deleteToken.           *)

IsVerified(c) == code[c].verified

\* Resets with code c that have passed the check.
Passed(c) == {w \in Use : use[w].pc \in {"checked", "changed"} /\ use[w].code = c}

CheckWaits(v) ==                          \* mutant: no answer to an unverified code
    LET c == use[v].code IN
    /\ use[v].kind = "resetPassword" /\ use[v].pc = "found"
    /\ Selects(v) /\ IsVerified(c)
    /\ Goto(v, "checked")
    /\ racing' = IF Passed(c) # {} THEN racing \cup {c} ELSE racing
    /\ UNCHANGED <<email, code, mail, issuing, verified, proven, left, unproven, resets,
                   reused, late, interrupted, faults>>

CheckVerified(v) ==
    LET c == use[v].code IN
    /\ use[v].kind = "resetPassword" /\ use[v].pc = "found"
    /\ Selects(v)
    /\ IF IsVerified(c) THEN Goto(v, "checked") ELSE Answer(v)
    /\ racing' = IF Passed(c) # {} THEN racing \cup {c} ELSE racing
    /\ UNCHANGED <<email, code, mail, issuing, verified, proven, left, unproven, resets,
                   reused, late, interrupted, faults>>

\* The password is written by address, for whoever has the address now; the
\* update throws when nobody has it.
WritePassword(v) ==
    LET c == use[v].code
        owner == Owner(use[v].email)
    IN
    /\ use[v].pc = "checked"
    /\ IF owner = {} THEN Answer(v) ELSE Goto(v, "changed")
    /\ resets' = resets \cup {<<c, u>> : u \in owner}
    /\ reused' = IF owner # {} /\ \E u \in User : <<c, u>> \in resets
                 THEN reused \cup {c} ELSE reused
    /\ UNCHANGED <<email, code, mail, issuing, verified, proven, left, unproven,
                   racing, late, interrupted, faults>>

KeepToken(v) == code                      \* mutant: the code stays usable
DropToken(v) ==
    IF Selects(v) THEN [code EXCEPT ![use[v].code].state = "deleted"] ELSE code

\* deleteToken, by address and token; changeEmail ends with it as well.
DeleteToken(v) ==
    /\ use[v].pc = "changed"
    /\ code' = DropToken(v)
    /\ Answer(v)
    /\ UNCHANGED <<email, mail, issuing, verified, proven, left, unproven, resets,
                   reused, racing, late, interrupted, faults>>

-----------------------------------------------------------------------------
(* verifyEmail and changeEmail: validateToken, then the write.             *)

ValidateOnly(v) ==                        \* mutant: the code is not consumed
    LET c == use[v].code IN
    /\ use[v].kind \in {"verifyEmail", "changeEmail"} /\ use[v].pc = "found"
    /\ Selects(v)
    /\ Goto(v, IF code[c].expired THEN "expired" ELSE "consumed")
    /\ UNCHANGED <<email, code, mail, issuing, verified, proven, left, unproven, resets,
                   reused, racing, late, interrupted, faults>>

\* findFirst; expiry is tested on the row that was read.  The second look-up
\* of the account in validateToken may have come right after the first.
Validate(v) ==
    LET c == use[v].code IN
    /\ use[v].kind \in {"verifyEmail", "changeEmail"} /\ use[v].pc = "found"
    /\ Selects(v)
    /\ Goto(v, IF code[c].expired THEN "expired" ELSE "valid")
    /\ UNCHANGED <<email, code, mail, issuing, verified, proven, left, unproven, resets,
                   reused, racing, late, interrupted, faults>>

\* delete by id throws when another request has deleted the row meanwhile.
Consume(v) ==
    LET c == use[v].code IN
    /\ use[v].pc \in {"valid", "expired"}
    /\ code' = [code EXCEPT ![c].state = "deleted"]
    /\ IF Live(c) /\ use[v].pc = "valid"
       THEN /\ Goto(v, "consumed")
            /\ proven' = proven \cup {use[v].email}
       ELSE Answer(v) /\ UNCHANGED proven
    /\ UNCHANGED <<email, mail, issuing, verified, left, unproven, resets, reused,
                   racing, late, interrupted, faults>>

SetVerified(v) ==
    /\ use[v].kind = "verifyEmail" /\ use[v].pc = "consumed"
    /\ verified' = verified \cup {use[v].user}
    /\ Answer(v)
    /\ UNCHANGED <<email, code, mail, issuing, proven, left, unproven, resets,
                   reused, racing, late, interrupted, faults>>

TakenIsNoMatter(u, e) == TRUE             \* mutant: no unique index
MayTake(u, e) == Owner(e) \subseteq {u}

\* UserRepository.changeEmail: the unique index refuses an address in use.
WriteEmail(v) ==
    LET u == use[v].user
        e == use[v].email
    IN
    /\ use[v].kind = "changeEmail" /\ use[v].pc = "consumed"
    /\ IF MayTake(u, e)
       THEN /\ email' = [email EXCEPT ![u] = e]
            /\ left' = left \cup ({email[u]} \ {e})
            /\ unproven' = unproven \ {u}
            /\ Goto(v, "changed")
       ELSE Answer(v) /\ UNCHANGED <<email, left, unproven>>
    /\ UNCHANGED <<code, mail, issuing, verified, proven, resets, reused, racing,
                   late, interrupted, faults>>

\* Two more ways to another address ask for no code: AuthService.updateUser, which
\* writes every column the owner sends, and the administrators' updateUser.
UpdateEmail(u, e) ==
    /\ e # email[u] /\ MayTake(u, e)
    /\ email' = [email EXCEPT ![u] = e]
    /\ left' = left \cup {email[u]}
    /\ unproven' = unproven \cup {u}
    /\ UNCHANGED <<code, mail, issuing, use, verified, proven, resets, reused, racing,
                   late, interrupted, faults>>

\* A statement fails; the catch block answers with the error's text.
UseFails(v) ==
    /\ use[v].pc # "idle"
    /\ Fault({use[v].code})
    /\ Answer(v)
    /\ UNCHANGED <<email, code, mail, issuing, verified, proven, left, unproven, resets,
                   reused, racing, late>>

\* The process dies with everything in flight; rows and jobs stay.
Crash ==
    /\ Fault({use[v].code : v \in Use} \cup {i \in Issue : issue[i].pc # "idle"})
    /\ issue' = [i \in Issue |-> IF issue[i].pc = "idle" THEN IdleIssue
                                 ELSE [issue[i] EXCEPT !.pc = "done"]]
    /\ use' = [v \in Use |-> IdleUse]
    /\ UNCHANGED <<email, code, mail, crossed, verified, proven, left, unproven, resets,
                   reused, racing, late>>

-----------------------------------------------------------------------------
IssueStep(i) == Target(i) \/ Clear(i) \/ Insert(i) \/ Enqueue(i)

UseStep(v) ==
    \/ Reject(v) \/ Mark(v) \/ Recheck(v) \/ DeleteExpired(v)
    \/ CheckVerified(v) \/ WritePassword(v)
    \/ DeleteToken(v) \/ Validate(v) \/ Consume(v) \/ SetVerified(v) \/ WriteEmail(v)

Next ==
    \/ \E i \in Issue :
         \/ \E e \in Email : ForgotPassword(i, e) \/ ResendToken(i, e)
                             \/ ResendVerificationEmail(i, e)
         \/ \E u \in User, e \in Email : RequestEmailChange(i, u, e)
         \/ IssueStep(i) \/ IssueFails(i)
         \/ Send(i) \/ SendFails(i) \/ Expire(i)
    \/ \E v \in Use :
         \/ \E c \in Issue :
              \/ VerifyToken(v, c) \/ ResetPassword(v, c) \/ VerifyEmail(v, c)
              \/ \E u \in User : ChangeEmail(v, u, c)
         \/ UseStep(v) \/ UseFails(v)
    \/ \E u \in User, e \in Email : UpdateEmail(u, e)
    \/ Crash

Spec == Init /\ [][Next]_vars

\* A handler that has started and the queue's worker go on unless the process
\* dies; clients start and stop as they like.
Fairness ==
    /\ \A i \in Issue : WF_vars(IssueStep(i)) /\ WF_vars(Send(i))
    /\ \A v \in Use : WF_vars(UseStep(v))

FairSpec == Spec /\ Fairness
-----------------------------------------------------------------------------
(* Properties.                                                             *)

\* The shape of the state.
TypeOK ==
    /\ email \in [User -> Email]
    /\ verified \subseteq User
    /\ code \in [Issue -> [state : {"none", "live", "deleted"},
                           user : User \cup {Nobody}, email : Email \cup {Nobody},
                           expired : BOOLEAN, verified : BOOLEAN]]
    /\ issue \in [Issue -> [pc : {"idle", "found", "targeted", "cleared", "created",
                                  "done"},
                            kind : {"none", "own", "new"}, user : User \cup {Nobody},
                            to : Email \cup {Nobody}, target : Email \cup {Nobody}]]
    /\ use \in [Use -> [pc : {"idle", "found", "marked", "lapsed", "checked", "changed",
                              "valid", "expired", "consumed"},
                        kind : {"none", "verifyToken", "resetPassword", "verifyEmail",
                                "changeEmail"},
                        user : User \cup {Nobody}, email : Email \cup {Nobody},
                        code : Issue \cup {Nobody}]]
    /\ mail \in [Issue -> {"none", "waiting", "sent", "failed"}]
    /\ proven \subseteq Email /\ left \subseteq Email /\ unproven \subseteq User
    /\ resets \subseteq Issue \X User
    /\ reused \subseteq Issue /\ racing \subseteq Issue /\ late \subseteq Issue
    /\ crossed \subseteq Email
    /\ interrupted \subseteq Issue \cup {Nobody}
    /\ faults \in 0..MaxFaults

\* createToken's delete-then-insert leaves one code in force for an address,
\* whichever endpoints asked for it, unless two of them were between the
\* deletion and the insertion together.
OneCodeInForceAlone ==
    \A c, d \in Issue :
        Live(c) /\ Live(d) /\ code[c].email = code[d].email =>
            c = d \/ code[c].email \in crossed

\* A code resets a password at most once, unless two resets passed the check
\* together or one was cut off between the password and deleteToken.
OneResetAlone == reused \subseteq racing \cup interrupted

\* The password that is reset is that of the account the code was issued to.
\* The write goes by address, so this needs an address no account has moved
\* away from; and the endpoints do not tell codes apart, so a code issued for
\* a change to an address resets the password of the account that holds it.
ResetsTheOwner ==
    \A c \in Issue, u \in User :
        <<c, u>> \in resets =>
            \/ u = code[c].user
            \/ code[c].email \in left
            \/ issue[c].kind = "new"

\* verifyToken marks before it looks at the expiry: a code that was marked too
\* late is in force only while the request that marked it has yet to delete
\* it, or when that request was cut off.
LateCodeGoes ==
    \A c \in late : Live(c) =>
        \/ \E v \in Use : use[v].pc \in {"marked", "lapsed"} /\ use[v].code = c
        \/ c \in interrupted

\* An account with a verified address, and one that has changed its address, has an
\* address whose own code was presented, although verifyEmail writes by account
\* and the address may change while it runs; unless an update without a code set
\* the address, which leaves email_verified_at as it was.
VerifiedWasProvenAlone ==
    \A u \in User : u \in verified \/ email[u] # Home[u] =>
                      email[u] \in proven \/ u \in unproven

\* The code goes to the mailbox it is valid for.  The endpoint and createToken
\* read the account separately, so this needs an address that is not being
\* left meanwhile.
MailedToItsAddress ==
    \A i \in Issue : mail[i] # "none" =>
        issue[i].to = code[i].email \/ issue[i].to \in left

\* A code that is in the table is mailed in the end, unless its request or its
\* job met a failure.
IssuedIsMailed ==
    \A i \in Issue : Live(i) ~> mail[i] = "sent" \/ i \in interrupted

\* A request that presents a code is answered, however often the row it looks
\* for is deleted under it.
Answered == \A v \in Use : use[v].pc # "idle" ~> use[v].pc = "idle"

\* A code serves the account, the address and the one use it was issued for:
\* one in force, one reset, of its owner, not after its time, after a proof of
\* its mailbox, and mailed to the address it is valid for.
CodesAreSound ==
    /\ OneCodeInForceAlone
    /\ OneResetAlone
    /\ ResetsTheOwner
    /\ LateCodeGoes
    /\ VerifiedWasProvenAlone
    /\ MailedToItsAddress

\* Codes are mailed and presented codes answered.
CodesGoOn ==
    /\ IssuedIsMailed
    /\ Answered
=============================================================================
