------------------------- MODULE VerificationProofs -------------------------
(***************************************************************************)
(* Proofs about Verification, for any accounts, addresses and requests and *)
(* any number of faults.                                                   *)
(***************************************************************************)
EXTENDS Verification, TLAPS

Code == [state : {"none", "live", "deleted"}, user : User \cup {Nobody},
         email : Email \cup {Nobody}, expired : BOOLEAN, verified : BOOLEAN]
IssueState == [pc : {"idle", "found", "targeted", "cleared", "created", "done"},
               kind : {"none", "own", "new"}, user : User \cup {Nobody},
               to : Email \cup {Nobody}, target : Email \cup {Nobody}]
UseState == [pc : {"idle", "found", "marked", "lapsed", "checked", "changed", "valid",
                   "expired", "consumed"},
             kind : {"none", "verifyToken", "resetPassword", "verifyEmail",
                     "changeEmail"},
             user : User \cup {Nobody}, email : Email \cup {Nobody},
             code : Issue \cup {Nobody}]

\* Who has started has an account, an address and a code; a mailed code's
\* request is over.
Started ==
    /\ \A i \in Issue : issue[i].pc # "idle" => issue[i].user \in User
                                                /\ issue[i].to \in Email
    /\ \A i \in Issue : issue[i].pc \in {"targeted", "cleared", "created"} =>
                            issue[i].target \in Email
    /\ \A i \in Issue : mail[i] # "none" => issue[i].pc = "done"
    /\ \A v \in Use : use[v].pc # "idle" =>
           /\ use[v].user \in User /\ use[v].email \in Email
           /\ use[v].code \in Issue /\ mail[use[v].code] = "sent"

\* A row of the table keeps its shape whatever column is written.
LEMMA CodeIsKept ==
    ASSUME NEW row \in Code, NEW s \in {"none", "live", "deleted"}, NEW b \in BOOLEAN
    PROVE  /\ [row EXCEPT !.state = s] \in Code
           /\ [row EXCEPT !.expired = b] \in Code
           /\ [row EXCEPT !.verified = b] \in Code
  BY Zenon DEF Code

\* So do the progress of an issuing request and that of one that presents a code.
LEMMA IssueIsKept ==
    ASSUME NEW row \in IssueState, NEW e \in Email \cup {Nobody},
           NEW pc \in {"idle", "found", "targeted", "cleared", "created", "done"}
    PROVE  /\ [row EXCEPT !.pc = pc] \in IssueState
           /\ [row EXCEPT !.pc = pc, !.target = e] \in IssueState
  BY DEF IssueState

LEMMA UseIsKept ==
    ASSUME NEW row \in UseState,
           NEW pc \in {"idle", "found", "marked", "lapsed", "checked", "changed",
                       "valid", "expired", "consumed"}
    PROVE  [row EXCEPT !.pc = pc] \in UseState
  BY DEF UseState

\* The rows and requests, sort by sort.
LEMMA Sorts ==
    ASSUME TypeOK
    PROVE  /\ code \in [Issue -> Code]
           /\ issue \in [Issue -> IssueState]
           /\ use \in [Use -> UseState]
  BY DEF TypeOK, Code, IssueState, UseState

\* What becomes of the rows: one changes in one column, or those of an address
\* are deleted, or a new one comes.
LEMMA CodeSteps ==
    ASSUME TypeOK, Started, [Next]_vars
    PROVE  \/ UNCHANGED code
           \/ \E i \in Issue : Insert(i)
           \/ \E i \in Issue : Clear(i)
           \/ \E i \in Issue : Expire(i)
           \/ \E v \in Use : Mark(v) \/ DeleteExpired(v) \/ DeleteToken(v) \/ Consume(v)
<1>1. ASSUME NEW i \in Issue, NEW e \in Email,
             \/ ForgotPassword(i, e) \/ ResendToken(i, e)
             \/ ResendVerificationEmail(i, e) \/ \E u \in User : RequestEmailChange(i, u, e)
      PROVE  UNCHANGED code
  BY <1>1 DEF ForgotPassword, ResendToken, ResendVerificationEmail, RequestEmailChange,
              Accept
<1>2. ASSUME NEW i \in Issue,
             Target(i) \/ Enqueue(i) \/ IssueFails(i) \/ Send(i) \/ SendFails(i)
      PROVE  UNCHANGED code
  BY <1>2 DEF Target, Enqueue, IssueFails, Send, SendFails
<1>3. ASSUME NEW v \in Use, NEW c \in Issue,
             \/ VerifyToken(v, c) \/ ResetPassword(v, c) \/ VerifyEmail(v, c)
             \/ \E u \in User : ChangeEmail(v, u, c)
      PROVE  UNCHANGED code
  BY <1>3 DEF VerifyToken, ResetPassword, VerifyEmail, ChangeEmail, Present
<1>4. ASSUME NEW v \in Use,
             \/ Reject(v) \/ Recheck(v) \/ CheckVerified(v) \/ WritePassword(v)
             \/ Validate(v) \/ SetVerified(v) \/ WriteEmail(v) \/ UseFails(v)
      PROVE  UNCHANGED code
  BY <1>4 DEF Reject, Recheck, CheckVerified, WritePassword, Validate, SetVerified,
              WriteEmail, UseFails
<1>5. ASSUME NEW u \in User, NEW e \in Email, UpdateEmail(u, e) PROVE UNCHANGED code
  BY <1>5 DEF UpdateEmail
<1>6. CASE Crash \/ UNCHANGED vars
  BY <1>6 DEF Crash, vars
<1> QED BY <1>1, <1>2, <1>3, <1>4, <1>5, <1>6 DEF Next, IssueStep, UseStep

-----------------------------------------------------------------------------
(* Types.                                                                  *)

\* The state keeps its shape, and who has started has what it works on.
LEMMA Typed == Spec => [](TypeOK /\ Started)
<1>1. Init => TypeOK /\ Started
  BY VerificationAssumption
     DEF Init, TypeOK, Started, NoCode, IdleIssue, IdleUse
<1>2. TypeOK /\ Started /\ [Next]_vars => TypeOK' /\ Started'
  <2> SUFFICES ASSUME TypeOK, Started, [Next]_vars PROVE TypeOK' /\ Started'
    OBVIOUS
  <2>1. ASSUME NEW i \in Issue, NEW kind \in {"own", "new"}, NEW u \in User,
               NEW e \in Email, Accept(i, kind, u, e)
        PROVE  TypeOK' /\ Started'
    <3>1. /\ issue' = [issue EXCEPT ![i] = [pc |-> "found", kind |-> kind, user |-> u,
                                           to |-> e, target |-> Nobody]]
          /\ UNCHANGED <<email, code, mail, using, crossed, interrupted, faults>>
          /\ issue[i].pc = "idle"
      BY <2>1 DEF Accept
    <3>2. TypeOK'
      BY <3>1 DEF TypeOK, using
    <3> QED BY <3>1, <3>2 DEF Started, TypeOK, using
  <2>2. ASSUME NEW i \in Issue, NEW e \in Email,
               \/ ForgotPassword(i, e) \/ ResendToken(i, e)
               \/ ResendVerificationEmail(i, e)
               \/ \E u \in User : RequestEmailChange(i, u, e)
        PROVE  TypeOK' /\ Started'
    BY <2>1, <2>2 DEF ForgotPassword, ResendToken, ResendVerificationEmail,
                      RequestEmailChange, Owner
  <2>3. ASSUME NEW i \in Issue, Target(i) PROVE TypeOK' /\ Started'
    <3>1. TargetOf(i) \in Email
      BY <2>3 DEF Target, TargetOf, TypeOK, Started
    <3>2. issue' = [issue EXCEPT ![i] =
                      [issue[i] EXCEPT !.pc = "targeted", !.target = TargetOf(i)]]
      BY <2>3, Zenon DEF Target
    <3>3. issue' \in [Issue -> IssueState]
      BY <3>1, <3>2, Sorts, IssueIsKept
    <3>4. TypeOK'
      BY <2>3, <3>3 DEF Target, TypeOK, IssueState, using
    <3> QED BY <2>3, <3>1, <3>4 DEF Target, Started, TypeOK, using
  <2>4. ASSUME NEW i \in Issue, NEW pc \in {"cleared", "created", "done"},
                issue' = [issue EXCEPT ![i].pc = pc]
         PROVE  issue' \in [Issue -> IssueState]
    <3>1. issue' = [issue EXCEPT ![i] = [issue[i] EXCEPT !.pc = pc]]
      BY <2>4, Zenon
    <3> QED BY <3>1, Sorts, IssueIsKept
  <2>5. ASSUME NEW i \in Issue, Clear(i) PROVE TypeOK' /\ Started'
    <3>1. code' \in [Issue -> Code]
      BY <2>5, Sorts, CodeIsKept DEF Clear, DropCodes
    <3>2. crossed' \subseteq Email
      BY <2>5 DEF Clear, TypeOK, Started
    <3>3. issue' \in [Issue -> IssueState]
      BY <2>5, <2>4 DEF Clear
    <3>4. TypeOK'
      BY <2>5, <3>1, <3>2, <3>3 DEF Clear, TypeOK, Code, IssueState, using
    <3> QED BY <2>5, <3>4 DEF Clear, Started, TypeOK, using
  <2>6. ASSUME NEW i \in Issue, Insert(i) PROVE TypeOK' /\ Started'
    <3>1. issue' \in [Issue -> IssueState]
      BY <2>6, <2>4 DEF Insert
    <3>2. code' \in [Issue -> Code]
      BY <2>6, Sorts DEF Insert, TypeOK, Started, Code
    <3>3. TypeOK'
      BY <2>6, <3>1, <3>2 DEF Insert, TypeOK, Code, IssueState, using
    <3> QED BY <2>6, <3>3 DEF Insert, Started, TypeOK, using
  <2>7. ASSUME NEW i \in Issue, Enqueue(i) PROVE TypeOK' /\ Started'
    <3>1. issue' \in [Issue -> IssueState]
      BY <2>7, <2>4 DEF Enqueue
    <3>2. TypeOK'
      BY <2>7, <3>1 DEF Enqueue, TypeOK, IssueState, using
    <3> QED BY <2>7, <3>2 DEF Enqueue, Started, TypeOK, using
  <2>8. ASSUME NEW i \in Issue, IssueFails(i) PROVE TypeOK' /\ Started'
    <3>1. issue' \in [Issue -> IssueState]
      BY <2>8, <2>4 DEF IssueFails
    <3>2. interrupted' \subseteq Issue \cup {Nobody} /\ faults' \in 0..MaxFaults
      BY <2>8, VerificationAssumption DEF IssueFails, Fault, TypeOK
    <3>3. TypeOK'
      BY <2>8, <3>1, <3>2 DEF IssueFails, TypeOK, IssueState, using
    <3> QED BY <2>8, <3>3 DEF IssueFails, Started, TypeOK, using
  <2>9. ASSUME NEW i \in Issue, Send(i) PROVE TypeOK' /\ Started'
    BY <2>9 DEF Send, Started, TypeOK, using, issuing
  <2>10. ASSUME NEW i \in Issue, SendFails(i) PROVE TypeOK' /\ Started'
    <3>1. TypeOK'
      BY <2>10, VerificationAssumption DEF SendFails, Fault, TypeOK, using, issuing
    <3> QED BY <2>10, <3>1 DEF SendFails, Started, TypeOK, using, issuing
  <2>11. ASSUME NEW i \in Issue, Expire(i) PROVE TypeOK' /\ Started'
    <3>1. code' = [code EXCEPT ![i] = [code[i] EXCEPT !.expired = TRUE]]
      BY <2>11, Zenon DEF Expire
    <3>2. code' \in [Issue -> Code]
      BY <3>1, Sorts, CodeIsKept
    <3> QED BY <2>11, <3>2 DEF Expire, Started, TypeOK, Code, using, issuing
  <2>12. ASSUME NEW v \in Use, NEW c \in Issue, NEW u \in User,
                NEW kind \in {"verifyToken", "resetPassword", "verifyEmail",
                              "changeEmail"},
                Present(v, kind, u, c)
         PROVE  TypeOK' /\ Started'
    <3>1. issue[c].to \in Email
      BY <2>12 DEF Present, Started
    <3>2. TypeOK'
      BY <2>12, <3>1 DEF Present, TypeOK, issuing
    <3> QED BY <2>12, <3>1, <3>2 DEF Present, Started, TypeOK, issuing
  <2>13. ASSUME NEW v \in Use, NEW c \in Issue,
                \/ VerifyToken(v, c) \/ ResetPassword(v, c) \/ VerifyEmail(v, c)
                \/ \E u \in User : ChangeEmail(v, u, c)
         PROVE  TypeOK' /\ Started'
    BY <2>12, <2>13 DEF VerifyToken, ResetPassword, VerifyEmail, ChangeEmail, Owner
  <2>14. ASSUME NEW v \in Use, Answer(v), UNCHANGED <<issue, mail>>
         PROVE  use' \in [Use -> UseState] /\ Started'
    BY <2>14 DEF Answer, IdleUse, UseState, Started, TypeOK
  <2>15. ASSUME NEW v \in Use, use[v].pc # "idle", UNCHANGED <<issue, mail>>,
                NEW pc \in {"marked", "lapsed", "checked", "changed", "valid", "expired",
                           "consumed"},
                Goto(v, pc)
         PROVE  use' \in [Use -> UseState] /\ Started'
    <3>1. use' = [use EXCEPT ![v] = [use[v] EXCEPT !.pc = pc]]
      BY <2>15, Zenon DEF Goto
    <3>2. use' \in [Use -> UseState]
      BY <3>1, Sorts, UseIsKept
    <3> QED BY <2>15, <3>1, <3>2 DEF Started, TypeOK
  <2>16. ASSUME NEW v \in Use, Reject(v) PROVE TypeOK' /\ Started'
    BY <2>14, <2>16 DEF Reject, TypeOK, UseState, issuing
  <2>17. ASSUME NEW v \in Use, Mark(v) PROVE TypeOK' /\ Started'
    <3>1. use[v].code \in Issue /\ use[v].pc # "idle" /\ UNCHANGED <<issue, mail>>
      BY <2>17 DEF Mark, Started, issuing
    <3>2. use' \in [Use -> UseState] /\ Started'
      BY <2>14, <2>15, <2>17, <3>1 DEF Mark
    <3>3. code' \in [Issue -> Code]
      <4>1. CASE code' = code
        BY <4>1 DEF TypeOK, Code
      <4>2. CASE code' = [code EXCEPT ![use[v].code].verified = TRUE]
        <5>1. code' = [code EXCEPT ![use[v].code] =
                         [code[use[v].code] EXCEPT !.verified = TRUE]]
          BY <4>2, Zenon
        <5> QED BY <3>1, <5>1, Sorts, CodeIsKept
      <4> QED BY <2>17, <4>1, <4>2 DEF Mark
    <3>4. late' \subseteq Issue
      BY <2>17, <3>1 DEF Mark, TypeOK
    <3> QED BY <2>17, <3>2, <3>3, <3>4 DEF Mark, TypeOK, UseState, Code, issuing
  <2>18. ASSUME NEW c \in Issue, code' = [code EXCEPT ![c].state = "deleted"]
         PROVE  code' \in [Issue -> Code]
    <3>1. code' = [code EXCEPT ![c] = [code[c] EXCEPT !.state = "deleted"]]
      BY <2>18, Zenon
    <3> QED BY <3>1, Sorts, CodeIsKept
  <2>19. ASSUME NEW v \in Use, Recheck(v) PROVE TypeOK' /\ Started'
    <3>1. use[v].pc # "idle" /\ UNCHANGED <<issue, mail>>
      BY <2>19 DEF Recheck, issuing
    <3>2. use' \in [Use -> UseState] /\ Started'
      BY <2>14, <2>15, <2>19, <3>1 DEF Recheck
    <3> QED BY <2>19, <3>2 DEF Recheck, TypeOK, UseState, issuing
  <2>20. ASSUME NEW v \in Use, CheckVerified(v) PROVE TypeOK' /\ Started'
    <3>1. use[v].code \in Issue /\ use[v].pc # "idle" /\ UNCHANGED <<issue, mail>>
      BY <2>20 DEF CheckVerified, Started, issuing
    <3>2. use' \in [Use -> UseState] /\ Started'
      BY <2>14, <2>15, <2>20, <3>1 DEF CheckVerified
    <3>3. racing' \subseteq Issue
      BY <2>20, <3>1 DEF CheckVerified, TypeOK
    <3> QED BY <2>20, <3>2, <3>3 DEF CheckVerified, TypeOK, UseState, issuing
  <2>21. ASSUME NEW v \in Use, WritePassword(v) PROVE TypeOK' /\ Started'
    <3>1. use[v].code \in Issue /\ use[v].pc # "idle" /\ UNCHANGED <<issue, mail>>
      BY <2>21 DEF WritePassword, Started, issuing
    <3>2. use' \in [Use -> UseState] /\ Started'
      BY <2>14, <2>15, <2>21, <3>1 DEF WritePassword
    <3>3. Owner(use[v].email) \subseteq User
      BY DEF Owner
    <3>4. resets' \subseteq Issue \X User
      BY <2>21, <3>1, <3>3 DEF WritePassword, TypeOK
    <3>5. reused' \subseteq Issue
      BY <2>21, <3>1 DEF WritePassword, TypeOK
    <3> QED BY <2>21, <3>2, <3>4, <3>5 DEF WritePassword, TypeOK, UseState, issuing
  <2>22. ASSUME NEW v \in Use, DeleteToken(v) PROVE TypeOK' /\ Started'
    <3>1. use' \in [Use -> UseState] /\ Started'
      BY <2>14, <2>22 DEF DeleteToken, issuing
    <3>2. use[v].code \in Issue
      BY <2>22 DEF DeleteToken, Started
    <3>3. code' \in [Issue -> Code]
      BY <2>18, <2>22, <3>2 DEF DeleteToken, DropToken, TypeOK, Code
    <3> QED BY <2>22, <3>1, <3>3 DEF DeleteToken, TypeOK, UseState, Code, issuing
  <2>23. ASSUME NEW v \in Use, Validate(v) PROVE TypeOK' /\ Started'
    <3>1. use[v].pc # "idle" /\ UNCHANGED <<issue, mail>>
      BY <2>23 DEF Validate, issuing
    <3>2. use' \in [Use -> UseState] /\ Started'
      BY <2>15, <2>23, <3>1 DEF Validate
    <3> QED BY <2>23, <3>2 DEF Validate, TypeOK, UseState, issuing
  <2>24. ASSUME NEW v \in Use, Consume(v) PROVE TypeOK' /\ Started'
    <3>1. /\ use[v].code \in Issue /\ use[v].email \in Email /\ use[v].pc # "idle"
          /\ UNCHANGED <<issue, mail>>
      BY <2>24 DEF Consume, Started, issuing
    <3>2. use' \in [Use -> UseState] /\ Started'
      BY <2>14, <2>15, <2>24, <3>1 DEF Consume
    <3>3. code' \in [Issue -> Code]
      BY <2>18, <2>24, <3>1 DEF Consume
    <3>4. proven' \subseteq Email
      BY <2>24, <3>1 DEF Consume, TypeOK
    <3> QED BY <2>24, <3>2, <3>3, <3>4 DEF Consume, TypeOK, UseState, Code, issuing
  <2>25. ASSUME NEW v \in Use, SetVerified(v) PROVE TypeOK' /\ Started'
    <3>1. use[v].user \in User /\ UNCHANGED <<issue, mail>>
      BY <2>25 DEF SetVerified, Started, issuing
    <3>2. use' \in [Use -> UseState] /\ Started'
      BY <2>14, <2>25, <3>1 DEF SetVerified
    <3> QED BY <2>25, <3>1, <3>2 DEF SetVerified, TypeOK, UseState, issuing
  <2>26. ASSUME NEW v \in Use, WriteEmail(v) PROVE TypeOK' /\ Started'
    <3>1. /\ use[v].user \in User /\ use[v].email \in Email /\ use[v].pc # "idle"
          /\ UNCHANGED <<issue, mail>>
      BY <2>26 DEF WriteEmail, Started, issuing
    <3>2. use' \in [Use -> UseState] /\ Started'
      BY <2>14, <2>15, <2>26, <3>1 DEF WriteEmail
    <3>3. email' \in [User -> Email] /\ left' \subseteq Email /\ unproven' \subseteq User
      BY <2>26, <3>1 DEF WriteEmail, TypeOK
    <3> QED BY <2>26, <3>2, <3>3 DEF WriteEmail, TypeOK, UseState, issuing
  <2>27. ASSUME NEW v \in Use, UseFails(v) PROVE TypeOK' /\ Started'
    <3>1. use[v].code \in Issue
      BY <2>27 DEF UseFails, Started
    <3>2. use' \in [Use -> UseState] /\ Started'
      BY <2>14, <2>27 DEF UseFails, issuing
    <3>3. interrupted' \subseteq Issue \cup {Nobody} /\ faults' \in 0..MaxFaults
      BY <2>27, <3>1, VerificationAssumption DEF UseFails, Fault, TypeOK
    <3> QED BY <2>27, <3>2, <3>3 DEF UseFails, TypeOK, UseState, issuing
  <2>28. CASE Crash
    <3>1. issue' \in [Issue -> IssueState]
      <4>1. IdleIssue \in IssueState
        BY DEF IdleIssue, IssueState
      <4> QED BY <2>28, <4>1, Sorts, IssueIsKept DEF Crash
    <3>2. use' \in [Use -> UseState]
      BY <2>28 DEF Crash, IdleUse, UseState
    <3>3. interrupted' \subseteq Issue \cup {Nobody} /\ faults' \in 0..MaxFaults
      BY <2>28, VerificationAssumption DEF Crash, Fault, TypeOK
    <3>4. TypeOK'
      BY <2>28, <3>1, <3>2, <3>3 DEF Crash, TypeOK, IssueState, UseState
    <3>5. \A i \in Issue :
            /\ issue'[i].pc \in {"idle", "done"}
            /\ issue[i].pc = "idle" <=> issue'[i].pc = "idle"
            /\ issue[i].pc # "idle" => issue'[i].user = issue[i].user
                                       /\ issue'[i].to = issue[i].to
      BY <2>28 DEF Crash, IdleIssue, TypeOK
    <3>6. \A v \in Use : use'[v].pc = "idle"
      BY <2>28 DEF Crash, IdleUse
    <3>7. mail' = mail
      BY <2>28 DEF Crash
    <3>8. \A i \in Issue : mail'[i] # "none" => issue'[i].pc = "done"
      BY <3>5, <3>7 DEF Started
    <3> QED BY <3>4, <3>5, <3>6, <3>8 DEF Started
  <2>29. CASE UNCHANGED vars
    BY <2>29 DEF vars, TypeOK, Started
  <2>30. ASSUME NEW v \in Use, DeleteExpired(v) PROVE TypeOK' /\ Started'
    <3>1. use' \in [Use -> UseState] /\ Started'
      BY <2>14, <2>30 DEF DeleteExpired, issuing
    <3>2. use[v].code \in Issue
      BY <2>30 DEF DeleteExpired, Started
    <3>3. code' \in [Issue -> Code]
      BY <2>18, <2>30, <3>2 DEF DeleteExpired, DropExpired
    <3> QED BY <2>30, <3>1, <3>3 DEF DeleteExpired, TypeOK, UseState, Code, issuing
  <2>31. ASSUME NEW u \in User, NEW e \in Email, UpdateEmail(u, e)
         PROVE  TypeOK' /\ Started'
    <3>1. email' \in [User -> Email] /\ left' \subseteq Email /\ unproven' \subseteq User
      BY <2>31 DEF UpdateEmail, TypeOK
    <3> QED BY <2>31, <3>1 DEF UpdateEmail, TypeOK, Started, issuing
  <2> QED BY <2>2, <2>3, <2>5, <2>6, <2>7, <2>8, <2>9, <2>10, <2>11, <2>13, <2>16, <2>17,
             <2>19, <2>20, <2>21, <2>22, <2>23, <2>24, <2>25, <2>26, <2>27, <2>28, <2>29,
             <2>30, <2>31
          DEF Next, IssueStep, UseStep
<1> QED BY <1>1, <1>2, PTL DEF Spec

\* The state keeps its shape.
THEOREM TypeCorrect == Spec => []TypeOK
  BY Typed, PTL

-----------------------------------------------------------------------------
(* What steps leave alone.                                                 *)

\* A row comes after its request has deleted the older ones, belongs to the
\* account and the address of its request, and is there when it is mailed.
Rows ==
    /\ \A i \in Issue : code[i].state # "none" =>
           /\ issue[i].pc \in {"created", "done"}
           /\ code[i].user = issue[i].user /\ code[i].email = issue[i].target
           /\ code[i].email \in Email
    /\ \A i \in Issue : issue[i].pc = "created" => code[i].state # "none"
    /\ \A i \in Issue : mail[i] # "none" => code[i].state # "none"

\* A row stays what it is, is never put in force again, and does not get young;
\* only its own request makes it.
LEMMA CodeFrame ==
    ASSUME TypeOK, Started, Rows, [Next]_vars
    PROVE  /\ \A c \in Issue : code[c].state # "none" =>
                /\ code'[c].state # "none" /\ code'[c].user = code[c].user
                /\ code'[c].email = code[c].email
                /\ code[c].state = "deleted" => code'[c].state = "deleted"
                /\ code[c].expired => code'[c].expired
           /\ \A c \in Issue : code[c].state = "none" => code'[c] = code[c] \/ Insert(c)
<1> DEFINE Frame ==
             /\ \A c \in Issue : code[c].state # "none" =>
                  /\ code'[c].state # "none" /\ code'[c].user = code[c].user
                  /\ code'[c].email = code[c].email
                  /\ code[c].state = "deleted" => code'[c].state = "deleted"
                  /\ code[c].expired => code'[c].expired
             /\ \A c \in Issue : code[c].state = "none" => code'[c] = code[c] \/ Insert(c)
<1>1. CASE UNCHANGED code
  BY <1>1
<1>2. ASSUME NEW i \in Issue, Insert(i) PROVE Frame
  <2>1. code[i].state = "none"
    BY <1>2 DEF Insert, Rows
  <2>2. \A c \in Issue \ {i} : code'[c] = code[c]
    BY <1>2 DEF Insert, TypeOK
  <2> QED BY <1>2, <2>1, <2>2
<1>3. ASSUME NEW i \in Issue, Clear(i) PROVE Frame
  <2>1. \A c \in Issue : \/ code'[c] = code[c]
                         \/ /\ code[c].state = "live"
                            /\ code'[c] = [code[c] EXCEPT !.state = "deleted"]
    BY <1>3 DEF Clear, DropCodes, Live
  <2>2. \A c \in Issue : code[c] \in Code
    BY Sorts
  <2>3. ASSUME NEW c \in Issue, code'[c] = [code[c] EXCEPT !.state = "deleted"]
        PROVE  /\ code'[c].state = "deleted" /\ code'[c].user = code[c].user
               /\ code'[c].email = code[c].email /\ code'[c].expired = code[c].expired
    BY <2>2, <2>3 DEF Code
  <2> QED BY <2>1, <2>3
<1>4. ASSUME NEW c \in Issue, code[c].state # "none",
             code'[c].state \in {code[c].state, "deleted"},
             code'[c].user = code[c].user, code'[c].email = code[c].email,
             code[c].expired => code'[c].expired,
             \A d \in Issue \ {c} : code'[d] = code[d]
      PROVE  Frame
  BY <1>4
<1>5. ASSUME NEW i \in Issue, Expire(i) PROVE Frame
  <2>1. code[i].state # "none" /\ code' = [code EXCEPT ![i].expired = TRUE]
    BY <1>5 DEF Expire, Live
  <2>2. /\ code'[i].state = code[i].state /\ code'[i].user = code[i].user
        /\ code'[i].email = code[i].email /\ code'[i].expired
        /\ \A d \in Issue \ {i} : code'[d] = code[d]
    BY <2>1 DEF TypeOK
  <2> QED BY <1>4, <2>1, <2>2
<1>6. ASSUME NEW v \in Use,
             Mark(v) \/ DeleteExpired(v) \/ DeleteToken(v) \/ Consume(v)
      PROVE  Frame
  <2> DEFINE c == use[v].code
  <2>1. c \in Issue /\ code[c].state # "none"
    BY <1>6 DEF Mark, DeleteExpired, DeleteToken, Consume, Started, Rows
  <2>2. \/ code' = code \/ code' = [code EXCEPT ![c].verified = TRUE]
        \/ code' = [code EXCEPT ![c].state = "deleted"]
    BY <1>6 DEF Mark, DeleteExpired, DropExpired, DeleteToken, DropToken, Consume
  <2>3. CASE code' = code
    BY <2>3
  <2>4. CASE code' = [code EXCEPT ![c].verified = TRUE]
    <3>1. /\ code'[c].state = code[c].state /\ code'[c].user = code[c].user
          /\ code'[c].email = code[c].email /\ code'[c].expired = code[c].expired
          /\ \A d \in Issue \ {c} : code'[d] = code[d]
      BY <2>1, <2>4 DEF TypeOK
    <3> QED BY <1>4, <2>1, <3>1
  <2>5. CASE code' = [code EXCEPT ![c].state = "deleted"]
    <3>1. /\ code'[c].state = "deleted" /\ code'[c].user = code[c].user
          /\ code'[c].email = code[c].email /\ code'[c].expired = code[c].expired
          /\ \A d \in Issue \ {c} : code'[d] = code[d]
      BY <2>1, <2>5 DEF TypeOK
    <3> QED BY <1>4, <2>1, <3>1
  <2> QED BY <2>2, <2>3, <2>4, <2>5
<1> QED BY <1>1, <1>2, <1>3, <1>5, <1>6, CodeSteps

\* A request starts, for an account that has the address it names.
Starts(i) ==
    \E u \in User, e \in Email :
        \/ Accept(i, "new", u, e)
        \/ Accept(i, "own", u, e) /\ email[u] = e

\* What becomes of the requests that issue codes.
LEMMA IssueSteps ==
    ASSUME TypeOK, [Next]_vars
    PROVE  \/ UNCHANGED <<issue, crossed>>
           \/ \E i \in Issue : Starts(i) \/ IssueStep(i) \/ IssueFails(i)
           \/ Crash
<1>1. ASSUME NEW i \in Issue, NEW e \in Email,
             \/ ForgotPassword(i, e) \/ ResendToken(i, e)
             \/ ResendVerificationEmail(i, e) \/ \E u \in User : RequestEmailChange(i, u, e)
      PROVE  Starts(i)
  <2>1. ASSUME NEW u \in Owner(e), Accept(i, "own", u, e) PROVE Starts(i)
    BY <2>1 DEF Owner, Starts
  <2>2. ASSUME NEW u \in User, Accept(i, "new", u, e) PROVE Starts(i)
    BY <2>2 DEF Starts
  <2> QED BY <1>1, <2>1, <2>2 DEF ForgotPassword, ResendToken, ResendVerificationEmail,
                                  RequestEmailChange
<1>2. ASSUME NEW i \in Issue, Send(i) \/ SendFails(i) \/ Expire(i)
      PROVE  UNCHANGED <<issue, crossed>>
  BY <1>2 DEF Send, SendFails, Expire, issuing
<1>3. ASSUME NEW v \in Use, NEW c \in Issue,
             \/ VerifyToken(v, c) \/ ResetPassword(v, c) \/ VerifyEmail(v, c)
             \/ \E u \in User : ChangeEmail(v, u, c)
      PROVE  UNCHANGED <<issue, crossed>>
  BY <1>3 DEF VerifyToken, ResetPassword, VerifyEmail, ChangeEmail, Present, issuing
<1>4. ASSUME NEW v \in Use, UseStep(v) \/ UseFails(v)
      PROVE  UNCHANGED <<issue, crossed>>
  BY <1>4 DEF UseStep, Reject, Mark, Recheck, DeleteExpired, CheckVerified,
              WritePassword, DeleteToken, Validate, Consume, SetVerified, WriteEmail,
              UseFails, issuing
<1>5. CASE UNCHANGED vars \/ \E u \in User, e \in Email : UpdateEmail(u, e)
  BY <1>5 DEF vars, UpdateEmail, issuing
<1>6. CASE Next
  <2>1. \/ \E i \in Issue, e \in Email :
             \/ ForgotPassword(i, e) \/ ResendToken(i, e)
             \/ ResendVerificationEmail(i, e)
             \/ \E u \in User : RequestEmailChange(i, u, e)
        \/ \E i \in Issue : IssueStep(i) \/ IssueFails(i)
        \/ \E i \in Issue : Send(i) \/ SendFails(i) \/ Expire(i)
        \/ \E v \in Use, c \in Issue :
             \/ VerifyToken(v, c) \/ ResetPassword(v, c) \/ VerifyEmail(v, c)
             \/ \E u \in User : ChangeEmail(v, u, c)
        \/ \E v \in Use : UseStep(v) \/ UseFails(v)
        \/ \E u \in User, e \in Email : UpdateEmail(u, e)
        \/ Crash
    BY <1>6, Zenon DEF Next
  <2> QED BY <1>1, <1>2, <1>3, <1>4, <1>5, <2>1
<1> QED BY <1>5, <1>6

\* A request that has inserted its row changes in nothing but its progress.
LEMMA IssueFrame ==
    ASSUME TypeOK, [Next]_vars
    PROVE  \A i \in Issue : issue[i].pc \in {"created", "done"} =>
             /\ issue'[i].pc \in {"created", "done"}
             /\ issue'[i].kind = issue[i].kind /\ issue'[i].user = issue[i].user
             /\ issue'[i].to = issue[i].to /\ issue'[i].target = issue[i].target
<1> SUFFICES ASSUME NEW i \in Issue, issue[i].pc \in {"created", "done"}
             PROVE  /\ issue'[i].pc \in {"created", "done"}
                    /\ issue'[i].kind = issue[i].kind /\ issue'[i].user = issue[i].user
                    /\ issue'[i].to = issue[i].to /\ issue'[i].target = issue[i].target
  OBVIOUS
<1>1. ASSUME NEW j \in Issue, Starts(j) PROVE issue'[i] = issue[i]
  BY <1>1 DEF Starts, Accept, TypeOK
<1>2. ASSUME NEW j \in Issue, Target(j) \/ Clear(j) \/ Insert(j)
      PROVE  issue'[i] = issue[i]
  BY <1>2 DEF Target, Clear, Insert, TypeOK
<1>3. ASSUME NEW j \in Issue, Enqueue(j) \/ IssueFails(j),
             issue' = [issue EXCEPT ![j].pc = "done"]
      PROVE  issue'[i] = issue[i] \/ issue'[i] = [issue[i] EXCEPT !.pc = "done"]
  BY <1>3 DEF TypeOK
<1>4. ASSUME NEW j \in Issue, Enqueue(j) \/ IssueFails(j)
      PROVE  issue'[i] = issue[i] \/ issue'[i] = [issue[i] EXCEPT !.pc = "done"]
  BY <1>3, <1>4 DEF Enqueue, IssueFails
<1>5. ASSUME Crash
      PROVE  issue'[i] = issue[i] \/ issue'[i] = [issue[i] EXCEPT !.pc = "done"]
  BY <1>5 DEF Crash
<1>6. \/ issue'[i] = issue[i] \/ issue'[i] = [issue[i] EXCEPT !.pc = "done"]
  <2>1. CASE \E j \in Issue : Starts(j)
    BY <1>1, <2>1
  <2>2. CASE \E j \in Issue : IssueStep(j) \/ IssueFails(j)
    BY <1>2, <1>4, <2>2 DEF IssueStep
  <2>3. CASE UNCHANGED <<issue, crossed>>
    BY <2>3
  <2> QED BY <1>5, <2>1, <2>2, <2>3, IssueSteps
<1>7. issue[i] \in IssueState
  BY Sorts
<1> QED BY <1>6, <1>7 DEF IssueState

\* The histories only grow, and only WriteEmail and UpdateEmail change an address.
LEMMA Grow ==
    ASSUME [Next]_vars
    PROVE  /\ left \subseteq left' /\ proven \subseteq proven'
           /\ racing \subseteq racing' /\ crossed \subseteq crossed'
           /\ interrupted \subseteq interrupted'
           /\ \/ UNCHANGED <<email, left, unproven>>
              \/ \E v \in Use : WriteEmail(v)
              \/ \E u \in User, e \in Email : UpdateEmail(u, e)
<1> DEFINE Goal == /\ left \subseteq left' /\ proven \subseteq proven'
                   /\ racing \subseteq racing' /\ crossed \subseteq crossed'
                   /\ interrupted \subseteq interrupted'
                   /\ \/ UNCHANGED <<email, left, unproven>>
                      \/ \E v \in Use : WriteEmail(v)
                      \/ \E u \in User, e \in Email : UpdateEmail(u, e)
<1>1. ASSUME NEW i \in Issue, NEW e \in Email,
             \/ ForgotPassword(i, e) \/ ResendToken(i, e)
             \/ ResendVerificationEmail(i, e) \/ \E u \in User : RequestEmailChange(i, u, e)
      PROVE  Goal
  BY <1>1 DEF ForgotPassword, ResendToken, ResendVerificationEmail, RequestEmailChange,
              Accept, using
<1>2. ASSUME NEW i \in Issue, IssueStep(i) PROVE Goal
  BY <1>2 DEF IssueStep, Target, Clear, Insert, Enqueue, using
<1>3. ASSUME NEW i \in Issue, IssueFails(i) \/ Send(i) \/ SendFails(i) \/ Expire(i)
      PROVE  Goal
  BY <1>3 DEF IssueFails, Send, SendFails, Expire, Fault, using, issuing
<1>4. ASSUME NEW v \in Use, NEW c \in Issue,
             \/ VerifyToken(v, c) \/ ResetPassword(v, c) \/ VerifyEmail(v, c)
             \/ \E u \in User : ChangeEmail(v, u, c)
      PROVE  Goal
  BY <1>4 DEF VerifyToken, ResetPassword, VerifyEmail, ChangeEmail, Present, issuing
<1>5. ASSUME NEW v \in Use, UseStep(v) PROVE Goal
  <2>1. CASE \/ Reject(v) \/ Mark(v) \/ Recheck(v) \/ DeleteExpired(v)
             \/ CheckVerified(v) \/ WritePassword(v)
    BY <2>1 DEF Reject, Mark, Recheck, DeleteExpired, CheckVerified, WritePassword, issuing
  <2>2. CASE DeleteToken(v) \/ Validate(v) \/ Consume(v) \/ SetVerified(v)
    BY <2>2 DEF DeleteToken, Validate, Consume, SetVerified, issuing
  <2>3. CASE WriteEmail(v)
    <3>1. /\ left \subseteq left'
          /\ UNCHANGED <<proven, racing, crossed, interrupted>>
      BY <2>3 DEF WriteEmail, issuing
    <3> QED BY <2>3, <3>1
  <2> QED BY <1>5, <2>1, <2>2, <2>3 DEF UseStep
<1>6. ASSUME NEW v \in Use, UseFails(v) PROVE Goal
  BY <1>6 DEF UseFails, Fault, issuing
<1>7. CASE Crash
  BY <1>7 DEF Crash, Fault
<1>8. CASE UNCHANGED vars
  BY <1>8 DEF vars
<1>9. ASSUME NEW u \in User, NEW e \in Email, UpdateEmail(u, e) PROVE Goal
  <2>1. left \subseteq left' /\ UNCHANGED <<proven, racing, crossed, interrupted>>
    BY <1>9 DEF UpdateEmail, issuing
  <2> QED BY <1>9, <2>1
<1> QED BY <1>1, <1>2, <1>3, <1>4, <1>5, <1>6, <1>7, <1>8, <1>9 DEF Next

\* A row is its request's.
LEMMA RowsHold == Spec => []Rows
<1>1. Init => Rows
  BY DEF Init, Rows, NoCode, IdleIssue
<1>2. TypeOK /\ Started /\ Rows /\ [Next]_vars => Rows'
  <2> SUFFICES ASSUME TypeOK, Started, Rows, [Next]_vars PROVE Rows'
    OBVIOUS
  <2>1. ASSUME NEW i \in Issue, code'[i].state # "none"
        PROVE  /\ issue'[i].pc \in {"created", "done"}
               /\ code'[i].user = issue'[i].user /\ code'[i].email = issue'[i].target
               /\ code'[i].email \in Email
    <3>1. CASE code[i].state # "none"
      BY <3>1, CodeFrame, IssueFrame DEF Rows
    <3>2. CASE code[i].state = "none"
      <4>1. Insert(i)
        BY <2>1, <3>2, CodeFrame
      <4> QED BY <4>1 DEF Insert, TypeOK, Started
    <3> QED BY <3>1, <3>2
  <2>2. ASSUME NEW i \in Issue, issue'[i].pc = "created" PROVE code'[i].state # "none"
    <3>1. CASE issue[i].pc = "created"
      BY <3>1, CodeFrame DEF Rows
    <3>2. CASE issue[i].pc # "created"
      <4>1. ASSUME NEW j \in Issue, Insert(j) PROVE code'[i].state # "none"
        BY <2>2, <3>2, <4>1 DEF Insert, TypeOK
      <4>2. ASSUME NEW j \in Issue, Starts(j) PROVE FALSE
        BY <2>2, <3>2, <4>2 DEF Starts, Accept, TypeOK
      <4>3. ASSUME NEW j \in Issue, Target(j) \/ Clear(j) \/ Enqueue(j) \/ IssueFails(j)
            PROVE  FALSE
        <5>1. CASE Target(j)
          BY <2>2, <3>2, <5>1 DEF Target, TypeOK
        <5>2. CASE Clear(j)
          BY <2>2, <3>2, <5>2 DEF Clear, TypeOK
        <5>3. CASE Enqueue(j)
          BY <2>2, <3>2, <5>3 DEF Enqueue, TypeOK
        <5>4. CASE IssueFails(j)
          BY <2>2, <3>2, <5>4 DEF IssueFails, TypeOK
        <5> QED BY <4>3, <5>1, <5>2, <5>3, <5>4
      <4>4. ASSUME Crash PROVE FALSE
        BY <2>2, <4>4 DEF Crash, IdleIssue, TypeOK
      <4>5. ~UNCHANGED <<issue, crossed>>
        BY <2>2, <3>2
      <4> QED BY <4>1, <4>2, <4>3, <4>4, <4>5, IssueSteps DEF IssueStep
    <3> QED BY <3>1, <3>2
  <2>3. ASSUME NEW i \in Issue, mail'[i] # "none" PROVE code'[i].state # "none"
    <3>1. CASE mail[i] # "none"
      BY <3>1, CodeFrame DEF Rows
    <3>2. CASE issue[i].pc = "created"
      BY <3>2, CodeFrame DEF Rows
    <3>3. ASSUME mail[i] = "none", issue[i].pc # "created" PROVE FALSE
      <4>1. ASSUME NEW j \in Issue, Enqueue(j) \/ Send(j) \/ SendFails(j) PROVE FALSE
        BY <2>3, <3>3, <4>1 DEF Enqueue, Send, SendFails, TypeOK
      <4>2. mail' # mail
        BY <2>3, <3>3
      <4>3. ASSUME NEW j \in Issue, Starts(j) \/ Target(j) \/ Clear(j) \/ Insert(j)
                                   \/ IssueFails(j)
            PROVE  mail' = mail
        BY <4>3 DEF Starts, Accept, Target, Clear, Insert, IssueFails
      <4>4. ASSUME Crash PROVE mail' = mail
        BY <4>4 DEF Crash
      <4>5. UNCHANGED issue
        BY <4>1, <4>2, <4>3, <4>4, IssueSteps DEF IssueStep
      <4>6. ASSUME NEW j \in Issue, Starts(j) \/ Target(j) \/ Clear(j) \/ Insert(j)
                                   \/ IssueFails(j)
            PROVE  FALSE
        BY <4>2, <4>3, <4>6
      <4>7. \A j \in Issue, e \in Email :
              /\ ~ForgotPassword(j, e) /\ ~ResendToken(j, e)
              /\ ~ResendVerificationEmail(j, e)
              /\ \A u \in User : ~RequestEmailChange(j, u, e)
        BY <4>2 DEF ForgotPassword, ResendToken, ResendVerificationEmail,
                    RequestEmailChange, Accept
      <4>8. ASSUME NEW j \in Issue, Expire(j) PROVE FALSE
        BY <4>2, <4>8 DEF Expire
      <4>9. \A v \in Use, c \in Issue :
              /\ ~VerifyToken(v, c) /\ ~ResetPassword(v, c) /\ ~VerifyEmail(v, c)
              /\ \A u \in User : ~ChangeEmail(v, u, c)
        BY <4>2 DEF VerifyToken, ResetPassword, VerifyEmail, ChangeEmail, Present
      <4>10. ASSUME NEW v \in Use, UseStep(v) \/ UseFails(v) PROVE FALSE
        BY <4>2, <4>10
           DEF UseStep, Reject, Mark, Recheck, DeleteExpired, CheckVerified, WritePassword,
               DeleteToken, Validate, Consume, SetVerified, WriteEmail, UseFails
      <4>11. ~UNCHANGED vars /\ \A u \in User, e \in Email : ~UpdateEmail(u, e)
        BY <4>2 DEF vars, UpdateEmail
      <4> QED BY <4>1, <4>2, <4>4, <4>6, <4>7, <4>8, <4>9, <4>10, <4>11
              DEF Next, IssueStep
    <3> QED BY <3>1, <3>2, <3>3
  <2> QED BY <2>1, <2>2, <2>3 DEF Rows
<1> QED BY <1>1, <1>2, Typed, PTL DEF Spec

\* What becomes of the request in a slot: it ends, it starts, or it takes the
\* step that its state allows.
LEMMA UseSteps ==
    ASSUME TypeOK, Started, [Next]_vars, NEW v \in Use
    PROVE  \/ use'[v] = use[v]
           \/ use'[v] = IdleUse
           \/ \E c \in Issue, u \in User :
                 \/ \E kind \in {"verifyToken", "resetPassword", "changeEmail"} :
                       Present(v, kind, u, c)
                 \/ Present(v, "verifyEmail", u, c) /\ email[u] = issue[c].to
           \/ Mark(v) /\ Goto(v, "marked")
           \/ Recheck(v) /\ Goto(v, "lapsed")
           \/ CheckVerified(v) /\ Goto(v, "checked")
           \/ WritePassword(v) /\ Goto(v, "changed")
           \/ Validate(v)
           \/ Consume(v) /\ Goto(v, "consumed")
           \/ WriteEmail(v) /\ Goto(v, "changed")
<1> DEFINE Goal ==
           \/ use'[v] = use[v]
           \/ use'[v] = IdleUse
           \/ \E c \in Issue, u \in User :
                 \/ \E kind \in {"verifyToken", "resetPassword", "changeEmail"} :
                       Present(v, kind, u, c)
                 \/ Present(v, "verifyEmail", u, c) /\ email[u] = issue[c].to
           \/ Mark(v) /\ Goto(v, "marked")
           \/ Recheck(v) /\ Goto(v, "lapsed")
           \/ CheckVerified(v) /\ Goto(v, "checked")
           \/ WritePassword(v) /\ Goto(v, "changed")
           \/ Validate(v)
           \/ Consume(v) /\ Goto(v, "consumed")
           \/ WriteEmail(v) /\ Goto(v, "changed")
<1>1. ASSUME UNCHANGED use PROVE Goal
  BY <1>1
<1>2. ASSUME NEW i \in Issue, NEW e \in Email,
             \/ ForgotPassword(i, e) \/ ResendToken(i, e)
             \/ ResendVerificationEmail(i, e) \/ \E u \in User : RequestEmailChange(i, u, e)
      PROVE  UNCHANGED use
  BY <1>2 DEF ForgotPassword, ResendToken, ResendVerificationEmail, RequestEmailChange,
              Accept, using
<1>3. ASSUME NEW i \in Issue, IssueStep(i) PROVE UNCHANGED use
  BY <1>3 DEF IssueStep, Target, Clear, Insert, Enqueue, using
<1>4. ASSUME NEW i \in Issue, IssueFails(i) \/ Send(i) \/ SendFails(i) \/ Expire(i)
      PROVE  UNCHANGED use
  BY <1>4 DEF IssueFails, Send, SendFails, Expire, using
<1>5. ASSUME NEW w \in Use, w # v, Answer(w) PROVE use'[v] = use[v]
  BY <1>5 DEF Answer, TypeOK
<1>6. ASSUME NEW w \in Use, w # v, NEW pc, Goto(w, pc) PROVE use'[v] = use[v]
  BY <1>6 DEF Goto, TypeOK
<1>7. ASSUME Answer(v) PROVE use'[v] = IdleUse
  BY <1>7 DEF Answer, TypeOK
<1>8. ASSUME NEW w \in Use, NEW c \in Issue, NEW u \in User,
             NEW kind \in {"verifyToken", "resetPassword", "verifyEmail", "changeEmail"},
             Present(w, kind, u, c), w # v
      PROVE  use'[v] = use[v]
  BY <1>8 DEF Present, TypeOK
<1>9. ASSUME NEW w \in Use, NEW c \in Issue,
             \/ VerifyToken(w, c) \/ ResetPassword(w, c) \/ VerifyEmail(w, c)
             \/ \E u \in User : ChangeEmail(w, u, c)
      PROVE  Goal
  <2>1. CASE w # v
    BY <1>8, <1>9, <2>1 DEF VerifyToken, ResetPassword, VerifyEmail, ChangeEmail, Owner
  <2>2. CASE w = v
    BY <1>9, <2>2 DEF VerifyToken, ResetPassword, VerifyEmail, ChangeEmail, Owner
  <2> QED BY <2>1, <2>2
<1>10. ASSUME NEW w \in Use, UseStep(w) \/ UseFails(w) PROVE Goal
  <2>1. CASE w # v
    BY <1>5, <1>6, <1>10, <2>1
       DEF UseStep, Reject, Mark, Recheck, DeleteExpired, CheckVerified, WritePassword,
           DeleteToken, Validate, Consume, SetVerified, WriteEmail, UseFails
  <2>2. CASE w = v
    <3>1. CASE \/ Reject(v) \/ DeleteExpired(v) \/ DeleteToken(v) \/ SetVerified(v)
               \/ UseFails(v)
      BY <1>7, <3>1 DEF Reject, DeleteExpired, DeleteToken, SetVerified, UseFails
    <3>2. CASE Mark(v)
      <4>1. Answer(v) \/ Goto(v, "marked")
        BY <3>2 DEF Mark
      <4> QED BY <1>7, <3>2, <4>1
    <3>3. CASE CheckVerified(v)
      <4>1. Answer(v) \/ Goto(v, "checked")
        BY <3>3 DEF CheckVerified
      <4> QED BY <1>7, <3>3, <4>1
    <3>4. CASE WritePassword(v)
      <4>1. Answer(v) \/ Goto(v, "changed")
        BY <3>4 DEF WritePassword
      <4> QED BY <1>7, <3>4, <4>1
    <3>5. CASE Validate(v)
      BY <3>5
    <3>6. CASE Consume(v)
      <4>1. Answer(v) \/ Goto(v, "consumed")
        BY <3>6 DEF Consume
      <4> QED BY <1>7, <3>6, <4>1
    <3>7. CASE WriteEmail(v)
      <4>1. Answer(v) \/ Goto(v, "changed")
        BY <3>7 DEF WriteEmail
      <4> QED BY <1>7, <3>7, <4>1
    <3>8. CASE Recheck(v)
      <4>1. Answer(v) \/ Goto(v, "lapsed")
        BY <3>8 DEF Recheck
      <4> QED BY <1>7, <3>8, <4>1
    <3> QED BY <1>10, <2>2, <3>1, <3>2, <3>3, <3>4, <3>5, <3>6, <3>7, <3>8 DEF UseStep
  <2> QED BY <2>1, <2>2
<1>11. ASSUME Crash PROVE use'[v] = IdleUse
  BY <1>11 DEF Crash
<1>12. CASE UNCHANGED vars \/ \E u \in User, e \in Email : UpdateEmail(u, e)
  BY <1>1, <1>12 DEF vars, UpdateEmail
<1> QED BY <1>1, <1>2, <1>3, <1>4, <1>9, <1>10, <1>11, <1>12 DEF Next

\* A request that has found its row has the address of that row, and each
\* state belongs to the kinds that reach it.
Asked ==
    \A v \in Use :
        /\ use[v].pc \notin {"idle", "found"} => code[use[v].code].email = use[v].email
        /\ use[v].pc = "checked" => use[v].kind = "resetPassword"
        /\ use[v].pc \in {"valid", "expired", "consumed"} =>
             use[v].kind \in {"verifyEmail", "changeEmail"}

LEMMA AskedHolds == Spec => []Asked
<1>1. Init => Asked
  BY DEF Init, Asked, IdleUse
<1>2. TypeOK /\ Started /\ Rows /\ Asked /\ [Next]_vars => Asked'
  <2> SUFFICES ASSUME TypeOK, Started, Rows, Asked, [Next]_vars, NEW v \in Use
               PROVE  /\ use'[v].pc \notin {"idle", "found"} =>
                            code'[use'[v].code].email = use'[v].email
                      /\ use'[v].pc = "checked" => use'[v].kind = "resetPassword"
                      /\ use'[v].pc \in {"valid", "expired", "consumed"} =>
                            use'[v].kind \in {"verifyEmail", "changeEmail"}
    BY DEF Asked
  <2>1. use[v].pc # "idle" =>
          use[v].code \in Issue /\ code'[use[v].code].email = code[use[v].code].email
    BY CodeFrame DEF Started, Rows
  <2>2. CASE use'[v] = use[v] \/ use'[v] = IdleUse
    BY <2>1, <2>2 DEF Asked, IdleUse
  <2>3. ASSUME NEW kind, NEW u, NEW c, Present(v, kind, u, c)
        PROVE  use'[v].pc = "found"
    BY <2>3 DEF Present, TypeOK
  <2>4. ASSUME NEW pc \in {"marked", "lapsed", "checked", "changed", "valid", "expired",
                          "consumed"},
               Goto(v, pc)
        PROVE  /\ use'[v].pc = pc /\ use'[v].kind = use[v].kind
               /\ use'[v].code = use[v].code /\ use'[v].email = use[v].email
    BY <2>4 DEF Goto, TypeOK
  <2>5. CASE Mark(v) /\ Goto(v, "marked")
    BY <2>1, <2>4, <2>5 DEF Mark, Selects
  <2>6. CASE CheckVerified(v) /\ Goto(v, "checked")
    BY <2>1, <2>4, <2>6 DEF CheckVerified, Selects
  <2>7. CASE WritePassword(v) /\ Goto(v, "changed")
    BY <2>1, <2>4, <2>7 DEF WritePassword, Asked
  <2>8. CASE Validate(v)
    BY <2>1, <2>4, <2>8 DEF Validate, Selects
  <2>9. CASE Consume(v) /\ Goto(v, "consumed")
    BY <2>1, <2>4, <2>9 DEF Consume, Asked
  <2>10. CASE WriteEmail(v) /\ Goto(v, "changed")
    BY <2>1, <2>4, <2>10 DEF WriteEmail, Asked
  <2>11. CASE Recheck(v) /\ Goto(v, "lapsed")
    BY <2>1, <2>4, <2>11 DEF Recheck, Asked
  <2> QED BY <2>2, <2>3, <2>5, <2>6, <2>7, <2>8, <2>9, <2>10, <2>11, UseSteps
<1> QED BY <1>1, <1>2, Typed, RowsHold, PTL DEF Spec

\* Who writes the histories and users.email_verified_at.
LEMMA Writers ==
    ASSUME [Next]_vars
    PROVE  /\ UNCHANGED verified \/ \E v \in Use : SetVerified(v)
           /\ UNCHANGED <<resets, reused>> \/ \E v \in Use : WritePassword(v)
           /\ UNCHANGED late \/ \E v \in Use : Mark(v)
<1> DEFINE Goal == /\ UNCHANGED verified \/ \E v \in Use : SetVerified(v)
                   /\ UNCHANGED <<resets, reused>> \/ \E v \in Use : WritePassword(v)
                   /\ UNCHANGED late \/ \E v \in Use : Mark(v)
<1>1. ASSUME UNCHANGED using PROVE Goal
  BY <1>1 DEF using
<1>2. ASSUME NEW i \in Issue, NEW e \in Email,
             \/ ForgotPassword(i, e) \/ ResendToken(i, e)
             \/ ResendVerificationEmail(i, e) \/ \E u \in User : RequestEmailChange(i, u, e)
      PROVE  UNCHANGED using
  BY <1>2 DEF ForgotPassword, ResendToken, ResendVerificationEmail, RequestEmailChange,
              Accept
<1>3. ASSUME NEW i \in Issue, IssueStep(i) PROVE UNCHANGED using
  BY <1>3 DEF IssueStep, Target, Clear, Insert, Enqueue
<1>4. ASSUME NEW i \in Issue, IssueFails(i) \/ Send(i) \/ SendFails(i) \/ Expire(i)
      PROVE  UNCHANGED using
  BY <1>4 DEF IssueFails, Send, SendFails, Expire
<1>5. ASSUME NEW v \in Use, NEW c \in Issue,
             \/ VerifyToken(v, c) \/ ResetPassword(v, c) \/ VerifyEmail(v, c)
             \/ \E u \in User : ChangeEmail(v, u, c)
      PROVE  Goal
  BY <1>5 DEF VerifyToken, ResetPassword, VerifyEmail, ChangeEmail, Present
<1>6. ASSUME NEW v \in Use, UseStep(v) \/ UseFails(v) PROVE Goal
  BY <1>6 DEF UseStep, Reject, Mark, Recheck, DeleteExpired, CheckVerified,
              WritePassword, DeleteToken, Validate, Consume, SetVerified, WriteEmail,
              UseFails
<1>7. ASSUME Crash PROVE Goal
  BY <1>7 DEF Crash
<1>8. CASE UNCHANGED vars \/ \E u \in User, e \in Email : UpdateEmail(u, e)
  BY <1>8 DEF vars, UpdateEmail
<1> QED BY <1>1, <1>2, <1>3, <1>4, <1>5, <1>6, <1>7, <1>8 DEF Next

\* What becomes of one issuing request.
LEMMA IssueOf ==
    ASSUME TypeOK, [Next]_vars, NEW i \in Issue
    PROVE  \/ issue'[i] = issue[i] \/ issue'[i] = IdleIssue
           \/ issue[i].pc # "idle" /\ issue'[i] = [issue[i] EXCEPT !.pc = "done"]
           \/ Starts(i) \/ Target(i) \/ Clear(i) \/ Insert(i)
<1> DEFINE Goal ==
           \/ issue'[i] = issue[i] \/ issue'[i] = IdleIssue
           \/ issue[i].pc # "idle" /\ issue'[i] = [issue[i] EXCEPT !.pc = "done"]
           \/ Starts(i) \/ Target(i) \/ Clear(i) \/ Insert(i)
<1>1. ASSUME NEW j \in Issue, Starts(j) PROVE Goal
  BY <1>1 DEF Starts, Accept, TypeOK
<1>2. ASSUME NEW j \in Issue, Target(j) \/ Clear(j) \/ Insert(j) PROVE Goal
  BY <1>2 DEF Target, Clear, Insert, TypeOK
<1>3. ASSUME NEW j \in Issue, Enqueue(j) \/ IssueFails(j) PROVE Goal
  <2>1. /\ issue' = [issue EXCEPT ![j].pc = "done"]
        /\ issue[j].pc # "idle"
    BY <1>3 DEF Enqueue, IssueFails
  <2> QED BY <2>1 DEF TypeOK
<1>4. ASSUME Crash PROVE Goal
  <2>1. CASE issue[i].pc # "idle"
    BY <1>4, <2>1 DEF Crash
  <2>2. CASE issue[i].pc = "idle"
    <3>1. issue'[i] = IdleIssue
      BY <1>4, <2>2 DEF Crash
    <3> QED BY <3>1, <2>2
  <2> QED BY <2>1, <2>2
<1> QED BY <1>1, <1>2, <1>3, <1>4, IssueSteps DEF IssueStep

-----------------------------------------------------------------------------
(* One code in force.                                                      *)

Cleared(i, e) == issue[i].pc = "cleared" /\ issue[i].target = e
InForce(c, e) == Live(c) /\ code[c].email = e

\* Between the deletion and the insertion of one request an address has no code
\* in force, unless a second request is there too.
Single ==
    \A e \in Email \ crossed :
        /\ \A i, j \in Issue : Cleared(i, e) /\ Cleared(j, e) => i = j
        /\ \A i, c \in Issue : Cleared(i, e) => ~InForce(c, e)
        /\ \A c, d \in Issue : InForce(c, e) /\ InForce(d, e) => c = d

LEMMA SingleHolds == Spec => []Single
<1>1. Init => Single
  BY DEF Init, Single, Cleared, InForce, Live, NoCode, IdleIssue
<1>2. TypeOK /\ Started /\ Rows /\ Single /\ [Next]_vars => Single'
  <2> SUFFICES ASSUME TypeOK, Started, Rows, Single, [Next]_vars,
                      NEW e \in Email \ crossed'
               PROVE  /\ \A i, j \in Issue : Cleared(i, e)' /\ Cleared(j, e)' => i = j
                      /\ \A i, c \in Issue : Cleared(i, e)' => ~InForce(c, e)'
                      /\ \A c, d \in Issue : InForce(c, e)' /\ InForce(d, e)' => c = d
    BY DEF Single
  <2>1. e \notin crossed
    BY Grow
  <2>2. ASSUME NEW i \in Issue, Cleared(i, e)'
        PROVE  \/ Cleared(i, e)
               \/ Clear(i) /\ issue[i].target = e
    <3>1. CASE issue'[i] = issue[i] \/ issue'[i] = IdleIssue
      BY <2>2, <3>1 DEF Cleared, IdleIssue
    <3>2. CASE issue'[i] = [issue[i] EXCEPT !.pc = "done"]
      BY <2>2, <3>2, Sorts DEF Cleared, IssueState
    <3>3. CASE Starts(i)
      BY <2>2, <3>3 DEF Cleared, Starts, Accept, TypeOK
    <3>4. CASE Target(i)
      BY <2>2, <3>4 DEF Cleared, Target, TypeOK
    <3>5. CASE Insert(i)
      BY <2>2, <3>5 DEF Cleared, Insert, TypeOK
    <3>6. CASE Clear(i)
      BY <2>2, <3>6 DEF Cleared, Clear, TypeOK
    <3> QED BY <3>1, <3>2, <3>3, <3>4, <3>5, <3>6, IssueOf
  <2>3. ASSUME NEW i \in Issue, Clear(i), issue[i].target = e
        PROVE  /\ \A j \in Issue : ~Cleared(j, e)
               /\ \A c \in Issue : ~InForce(c, e)'
               /\ \A j \in Issue \ {i} : issue'[j] = issue[j]
    <3>1. \A j \in Issue : ~Cleared(j, e)
      BY <2>3 DEF Clear, Cleared
    <3>2. ASSUME NEW c \in Issue PROVE ~InForce(c, e)'
      <4>1. code[c] \in Code
        BY Sorts
      <4>2. code'[c] = IF Live(c) /\ code[c].email = e
                       THEN [code[c] EXCEPT !.state = "deleted"] ELSE code[c]
        BY <2>3 DEF Clear, DropCodes
      <4> QED BY <4>1, <4>2 DEF InForce, Live, Code
    <3>3. \A j \in Issue \ {i} : issue'[j] = issue[j]
      BY <2>3 DEF Clear, TypeOK
    <3> QED BY <3>1, <3>2, <3>3
  <2>4. ASSUME NEW c \in Issue, InForce(c, e)'
        PROVE  \/ InForce(c, e)
               \/ Insert(c) /\ Cleared(c, e) /\ ~Cleared(c, e)'
    <3>1. CASE code[c].state # "none"
      BY <2>4, <3>1, CodeFrame, Sorts DEF InForce, Live, Code
    <3>2. CASE code[c].state = "none" /\ code'[c] = code[c]
      BY <2>4, <3>2 DEF InForce, Live
    <3>3. CASE code[c].state = "none" /\ Insert(c)
      BY <2>4, <3>3 DEF InForce, Cleared, Insert, TypeOK
    <3> QED BY <3>1, <3>2, <3>3, CodeFrame
  <2>5. ASSUME NEW i \in Issue, NEW j \in Issue, Cleared(i, e)', Cleared(j, e)'
        PROVE  i = j
    <3>1. ASSUME NEW k \in Issue, NEW l \in Issue, Cleared(k, e)', Cleared(l, e)',
                 Clear(k), issue[k].target = e
          PROVE  k = l
      BY <2>2, <2>3, <3>1 DEF Cleared
    <3>2. CASE Cleared(i, e) /\ Cleared(j, e)
      BY <2>1, <3>2 DEF Single
    <3> QED BY <2>2, <2>5, <3>1, <3>2
  <2>6. ASSUME NEW i \in Issue, NEW c \in Issue, Cleared(i, e)', InForce(c, e)'
        PROVE  FALSE
    <3>1. Cleared(i, e)
      BY <2>2, <2>3, <2>6
    <3>2. CASE InForce(c, e)
      BY <2>1, <3>1, <3>2 DEF Single
    <3>3. CASE Cleared(c, e) /\ ~Cleared(c, e)'
      BY <2>1, <2>6, <3>1, <3>3 DEF Single
    <3> QED BY <2>4, <2>6, <3>2, <3>3
  <2>7. ASSUME NEW c \in Issue, NEW d \in Issue, InForce(c, e)', InForce(d, e)'
        PROVE  c = d
    <3>1. CASE InForce(c, e) /\ InForce(d, e)
      BY <2>1, <3>1 DEF Single
    <3>2. CASE InForce(c, e) /\ Cleared(d, e)
      BY <2>1, <3>2 DEF Single
    <3>3. CASE Cleared(c, e) /\ InForce(d, e)
      BY <2>1, <3>3 DEF Single
    <3>4. CASE Cleared(c, e) /\ Cleared(d, e)
      BY <2>1, <3>4 DEF Single
    <3> QED BY <2>4, <2>7, <3>1, <3>2, <3>3, <3>4
  <2> QED BY <2>5, <2>6, <2>7
<1> QED BY <1>1, <1>2, Typed, RowsHold, PTL DEF Spec

-----------------------------------------------------------------------------
(* Accounts, addresses and codes.                                          *)

\* An account has an address, or has had it.
Held(u, e) == email[u] = e \/ e \in left
StillHeld(u, e) == email'[u] = e \/ e \in left'

\* No two accounts have an address together; a request goes to an address its
\* account has held, its code is valid for one, and the two are the same unless
\* the account was leaving.
Owners ==
    /\ \A u, w \in User : email[u] = email[w] => u = w
    /\ \A i \in Issue : issue[i].pc # "idle" =>
           /\ issue[i].kind \in {"own", "new"}
           /\ issue[i].kind = "own" => Held(issue[i].user, issue[i].to)
    /\ \A i \in Issue : issue[i].pc \in {"targeted", "cleared", "created"}
                            \/ code[i].state # "none" =>
           /\ issue[i].kind = "own" => Held(issue[i].user, issue[i].target)
           /\ issue[i].to = issue[i].target \/ issue[i].to \in left

LEMMA OwnersHold == Spec => []Owners
<1>1. Init => Owners
  BY VerificationAssumption DEF Init, Owners, NoCode, IdleIssue
<1>2. TypeOK /\ Started /\ Rows /\ Owners /\ [Next]_vars => Owners'
  <2> SUFFICES ASSUME TypeOK, Started, Rows, Owners, [Next]_vars PROVE Owners'
    OBVIOUS
  <2>1. /\ \A u, w \in User : email'[u] = email'[w] => u = w
        /\ \A u \in User, e \in Email : Held(u, e) => StillHeld(u, e)
        /\ left \subseteq left'
    <3>1. CASE UNCHANGED <<email, left>>
      BY <3>1 DEF Owners, Held, StillHeld
    <3>2. ASSUME NEW v \in Use, WriteEmail(v), MayTake(use[v].user, use[v].email)
          PROVE  /\ \A u, w \in User : email'[u] = email'[w] => u = w
                 /\ \A u \in User, e \in Email : Held(u, e) => StillHeld(u, e)
      <4>1. /\ email' = [email EXCEPT ![use[v].user] = use[v].email]
            /\ left' = left \cup ({email[use[v].user]} \ {use[v].email})
            /\ \A u \in User : email[u] = use[v].email => u = use[v].user
        BY <3>2 DEF WriteEmail, MayTake, Owner
      <4>2. use[v].user \in User
        BY <3>2 DEF WriteEmail, Started
      <4> QED BY <4>1, <4>2 DEF Owners, Held, StillHeld, TypeOK
    <3>3. ASSUME NEW v \in Use, WriteEmail(v), ~MayTake(use[v].user, use[v].email)
          PROVE  UNCHANGED <<email, left>>
      BY <3>3 DEF WriteEmail
    <3>4. ASSUME NEW x \in User, NEW d \in Email, UpdateEmail(x, d)
          PROVE  /\ \A u, w \in User : email'[u] = email'[w] => u = w
                 /\ \A u \in User, e \in Email : Held(u, e) => StillHeld(u, e)
      <4>1. /\ email' = [email EXCEPT ![x] = d] /\ left' = left \cup {email[x]}
            /\ \A u \in User : email[u] = d => u = x
        BY <3>4 DEF UpdateEmail, MayTake, Owner
      <4> QED BY <4>1 DEF Owners, Held, StillHeld, TypeOK
    <3> QED BY <3>1, <3>2, <3>3, <3>4, Grow
  <2>2. ASSUME NEW i \in Issue, issue'[i].pc # "idle"
        PROVE  /\ issue'[i].kind \in {"own", "new"}
               /\ issue'[i].kind = "own" => StillHeld(issue'[i].user, issue'[i].to)
    <3>1. ASSUME issue[i].pc # "idle", issue'[i].kind = issue[i].kind,
                 issue'[i].user = issue[i].user, issue'[i].to = issue[i].to
          PROVE  /\ issue'[i].kind \in {"own", "new"}
                 /\ issue'[i].kind = "own" => StillHeld(issue'[i].user, issue'[i].to)
      BY <2>1, <3>1 DEF Owners, Started, Held, StillHeld
    <3>2. CASE issue'[i] = issue[i] \/ issue'[i] = IdleIssue
      BY <2>2, <3>1, <3>2 DEF IdleIssue
    <3>3. CASE issue[i].pc # "idle" /\ issue'[i] = [issue[i] EXCEPT !.pc = "done"]
      BY <3>1, <3>3, Sorts DEF IssueState
    <3>4. CASE Starts(i)
      <4>1. UNCHANGED email
        BY <3>4 DEF Starts, Accept
      <4>2. PICK u \in User, e \in Email :
              \/ Accept(i, "new", u, e)
              \/ Accept(i, "own", u, e) /\ email[u] = e
        BY <3>4 DEF Starts
      <4> QED BY <4>1, <4>2 DEF Accept, Held, StillHeld, TypeOK
    <3>5. CASE Target(i)
      BY <3>1, <3>5 DEF Target, TypeOK
    <3>6. CASE Clear(i)
      BY <3>1, <3>6 DEF Clear, TypeOK
    <3>7. CASE Insert(i)
      BY <3>1, <3>7 DEF Insert, TypeOK
    <3> QED BY <3>2, <3>3, <3>4, <3>5, <3>6, <3>7, IssueOf
  <2>3. ASSUME NEW i \in Issue, issue'[i].pc \in {"targeted", "cleared", "created"}
                                  \/ code'[i].state # "none"
        PROVE  /\ issue'[i].kind = "own" => StillHeld(issue'[i].user, issue'[i].target)
               /\ issue'[i].to = issue'[i].target \/ issue'[i].to \in left'
    <3>1. ASSUME issue[i].pc \in {"targeted", "cleared", "created"}
                   \/ code[i].state # "none",
                 issue'[i].kind = issue[i].kind, issue'[i].user = issue[i].user,
                 issue'[i].to = issue[i].to, issue'[i].target = issue[i].target
          PROVE  /\ issue'[i].kind = "own" => StillHeld(issue'[i].user, issue'[i].target)
                 /\ issue'[i].to = issue'[i].target \/ issue'[i].to \in left'
      <4>1. issue[i].user \in User /\ issue[i].target \in Email
        BY <3>1 DEF Started, Rows
      <4> QED BY <2>1, <3>1, <4>1 DEF Owners, Held, StillHeld
    <3>2. CASE code[i].state # "none"
      <4>1. issue[i].pc \in {"created", "done"}
        BY <3>2 DEF Rows
      <4> QED BY <3>1, <3>2, <4>1, IssueFrame
    <3>3. CASE code[i].state = "none" /\ ~Insert(i)
      <4>1. code'[i] = code[i]
        BY <3>3, CodeFrame
      <4>2. issue'[i].pc \in {"targeted", "cleared", "created"}
        BY <2>3, <3>3, <4>1
      <4>3. CASE issue'[i] = issue[i] \/ issue'[i] = IdleIssue
        BY <3>1, <4>2, <4>3 DEF IdleIssue
      <4>4. CASE issue'[i] = [issue[i] EXCEPT !.pc = "done"]
        BY <4>2, <4>4, Sorts DEF IssueState
      <4>5. CASE Starts(i)
        BY <4>2, <4>5 DEF Starts, Accept, TypeOK
      <4>6. CASE Target(i)
        <5>1. /\ issue'[i].kind = issue[i].kind /\ issue'[i].user = issue[i].user
              /\ issue'[i].to = issue[i].to /\ issue'[i].target = TargetOf(i)
              /\ issue[i].pc = "found" /\ UNCHANGED <<email, left>>
          BY <4>6 DEF Target, TypeOK, using
        <5>2. CASE issue[i].kind = "new"
          BY <5>1, <5>2 DEF TargetOf
        <5>3. CASE issue[i].kind = "own"
          <6>1. TargetOf(i) = email[issue[i].user]
            BY <5>3 DEF TargetOf
          <6>2. Held(issue[i].user, issue[i].to)
            BY <5>1, <5>3 DEF Owners
          <6> QED BY <5>1, <6>1, <6>2 DEF Held, StillHeld
        <5> QED BY <5>1, <5>2, <5>3 DEF Owners
      <4>7. CASE Clear(i)
        BY <3>1, <4>7 DEF Clear, TypeOK
      <4> QED BY <3>3, <4>3, <4>4, <4>5, <4>6, <4>7, IssueOf
    <3>4. CASE Insert(i)
      BY <3>1, <3>4 DEF Insert, TypeOK
    <3> QED BY <3>2, <3>3, <3>4
  <2> QED BY <2>1, <2>2, <2>3 DEF Owners, Held, StillHeld
<1> QED BY <1>1, <1>2, Typed, RowsHold, PTL DEF Spec

\* What becomes of the pairs of a code and the account it reset: a new one has
\* a request that had passed the check, and the account has the address now.
LEMMA ResetSteps ==
    ASSUME TypeOK, Started, Rows, Asked, [Next]_vars, NEW c \in Issue, NEW u \in User,
           <<c, u>> \in resets', <<c, u>> \notin resets
    PROVE  \E v \in Use : /\ WritePassword(v) /\ Goto(v, "changed")
                          /\ use[v].code = c /\ use[v].kind = "resetPassword"
                          /\ code[c].state # "none" /\ email[u] = code[c].email
<1>1. PICK v \in Use : WritePassword(v)
  BY Writers
<1>2. c = use[v].code /\ u \in Owner(use[v].email)
  BY <1>1 DEF WritePassword
<1>3. Goto(v, "changed")
  BY <1>1, <1>2 DEF WritePassword
<1>4. use[v].pc = "checked"
  BY <1>1 DEF WritePassword
<1>5. code[c].email = use[v].email /\ use[v].kind = "resetPassword"
  BY <1>2, <1>4 DEF Asked
<1>6. code[c].state # "none"
  BY <1>2, <1>4 DEF Started, Rows
<1> QED BY <1>1, <1>2, <1>3, <1>5, <1>6 DEF Owner

\* A code that has reset a password was issued for the account it reset, or its
\* address has been left, or it was issued for a change to that address.
Rightly ==
    \A c \in Issue, u \in User : <<c, u>> \in resets =>
        /\ code[c].state # "none"
        /\ u = code[c].user \/ code[c].email \in left \/ issue[c].kind = "new"

LEMMA RightlyHolds == Spec => []Rightly
<1>1. Init => Rightly
  BY DEF Init, Rightly
<1>2. TypeOK /\ Started /\ Rows /\ Asked /\ Owners /\ Rightly /\ [Next]_vars => Rightly'
  <2> SUFFICES ASSUME TypeOK, Started, Rows, Asked, Owners, Rightly, [Next]_vars,
                      NEW c \in Issue, NEW u \in User, <<c, u>> \in resets'
               PROVE  /\ code'[c].state # "none"
                      /\ \/ u = code'[c].user \/ code'[c].email \in left'
                         \/ issue'[c].kind = "new"
    BY DEF Rightly
  <2>1. ASSUME code[c].state # "none",
               u = code[c].user \/ code[c].email \in left \/ issue[c].kind = "new"
        PROVE  /\ code'[c].state # "none"
               /\ \/ u = code'[c].user \/ code'[c].email \in left'
                  \/ issue'[c].kind = "new"
    BY <2>1, CodeFrame, IssueFrame, Grow DEF Rows
  <2>2. CASE <<c, u>> \in resets
    BY <2>1, <2>2 DEF Rightly
  <2>3. CASE <<c, u>> \notin resets
    <3>1. code[c].state # "none" /\ email[u] = code[c].email
      BY <2>3, ResetSteps
    <3>2. /\ issue[c].pc # "idle" /\ code[c].user = issue[c].user
          /\ code[c].email = issue[c].target /\ issue[c].user \in User
      BY <3>1 DEF Rows, Started
    <3>3. issue[c].kind # "new" => Held(code[c].user, code[c].email)
      BY <3>1, <3>2 DEF Owners
    <3>4. email[code[c].user] = code[c].email => u = code[c].user
      BY <3>1, <3>2 DEF Owners
    <3> QED BY <2>1, <3>1, <3>3, <3>4 DEF Held
  <2> QED BY <2>2, <2>3
<1> QED BY <1>1, <1>2, Typed, RowsHold, AskedHolds, OwnersHold, PTL DEF Spec

-----------------------------------------------------------------------------
(* One reset, and the end of a late code.                                  *)

\* A request that has written leaves its slot by the step that deletes the code,
\* and one that has marked a code by the step that looks at the expiry, or it
\* is cut off.
LEMMA Ends ==
    ASSUME TypeOK, Started, [Next]_vars, NEW v \in Use, use'[v] = IdleUse
    PROVE  /\ use[v].pc = "changed" =>
                DeleteToken(v) \/ use[v].code \in interrupted'
           /\ use[v].pc = "marked" => Recheck(v) \/ use[v].code \in interrupted'
           /\ use[v].pc = "lapsed" => DeleteExpired(v) \/ use[v].code \in interrupted'
<1> DEFINE Goal == /\ use[v].pc = "changed" =>
                        DeleteToken(v) \/ use[v].code \in interrupted'
                   /\ use[v].pc = "marked" => Recheck(v) \/ use[v].code \in interrupted'
                   /\ use[v].pc = "lapsed" =>
                        DeleteExpired(v) \/ use[v].code \in interrupted'
<1>1. ASSUME use[v].pc \in {"changed", "marked", "lapsed"} PROVE use'[v] # use[v]
  BY <1>1 DEF IdleUse
<1>2. ASSUME UNCHANGED use PROVE Goal
  BY <1>1, <1>2
<1>3. ASSUME NEW i \in Issue, NEW e \in Email,
             \/ ForgotPassword(i, e) \/ ResendToken(i, e)
             \/ ResendVerificationEmail(i, e) \/ \E u \in User : RequestEmailChange(i, u, e)
      PROVE  UNCHANGED use
  BY <1>3 DEF ForgotPassword, ResendToken, ResendVerificationEmail, RequestEmailChange,
              Accept, using
<1>4. ASSUME NEW i \in Issue, IssueStep(i) PROVE UNCHANGED use
  BY <1>4 DEF IssueStep, Target, Clear, Insert, Enqueue, using
<1>5. ASSUME NEW i \in Issue, IssueFails(i) \/ Send(i) \/ SendFails(i) \/ Expire(i)
      PROVE  UNCHANGED use
  BY <1>5 DEF IssueFails, Send, SendFails, Expire, using
<1>6. ASSUME NEW w \in Use, NEW c \in Issue,
             \/ VerifyToken(w, c) \/ ResetPassword(w, c) \/ VerifyEmail(w, c)
             \/ \E u \in User : ChangeEmail(w, u, c)
      PROVE  Goal
  <2>1. use[w].pc = "idle" /\ \A x \in Use \ {w} : use'[x] = use[x]
    BY <1>6 DEF VerifyToken, ResetPassword, VerifyEmail, ChangeEmail, Present, TypeOK
  <2> QED BY <1>1, <2>1
<1>7. ASSUME NEW w \in Use, UseStep(w) \/ UseFails(w) PROVE Goal
  <2>1. CASE w # v
    <3>1. use'[v] = use[v]
      BY <1>7, <2>1
         DEF UseStep, Reject, Mark, Recheck, DeleteExpired, CheckVerified, WritePassword,
             DeleteToken, Validate, Consume, SetVerified, WriteEmail, UseFails, Answer,
             Goto, TypeOK
    <3> QED BY <1>1, <3>1
  <2>2. CASE w = v
    BY <1>7, <2>2
       DEF UseStep, Reject, Mark, Recheck, DeleteExpired, CheckVerified, WritePassword,
           DeleteToken, Validate, Consume, SetVerified, WriteEmail, UseFails, Fault
  <2> QED BY <2>1, <2>2
<1>8. ASSUME Crash PROVE Goal
  BY <1>8 DEF Crash, Fault
<1>9. ASSUME UNCHANGED vars \/ \E u \in User, e \in Email : UpdateEmail(u, e)
      PROVE  UNCHANGED use
  BY <1>9 DEF vars, UpdateEmail
<1> QED BY <1>2, <1>3, <1>4, <1>5, <1>6, <1>7, <1>8, <1>9 DEF Next

\* A late code is expired, and in force only while its request looks again.
Dropped ==
    \A c \in late :
        /\ code[c].state # "none" /\ code[c].expired
        /\ Live(c) =>
             \/ \E v \in Use : use[v].pc \in {"marked", "lapsed"} /\ use[v].code = c
             \/ c \in interrupted

LEMMA DroppedHolds == Spec => []Dropped
<1>1. Init => Dropped
  BY DEF Init, Dropped
<1>2. TypeOK /\ Started /\ Rows /\ Asked /\ Dropped /\ [Next]_vars => Dropped'
  <2> SUFFICES ASSUME TypeOK, Started, Rows, Asked, Dropped, [Next]_vars, NEW c \in late'
               PROVE  /\ code'[c].state # "none" /\ code'[c].expired
                      /\ Live(c)' =>
                           \/ \E v \in Use : /\ use'[v].pc \in {"marked", "lapsed"}
                                            /\ use'[v].code = c
                           \/ c \in interrupted'
    BY DEF Dropped
  <2>1. CASE c \notin late
    <3>1. PICK v \in Use : Mark(v)
      BY <2>1, Writers
    <3>2. /\ c = use[v].code /\ Goto(v, "marked") /\ code[c].expired
          /\ code[c].state = "live"
      BY <2>1, <3>1 DEF Mark, Selects, Live
    <3>3. use'[v].pc = "marked" /\ use'[v].code = c
      BY <3>2 DEF Goto, TypeOK
    <3>4. c \in Issue
      BY <3>1, <3>2 DEF Mark, Started
    <3> QED BY <3>2, <3>3, <3>4, CodeFrame
  <2>2. CASE c \in late
    <3>1. c \in Issue /\ code[c].state # "none" /\ code[c].expired
      BY <2>2 DEF Dropped, TypeOK
    <3>2. code'[c].state # "none" /\ code'[c].expired
      BY <3>1, CodeFrame
    <3>3. Live(c)' => Live(c)
      BY <3>1, CodeFrame, Sorts DEF Live, Code
    <3>4. CASE c \in interrupted
      BY <3>2, <3>4, Grow
    <3>5. ASSUME NEW v \in Use, use[v].pc \in {"marked", "lapsed"}, use[v].code = c,
                 Live(c)'
          PROVE  \/ use'[v].pc \in {"marked", "lapsed"} /\ use'[v].code = c
                 \/ c \in interrupted'
      <4>1. \/ use'[v] = use[v] \/ use'[v] = IdleUse
            \/ Recheck(v) /\ Goto(v, "lapsed")
        BY <3>5, UseSteps DEF Present, Mark, CheckVerified, WritePassword, Validate,
                              Consume, WriteEmail
      <4>2. CASE Goto(v, "lapsed")
        BY <3>5, <4>2 DEF Goto, TypeOK
      <4>3. ~(Recheck(v) /\ Answer(v))
        <5>1. code[c].email = use[v].email
          BY <3>5 DEF Asked
        <5>2. Selects(v)
          BY <3>3, <3>5, <5>1 DEF Selects
        <5>3. Recheck(v) => Goto(v, "lapsed")
          BY <3>1, <3>5, <5>2 DEF Recheck
        <5>4. Goto(v, "lapsed") => use'[v].pc = "lapsed"
          BY DEF Goto, TypeOK
        <5>5. Answer(v) => use'[v].pc = "idle"
          BY DEF Answer, IdleUse, TypeOK
        <5> QED BY <5>3, <5>4, <5>5
      <4>4. ~DeleteExpired(v)
        <5>1. ASSUME DeleteExpired(v) PROVE code'[c].state = "deleted"
          BY <3>1, <3>5, <5>1 DEF DeleteExpired, DropExpired, TypeOK
        <5> QED BY <3>5, <5>1 DEF Live
      <4>5. CASE use'[v] = IdleUse
        <5>1. ~Recheck(v) \/ Goto(v, "lapsed")
          BY <4>3 DEF Recheck
        <5> QED BY <3>5, <4>2, <4>4, <4>5, <5>1, Ends
      <4> QED BY <3>5, <4>1, <4>2, <4>5
    <3> QED BY <2>2, <3>2, <3>3, <3>4, <3>5 DEF Dropped
  <2> QED BY <2>1, <2>2
<1> QED BY <1>1, <1>2, Typed, RowsHold, AskedHolds, PTL DEF Spec

\* A request that has passed verifycheckToken with a code.
Resetting(v, c) == /\ use[v].kind = "resetPassword" /\ use[v].code = c
                   /\ use[v].pc \in {"checked", "changed"}

\* Unless two passed the check together or one was cut off, one request at a time
\* is between the check and deleteToken, and a code that has reset a password is
\* deleted or about to be.
Once ==
    \A c \in Issue \ (racing \cup interrupted) :
        /\ \A v, w \in Use : Resetting(v, c) /\ Resetting(w, c) => v = w
        /\ \A u \in User : <<c, u>> \in resets =>
             \/ code[c].state = "deleted"
             \/ \E v \in Use : Resetting(v, c) /\ use[v].pc = "changed"
        /\ \A v \in Use, u \in User :
             Resetting(v, c) /\ use[v].pc = "checked" => <<c, u>> \notin resets
        /\ c \notin reused

LEMMA OnceHolds == Spec => []Once
<1>1. Init => Once
  BY DEF Init, Once, Resetting, IdleUse
<1>2. TypeOK /\ Started /\ Rows /\ Asked /\ Once /\ [Next]_vars => Once'
  <2> SUFFICES ASSUME TypeOK, Started, Rows, Asked, Once, [Next]_vars,
                      NEW c \in Issue, c \notin racing', c \notin interrupted'
               PROVE  /\ \A v, w \in Use : Resetting(v, c)' /\ Resetting(w, c)' => v = w
                      /\ \A u \in User : <<c, u>> \in resets' =>
                           \/ code'[c].state = "deleted"
                           \/ \E v \in Use : Resetting(v, c)' /\ use'[v].pc = "changed"
                      /\ \A v \in Use, u \in User :
                           Resetting(v, c)' /\ use'[v].pc = "checked" =>
                             <<c, u>> \notin resets'
                      /\ c \notin reused'
    BY DEF Once
  <2>1. c \notin racing /\ c \notin interrupted
    BY Grow
  <2>2. ASSUME NEW v \in Use, NEW pc, Goto(v, pc)
        PROVE  /\ use'[v].pc = pc /\ use'[v].kind = use[v].kind
               /\ use'[v].code = use[v].code
               /\ \A w \in Use \ {v} : use'[w] = use[w]
    BY <2>2 DEF Goto, TypeOK
  <2>3. ASSUME NEW v \in Use, Resetting(v, c)'
        PROVE  \/ Resetting(v, c) /\ use'[v] = use[v]
               \/ Resetting(v, c) /\ WritePassword(v) /\ Goto(v, "changed")
               \/ CheckVerified(v) /\ Goto(v, "checked") /\ use[v].code = c
    <3>1. CASE use'[v] = use[v] \/ use'[v] = IdleUse
      BY <2>3, <3>1 DEF Resetting, IdleUse
    <3>2. CASE \E k, x, d : Present(v, k, x, d)
      BY <2>3, <3>2 DEF Resetting, Present, TypeOK
    <3>3. CASE Mark(v) /\ Goto(v, "marked")
      BY <2>2, <2>3, <3>3 DEF Resetting
    <3>4. CASE CheckVerified(v) /\ Goto(v, "checked")
      BY <2>2, <2>3, <3>4 DEF Resetting
    <3>5. CASE WritePassword(v) /\ Goto(v, "changed")
      BY <2>2, <2>3, <3>5 DEF Resetting, WritePassword
    <3>6. CASE Validate(v)
      BY <2>2, <2>3, <3>6 DEF Resetting, Validate
    <3>7. CASE Consume(v) /\ Goto(v, "consumed")
      BY <2>2, <2>3, <3>7 DEF Resetting
    <3>8. CASE WriteEmail(v) /\ Goto(v, "changed")
      BY <2>2, <2>3, <3>8 DEF Resetting, WriteEmail
    <3>9. CASE Recheck(v) /\ Goto(v, "lapsed")
      BY <2>2, <2>3, <3>9 DEF Resetting
    <3> QED BY <3>1, <3>2, <3>3, <3>4, <3>5, <3>6, <3>7, <3>8, <3>9, UseSteps
  <2>4. ASSUME NEW v \in Use, CheckVerified(v), Goto(v, "checked"), use[v].code = c
        PROVE  /\ \A w \in Use : ~Resetting(w, c)
               /\ \A w \in Use \ {v} : use'[w] = use[w]
               /\ code[c].state = "live" /\ UNCHANGED <<code, resets>>
    <3>1. \A w \in Use : ~Resetting(w, c)
      BY <2>4 DEF CheckVerified, Passed, Resetting
    <3>2. code[c].state = "live" /\ UNCHANGED <<code, resets>>
      BY <2>4 DEF CheckVerified, Selects, Live
    <3> QED BY <2>2, <2>4, <3>1, <3>2
  <2>5. ASSUME NEW v \in Use, NEW w \in Use, Resetting(v, c)', Resetting(w, c)'
        PROVE  v = w
    <3>1. CASE Resetting(v, c) /\ Resetting(w, c)
      BY <2>1, <3>1 DEF Once
    <3>2. ASSUME NEW x \in Use, NEW y \in Use, Resetting(y, c)', x # y,
                 CheckVerified(x), Goto(x, "checked"), use[x].code = c
          PROVE  FALSE
      BY <2>3, <2>4, <3>2 DEF Resetting
    <3> QED BY <2>3, <2>5, <3>1, <3>2
  <2>6. ASSUME NEW u \in User, <<c, u>> \in resets'
        PROVE  \/ code'[c].state = "deleted"
               \/ \E v \in Use : Resetting(v, c)' /\ use'[v].pc = "changed"
    <3>1. CASE <<c, u>> \notin resets
      <4>1. PICK v \in Use : /\ WritePassword(v) /\ Goto(v, "changed")
                             /\ use[v].code = c /\ use[v].kind = "resetPassword"
        BY <2>6, <3>1, ResetSteps
      <4> QED BY <2>2, <4>1 DEF Resetting
    <3>2. CASE code[c].state = "deleted"
      BY <3>2, CodeFrame
    <3>3. ASSUME NEW v \in Use, Resetting(v, c), use[v].pc = "changed"
          PROVE  \/ code'[c].state = "deleted"
                 \/ Resetting(v, c)' /\ use'[v].pc = "changed"
      <4>1. use'[v] = use[v] \/ use'[v] = IdleUse
        BY <3>3, UseSteps DEF Present, Mark, Recheck, CheckVerified, WritePassword,
                              Validate, Consume, WriteEmail
      <4>2. ASSUME DeleteToken(v) PROVE code'[c].state = "deleted"
        <5>1. code[c].email = use[v].email /\ code[c].state # "none" /\ use[v].code = c
          BY <3>3 DEF Asked, Started, Rows, Resetting
        <5>2. CASE Selects(v)
          BY <4>2, <5>1, <5>2 DEF DeleteToken, DropToken, TypeOK
        <5>3. CASE ~Selects(v)
          BY <5>1, <5>3, CodeFrame, Sorts DEF Selects, Live, Code
        <5> QED BY <5>2, <5>3
      <4>3. use'[v] = IdleUse => DeleteToken(v)
        BY <3>3, Ends DEF Resetting
      <4> QED BY <3>3, <4>1, <4>2, <4>3 DEF Resetting
    <3> QED BY <2>1, <3>1, <3>2, <3>3 DEF Once
  <2>7. ASSUME NEW v \in Use, NEW u \in User, Resetting(v, c)', use'[v].pc = "checked",
               <<c, u>> \in resets'
        PROVE  FALSE
    <3>1. CASE CheckVerified(v) /\ Goto(v, "checked") /\ use[v].code = c
      BY <2>1, <2>4, <2>7, <3>1 DEF Once
    <3>2. CASE WritePassword(v) /\ Goto(v, "changed")
      BY <2>2, <2>7, <3>2
    <3>3. CASE Resetting(v, c) /\ use'[v] = use[v]
      <4>1. <<c, u>> \notin resets
        BY <2>1, <2>7, <3>3 DEF Once
      <4>2. PICK w \in Use : /\ WritePassword(w) /\ Goto(w, "changed")
                             /\ use[w].code = c /\ use[w].kind = "resetPassword"
        BY <2>7, <4>1, ResetSteps
      <4>3. Resetting(w, c)
        BY <4>2 DEF Resetting, WritePassword
      <4>4. w = v
        BY <2>1, <3>3, <4>3 DEF Once
      <4> QED BY <2>2, <2>7, <4>2, <4>4
    <3> QED BY <2>3, <2>7, <3>1, <3>2, <3>3
  <2>8. c \notin reused'
    <3>1. c \notin reused
      BY <2>1 DEF Once
    <3>2. ASSUME NEW v \in Use, WritePassword(v), c \in reused' PROVE FALSE
      <4>1. use[v].code = c /\ \E u \in User : <<c, u>> \in resets
        BY <3>1, <3>2 DEF WritePassword
      <4>2. Resetting(v, c) /\ use[v].pc = "checked"
        BY <3>2, <4>1 DEF Resetting, WritePassword, Asked
      <4> QED BY <2>1, <4>1, <4>2 DEF Once
    <3> QED BY <3>1, <3>2, Writers
  <2> QED BY <2>5, <2>6, <2>7, <2>8
<1> QED BY <1>1, <1>2, Typed, RowsHold, AskedHolds, PTL DEF Spec

-----------------------------------------------------------------------------
(* Verified addresses.                                                     *)

\* A consumed code proves its address, and a request to verify one works for the
\* account that has it, or has moved to one that was proven or updated without a code.
Proofs ==
    /\ \A v \in Use : use[v].pc = "consumed" => use[v].email \in proven
    /\ \A v \in Use : use[v].kind = "verifyEmail" /\ use[v].pc # "idle" =>
           \/ email[use[v].user] = use[v].email \/ email[use[v].user] \in proven
           \/ use[v].user \in unproven
    /\ VerifiedWasProvenAlone

LEMMA ProofsHold == Spec => []Proofs
<1>1. Init => Proofs
  BY DEF Init, Proofs, VerifiedWasProvenAlone, IdleUse
<1>2. TypeOK /\ Started /\ Proofs /\ [Next]_vars => Proofs'
  <2> SUFFICES ASSUME TypeOK, Started, Proofs, [Next]_vars PROVE Proofs'
    OBVIOUS
  <2>1. proven \subseteq proven'
    BY Grow
  <2>2. ASSUME NEW v \in Use, NEW pc, Goto(v, pc)
        PROVE  /\ use'[v].pc = pc /\ use'[v].kind = use[v].kind
               /\ use'[v].email = use[v].email /\ use'[v].user = use[v].user
    BY <2>2 DEF Goto, TypeOK
  <2>3. ASSUME NEW u \in User
        PROVE  \/ email'[u] = email[u] /\ (u \in unproven => u \in unproven')
               \/ email'[u] \in proven \/ u \in unproven'
    <3>1. CASE UNCHANGED <<email, left, unproven>>
      BY <3>1
    <3>2. ASSUME NEW v \in Use, WriteEmail(v)
          PROVE  \/ email'[u] = email[u] /\ (u \in unproven => u \in unproven')
                 \/ email'[u] \in proven
      BY <3>2 DEF WriteEmail, Proofs, TypeOK
    <3>3. ASSUME NEW x \in User, NEW e \in Email, UpdateEmail(x, e)
          PROVE  \/ email'[u] = email[u] /\ (u \in unproven => u \in unproven')
                 \/ u \in unproven'
      BY <3>3 DEF UpdateEmail, TypeOK
    <3> QED BY <3>1, <3>2, <3>3, Grow
  <2>4. ASSUME NEW v \in Use, use'[v].pc = "consumed" PROVE use'[v].email \in proven'
    <3>1. CASE use'[v] = use[v] \/ use'[v] = IdleUse
      BY <2>1, <2>4, <3>1 DEF Proofs, IdleUse
    <3>2. CASE Consume(v) /\ Goto(v, "consumed")
      <4>1. ~Answer(v)
        BY <2>4 DEF Answer, IdleUse, TypeOK
      <4>2. proven' = proven \cup {use[v].email}
        BY <3>2, <4>1 DEF Consume
      <4> QED BY <2>2, <3>2, <4>2
    <3>3. ASSUME NEW k, NEW x, NEW d, Present(v, k, x, d) PROVE FALSE
      BY <2>4, <3>3 DEF Present, TypeOK
    <3>4. CASE Validate(v)
      BY <2>2, <2>4, <3>4 DEF Validate
    <3>5. ASSUME NEW pc \in {"marked", "lapsed", "checked", "changed"}, Goto(v, pc)
          PROVE  FALSE
      BY <2>2, <2>4, <3>5
    <3> QED BY <3>1, <3>2, <3>3, <3>4, <3>5, UseSteps
  <2>5. ASSUME NEW v \in Use, use'[v].kind = "verifyEmail", use'[v].pc # "idle"
        PROVE  \/ email'[use'[v].user] = use'[v].email
               \/ email'[use'[v].user] \in proven' \/ use'[v].user \in unproven'
    <3>1. ASSUME use'[v].kind = use[v].kind, use'[v].user = use[v].user,
                 use'[v].email = use[v].email, use[v].pc # "idle"
          PROVE  \/ email'[use'[v].user] = use'[v].email
                 \/ email'[use'[v].user] \in proven' \/ use'[v].user \in unproven'
      BY <2>1, <2>3, <2>5, <3>1 DEF Proofs, Started
    <3>2. CASE use'[v] = use[v] \/ use'[v] = IdleUse
      BY <2>5, <3>1, <3>2 DEF IdleUse
    <3>3. ASSUME NEW k, NEW x, NEW d, Present(v, k, x, d), k # "verifyEmail" PROVE FALSE
      BY <2>5, <3>3 DEF Present, TypeOK
    <3>4. ASSUME NEW x \in User, NEW d \in Issue, Present(v, "verifyEmail", x, d),
                 email[x] = issue[d].to
          PROVE  email'[use'[v].user] = use'[v].email
      BY <3>4 DEF Present, TypeOK
    <3>5. ASSUME NEW pc, Goto(v, pc), use[v].pc # "idle"
          PROVE  \/ email'[use'[v].user] = use'[v].email
                 \/ email'[use'[v].user] \in proven' \/ use'[v].user \in unproven'
      BY <2>2, <3>1, <3>5
    <3>6. /\ Mark(v) \/ Recheck(v) \/ CheckVerified(v) \/ WritePassword(v) \/ Validate(v)
               \/ Consume(v) \/ WriteEmail(v) => use[v].pc # "idle"
          /\ Validate(v) => \E pc : Goto(v, pc)
      BY DEF Mark, Recheck, CheckVerified, WritePassword, Validate, Consume, WriteEmail
    <3> QED BY <3>2, <3>3, <3>4, <3>5, <3>6, UseSteps
  <2>6. ASSUME NEW u \in User, u \in verified' \/ email'[u] # Home[u]
        PROVE  email'[u] \in proven' \/ u \in unproven'
    <3>1. CASE email'[u] # email[u]
      BY <2>1, <2>3, <3>1
    <3>2. CASE email'[u] = email[u] /\ (u \in verified \/ email[u] # Home[u])
      BY <2>1, <2>3, <3>2 DEF Proofs, VerifiedWasProvenAlone
    <3>3. CASE email'[u] = email[u] /\ u \in verified' /\ u \notin verified
      <4>1. PICK v \in Use : SetVerified(v)
        BY <3>3, Writers
      <4>2. /\ u = use[v].user /\ use[v].kind = "verifyEmail" /\ use[v].pc = "consumed"
        BY <3>3, <4>1 DEF SetVerified
      <4>3. use[v].email \in proven
        BY <4>2 DEF Proofs
      <4>4. email[u] = use[v].email \/ email[u] \in proven \/ u \in unproven
        BY <4>2 DEF Proofs
      <4> QED BY <2>1, <2>3, <3>3, <4>3, <4>4
    <3> QED BY <2>6, <3>1, <3>2, <3>3
  <2> QED BY <2>4, <2>5, <2>6 DEF Proofs, VerifiedWasProvenAlone
<1> QED BY <1>1, <1>2, Typed, PTL DEF Spec

-----------------------------------------------------------------------------
\* A code serves the account, the address and the one use it was issued for:
\* one in force for an address, one reset, of its owner, never late, after a
\* proof of its mailbox, and mailed to the address it is valid for.
THEOREM CodesHold == Spec => []CodesAreSound
<1>1. TypeOK /\ Started /\ Rows /\ Single => OneCodeInForceAlone
  BY DEF OneCodeInForceAlone, Single, InForce, Live, Rows
<1>2. TypeOK /\ Once => OneResetAlone
  BY DEF OneResetAlone, Once, TypeOK
<1>3. Rightly => ResetsTheOwner
  BY DEF Rightly, ResetsTheOwner
<1>4. Dropped => LateCodeGoes
  BY DEF Dropped, LateCodeGoes
<1>5. Proofs => VerifiedWasProvenAlone
  BY DEF Proofs
<1>6. Rows /\ Owners => MailedToItsAddress
  BY DEF Rows, Owners, MailedToItsAddress
<1>7. TypeOK /\ Started /\ Rows /\ Single /\ Once /\ Rightly /\ Dropped /\ Proofs /\ Owners
        => CodesAreSound
  BY <1>1, <1>2, <1>3, <1>4, <1>5, <1>6 DEF CodesAreSound
<1> QED BY <1>7, Typed, RowsHold, SingleHolds, OnceHolds, RightlyHolds, DroppedHolds,
           ProofsHold, OwnersHold, PTL
=============================================================================
