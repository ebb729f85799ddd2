--------------------------- MODULE ServicesProofs ---------------------------
(***************************************************************************)
(* Proofs about payout accounts, appointments, bequests and lists as parts *)
(* of the services, for any users, requests, beneficiaries, files and      *)
(* rows, and that every component of the services keeps its shape.         *)
(***************************************************************************)
EXTENDS MessagingProofs, FiniteSetTheorems

-----------------------------------------------------------------------------
(* Payout accounts.                                                        *)

Active == {"checked", "created"}

\* The shape of the state, without the count of the faults.
PayoutShape ==
    /\ connect \in [User -> Setup \cup {Nobody}]
    /\ setup \in [Setup -> [pc : {"idle", "checked", "created", "done", "failed"},
                            user : User \cup {Nobody}]]
    /\ account \in [Setup -> [state : {"none", "created", "complete"},
                              user : User \cup {Nobody}]]
    /\ withdrawal \in [Withdrawal -> [pc : {"idle", "checked", "paid", "failed"},
                                      user : User \cup {Nobody},
                                      to : Setup \cup {Nobody}]]
    /\ crossed \subseteq User /\ hit \subseteq User
    /\ \A r \in Setup : setup[r].pc # "idle" => setup[r].user \in User

\* An account at Stripe belongs to the user of the request that created it; one
\* whose request did not end well has hit its user.
PayoutCreated ==
    \A r \in Setup :
        /\ setup[r].pc \in {"idle", "checked"} => account[r].state = "none"
        /\ setup[r].pc \in {"created", "done"} => account[r].state # "none"
        /\ account[r].state # "none" => account[r].user = setup[r].user
        /\ account[r].state # "none" /\ setup[r].pc = "failed" => setup[r].user \in hit

\* The saved account of a user is that of a request which answered this user.
SavedIsOwn ==
    \A u \in User : connect[u] # Nobody =>
        setup[connect[u]].pc = "done" /\ setup[connect[u]].user = u

\* Where no two requests have crossed, one at most is at work, it found no
\* account, and the one that answered is saved.
AtWorkOn(u) ==
    /\ \A r, s \in Setup :
         /\ setup[r].pc \in Active /\ setup[r].user = u
         /\ setup[s].pc \in Active /\ setup[s].user = u
         => r = s
    /\ \A r \in Setup : setup[r].pc \in Active /\ setup[r].user = u
                          => connect[u] = Nobody
    /\ \A r \in Setup : setup[r].pc = "done" /\ setup[r].user = u => connect[u] = r

OneAtWork == \A u \in User \ crossed : AtWorkOn(u)

\* A withdrawal goes to an account its user was answered with.
GoesToOwn ==
    \A w \in Withdrawal : withdrawal[w].pc \in {"checked", "paid"} =>
        /\ withdrawal[w].to \in Setup
        /\ setup[withdrawal[w].to].pc = "done"
        /\ setup[withdrawal[w].to].user = withdrawal[w].user

PayoutInv == PayoutCreated /\ SavedIsOwn /\ OneAtWork /\ GoesToOwn

LEMMA PayoutsShaped == Spec => []PayoutShape
<1>1. Init => PayoutShape
  BY DEF Init, PayoutShape, NoAccount
<1>2. PayoutShape /\ [Next]_vars => PayoutShape'
  <2> SUFFICES ASSUME PayoutShape, [Next]_vars PROVE PayoutShape'
    OBVIOUS
  <2> USE DEF PayoutShape
  <2>1. ASSUME NEW r \in Setup, NEW u \in User, CheckAccount(r, u) PROVE PayoutShape'
    BY <2>1 DEF CheckAccount
  <2>2. ASSUME NEW r \in Setup, CreateAccount(r) PROVE PayoutShape'
    BY <2>2 DEF CreateAccount
  <2>3. ASSUME NEW r \in Setup, LoseAnswer(r) PROVE PayoutShape'
    BY <2>3 DEF LoseAnswer, Fault
  <2>4. ASSUME NEW r \in Setup, SaveAccount(r) PROVE PayoutShape'
    BY <2>4 DEF SaveAccount
  <2>5. ASSUME NEW r \in Setup, SetupFails(r) PROVE PayoutShape'
    BY <2>5 DEF SetupFails, Fault
  <2>6. ASSUME NEW r \in Setup, Onboard(r) PROVE PayoutShape'
    BY <2>6 DEF Onboard
  <2>7. ASSUME NEW w \in Withdrawal, NEW u \in User, CheckWithdraw(w, u) PROVE PayoutShape'
    BY <2>7 DEF CheckWithdraw
  <2>8. ASSUME NEW w \in Withdrawal, Transfer(w) PROVE PayoutShape'
    BY <2>8 DEF Transfer
  <2>9. CASE Crash
    <3>1. setup' \in [Setup -> [pc : {"idle", "checked", "created", "done", "failed"},
                                user : User \cup {Nobody}]]
      BY <2>9 DEF Crash
    <3>2. \A r \in Setup : setup'[r].user = setup[r].user
                           /\ (setup'[r].pc = "idle" => setup[r].pc = "idle")
      BY <2>9 DEF Crash
    <3>3. withdrawal' \in [Withdrawal -> [pc : {"idle", "checked", "paid", "failed"},
                                          user : User \cup {Nobody},
                                          to : Setup \cup {Nobody}]]
      BY <2>9 DEF Crash
    <3>4. hit' \subseteq User
      BY <2>9 DEF Crash, Fault
    <3> QED BY <2>9, <3>1, <3>2, <3>3, <3>4 DEF Crash
  <2>10. CASE UNCHANGED vars
    BY <2>10 DEF vars
  <2> QED BY <2>1, <2>2, <2>3, <2>4, <2>5, <2>6, <2>7, <2>8, <2>9, <2>10 DEF Next
<1> QED BY <1>1, <1>2, PTL DEF Spec

\* The state keeps its shape.
LEMMA PayoutTypeCorrect == Spec => []TypeOK
<1>1. Init => faults \in 0..MaxFaults
  BY ServicesAssumption DEF Init
<1>2. faults \in 0..MaxFaults /\ [Next]_vars => (faults \in 0..MaxFaults)'
  BY ServicesAssumption
  DEF Next, vars, Fault, CheckAccount, CreateAccount, LoseAnswer, SaveAccount,
         SetupFails, Onboard, CheckWithdraw, Transfer, Crash
<1>3. PayoutShape /\ faults \in 0..MaxFaults => TypeOK
  BY DEF PayoutShape, TypeOK
<1> QED BY <1>1, <1>2, <1>3, PayoutsShaped, PTL DEF Spec

\* Accounts are created, saved and withdrawn to for their own user, while
\* requests overlap, fail and die.
LEMMA PayoutsAreKept == Spec => []PayoutInv
<1>1. Init => PayoutInv
  BY DEF Init, PayoutInv, PayoutCreated, SavedIsOwn, OneAtWork, AtWorkOn, GoesToOwn,
         NoAccount, Active
<1>2. PayoutShape /\ PayoutInv /\ [Next]_vars => PayoutInv'
  <2> SUFFICES ASSUME PayoutShape, PayoutInv, [Next]_vars PROVE PayoutInv'
    OBVIOUS
  <2> USE DEF PayoutInv, Active
  <2>1. ASSUME NEW r \in Setup, NEW u \in User, CheckAccount(r, u) PROVE PayoutInv'
    <3>1. /\ setup[r].pc = "idle" /\ connect[u] = Nobody
          /\ setup'[r] = [pc |-> "checked", user |-> u]
          /\ \A s \in Setup \ {r} : setup'[s] = setup[s]
          /\ UNCHANGED <<connect, account, withdrawal, hit>>
      BY <2>1 DEF CheckAccount, MayConnect, PayoutShape
    <3>2. PayoutCreated'
      BY <3>1 DEF PayoutCreated, PayoutShape
    <3>3. SavedIsOwn'
      BY <3>1 DEF SavedIsOwn, PayoutShape
    <3>4. GoesToOwn'
      BY <3>1 DEF GoesToOwn, PayoutShape
    <3>5. /\ crossed \subseteq crossed'
          /\ u \notin crossed' =>
               \A s \in Setup : ~(setup[s].user = u /\ setup[s].pc \in Active)
      BY <2>1 DEF CheckAccount
    <3>6. OneAtWork'
      <4> SUFFICES ASSUME NEW v \in User \ crossed' PROVE AtWorkOn(v)'
        BY DEF OneAtWork
      <4>1. AtWorkOn(v)
        BY <3>1, <3>5 DEF OneAtWork
      <4>2. /\ \A s \in Setup : setup'[s].pc \in Active /\ setup'[s].user = v
                 => (s = r /\ v = u) \/ (setup[s].pc \in Active /\ setup[s].user = v)
            /\ \A s \in Setup : setup'[s].pc = "done" => setup'[s] = setup[s]
            /\ connect' = connect
        BY <3>1
      <4>3. CASE v = u
        BY <3>1, <3>5, <4>1, <4>2, <4>3 DEF AtWorkOn
      <4>4. CASE v # u
        BY <4>1, <4>2, <4>4 DEF AtWorkOn
      <4> QED BY <4>3, <4>4
    <3> QED BY <3>2, <3>3, <3>4, <3>6
  <2>2. ASSUME NEW r \in Setup, CreateAccount(r) PROVE PayoutInv'
    <3>1. /\ setup[r].pc = "checked"
          /\ setup'[r] = [pc |-> "created", user |-> setup[r].user]
          /\ \A s \in Setup \ {r} : setup'[s] = setup[s]
          /\ account'[r] = [state |-> "created", user |-> setup[r].user]
          /\ \A s \in Setup \ {r} : account'[s] = account[s]
          /\ UNCHANGED <<connect, withdrawal, crossed, hit>>
      BY <2>2 DEF CreateAccount, PayoutShape
    <3>2. PayoutCreated'
      BY <3>1 DEF PayoutCreated, PayoutShape
    <3>3. SavedIsOwn'
      BY <3>1 DEF SavedIsOwn, PayoutShape
    <3>4. GoesToOwn'
      BY <3>1 DEF GoesToOwn, PayoutShape
    <3>5. OneAtWork'
      <4> SUFFICES ASSUME NEW v \in User \ crossed' PROVE AtWorkOn(v)'
        BY DEF OneAtWork
      <4>1. AtWorkOn(v)
        BY <3>1 DEF OneAtWork
      <4>2. /\ \A s \in Setup : setup'[s].pc \in Active /\ setup'[s].user = v
                               => setup[s].pc \in Active /\ setup[s].user = v
            /\ \A s \in Setup : setup'[s].pc = "done" => setup'[s] = setup[s]
            /\ connect' = connect
        BY <3>1
      <4> QED BY <4>1, <4>2 DEF AtWorkOn
    <3> QED BY <3>2, <3>3, <3>4, <3>5
  <2>3. ASSUME NEW r \in Setup, LoseAnswer(r) PROVE PayoutInv'
    <3>1. /\ setup[r].pc = "checked"
          /\ setup'[r] = [pc |-> "failed", user |-> setup[r].user]
          /\ \A s \in Setup \ {r} : setup'[s] = setup[s]
          /\ account'[r] = [state |-> "created", user |-> setup[r].user]
          /\ \A s \in Setup \ {r} : account'[s] = account[s]
          /\ hit' = hit \cup {setup[r].user}
          /\ UNCHANGED <<connect, withdrawal, crossed>>
      BY <2>3 DEF LoseAnswer, Fault, PayoutShape
    <3>2. PayoutCreated'
      BY <3>1 DEF PayoutCreated, PayoutShape
    <3>3. SavedIsOwn'
      BY <3>1 DEF SavedIsOwn, PayoutShape
    <3>4. GoesToOwn'
      BY <3>1 DEF GoesToOwn, PayoutShape
    <3>5. OneAtWork'
      <4> SUFFICES ASSUME NEW v \in User \ crossed' PROVE AtWorkOn(v)'
        BY DEF OneAtWork
      <4>1. AtWorkOn(v)
        BY <3>1 DEF OneAtWork
      <4>2. /\ \A s \in Setup : setup'[s].pc \in Active /\ setup'[s].user = v
                               => setup[s].pc \in Active /\ setup[s].user = v
            /\ \A s \in Setup : setup'[s].pc = "done" => setup'[s] = setup[s]
            /\ connect' = connect
        BY <3>1
      <4> QED BY <4>1, <4>2 DEF AtWorkOn
    <3> QED BY <3>2, <3>3, <3>4, <3>5
  <2>4. ASSUME NEW r \in Setup, SaveAccount(r) PROVE PayoutInv'
    <3>1. /\ setup[r].pc = "created" /\ setup[r].user \in User
          /\ setup'[r] = [pc |-> "done", user |-> setup[r].user]
          /\ \A s \in Setup \ {r} : setup'[s] = setup[s]
          /\ connect' = [connect EXCEPT ![setup[r].user] = r]
          /\ UNCHANGED <<account, withdrawal, crossed, hit>>
      BY <2>4 DEF SaveAccount, PayoutShape
    <3>2. /\ connect'[setup[r].user] = r
          /\ \A u \in User \ {setup[r].user} : connect'[u] = connect[u]
      BY <3>1 DEF PayoutShape
    <3>3. PayoutCreated'
      BY <3>1 DEF PayoutCreated, PayoutShape
    <3>4. SavedIsOwn'
      BY <3>1, <3>2 DEF SavedIsOwn, PayoutShape
    <3>5. GoesToOwn'
      BY <3>1 DEF GoesToOwn, PayoutShape
    <3>6. OneAtWork'
      <4> SUFFICES ASSUME NEW v \in User \ crossed' PROVE AtWorkOn(v)'
        BY DEF OneAtWork
      <4>1. AtWorkOn(v)
        BY <3>1, <3>2 DEF OneAtWork
      <4>2. /\ \A s \in Setup : setup'[s].pc \in Active /\ setup'[s].user = v
                 => s # r /\ setup[s].pc \in Active /\ setup[s].user = v
            /\ \A s \in Setup \ {r} : setup'[s] = setup[s]
        BY <3>1
      <4>3. CASE v = setup[r].user
        <5>1. \A s \in Setup : ~(setup'[s].pc \in Active /\ setup'[s].user = v)
          BY <3>1, <4>1, <4>2, <4>3 DEF AtWorkOn
        <5>2. \A s \in Setup : setup[s].pc = "done" => setup[s].user # v
          BY ServicesAssumption, <3>1, <4>1, <4>3 DEF AtWorkOn
        <5> QED BY <3>1, <3>2, <4>2, <4>3, <5>1, <5>2 DEF AtWorkOn
      <4>4. CASE v # setup[r].user
        BY <3>1, <3>2, <4>1, <4>2, <4>4 DEF AtWorkOn
      <4> QED BY <4>3, <4>4
    <3> QED BY <3>3, <3>4, <3>5, <3>6
  <2>5. ASSUME NEW r \in Setup, SetupFails(r) PROVE PayoutInv'
    <3>1. /\ setup[r].pc \in Active
          /\ setup'[r] = [pc |-> "failed", user |-> setup[r].user]
          /\ \A s \in Setup \ {r} : setup'[s] = setup[s]
          /\ hit \subseteq hit'
          /\ setup[r].pc = "created" => setup[r].user \in hit'
          /\ UNCHANGED <<connect, account, withdrawal, crossed>>
      BY <2>5 DEF SetupFails, Fault, PayoutShape
    <3>2. PayoutCreated'
      BY <3>1 DEF PayoutCreated, PayoutShape
    <3>3. SavedIsOwn'
      BY <3>1 DEF SavedIsOwn, PayoutShape
    <3>4. GoesToOwn'
      BY <3>1 DEF GoesToOwn, PayoutShape
    <3>5. OneAtWork'
      <4> SUFFICES ASSUME NEW v \in User \ crossed' PROVE AtWorkOn(v)'
        BY DEF OneAtWork
      <4>1. AtWorkOn(v)
        BY <3>1 DEF OneAtWork
      <4>2. /\ \A s \in Setup : setup'[s].pc \in Active /\ setup'[s].user = v
                               => setup[s].pc \in Active /\ setup[s].user = v
            /\ \A s \in Setup : setup'[s].pc = "done" => setup'[s] = setup[s]
            /\ connect' = connect
        BY <3>1
      <4> QED BY <4>1, <4>2 DEF AtWorkOn
    <3> QED BY <3>2, <3>3, <3>4, <3>5
  <2>6. ASSUME NEW r \in Setup, Onboard(r) PROVE PayoutInv'
    <3>1. /\ setup[r].pc = "done"
          /\ account'[r] = [state |-> "complete", user |-> account[r].user]
          /\ \A s \in Setup \ {r} : account'[s] = account[s]
          /\ UNCHANGED <<connect, setup, withdrawal, crossed, hit>>
      BY <2>6 DEF Onboard, PayoutShape
    <3>2. PayoutCreated'
      BY <3>1 DEF PayoutCreated, PayoutShape
    <3> QED BY <3>1, <3>2 DEF SavedIsOwn, GoesToOwn, OneAtWork, AtWorkOn
  <2>7. ASSUME NEW w \in Withdrawal, NEW u \in User, CheckWithdraw(w, u)
        PROVE  PayoutInv'
    <3>1. /\ connect[u] # Nobody
          /\ withdrawal'[w] = [pc |-> "checked", user |-> u, to |-> connect[u]]
          /\ \A v \in Withdrawal \ {w} : withdrawal'[v] = withdrawal[v]
          /\ UNCHANGED <<connect, setup, account, crossed, hit>>
      BY <2>7 DEF CheckWithdraw, PayoutShape
    <3>2. GoesToOwn'
      BY <3>1 DEF GoesToOwn, SavedIsOwn, PayoutShape
    <3> QED BY <3>1, <3>2 DEF PayoutCreated, SavedIsOwn, OneAtWork, AtWorkOn
  <2>8. ASSUME NEW w \in Withdrawal, Transfer(w) PROVE PayoutInv'
    <3>1. /\ withdrawal[w].pc = "checked"
          /\ withdrawal'[w].user = withdrawal[w].user
          /\ withdrawal'[w].to = withdrawal[w].to
          /\ \A v \in Withdrawal \ {w} : withdrawal'[v] = withdrawal[v]
          /\ UNCHANGED <<connect, setup, account, crossed, hit>>
      BY <2>8 DEF Transfer, PayoutShape
    <3>2. GoesToOwn'
      BY <3>1 DEF GoesToOwn
    <3> QED BY <3>1, <3>2 DEF PayoutCreated, SavedIsOwn, OneAtWork, AtWorkOn
  <2>9. CASE Crash
    <3>1. /\ \A r \in Setup : setup[r].pc \in Active =>
               setup'[r].pc = "failed" /\ setup'[r].user = setup[r].user
          /\ \A r \in Setup : setup[r].pc \notin Active => setup'[r] = setup[r]
          /\ UNCHANGED <<connect, account, crossed>>
      BY <2>9 DEF Crash, PayoutShape
    <3>2. hit \subseteq hit' /\ \A r \in Setup : setup[r].pc = "created" =>
                                  setup[r].user \in hit'
      BY <2>9 DEF Crash, Fault
    <3>3. \A w \in Withdrawal : withdrawal'[w].pc \in {"checked", "paid"} =>
                                  withdrawal'[w] = withdrawal[w]
      BY <2>9 DEF Crash, PayoutShape
    <3>4. PayoutCreated'
      BY <3>1, <3>2 DEF PayoutCreated, PayoutShape
    <3>5. SavedIsOwn'
      BY <3>1 DEF SavedIsOwn, PayoutShape
    <3>6. GoesToOwn'
      BY <3>1, <3>3 DEF GoesToOwn
    <3>7. OneAtWork'
      BY <3>1 DEF OneAtWork, AtWorkOn
    <3> QED BY <3>4, <3>5, <3>6, <3>7
  <2>10. CASE UNCHANGED vars
    BY <2>10 DEF vars, PayoutCreated, SavedIsOwn, OneAtWork, AtWorkOn, GoesToOwn
  <2> QED BY <2>1, <2>2, <2>3, <2>4, <2>5, <2>6, <2>7, <2>8, <2>9, <2>10 DEF Next
<1> QED BY <1>1, <1>2, PayoutsShaped, PTL DEF Spec

\* A user has one payout account, the one the user was told of, unless requests
\* crossed or one died, and withdrawals end in an account of their user: for
\* any number of requests, withdrawals and faults.
LEMMA PayoutsAlone == Spec => []PayoutsAreSound
<1>1. PayoutShape /\ PayoutInv => PayoutsAreSound
  <2> SUFFICES ASSUME PayoutShape, PayoutInv PROVE PayoutsAreSound
    OBVIOUS
  <2> USE DEF PayoutInv, Active
  <2>1. ToldAccountIsSavedAlone
    BY DEF ToldAccountIsSavedAlone, OneAtWork, AtWorkOn, PayoutShape
  <2>2. OneAccountAlone
    <3> SUFFICES ASSUME NEW r \in Setup, NEW s \in Setup,
                        account[r].state # "none", account[s].state # "none",
                        account[r].user = account[s].user,
                        account[r].user \notin crossed \cup hit
                 PROVE  r = s
      BY DEF OneAccountAlone
    <3>1. /\ setup[r].pc \in {"created", "done"} /\ setup[s].pc \in {"created", "done"}
          /\ setup[r].user = account[r].user /\ setup[s].user = account[r].user
          /\ account[r].user \in User \ crossed
      BY DEF PayoutCreated, PayoutShape
    <3> QED BY ServicesAssumption, <3>1 DEF OneAtWork, AtWorkOn
  <2>3. PaidIntoOwnAccount
    BY DEF PaidIntoOwnAccount, GoesToOwn, PayoutCreated
  <2> QED BY <2>1, <2>2, <2>3 DEF PayoutsAreSound
<1> QED BY <1>1, PayoutsShaped, PayoutsAreKept, PTL

\* The services pay out as Payout alone does.
THEOREM PayoutsHold == ServicesSpec => []PayoutsAreSound
BY PartsBehave, PayoutsAlone, PTL

-----------------------------------------------------------------------------
(* Appointments.                                                           *)

\* Requests between their check and their write name a row that exists, and one
\* that confirms brings a link; an assigned booking knows client and agent.
BookingInv ==
    /\ \A b \in Booking : booking[b].pc = "assigned" =>
         booking[b].client \in Client /\ booking[b].agent \in Agent
    /\ \A x \in Edit : change[x].pc = "checked" =>
         /\ change[x].of \in Booking
         /\ change[x].kind = "status" => /\ change[x].status \in Appointments!Status
                                         /\ Appointments!LinkGiven(change[x].status, change[x].zoomLink)
         /\ change[x].kind = "reschedule" => change[x].slot \in Appointments!Slot

\* The shape of the state with what requests in progress hold.
AppointmentShape == Appointments!TypeOK /\ BookingInv

\* The columns of requests and reports in progress.
Changing == [pc : {"idle", "checked", "done"},
             kind : {"none", "status", "reschedule"}, of : Booking \cup {Nobody},
             agent : Agent \cup {Nobody}, status : Appointments!Status \cup {"none"},
             zoomLink : BOOLEAN, slot : Appointments!Slot \cup {"none"}]

Reporting == [pc : {"idle", "counting", "answered"}, agent : Agent \cup {Nobody},
              due : SUBSET Appointments!Query, count : [Appointments!Query -> Nat]]

\* Counting means the same within the component and here.
LEMMA CountsAlike ==
    ASSUME NEW S PROVE Appointments!Cardinality(S) = Cardinality(S)
BY Zenon DEF Appointments!Cardinality, Cardinality

\* A change whose progress alone moves keeps its shape.
LEMMA ChangingDone ==
    ASSUME NEW c \in Changing PROVE [c EXCEPT !.pc = "done"] \in Changing
BY Zenon DEF Changing

\* The state keeps its shape, and requests in progress hold what they need.
LEMMA AppointmentsShaped == Appointments!Spec => []AppointmentShape
<1>1. Appointments!Init => AppointmentShape
  BY DEF Appointments!Init, AppointmentShape, Appointments!TypeOK, BookingInv,
     Appointments!IdleChange, Appointments!IdleReport, Appointments!Query
<1>2. AppointmentShape /\ [Appointments!Next]_Appointments!vars => AppointmentShape'
  <2> SUFFICES ASSUME AppointmentShape, [Appointments!Next]_Appointments!vars
      PROVE  AppointmentShape'
    OBVIOUS
  <2> USE DEF AppointmentShape
  <2>1. ASSUME NEW b \in Booking, NEW c \in Client, Appointments!ReadAgent(b, c)
        PROVE  AppointmentShape'
    <3>1. assigned[c] \in Agent
      BY <2>1, ServicesAssumption DEF Appointments!ReadAgent
    <3>2. Appointments!TypeOK'
      BY <2>1, <3>1 DEF Appointments!ReadAgent, Appointments!TypeOK
    <3>3. BookingInv'
      BY <2>1, <3>1 DEF Appointments!ReadAgent, Appointments!TypeOK, BookingInv
    <3> QED BY <3>2, <3>3
  <2>2. ASSUME NEW b \in Booking, NEW s \in Appointments!Slot, Appointments!Create(b, s)
        PROVE  AppointmentShape'
    <3>1. [client |-> booking[b].client, agent |-> booking[b].agent,
           status |-> "PENDING", zoomLink |-> FALSE, slot |-> s] \in Appointments!Row
      BY <2>2 DEF Appointments!Create, BookingInv, Appointments!Row, Appointments!Status
    <3>2. Appointments!TypeOK'
      <4>1. moving' \subseteq Report
        BY <2>2 DEF Appointments!Create, Appointments!TypeOK, Appointments!Disturb
      <4>2. appointment' \in [Booking -> Appointments!Row \cup {Appointments!NoRow}]
        BY <2>2, <3>1 DEF Appointments!Create, Appointments!TypeOK
      <4>3. booking' \in [Booking -> [pc : {"idle", "assigned", "done"},
                                     client : Client \cup {Nobody},
                                     agent : Agent \cup {Nobody}]]
        BY <2>2 DEF Appointments!Create, Appointments!TypeOK
      <4>4. UNCHANGED <<live, change, report, seen, confirmedFor, overlap>>
        BY <2>2 DEF Appointments!Create
      <4> QED BY <4>1, <4>2, <4>3, <4>4 DEF Appointments!TypeOK
    <3>3. BookingInv'
      BY <2>2 DEF Appointments!Create, Appointments!TypeOK, BookingInv
    <3> QED BY <3>2, <3>3
  <2>3. ASSUME NEW x \in Edit, NEW b \in Booking, NEW s \in Appointments!Status,
               NEW z \in BOOLEAN,
               Appointments!CheckStatus(x, b, s, z)
        PROVE  AppointmentShape'
    <3>1. appointment[b] \in Appointments!Row
      BY <2>3 DEF Appointments!CheckStatus, Appointments!Check, Appointments!Present,
         Appointments!TypeOK
    <3>2. appointment[b].agent \in Agent /\ appointment[b].slot \in Appointments!Slot
      BY <3>1 DEF Appointments!Row
    <3>3. Appointments!TypeOK'
      BY <2>3, <3>2 DEF Appointments!CheckStatus, Appointments!Check, Appointments!TypeOK
    <3>4. BookingInv'
      BY <2>3 DEF Appointments!CheckStatus, Appointments!Check, Appointments!TypeOK, BookingInv
    <3> QED BY <3>3, <3>4
  <2>4. ASSUME NEW x \in Edit, NEW b \in Booking, NEW s \in Appointments!Slot,
               Appointments!CheckReschedule(x, b, s)
        PROVE  AppointmentShape'
    <3>1. appointment[b] \in Appointments!Row
      BY <2>4 DEF Appointments!CheckReschedule, Appointments!Check, Appointments!Present,
         Appointments!TypeOK
    <3>2. appointment[b].agent \in Agent /\ appointment[b].slot \in Appointments!Slot
      BY <3>1 DEF Appointments!Row
    <3>3. Appointments!TypeOK'
      BY <2>4, <3>2 DEF Appointments!CheckReschedule, Appointments!Check, Appointments!TypeOK,
         Appointments!Status
    <3>4. BookingInv'
      BY <2>4 DEF Appointments!CheckReschedule, Appointments!Check, Appointments!TypeOK,
         BookingInv
    <3> QED BY <3>3, <3>4
  <2>5. ASSUME NEW x \in Edit, NEW row, Appointments!Write(x, row),
               Appointments!Present(change[x].of) => row \in Appointments!Row
        PROVE  AppointmentShape'
    <3>1. Appointments!TypeOK'
      <4>1. moving' \subseteq Report
        BY <2>5 DEF Appointments!Write, Appointments!TypeOK, Appointments!Disturb
      <4>2. appointment' \in [Booking -> Appointments!Row \cup {Appointments!NoRow}]
        BY <2>5 DEF Appointments!Write, Appointments!TypeOK, BookingInv
      <4>3. confirmedFor' \in [Booking -> Appointments!Slot \cup {"none"}]
        BY <2>5 DEF Appointments!Write, Appointments!TypeOK
      <4>4. change' = [change EXCEPT ![x].pc = "done"]
        BY <2>5 DEF Appointments!Write
      <4>5. change' \in [Edit ->
               [pc : {"idle", "checked", "done"},
                kind : {"none", "status", "reschedule"}, of : Booking \cup {Nobody},
                agent : Agent \cup {Nobody}, status : Appointments!Status \cup {"none"},
                zoomLink : BOOLEAN, slot : Appointments!Slot \cup {"none"}]]
        <5>1. change \in [Edit -> Changing]
          BY DEF Appointments!TypeOK, Changing
        <5>2. [change[x] EXCEPT !.pc = "done"] \in Changing
          BY <5>1, ChangingDone
        <5> QED BY <4>4, <5>1, <5>2 DEF Changing
      <4>6. UNCHANGED <<live, booking, report, seen, overlap>>
        BY <2>5 DEF Appointments!Write
      <4> QED BY <4>1, <4>2, <4>3, <4>5, <4>6 DEF Appointments!TypeOK
    <3>2. BookingInv'
      BY <2>5 DEF Appointments!Write, Appointments!TypeOK, BookingInv
    <3> QED BY <3>1, <3>2
  <2>6. ASSUME NEW x \in Edit, Appointments!WriteStatus(x) PROVE AppointmentShape'
    <3>1. Appointments!Present(change[x].of) => appointment[change[x].of] \in Appointments!Row
      BY <2>6 DEF Appointments!WriteStatus, Appointments!Write, Appointments!Present,
         Appointments!TypeOK, BookingInv
    <3>2. change[x].status \in Appointments!Status /\ change[x].zoomLink \in BOOLEAN
      BY <2>6 DEF Appointments!WriteStatus, Appointments!Write, Appointments!TypeOK, BookingInv
    <3>3. Appointments!Present(change[x].of) =>
            [appointment[change[x].of] EXCEPT
               !.status = change[x].status,
               !.zoomLink = @ \/ change[x].zoomLink] \in Appointments!Row
      BY <3>1, <3>2 DEF Appointments!Row
    <3> QED BY <2>5, <2>6, <3>3 DEF Appointments!WriteStatus
  <2>7. ASSUME NEW x \in Edit, Appointments!WriteReschedule(x) PROVE AppointmentShape'
    <3>1. Appointments!Present(change[x].of) => appointment[change[x].of] \in Appointments!Row
      BY <2>7 DEF Appointments!WriteReschedule, Appointments!Write, Appointments!Present,
         Appointments!TypeOK, BookingInv
    <3>2. change[x].slot \in Appointments!Slot
      BY <2>7 DEF Appointments!WriteReschedule, Appointments!Write, Appointments!TypeOK,
         BookingInv
    <3>3. Appointments!Present(change[x].of) =>
            [appointment[change[x].of] EXCEPT !.slot = change[x].slot,
                                              !.status = "PENDING"] \in Appointments!Row
      BY <3>1, <3>2 DEF Appointments!Row, Appointments!Status
    <3> QED BY <2>5, <2>7, <3>3 DEF Appointments!WriteReschedule
  <2>8. ASSUME NEW g \in Agent, Appointments!RemoveAgent(g) PROVE AppointmentShape'
    BY <2>8 DEF Appointments!RemoveAgent, Appointments!Disturb, Appointments!TypeOK, BookingInv
  <2>9. ASSUME NEW m \in Report, NEW g \in Agent, Appointments!StartReport(m, g)
        PROVE  AppointmentShape'
    <3>1. report[m] \in [pc : {"idle", "counting", "answered"},
                         agent : Agent \cup {Nobody}, due : SUBSET Appointments!Query,
                         count : [Appointments!Query -> Nat]]
      BY DEF Appointments!TypeOK
    <3>2. [report[m] EXCEPT !.pc = "counting", !.agent = g, !.due = Appointments!Query]
            \in [pc : {"idle", "counting", "answered"},
                agent : Agent \cup {Nobody}, due : SUBSET Appointments!Query, count : [Appointments!Query -> Nat]]
      BY <3>1
    <3> QED BY <2>9, <3>2 DEF Appointments!StartReport, Appointments!TypeOK, BookingInv
  <2>10. ASSUME NEW m \in Report, NEW q \in Appointments!Query, Appointments!Count(m, q)
         PROVE  AppointmentShape'
    <3>1. Appointments!Matches(q, report[m].agent) \in SUBSET Booking
      BY DEF Appointments!Matches
    <3>2. Cardinality(Appointments!Matches(q, report[m].agent)) \in Nat
      BY <3>1, ServicesAssumption, FS_Subset, FS_CardinalityType
    <3>3. Appointments!TypeOK'
      <4>1. report[m].due \in SUBSET Appointments!Query
              /\ report[m].count \in [Appointments!Query -> Nat]
        BY DEF Appointments!TypeOK
      <4>2. report' \in [Report -> [pc : {"idle", "counting", "answered"},
                                   agent : Agent \cup {Nobody}, due : SUBSET Appointments!Query,
                                   count : [Appointments!Query -> Nat]]]
        <5> DEFINE n == Cardinality(Appointments!Matches(q, report[m].agent))
        <5> HIDE DEF n
        <5>1. report' = [report EXCEPT ![m].due = @ \ {q}, ![m].count[q] = n,
                           ![m].pc = IF report[m].due = {q} THEN "answered" ELSE @]
          BY <2>10, CountsAlike DEF Appointments!Count, n
        <5>2. n \in Nat
          BY <3>2 DEF n
        <5>3. report[m] \in Reporting
          BY DEF Appointments!TypeOK, Reporting
        <5>4. [report[m] EXCEPT !.due = @ \ {q}, !.count[q] = n,
                 !.pc = IF report[m].due = {q} THEN "answered" ELSE @] \in Reporting
          BY <5>2, <5>3 DEF Reporting
        <5>5. report' = [report EXCEPT ![m] =
                           [report[m] EXCEPT !.due = @ \ {q}, !.count[q] = n,
                              !.pc = IF report[m].due = {q} THEN "answered" ELSE @]]
          BY <5>1
        <5> QED BY <5>4, <5>5 DEF Appointments!TypeOK, Reporting
      <4> QED BY <2>10, <4>2 DEF Appointments!Count, Appointments!TypeOK
    <3>4. BookingInv'
      BY <2>10 DEF Appointments!Count, BookingInv
    <3> QED BY <3>3, <3>4
  <2>11. CASE UNCHANGED Appointments!vars
    BY <2>11 DEF Appointments!vars, Appointments!TypeOK, BookingInv
  <2> QED BY <2>1, <2>2, <2>3, <2>4, <2>6, <2>7, <2>8, <2>9, <2>10, <2>11 DEF Appointments!Next
<1> QED BY <1>1, <1>2, PTL DEF Appointments!Spec

\* While a change is between its check and its write the row is as it was seen,
\* unless another change of the same appointment is there too.
SeenIsCurrent ==
    /\ \A b \in Booking : Appointments!Present(b) => booking[b].pc = "done"
    /\ \A x \in Edit : change[x].pc = "checked" =>
         /\ booking[change[x].of].pc = "done"
         /\ \A y \in Edit : change[y].pc = "checked" /\ change[y].of = change[x].of
                                /\ x # y => change[x].of \in overlap
         /\ Appointments!Present(change[x].of) /\ change[x].of \notin overlap =>
              appointment[change[x].of].slot = seen[x]

\* A report not disturbed has counted the rows as they are; one that has counted
\* all is answered.
CountedAsIs ==
    /\ \A m \in Report : report[m].due # {} => report[m].pc = "counting"
    /\ \A m \in Report \ moving : report[m].pc = "counting" =>
         \A q \in Appointments!Query \ report[m].due :
             report[m].count[q] = Cardinality(Appointments!Matches(q, report[m].agent))

\* What holds of the status of an appointment, together.
StatusInv == Appointments!ConfirmedHasLink /\ Appointments!ConfirmedAsSeen
      /\ Appointments!NoOrphan /\ SeenIsCurrent

\* A confirmed appointment has a link and is the one its agent saw.
LEMMA StatusesHold == Appointments!Spec
        => [](Appointments!ConfirmedHasLink /\ Appointments!ConfirmedAsSeen /\ Appointments!NoOrphan)
<1>1. Appointments!Init => StatusInv
  BY DEF Appointments!Init, StatusInv, Appointments!ConfirmedHasLink,
     Appointments!ConfirmedAsSeen, Appointments!NoOrphan, SeenIsCurrent, Appointments!Present,
     Appointments!NoRow,
         Appointments!IdleChange
<1>2. AppointmentShape /\ StatusInv /\ [Appointments!Next]_Appointments!vars => StatusInv'
  <2> SUFFICES ASSUME AppointmentShape, StatusInv, [Appointments!Next]_Appointments!vars
      PROVE  StatusInv'
    OBVIOUS
  <2> USE DEF StatusInv
  <2>0. /\ appointment \in [Booking -> Appointments!Row \cup {Appointments!NoRow}]
        /\ \A x \in Edit : change[x].pc = "checked" => change[x].of \in Booking
    BY DEF AppointmentShape, Appointments!TypeOK, BookingInv
  <2>1. ASSUME NEW b \in Booking, NEW c \in Client, Appointments!ReadAgent(b, c)
        PROVE  StatusInv'
    <3>1. /\ booking[b].pc = "idle"
          /\ \A a \in Booking \ {b} : booking'[a] = booking[a]
          /\ UNCHANGED <<live, appointment, change, seen, confirmedFor, overlap>>
      BY <2>1 DEF Appointments!ReadAgent, AppointmentShape, Appointments!TypeOK
    <3>2. SeenIsCurrent'
      BY <2>0, <3>1 DEF SeenIsCurrent, Appointments!Present
    <3> QED BY <3>1, <3>2 DEF Appointments!ConfirmedHasLink, Appointments!ConfirmedAsSeen,
               Appointments!NoOrphan, Appointments!Present
  <2>2. ASSUME NEW b \in Booking, NEW s \in Appointments!Slot, Appointments!Create(b, s)
        PROVE  StatusInv'
    <3>1. /\ booking[b].pc = "assigned" /\ booking'[b].pc = "done"
          /\ \A a \in Booking \ {b} : booking'[a] = booking[a]
                                      /\ appointment'[a] = appointment[a]
          /\ UNCHANGED <<live, change, seen, confirmedFor, overlap>>
      BY <2>2 DEF Appointments!Create, AppointmentShape, Appointments!TypeOK
    <3>2. \/ appointment'[b] = appointment[b]
          \/ appointment'[b].status = "PENDING" /\ appointment'[b].agent \in live
      BY <2>2 DEF Appointments!Create, AppointmentShape, Appointments!TypeOK
    <3>3. SeenIsCurrent'
      BY <2>0, <3>1 DEF SeenIsCurrent, Appointments!Present
    <3>4. Appointments!ConfirmedAsSeen' /\ Appointments!ConfirmedHasLink'
      BY <3>1, <3>2 DEF Appointments!ConfirmedAsSeen, Appointments!ConfirmedHasLink
    <3>5. Appointments!NoOrphan'
      BY <3>1, <3>2 DEF Appointments!NoOrphan, Appointments!Present
    <3> QED BY <3>3, <3>4, <3>5
  <2>3. ASSUME NEW x \in Edit, NEW b \in Booking, NEW r, r.pc = "checked", r.of = b,
               Appointments!Check(x, b, r)
        PROVE  StatusInv'
    <3>1. /\ change[x].pc = "idle" /\ Appointments!Present(b) /\ change'[x].pc = "checked"
          /\ change'[x].of = b /\ seen'[x] = appointment[b].slot
          /\ \A y \in Edit \ {x} : change'[y] = change[y] /\ seen'[y] = seen[y]
          /\ UNCHANGED <<live, appointment, booking, confirmedFor>>
          /\ overlap \subseteq overlap' /\ (Appointments!Overlapping(b) => b \in overlap')
      BY <2>3 DEF Appointments!Check, AppointmentShape, Appointments!TypeOK
    <3>2. SeenIsCurrent'
      BY <2>0, <3>1 DEF SeenIsCurrent, Appointments!Present, Appointments!Overlapping
    <3>3. Appointments!ConfirmedAsSeen' /\ Appointments!ConfirmedHasLink'
      BY <3>1 DEF Appointments!ConfirmedAsSeen, Appointments!ConfirmedHasLink
    <3> QED BY <3>1, <3>2, <3>3 DEF Appointments!NoOrphan, Appointments!Present
  <2>4. ASSUME NEW x \in Edit, NEW row, Appointments!Write(x, row),
               Appointments!Present(change[x].of) =>
                   /\ row \in Appointments!Row
                   /\ row.agent = appointment[change[x].of].agent
                   /\ \/ row.status = "PENDING"
                      \/ row.slot = appointment[change[x].of].slot
                   /\ row.status = "CONFIRMED" => row.zoomLink
        PROVE  StatusInv'
    <3>1. PICK b \in Booking : change[x].of = b
      BY <2>0, <2>4 DEF Appointments!Write
    <3>2. /\ change[x].pc = "checked" /\ change'[x].pc = "done" /\ change'[x].of = b
          /\ \A y \in Edit \ {x} : change'[y] = change[y]
          /\ \A a \in Booking \ {b} : /\ appointment'[a] = appointment[a]
                                      /\ confirmedFor'[a] = confirmedFor[a]
          /\ confirmedFor'[b] = seen[x]
          /\ UNCHANGED <<live, booking, seen, overlap>>
      BY <2>4, <3>1 DEF Appointments!Write, AppointmentShape, Appointments!TypeOK
    <3>3. appointment'[b] = IF Appointments!Present(b) THEN row ELSE Appointments!NoRow
      BY <2>4, <3>1 DEF Appointments!Write, AppointmentShape, Appointments!TypeOK,
         Appointments!Present
    <3>4. SeenIsCurrent'
      BY <2>0, <3>1, <3>2, <3>3 DEF SeenIsCurrent, Appointments!Present
    <3>5. Appointments!ConfirmedAsSeen'
      <4>1. ASSUME b \notin overlap, appointment'[b].status = "CONFIRMED"
            PROVE  appointment'[b].slot = seen[x]
        <5>1. Appointments!Present(b) /\ appointment'[b] = row
          BY <3>3, <4>1 DEF Appointments!NoRow
        <5>2. appointment[b].slot = seen[x]
          BY <3>1, <3>2, <4>1, <5>1 DEF SeenIsCurrent
        <5> QED BY <2>4, <3>1, <4>1, <5>1, <5>2
      <4> QED BY <3>2, <4>1 DEF Appointments!ConfirmedAsSeen
    <3>7. Appointments!ConfirmedHasLink'
      <4>1. ASSUME appointment'[b].status = "CONFIRMED" PROVE appointment'[b].zoomLink
        <5>1. Appointments!Present(b) /\ appointment'[b] = row
          BY <3>3, <4>1 DEF Appointments!NoRow
        <5> QED BY <2>4, <3>1, <4>1, <5>1
      <4> QED BY <3>2, <4>1 DEF Appointments!ConfirmedHasLink
    <3>6. Appointments!NoOrphan'
      BY <2>4, <3>1, <3>2, <3>3 DEF Appointments!NoOrphan, Appointments!Present
    <3> QED BY <3>4, <3>5, <3>6, <3>7
  <2>5. ASSUME NEW x \in Edit, Appointments!WriteStatus(x)
        PROVE  StatusInv'
    <3>1. Appointments!Present(change[x].of) => appointment[change[x].of] \in Appointments!Row
      BY <2>0, <2>5 DEF Appointments!WriteStatus, Appointments!Write, Appointments!Present
    <3>2. change[x].status \in Appointments!Status /\ change[x].zoomLink \in BOOLEAN
      BY <2>5 DEF Appointments!WriteStatus, Appointments!Write, AppointmentShape,
         Appointments!TypeOK, BookingInv
    <3> DEFINE row == [appointment[change[x].of] EXCEPT
                         !.status = change[x].status,
                         !.zoomLink = @ \/ change[x].zoomLink]
    <3>3. Appointments!Present(change[x].of) =>
            /\ row \in Appointments!Row /\ row.agent = appointment[change[x].of].agent
            /\ row.slot = appointment[change[x].of].slot
      BY <3>1, <3>2 DEF Appointments!Row
    <3>5. Appointments!Present(change[x].of) => (row.status = "CONFIRMED" => row.zoomLink)
      <4>1. Appointments!LinkGiven(change[x].status, change[x].zoomLink)
        BY <2>5 DEF Appointments!WriteStatus, Appointments!Write, AppointmentShape, BookingInv
      <4>2. Appointments!Present(change[x].of) => /\ row.status = change[x].status
                                                  /\ change[x].zoomLink => row.zoomLink
        BY <3>1, <3>2, Zenon DEF Appointments!Row
      <4> QED BY <4>1, <4>2, Zenon DEF Appointments!LinkGiven
    <3>4. Appointments!Write(x, row)
      BY <2>5 DEF Appointments!WriteStatus
    <3> HIDE DEF row
    <3> QED BY <2>4, <3>3, <3>4, <3>5
  <2>6. ASSUME NEW x \in Edit, Appointments!WriteReschedule(x)
        PROVE  StatusInv'
    <3>1. Appointments!Present(change[x].of) => appointment[change[x].of] \in Appointments!Row
      BY <2>0, <2>6 DEF Appointments!WriteReschedule, Appointments!Write, Appointments!Present
    <3>2. change[x].slot \in Appointments!Slot
      BY <2>6 DEF Appointments!WriteReschedule, Appointments!Write, AppointmentShape,
         Appointments!TypeOK, BookingInv
    <3> DEFINE row == [appointment[change[x].of] EXCEPT !.slot = change[x].slot,
                                                        !.status = "PENDING"]
    <3>3. Appointments!Present(change[x].of) =>
            /\ row \in Appointments!Row /\ row.agent = appointment[change[x].of].agent
            /\ row.status = "PENDING"
      BY <3>1, <3>2 DEF Appointments!Row, Appointments!Status
    <3>4. Appointments!Write(x, row)
      BY <2>6 DEF Appointments!WriteReschedule
    <3> HIDE DEF row
    <3> QED BY <2>4, <3>3, <3>4
  <2>7. ASSUME NEW g \in Agent, Appointments!RemoveAgent(g)
        PROVE  StatusInv'
    <3>1. /\ live' = live \ {g}
          /\ \A a \in Booking : appointment'[a] =
                IF appointment[a].agent = g THEN Appointments!NoRow
                                                  ELSE appointment[a]
          /\ UNCHANGED <<booking, change, seen, confirmedFor, overlap>>
      BY <2>7 DEF Appointments!RemoveAgent
    <3>2. SeenIsCurrent'
      BY <2>0, <3>1 DEF SeenIsCurrent, Appointments!Present
    <3>3. \A a \in Booking : \/ /\ appointment'[a] = appointment[a]
                                 /\ appointment[a].agent # g
                              \/ appointment'[a] = Appointments!NoRow
      BY <3>1
    <3>4. Appointments!ConfirmedAsSeen' /\ Appointments!ConfirmedHasLink'
      BY <3>1, <3>3 DEF Appointments!ConfirmedHasLink, Appointments!ConfirmedAsSeen,
         Appointments!NoRow
    <3> QED BY <3>1, <3>2, <3>3, <3>4 DEF Appointments!NoOrphan, Appointments!Present
  <2>8. ASSUME UNCHANGED <<live, appointment, booking, change, seen, confirmedFor, overlap>>
        PROVE  StatusInv'
    BY <2>8 DEF Appointments!ConfirmedHasLink, Appointments!ConfirmedAsSeen,
       Appointments!NoOrphan, SeenIsCurrent, Appointments!Present
  <2>9. ASSUME NEW x \in Edit, NEW b \in Booking, NEW s \in Appointments!Status,
               NEW z \in BOOLEAN,
               Appointments!CheckStatus(x, b, s, z)
        PROVE  StatusInv'
    BY <2>3, <2>9 DEF Appointments!CheckStatus
  <2>10. ASSUME NEW x \in Edit, NEW b \in Booking, NEW s \in Appointments!Slot,
                Appointments!CheckReschedule(x, b, s)
         PROVE  StatusInv'
    BY <2>3, <2>10 DEF Appointments!CheckReschedule
  <2> QED BY <2>1, <2>2, <2>5, <2>6, <2>7, <2>8, <2>9, <2>10 DEF Appointments!Next,
             Appointments!vars, Appointments!StartReport, Appointments!Count
<1>3. StatusInv
          => Appointments!ConfirmedHasLink /\ Appointments!ConfirmedAsSeen /\ Appointments!NoOrphan
  BY DEF StatusInv
<1> QED BY <1>1, <1>2, <1>3, AppointmentsShaped, PTL DEF Appointments!Spec

\* Today's appointments and the week's confirmed ones are among this week's.
LEMMA WeekCoversDay ==
    ASSUME NEW g
    PROVE  /\ Cardinality(Appointments!Matches("today", g))
              <= Cardinality(Appointments!Matches("thisWeek", g))
           /\ Cardinality(Appointments!Matches("confirmedWeek", g))
              <= Cardinality(Appointments!Matches("thisWeek", g))
<1>1. \A q : Appointments!Matches(q, g) \in SUBSET Booking
  BY DEF Appointments!Matches
<1>2. \A q : IsFiniteSet(Appointments!Matches(q, g))
        /\ Cardinality(Appointments!Matches(q, g)) \in Nat
  BY <1>1, ServicesAssumption, FS_Subset, FS_CardinalityType
<1>3. /\ Appointments!Matches("today", g) \in SUBSET Appointments!Matches("thisWeek", g)
      /\ Appointments!Matches("confirmedWeek", g) \in SUBSET Appointments!Matches("thisWeek", g)
  BY DEF Appointments!Matches, Appointments!Counted
<1> QED BY <1>2, <1>3, FS_Subset

\* Counts nothing was written during add up.
LEMMA ReportsAgree == Appointments!Spec => []Appointments!MetricsAgreeAlone
<1>1. Appointments!Init => Appointments!MetricsAgreeAlone /\ CountedAsIs
  BY DEF Appointments!Init, Appointments!MetricsAgreeAlone, CountedAsIs, Appointments!IdleReport
<1>2. AppointmentShape /\ Appointments!MetricsAgreeAlone /\ CountedAsIs
        /\ [Appointments!Next]_Appointments!vars
        => Appointments!MetricsAgreeAlone' /\ CountedAsIs'
  <2> SUFFICES ASSUME AppointmentShape, Appointments!MetricsAgreeAlone, CountedAsIs,
                      [Appointments!Next]_Appointments!vars
               PROVE  Appointments!MetricsAgreeAlone' /\ CountedAsIs'
    OBVIOUS
  <2>1. ASSUME NEW m \in Report, NEW q \in Appointments!Query, Appointments!Count(m, q)
        PROVE  Appointments!MetricsAgreeAlone' /\ CountedAsIs'
    <3> DEFINE g == report[m].agent
               n(p) == Cardinality(Appointments!Matches(p, g))
    <3>1. /\ q \in report[m].due /\ report[m].due \in SUBSET Appointments!Query
          /\ \A l \in Report \ {m} : report'[l] = report[l]
          /\ report'[m].due = report[m].due \ {q} /\ report'[m].agent = g
          /\ report'[m].count = [report[m].count EXCEPT ![q] = n(q)]
          /\ report'[m].pc = IF report[m].due = {q} THEN "answered" ELSE report[m].pc
          /\ report[m].count \in [Appointments!Query -> Nat]
          /\ UNCHANGED <<appointment, moving>>
      BY <2>1, CountsAlike DEF Appointments!Count, AppointmentShape, Appointments!TypeOK
    <3>2. \A p, h : Appointments!Matches(p, h)' = Appointments!Matches(p, h)
      BY <3>1 DEF Appointments!Matches
    <3>3. \A p \in Appointments!Query : n(p) \in Nat
      <4> SUFFICES ASSUME NEW p \in Appointments!Query PROVE n(p) \in Nat
        OBVIOUS
      <4>1. Appointments!Matches(p, g) \in SUBSET Booking
        BY DEF Appointments!Matches
      <4> QED BY <4>1, ServicesAssumption, FS_Subset, FS_CardinalityType
    <3>4. report[m].pc = "counting"
      BY <3>1 DEF CountedAsIs
    <3>5. \A p \in Appointments!Query \ report'[m].due : m \notin moving
              => report'[m].count[p] = n(p)
      BY <3>1, <3>4 DEF CountedAsIs
    <3>6. CountedAsIs'
      <4> HIDE DEF n
      <4>1. \A l \in Report : report'[l].due # {} => report'[l].pc = "counting"
        BY <3>1, <3>4 DEF CountedAsIs
      <4>2. \A l \in (Report \ {m}) \ moving : report'[l].pc = "counting" =>
              \A p \in Appointments!Query \ report'[l].due :
                report'[l].count[p] = Cardinality(Appointments!Matches(p, report'[l].agent))
        BY <3>1 DEF CountedAsIs
      <4>3. m \notin moving => \A p \in Appointments!Query \ report'[m].due :
                report'[m].count[p] = Cardinality(Appointments!Matches(p, report'[m].agent))
        BY <3>1, <3>5 DEF n
      <4>4. \A l \in Report \ moving' : report'[l].pc = "counting" =>
              \A p \in Appointments!Query \ report'[l].due :
                report'[l].count[p] = Cardinality(Appointments!Matches(p, report'[l].agent))
        BY <3>1, <4>2, <4>3
      <4> QED BY <3>1, <4>1, <4>4 DEF CountedAsIs, Appointments!Matches
    <3>7. Appointments!MetricsAgreeAlone'
      <4>1. CASE report[m].due = {q} /\ m \notin moving
        <5>1. \A p \in Appointments!Query : report'[m].count[p] = n(p)
          BY <3>1, <3>5, <4>1
        <5>2. /\ n("today") <= n("thisWeek") /\ n("confirmedWeek") <= n("thisWeek")
          BY WeekCoversDay
        <5> HIDE DEF n
        <5> QED BY <3>1, <5>1, <5>2 DEF Appointments!MetricsAgreeAlone, Appointments!Query
      <4>2. CASE ~ (report[m].due = {q} /\ m \notin moving)
        BY <3>1, <3>4, <4>2 DEF Appointments!MetricsAgreeAlone
      <4> QED BY <4>1, <4>2
    <3> QED BY <3>6, <3>7
  <2>2. ASSUME NEW m \in Report, NEW g \in Agent, Appointments!StartReport(m, g)
        PROVE  Appointments!MetricsAgreeAlone' /\ CountedAsIs'
    <3>1. /\ report'[m].pc = "counting" /\ report'[m].due = Appointments!Query
          /\ \A l \in Report \ {m} : report'[l] = report[l]
          /\ UNCHANGED <<appointment, moving>>
      BY <2>2 DEF Appointments!StartReport, AppointmentShape, Appointments!TypeOK
    <3>2. \A p, h : Appointments!Matches(p, h)' = Appointments!Matches(p, h)
      BY <3>1 DEF Appointments!Matches
    <3> QED BY <3>1, <3>2 DEF Appointments!MetricsAgreeAlone, CountedAsIs
  <2>3. ASSUME Appointments!Disturb, report' = report
        PROVE  Appointments!MetricsAgreeAlone' /\ CountedAsIs'
    BY <2>3 DEF Appointments!Disturb, Appointments!MetricsAgreeAlone, CountedAsIs
  <2>4. ASSUME UNCHANGED <<appointment, moving, report>>
        PROVE  Appointments!MetricsAgreeAlone' /\ CountedAsIs'
    <3>1. \A p, h : Appointments!Matches(p, h)' = Appointments!Matches(p, h)
      BY <2>4 DEF Appointments!Matches
    <3> QED BY <2>4, <3>1 DEF Appointments!MetricsAgreeAlone, CountedAsIs
  <2>5. \/ \E m \in Report, q \in Appointments!Query : Appointments!Count(m, q)
        \/ \E m \in Report, g \in Agent : Appointments!StartReport(m, g)
        \/ Appointments!Disturb /\ report' = report
        \/ UNCHANGED <<appointment, moving, report>>
    BY DEF Appointments!Next, Appointments!vars, Appointments!ReadAgent, Appointments!Create,
       Appointments!CheckStatus, Appointments!CheckReschedule, Appointments!Check,
           Appointments!WriteStatus, Appointments!WriteReschedule, Appointments!Write,
           Appointments!RemoveAgent
  <2> QED BY <2>1, <2>2, <2>3, <2>4, <2>5
<1> QED BY <1>1, <1>2, AppointmentsShaped, PTL DEF Appointments!Spec

\* What the agent confirmed holds, and so does what is counted.
LEMMA AppointmentsAlone == Appointments!Spec
        => []Appointments!TypeOK /\ []Appointments!AppointmentsAreSound
<1>1. AppointmentShape => Appointments!TypeOK
  BY DEF AppointmentShape
<1>2. Appointments!ConfirmedHasLink /\ Appointments!ConfirmedAsSeen
        /\ Appointments!NoOrphan /\ Appointments!MetricsAgreeAlone
        => Appointments!AppointmentsAreSound
  BY DEF Appointments!AppointmentsAreSound
<1> QED BY <1>1, <1>2, AppointmentsShaped, StatusesHold, ReportsAgree, PTL

\* A confirmed appointment has a link and is with the agent who saw it at its time,
\* an agent that is gone leaves none behind, and what was not written meanwhile is
\* counted as it is.
THEOREM AppointmentsHold == ServicesSpec => []AppointmentsAreSound
BY PartsBehave, AppointmentsAlone, PTL DEF AppointmentsAreSound

-----------------------------------------------------------------------------
(* Bequests.                                                               *)

\* The columns of bequests and of requests.
BequestRow == [state : {"none", "live", "deleted"},
               beneficiary : Beneficiary \cup {Nobody}, attachments : SUBSET Bequests!Upload]

Asking == [pc : {"idle", "viewed", "open", "stored", "done", "failed"},
           bequest : Grant \cup {Nobody}, beneficiary : Beneficiary \cup {Nobody},
           list : {"absent", "given"}, keeps : SUBSET Bequests!Upload, seen : SUBSET Bequests!Upload,
           file : Name \cup {Nobody}]

\* A request that has begun names its bequest, and one that was sent its file; a
\* row was created by its own request, and what is attached to it or was seen on it
\* is done.
RequestInv ==
    /\ \A u \in Bequests!Upload : request[u].pc # "idle" =>
         /\ request[u].bequest \in Grant
         /\ request[u].pc # "viewed" => request[u].file \in Name
    /\ \A q \in Grant : request[q].pc # "idle" => request[q].bequest = q
    /\ \A q \in Grant : bequest[q].state # "none" => request[q].pc = "done"
    /\ \A x \in Amendment : request[x].pc # "idle" => bequest[request[x].bequest].state # "none"
    /\ \A q \in Grant : \A u \in bequest[q].attachments : request[u].pc = "done"
    /\ \A u \in Bequests!Upload : /\ request[u].keeps \subseteq request[u].seen
                                  /\ \A v \in request[u].seen : request[v].pc = "done"

\* The shape of the state with what requests in progress hold.
BequestShape == Bequests!TypeOK /\ RequestInv

\* Requests and bequests have the columns of their rows.
LEMMA BequestTyped ==
    ASSUME Bequests!TypeOK
    PROVE  request \in [Bequests!Upload -> Asking] /\ bequest \in [Grant -> BequestRow]
BY DEF Bequests!TypeOK, Asking, BequestRow

\* What a request does to the requests: one of them takes its next step.
LEMMA BequestMoved ==
    ASSUME Bequests!TypeOK, NEW u \in Bequests!Upload, NEW p \in {"stored", "done", "failed"},
           request' = [request EXCEPT ![u].pc = p]
    PROVE  /\ request' \in [Bequests!Upload -> Asking]
           /\ \A v \in Bequests!Upload \ {u} : request'[v] = request[v]
           /\ request'[u].pc = p /\ request'[u].bequest = request[u].bequest
           /\ request'[u].beneficiary = request[u].beneficiary
           /\ request'[u].keeps = request[u].keeps /\ request'[u].seen = request[u].seen
           /\ request'[u].file = request[u].file
<1>1. request \in [Bequests!Upload -> Asking]
  BY BequestTyped
<1> QED BY <1>1 DEF Asking

\* What beginning to log a bequest does to the requests.
LEMMA BequestBegun ==
    ASSUME Bequests!TypeOK, NEW q \in Grant, NEW y \in Beneficiary, NEW n \in Name,
           Bequests!Begin(q, y, n)
    PROVE  /\ request[q].pc = "idle" /\ q \in Bequests!Upload
           /\ request' \in [Bequests!Upload -> Asking]
           /\ \A v \in Bequests!Upload \ {q} : request'[v] = request[v]
           /\ request'[q].pc = "open" /\ request'[q].bequest = q
           /\ request'[q].keeps = {} /\ request'[q].seen = {} /\ request'[q].file = n
           /\ bequestClash' = bequestClash \cup Bequests!Clashing(q, n)
           /\ UNCHANGED <<beneficiaries, bequest, disk, former, stripped, given, overrun,
                          refused, bequestFaults>>
<1> DEFINE r == [Bequests!Idle EXCEPT !.pc = "open", !.bequest = q, !.beneficiary = y, !.file = n]
<1>1. /\ r \in Asking /\ r.pc = "open" /\ r.bequest = q /\ r.keeps = {} /\ r.seen = {}
      /\ r.file = n
  BY DEF Bequests!Idle, Asking
<1>2. request' = [request EXCEPT ![q] = r] /\ q \in Bequests!Upload
        /\ request \in [Bequests!Upload -> Asking]
  BY BequestTyped DEF Bequests!Begin, Bequests!Upload
<1> HIDE DEF r
<1> QED BY <1>1, <1>2 DEF Bequests!Begin

\* What looking at the bequest to change does to the requests.
LEMMA BequestSeen ==
    ASSUME Bequests!TypeOK, NEW x \in Amendment, NEW q \in Grant, Bequests!SeeBequest(x, q)
    PROVE  /\ request[x].pc = "idle" /\ x \in Bequests!Upload /\ Bequests!Live(q)
           /\ request' \in [Bequests!Upload -> Asking]
           /\ \A v \in Bequests!Upload \ {x} : request'[v] = request[v]
           /\ request'[x].pc = "viewed" /\ request'[x].bequest = q
           /\ request'[x].keeps = {} /\ request'[x].seen = bequest[q].attachments
           /\ UNCHANGED <<beneficiaries, bequest, disk, former, stripped, given, overrun,
                          bequestClash, refused, bequestFaults>>
<1> DEFINE r == [Bequests!Idle EXCEPT !.pc = "viewed", !.bequest = q,
                                      !.seen = bequest[q].attachments]
<1>1. /\ r \in Asking /\ r.pc = "viewed" /\ r.bequest = q /\ r.keeps = {}
      /\ r.seen = bequest[q].attachments
  BY BequestTyped DEF Bequests!Idle, Asking, BequestRow
<1>2. request' = [request EXCEPT ![x] = r] /\ x \in Bequests!Upload
        /\ request \in [Bequests!Upload -> Asking]
  BY BequestTyped DEF Bequests!SeeBequest, Bequests!Upload
<1> HIDE DEF r
<1> QED BY <1>1, <1>2 DEF Bequests!SeeBequest

\* What sending the change does to the requests.
LEMMA BequestRead ==
    ASSUME Bequests!TypeOK, NEW x \in Amendment, NEW y \in Beneficiary \cup {Nobody},
           NEW n \in Name,
             NEW list \in {"absent", "given"}, NEW keeps \in SUBSET request[x].seen,
           Bequests!ReadBequest(x, y, list, keeps, n)
    PROVE  /\ request[x].pc = "viewed" /\ x \in Bequests!Upload
           /\ request' \in [Bequests!Upload -> Asking]
           /\ \A v \in Bequests!Upload \ {x} : request'[v] = request[v]
           /\ request'[x].pc = "open" /\ request'[x].bequest = request[x].bequest
           /\ request'[x].keeps = keeps /\ request'[x].seen = request[x].seen
           /\ request'[x].file = n
           /\ bequestClash' = bequestClash \cup Bequests!Clashing(x, n)
           /\ UNCHANGED <<beneficiaries, bequest, disk, former, stripped, given, overrun,
                          refused, bequestFaults>>
<1> DEFINE r == [request[x] EXCEPT !.pc = "open", !.beneficiary = y, !.list = list,
                                   !.keeps = keeps, !.file = n]
<1>1. x \in Bequests!Upload /\ request \in [Bequests!Upload -> Asking]
  BY BequestTyped DEF Bequests!Upload
<1>2. /\ r \in Asking /\ r.pc = "open" /\ r.bequest = request[x].bequest /\ r.keeps = keeps
      /\ r.seen = request[x].seen /\ r.file = n
  <2>1. request[x] \in Asking
    BY <1>1
  <2>2. keeps \in SUBSET Bequests!Upload
    BY <2>1 DEF Asking
  <2>3. r \in Asking
    BY <2>1, <2>2 DEF Asking
  <2> QED BY <2>1, <2>3 DEF Asking
<1>3. request' = [request EXCEPT ![x] = r]
  BY DEF Bequests!ReadBequest
<1> HIDE DEF r
<1> QED BY <1>1, <1>2, <1>3 DEF Bequests!ReadBequest

\* A row created: its own request is done and attached.
LEMMA BequestCreated ==
    ASSUME BequestShape, NEW q \in Grant, Bequests!CreateBequest(q),
           request[q].beneficiary \in beneficiaries
    PROVE  /\ request[q].pc = "stored" /\ request' = [request EXCEPT ![q].pc = "done"]
           /\ bequest' \in [Grant -> BequestRow]
           /\ \A p \in Grant \ {q} : bequest'[p] = bequest[p] /\ given'[p] = given[p]
           /\ bequest'[q].state = "live" /\ bequest'[q].beneficiary = request[q].beneficiary
           /\ bequest'[q].attachments = {q} /\ given'[q] = request[q].beneficiary
           /\ given' \in [Grant -> Beneficiary \cup {Nobody}] /\ q \in Bequests!Upload
           /\ UNCHANGED <<beneficiaries, disk, former, stripped, overrun, bequestClash,
                          refused, bequestFaults>>
<1> DEFINE r == [state |-> "live", beneficiary |-> request[q].beneficiary, attachments |-> {q}]
<1>1. r \in BequestRow /\ r.state = "live" /\ r.beneficiary = request[q].beneficiary
      /\ r.attachments = {q} /\ q \in Bequests!Upload
  BY BequestTyped DEF BequestShape, BequestRow, Asking, Bequests!Upload
<1>2. bequest' = [bequest EXCEPT ![q] = r] /\ bequest \in [Grant -> BequestRow]
  BY BequestTyped DEF Bequests!CreateBequest, BequestShape
<1>3. request[q].beneficiary \in Beneficiary \cup {Nobody}
      /\ given \in [Grant -> Beneficiary \cup {Nobody}]
  BY <1>1, BequestTyped DEF BequestShape, Bequests!TypeOK
<1> HIDE DEF r
<1> QED BY <1>1, <1>2, <1>3 DEF Bequests!CreateBequest

\* A row changed: the upload is attached, and the beneficiary given if one is named.
LEMMA BequestUpdated ==
    ASSUME BequestShape, NEW x \in Amendment, Bequests!UpdateBequest(x),
           Bequests!Live(request[x].bequest), request[x].beneficiary \in beneficiaries \cup {Nobody}
    PROVE  LET q == request[x].bequest IN
           /\ request[x].pc = "stored" /\ q \in Grant
           /\ request' = [request EXCEPT ![x].pc = "done"] /\ x \in Bequests!Upload
           /\ bequest' \in [Grant -> BequestRow]
           /\ \A p \in Grant \ {q} : bequest'[p] = bequest[p] /\ given'[p] = given[p]
           /\ bequest'[q].state = "live" /\ bequest'[q].attachments = Bequests!Attached(x, q)
           /\ IF request[x].beneficiary = Nobody
              THEN /\ bequest'[q].beneficiary = bequest[q].beneficiary
                   /\ given'[q] = given[q] /\ stripped' = stripped
              ELSE /\ bequest'[q].beneficiary = request[x].beneficiary
                   /\ given'[q] = request[x].beneficiary /\ stripped' = stripped \ {q}
           /\ given' \in [Grant -> Beneficiary \cup {Nobody}]
           /\ overrun \subseteq overrun' /\ overrun' \subseteq Amendment \X Amendment
           /\ \A v \in Amendment \ {x} : request[v].bequest = q
                /\ request[v].pc \in {"viewed", "open", "stored"}
                                        => <<x, v>> \in overrun'
           /\ UNCHANGED <<beneficiaries, disk, former, bequestClash, refused, bequestFaults>>
<1> DEFINE q == request[x].bequest
           b == IF request[x].beneficiary = Nobody THEN bequest[q].beneficiary
                ELSE request[x].beneficiary
           r == [bequest[q] EXCEPT !.attachments = Bequests!Attached(x, q), !.beneficiary = b]
<1>1. x \in Bequests!Upload /\ request \in [Bequests!Upload -> Asking]
        /\ bequest \in [Grant -> BequestRow]
  BY BequestTyped DEF BequestShape, Bequests!Upload
<1>2. request[x].pc = "stored" /\ q \in Grant
  BY <1>1 DEF Bequests!UpdateBequest, BequestShape, RequestInv
<1>3. Bequests!Attached(x, q) \in SUBSET Bequests!Upload /\ b \in Beneficiary \cup {Nobody}
  BY <1>1, <1>2 DEF Bequests!Attached, Asking, BequestRow
<1>4. r \in BequestRow /\ r.state = "live" /\ r.attachments = Bequests!Attached(x, q)
        /\ r.beneficiary = b
  BY <1>1, <1>2, <1>3 DEF BequestRow, Bequests!Live
<1>5. bequest' = [bequest EXCEPT ![q].attachments = Bequests!Attached(x, q),
                                 ![q].beneficiary = IF request[x].beneficiary = Nobody THEN @
                                                    ELSE request[x].beneficiary]
  BY DEF Bequests!UpdateBequest
<1>6. bequest' = [bequest EXCEPT ![q] = r]
  BY <1>1, <1>2, <1>5
<1>7. /\ bequest' \in [Grant -> BequestRow]
      /\ \A p \in Grant \ {q} : bequest'[p] = bequest[p]
      /\ bequest'[q].state = "live" /\ bequest'[q].attachments = Bequests!Attached(x, q)
      /\ bequest'[q].beneficiary = b
  <2> HIDE DEF r, q, b
  <2> QED BY <1>1, <1>2, <1>4, <1>6
<1>8. /\ given' \in [Grant -> Beneficiary \cup {Nobody}]
      /\ \A p \in Grant \ {q} : given'[p] = given[p]
      /\ given'[q] = IF request[x].beneficiary = Nobody THEN given[q] ELSE request[x].beneficiary
  <2>1. given \in [Grant -> Beneficiary \cup {Nobody}]
        /\ request[x].beneficiary \in Beneficiary \cup {Nobody}
    BY <1>1 DEF BequestShape, Bequests!TypeOK
  <2> QED BY <1>2, <2>1 DEF Bequests!UpdateBequest
<1>9. /\ overrun \subseteq overrun' /\ overrun' \subseteq Amendment \X Amendment
      /\ \A v \in Amendment \ {x} : request[v].bequest = q
           /\ request[v].pc \in {"viewed", "open", "stored"}
                                   => <<x, v>> \in overrun'
  <2>1. overrun' = overrun \cup ({x} \X (Bequests!Underway(q) \ {x}))
    BY DEF Bequests!UpdateBequest
  <2>2. overrun \subseteq Amendment \X Amendment
    BY DEF BequestShape, Bequests!TypeOK
  <2> QED BY <2>1, <2>2 DEF Bequests!Underway
<1>10. /\ request' = [request EXCEPT ![x].pc = "done"]
       /\ stripped' = IF request[x].beneficiary = Nobody THEN stripped ELSE stripped \ {q}
       /\ UNCHANGED <<beneficiaries, disk, former, bequestClash, refused, bequestFaults>>
  BY DEF Bequests!UpdateBequest
<1> QED BY <1>1, <1>2, <1>7, <1>8, <1>9, <1>10

\* The state keeps its shape, and requests in progress hold what they need.
LEMMA BequestsShaped == Bequests!Spec => []BequestShape
<1>1. Bequests!Init => BequestShape
  <2>1. Bequests!Init => Bequests!TypeOK
    BY ServicesAssumption DEF Bequests!Init, Bequests!TypeOK, Bequests!Idle, Bequests!NoRow
  <2>2. Bequests!Init => RequestInv
    BY DEF Bequests!Init, RequestInv, Bequests!Idle, Bequests!NoRow, Bequests!Upload
  <2> QED BY <2>1, <2>2 DEF BequestShape
<1>2. BequestShape /\ [Bequests!Next]_Bequests!vars => BequestShape'
  <2> SUFFICES ASSUME BequestShape, [Bequests!Next]_Bequests!vars PROVE BequestShape'
    OBVIOUS
  <2>0. request \in [Bequests!Upload -> Asking] /\ bequest \in [Grant -> BequestRow]
    BY BequestTyped DEF BequestShape
  <2>11. /\ Grant \subseteq Bequests!Upload /\ Amendment \subseteq Bequests!Upload
        /\ \A q \in Grant : bequest[q].attachments \subseteq Bequests!Upload
        /\ \A u \in Bequests!Upload : request[u].seen \subseteq Bequests!Upload
    BY <2>0 DEF Bequests!Upload, BequestRow, Asking
  <2>1. ASSUME NEW new \in SUBSET Beneficiary, Bequests!RewriteWill(new) PROVE BequestShape'
    <3>1. /\ bequest' \in [Grant -> BequestRow]
          /\ \A q \in Grant : /\ bequest'[q].state = bequest[q].state
                               /\ bequest'[q].attachments = bequest[q].attachments
      <4>1. bequest' = [q \in Grant |-> [bequest[q] EXCEPT !.beneficiary = Bequests!SetNull(q)]]
        BY <2>1 DEF Bequests!RewriteWill
      <4>2. \A q \in Grant : Bequests!SetNull(q) \in Beneficiary \cup {Nobody}
        BY <2>0 DEF Bequests!SetNull, BequestRow
      <4> QED BY <2>0, <4>1, <4>2 DEF BequestRow
    <3>2. stripped' \subseteq Grant /\ former' \subseteq Beneficiary
      BY <2>1 DEF Bequests!RewriteWill, BequestShape, Bequests!TypeOK
    <3>3. Bequests!TypeOK'
      BY <2>1, <3>1, <3>2 DEF Bequests!RewriteWill, BequestShape, Bequests!TypeOK, BequestRow
    <3>4. RequestInv'
      <4>1. request' = request
        BY <2>1 DEF Bequests!RewriteWill
      <4> QED BY <2>11, <3>1, <4>1 DEF BequestShape, RequestInv
    <3> QED BY <3>3, <3>4 DEF BequestShape
  <2>2. ASSUME NEW q \in Grant, NEW y \in Beneficiary, NEW n \in Name, Bequests!Begin(q, y, n)
        PROVE  BequestShape'
    <3>1. Bequests!TypeOK
      BY DEF BequestShape
    <3>2. Bequests!TypeOK'
      BY <2>2, <3>1, BequestBegun DEF Bequests!TypeOK, Asking, Bequests!Clashing
    <3>3. RequestInv'
      <4>1. q \notin Amendment
        BY ServicesAssumption
      <4>2. /\ request[q].pc = "idle" /\ bequest' = bequest
            /\ \A v \in Bequests!Upload \ {q} : request'[v] = request[v]
            /\ request'[q].pc = "open" /\ request'[q].bequest = q
            /\ request'[q].keeps = {} /\ request'[q].seen = {} /\ request'[q].file = n
        BY <2>2, <3>1, BequestBegun
      <4>3. \A u \in Bequests!Upload : request[u].pc = "done" => request'[u].pc = "done"
        BY <4>2
      <4> QED BY <2>11, <4>1, <4>2, <4>3 DEF BequestShape, RequestInv
    <3> QED BY <3>2, <3>3 DEF BequestShape
  <2>3. ASSUME NEW x \in Amendment, NEW q \in Grant, Bequests!SeeBequest(x, q)
        PROVE  BequestShape'
    <3>1. Bequests!TypeOK
      BY DEF BequestShape
    <3>2. /\ request[x].pc = "idle" /\ x \in Bequests!Upload
          /\ request' \in [Bequests!Upload -> Asking]
          /\ \A v \in Bequests!Upload \ {x} : request'[v] = request[v]
          /\ request'[x].pc = "viewed" /\ request'[x].bequest = q
          /\ request'[x].keeps = {} /\ request'[x].seen = bequest[q].attachments
          /\ UNCHANGED <<beneficiaries, bequest, disk, former, stripped, given, overrun,
                         bequestClash, refused, bequestFaults>>
      BY <2>3, <3>1, BequestSeen
    <3>3. Bequests!TypeOK'
      BY <3>1, <3>2 DEF Bequests!TypeOK, Asking
    <3>4. RequestInv'
      <4>1. x \notin Grant /\ bequest[q].state # "none"
        BY <2>3, ServicesAssumption DEF Bequests!SeeBequest, Bequests!Live
      <4>2. \A u \in Bequests!Upload : request[u].pc = "done" => request'[u].pc = "done"
        BY <3>2
      <4>3. /\ \A u \in Bequests!Upload : request'[u].pc # "idle" =>
                 /\ request'[u].bequest \in Grant
                 /\ request'[u].pc # "viewed" => request'[u].file \in Name
            /\ \A p \in Grant : request'[p].pc # "idle" => request'[p].bequest = p
            /\ \A p \in Grant : bequest'[p].state # "none" => request'[p].pc = "done"
            /\ \A v \in Amendment : request'[v].pc # "idle"
                   => bequest'[request'[v].bequest].state # "none"
        BY <2>11, <3>2, <4>1 DEF BequestShape, RequestInv
      <4>4. \A p \in Grant : \A u \in bequest'[p].attachments : request'[u].pc = "done"
        BY <2>11, <3>2, <4>2 DEF BequestShape, RequestInv
      <4>5. \A u \in Bequests!Upload : /\ request'[u].keeps \subseteq request'[u].seen
                                       /\ \A v \in request'[u].seen : request'[v].pc = "done"
        BY <2>11, <3>2, <4>2 DEF BequestShape, RequestInv
      <4> QED BY <4>3, <4>4, <4>5 DEF RequestInv
    <3> QED BY <3>3, <3>4 DEF BequestShape
  <2>12. ASSUME NEW x \in Amendment, NEW y \in Beneficiary \cup {Nobody},
                NEW n \in Name,
             NEW list \in {"absent", "given"}, NEW keeps \in SUBSET request[x].seen,
                Bequests!ReadBequest(x, y, list, keeps, n)
         PROVE  BequestShape'
    <3>1. Bequests!TypeOK
      BY DEF BequestShape
    <3>2. /\ request[x].pc = "viewed" /\ x \in Bequests!Upload
          /\ request' \in [Bequests!Upload -> Asking]
          /\ \A v \in Bequests!Upload \ {x} : request'[v] = request[v]
          /\ request'[x].pc = "open" /\ request'[x].bequest = request[x].bequest
          /\ request'[x].keeps = keeps /\ request'[x].seen = request[x].seen
          /\ request'[x].file = n
          /\ bequestClash' = bequestClash \cup Bequests!Clashing(x, n)
          /\ UNCHANGED <<beneficiaries, bequest, disk, former, stripped, given, overrun,
                         refused, bequestFaults>>
      BY <2>12, <3>1, BequestRead
    <3>3. Bequests!TypeOK'
      <4>1. Bequests!Clashing(x, n) \subseteq Name
        BY DEF Bequests!Clashing
      <4> QED BY <3>1, <3>2, <4>1 DEF Bequests!TypeOK, Asking
    <3>4. RequestInv'
      <4>1. x \notin Grant /\ request[x].bequest \in Grant
              /\ bequest[request[x].bequest].state # "none"
        BY <3>2, ServicesAssumption DEF BequestShape, RequestInv
      <4>2. \A u \in Bequests!Upload : request[u].pc = "done" => request'[u].pc = "done"
        BY <3>2
      <4>3. /\ \A u \in Bequests!Upload : request'[u].pc # "idle" =>
                 /\ request'[u].bequest \in Grant
                 /\ request'[u].pc # "viewed" => request'[u].file \in Name
            /\ \A p \in Grant : request'[p].pc # "idle" => request'[p].bequest = p
            /\ \A p \in Grant : bequest'[p].state # "none" => request'[p].pc = "done"
            /\ \A v \in Amendment : request'[v].pc # "idle"
                   => bequest'[request'[v].bequest].state # "none"
        BY <2>11, <3>2, <4>1 DEF BequestShape, RequestInv
      <4>4. \A p \in Grant : \A u \in bequest'[p].attachments : request'[u].pc = "done"
        BY <2>11, <3>2, <4>2 DEF BequestShape, RequestInv
      <4>5. \A u \in Bequests!Upload : /\ request'[u].keeps \subseteq request'[u].seen
                                       /\ \A v \in request'[u].seen : request'[v].pc = "done"
        BY <2>11, <3>2, <4>2 DEF BequestShape, RequestInv
      <4> QED BY <4>3, <4>4, <4>5 DEF RequestInv
    <3> QED BY <3>3, <3>4 DEF BequestShape
  <2>4. ASSUME NEW u \in Bequests!Upload, NEW p \in {"stored", "done", "failed"},
               request' = [request EXCEPT ![u].pc = p],
               u \in Grant => request[u].pc # "done",
               bequest' = bequest, request[u].pc \in {"open", "stored"}
        PROVE  RequestInv'
    <3>1. Bequests!TypeOK
      BY DEF BequestShape
    <3>2. \A q \in Grant : bequest[q].attachments \subseteq Bequests!Upload
      BY <2>0 DEF BequestRow
    <3>3. Grant \subseteq Bequests!Upload /\ Amendment \subseteq Bequests!Upload
      BY DEF Bequests!Upload
    <3>4. \A v \in Bequests!Upload : request[v].seen \subseteq Bequests!Upload
      BY <2>0 DEF Asking
    <3> QED BY <2>4, <3>1, <3>2, <3>3, <3>4, BequestMoved DEF BequestShape, RequestInv
  <2>5. ASSUME NEW u \in Bequests!Upload, Bequests!PutFile(u) PROVE BequestShape'
    <3>1. request[u].file \in Name /\ request' = [request EXCEPT ![u].pc = "stored"]
      BY <2>5 DEF Bequests!PutFile, BequestShape, RequestInv
    <3>2. request' \in [Bequests!Upload -> Asking]
      BY <3>1, BequestMoved DEF BequestShape
    <3>3. Bequests!TypeOK'
      BY <2>5, <3>1, <3>2 DEF Bequests!PutFile, BequestShape, Bequests!TypeOK, Asking
    <3>4. RequestInv'
      BY <2>4, <2>5, <3>1 DEF Bequests!PutFile
    <3> QED BY <3>3, <3>4 DEF BequestShape
  <2>6. ASSUME NEW u \in Bequests!Upload, Bequests!PutFails(u) PROVE BequestShape'
    <3>1. request' = [request EXCEPT ![u].pc = "stored"]
      BY <2>6 DEF Bequests!PutFails
    <3>2. request' \in [Bequests!Upload -> Asking]
      BY <3>1, BequestMoved DEF BequestShape
    <3>3. bequestFaults' \in 0..MaxFaults
      BY <2>6, ServicesAssumption DEF Bequests!PutFails, BequestShape, Bequests!TypeOK
    <3>4. Bequests!TypeOK'
      BY <2>6, <3>2, <3>3 DEF Bequests!PutFails, BequestShape, Bequests!TypeOK, Asking
    <3>5. RequestInv'
      BY <2>4, <2>6, <3>1 DEF Bequests!PutFails
    <3> QED BY <3>4, <3>5 DEF BequestShape
  <2>7. ASSUME NEW q \in Grant, Bequests!CreateBequest(q) PROVE BequestShape'
    <3>1. CASE request[q].beneficiary \in beneficiaries
      <4>1. request' \in [Bequests!Upload -> Asking]
        BY <2>7, <3>1, BequestCreated, BequestMoved DEF BequestShape
      <4>2. Bequests!TypeOK'
        BY <2>7, <3>1, <4>1, BequestCreated DEF BequestShape, Bequests!TypeOK, Asking,
           BequestRow
      <4>3. /\ \A v \in Bequests!Upload \ {q} : request'[v] = request[v]
            /\ request'[q].pc = "done" /\ request'[q].bequest = request[q].bequest
            /\ request'[q].keeps = request[q].keeps /\ request'[q].seen = request[q].seen
            /\ request'[q].file = request[q].file /\ request[q].pc = "stored"
        BY <2>7, <3>1, BequestCreated, BequestMoved DEF BequestShape
      <4>4. /\ \A p \in Grant \ {q} : bequest'[p] = bequest[p]
            /\ bequest'[q].state = "live" /\ bequest'[q].attachments = {q}
            /\ q \in Bequests!Upload /\ q \notin Amendment
        BY <2>7, <3>1, BequestCreated, ServicesAssumption
      <4>5. \A p \in Grant : bequest[p].attachments \subseteq Bequests!Upload
        BY <2>0 DEF BequestRow
      <4>6. Grant \subseteq Bequests!Upload /\ Amendment \subseteq Bequests!Upload
        BY DEF Bequests!Upload
      <4>7. \A v \in Bequests!Upload : request[v].seen \subseteq Bequests!Upload
        BY <2>0 DEF Asking
      <4>8. RequestInv'
        BY <4>3, <4>4, <4>5, <4>6, <4>7 DEF BequestShape, RequestInv
      <4> QED BY <4>2, <4>8 DEF BequestShape
    <3>2. CASE request[q].beneficiary \notin beneficiaries
      <4>1. q \in Bequests!Upload /\ request' = [request EXCEPT ![q].pc = "failed"]
            /\ request[q].pc = "stored"
            /\ UNCHANGED <<bequest, given, beneficiaries, disk, former, stripped, overrun,
            bequestClash,
                           refused, bequestFaults>>
        BY <2>7, <3>2 DEF Bequests!CreateBequest, Bequests!Upload
      <4>2. request' \in [Bequests!Upload -> Asking]
        BY <4>1, BequestMoved DEF BequestShape
      <4>3. Bequests!TypeOK'
        BY <4>1, <4>2 DEF BequestShape, Bequests!TypeOK, Asking
      <4>4. RequestInv'
        BY <2>4, <4>1
      <4> QED BY <4>3, <4>4 DEF BequestShape
    <3> QED BY <3>1, <3>2
  <2>8. ASSUME NEW x \in Amendment, Bequests!UpdateBequest(x) PROVE BequestShape'
    <3> DEFINE q == request[x].bequest
    <3>1. CASE Bequests!Live(q) /\ request[x].beneficiary \in beneficiaries \cup {Nobody}
      <4>1. request' \in [Bequests!Upload -> Asking]
        BY <2>8, <3>1, BequestUpdated, BequestMoved DEF BequestShape
      <4>2. Bequests!TypeOK'
        BY <2>8, <3>1, <4>1, BequestUpdated DEF BequestShape, Bequests!TypeOK, Asking,
           BequestRow
      <4>3. /\ \A v \in Bequests!Upload \ {x} : request'[v] = request[v]
            /\ request'[x].pc = "done" /\ request'[x].bequest = q
            /\ request'[x].keeps = request[x].keeps /\ request'[x].seen = request[x].seen
            /\ request'[x].file = request[x].file /\ request[x].pc = "stored"
        BY <2>8, <3>1, BequestUpdated, BequestMoved DEF BequestShape
      <4>4. /\ \A p \in Grant \ {q} : bequest'[p] = bequest[p]
            /\ bequest'[q].state = "live" /\ bequest'[q].attachments = Bequests!Attached(x, q)
            /\ x \in Bequests!Upload /\ x \notin Grant /\ q \in Grant
        BY <2>8, <3>1, BequestUpdated, ServicesAssumption
      <4>5. \A p \in Grant : bequest[p].attachments \subseteq Bequests!Upload
        BY <2>0 DEF BequestRow
      <4>6. Grant \subseteq Bequests!Upload /\ Amendment \subseteq Bequests!Upload
        BY DEF Bequests!Upload
      <4>7. \A v \in Bequests!Upload : request[v].seen \subseteq Bequests!Upload
        BY <2>0 DEF Asking
      <4>8. \A u \in Bequests!Attached(x, q) : request'[u].pc = "done"
        <5>1. \A u \in bequest[q].attachments \cup request[x].seen : request[u].pc = "done"
          BY <4>4 DEF BequestShape, RequestInv
        <5>2. bequest[q].attachments \cup request[x].seen \subseteq Bequests!Upload
          BY <2>0, <4>4, <4>5 DEF Asking
        <5>3. request[x].keeps \subseteq request[x].seen
          BY <4>4 DEF BequestShape, RequestInv
        <5> QED BY <4>3, <5>1, <5>2, <5>3 DEF Bequests!Attached
      <4> HIDE DEF q
      <4>9. \A p \in Grant : \A u \in bequest'[p].attachments : request'[u].pc = "done"
        BY <4>3, <4>4, <4>5, <4>8 DEF BequestShape, RequestInv
      <4>10. \A u \in Bequests!Upload : /\ request'[u].keeps \subseteq request'[u].seen
                                        /\ \A v \in request'[u].seen : request'[v].pc = "done"
        BY <4>3, <4>7 DEF BequestShape, RequestInv
      <4>11. /\ \A u \in Bequests!Upload : request'[u].pc # "idle" =>
                 /\ request'[u].bequest \in Grant
                 /\ request'[u].pc # "viewed" => request'[u].file \in Name
             /\ \A p \in Grant : request'[p].pc # "idle" => request'[p].bequest = p
             /\ \A p \in Grant : bequest'[p].state # "none" => request'[p].pc = "done"
             /\ \A v \in Amendment : request'[v].pc # "idle"
                    => bequest'[request'[v].bequest].state # "none"
        <5>1. request[x].file \in Name /\ bequest[q].state # "none" /\ request[x].bequest = q
          BY <3>1, <4>3, <4>4 DEF BequestShape, RequestInv, q, Bequests!Live
        <5> QED BY <4>3, <4>4, <4>6, <5>1 DEF BequestShape, RequestInv
      <4> QED BY <4>2, <4>9, <4>10, <4>11 DEF BequestShape, RequestInv
    <3>2. CASE ~ (Bequests!Live(q) /\ request[x].beneficiary \in beneficiaries \cup {Nobody})
      <4>1. x \in Bequests!Upload /\ request' = [request EXCEPT ![x].pc = "failed"]
            /\ request[x].pc = "stored"
            /\ UNCHANGED <<bequest, given, beneficiaries, disk, former, stripped, overrun,
            bequestClash,
                           refused, bequestFaults>>
        BY <2>8, <3>2 DEF Bequests!UpdateBequest, Bequests!Upload
      <4>2. request' \in [Bequests!Upload -> Asking]
        BY <4>1, BequestMoved DEF BequestShape
      <4>3. Bequests!TypeOK'
        BY <4>1, <4>2 DEF BequestShape, Bequests!TypeOK, Asking
      <4>4. RequestInv'
        BY <2>4, <4>1
      <4> QED BY <4>3, <4>4 DEF BequestShape
    <3> QED BY <3>1, <3>2
  <2>9. ASSUME NEW q \in Grant, Bequests!DeleteBequest(q) PROVE BequestShape'
    <3>1. /\ bequest' \in [Grant -> BequestRow]
          /\ \A p \in Grant : /\ bequest'[p].attachments = bequest[p].attachments
                               /\ (bequest'[p].state # "none") = (bequest[p].state # "none")
      BY <2>0, <2>9 DEF Bequests!DeleteBequest, Bequests!Live, BequestRow
    <3>2. Bequests!TypeOK'
      BY <2>9, <3>1 DEF Bequests!DeleteBequest, BequestShape, Bequests!TypeOK, BequestRow
    <3>3. RequestInv'
      <4>1. request' = request
        BY <2>9 DEF Bequests!DeleteBequest
      <4>2. Amendment \subseteq Bequests!Upload
        BY DEF Bequests!Upload
      <4> QED BY <3>1, <4>1, <4>2 DEF BequestShape, RequestInv
    <3> QED BY <3>2, <3>3 DEF BequestShape
  <2>10. CASE UNCHANGED Bequests!vars
    BY <2>10 DEF Bequests!vars, BequestShape, Bequests!TypeOK, RequestInv
  <2> QED
    BY <2>1, <2>2, <2>3, <2>5, <2>6, <2>7, <2>8, <2>9, <2>10, <2>12 DEF Bequests!Next
<1> QED BY <1>1, <1>2, PTL DEF Bequests!Spec

\* Only a row that exists has been stripped.
GivenInv ==
    /\ Bequests!GoesToTheGivenAlone
    /\ \A q \in stripped : bequest[q].state # "none"

\* A bequest goes to the beneficiary it was last given to.
LEMMA GivenHolds == Bequests!Spec => []GivenInv
<1>1. Bequests!Init => GivenInv
  BY DEF Bequests!Init, GivenInv, Bequests!GoesToTheGivenAlone, Bequests!Live, Bequests!NoRow
<1>2. BequestShape /\ GivenInv /\ [Bequests!Next]_Bequests!vars => GivenInv'
  <2> SUFFICES ASSUME BequestShape, GivenInv, [Bequests!Next]_Bequests!vars PROVE GivenInv'
    OBVIOUS
  <2>0. /\ Bequests!TypeOK /\ bequest \in [Grant -> BequestRow]
          /\ request \in [Bequests!Upload -> Asking]
        /\ Grant \subseteq Bequests!Upload /\ stripped \subseteq Grant
        /\ beneficiaries \subseteq Beneficiary
    BY BequestTyped DEF BequestShape, Bequests!Upload, Bequests!TypeOK
  <2>1. ASSUME NEW new \in SUBSET Beneficiary, Bequests!RewriteWill(new) PROVE GivenInv'
    <3>1. \A q \in Grant : /\ bequest'[q].state = bequest[q].state
                            /\ bequest'[q].beneficiary =
                                 IF bequest[q].beneficiary \in beneficiaries THEN Nobody
                                 ELSE bequest[q].beneficiary
      <4>1. bequest' = [q \in Grant |-> [bequest[q] EXCEPT !.beneficiary = Bequests!SetNull(q)]]
        BY <2>1 DEF Bequests!RewriteWill
      <4> QED BY <2>0, <4>1 DEF BequestRow, Bequests!SetNull
    <3>2. \A q \in Grant : q \in stripped' <=>
            q \in stripped \/ (Bequests!Live(q) /\ bequest[q].beneficiary \in beneficiaries)
      BY <2>0, <2>1 DEF Bequests!RewriteWill, Bequests!Live
    <3>3. Bequests!GoesToTheGivenAlone'
      <4> SUFFICES ASSUME NEW q \in Grant, bequest'[q].state = "live"
                   PROVE  q \in stripped' /\ bequest'[q].beneficiary = Nobody
        BY DEF Bequests!GoesToTheGivenAlone, Bequests!Live
      <4>1. Bequests!Live(q)
        BY <3>1 DEF Bequests!Live
      <4>2. CASE q \in stripped
        <5>1. bequest[q].beneficiary = Nobody
          BY <4>1, <4>2 DEF GivenInv, Bequests!GoesToTheGivenAlone
        <5> QED BY <3>1, <3>2, <4>2, <5>1
      <4>3. CASE q \notin stripped
        BY <3>1, <3>2, <4>1, <4>3 DEF GivenInv, Bequests!GoesToTheGivenAlone
      <4> QED BY <4>2, <4>3
    <3>4. (\A q \in stripped : bequest[q].state # "none")'
      <4>1. stripped' \subseteq Grant
        BY <2>0, <2>1 DEF Bequests!RewriteWill
      <4> QED BY <3>1, <3>2, <4>1 DEF GivenInv, Bequests!Live
    <3> QED BY <3>3, <3>4 DEF GivenInv
  <2>2. ASSUME UNCHANGED <<bequest, beneficiaries, stripped, given>> PROVE GivenInv'
    BY <2>2 DEF GivenInv, Bequests!GoesToTheGivenAlone, Bequests!Live
  <2>3. ASSUME NEW q \in Grant, Bequests!CreateBequest(q) PROVE GivenInv'
    <3>1. CASE request[q].beneficiary \in beneficiaries
      <4>1. /\ request[q].pc = "stored"
            /\ \A p \in Grant \ {q} : bequest'[p] = bequest[p] /\ given'[p] = given[p]
            /\ bequest'[q].state = "live" /\ bequest'[q].beneficiary = request[q].beneficiary
            /\ given'[q] = request[q].beneficiary
            /\ stripped' = stripped /\ beneficiaries' = beneficiaries
        BY <2>3, <3>1, BequestCreated
      <4>2. bequest[q].state = "none"
        BY <4>1 DEF BequestShape, RequestInv
      <4>3. q \notin stripped
        BY <4>2 DEF GivenInv
      <4> QED BY <2>0, <3>1, <4>1, <4>3 DEF GivenInv, Bequests!GoesToTheGivenAlone,
                 Bequests!Live
    <3>2. CASE request[q].beneficiary \notin beneficiaries
      BY <2>2, <2>3, <3>2 DEF Bequests!CreateBequest
    <3> QED BY <3>1, <3>2
  <2>4. ASSUME NEW x \in Amendment, Bequests!UpdateBequest(x) PROVE GivenInv'
    <3>1. CASE Bequests!Live(request[x].bequest)
                 /\ request[x].beneficiary \in beneficiaries \cup {Nobody}
      <4> DEFINE q == request[x].bequest
      <4>1. /\ q \in Grant /\ Bequests!Live(q)
            /\ \A p \in Grant \ {q} : bequest'[p] = bequest[p] /\ given'[p] = given[p]
            /\ bequest'[q].state = "live"
            /\ IF request[x].beneficiary = Nobody
               THEN /\ bequest'[q].beneficiary = bequest[q].beneficiary
                    /\ given'[q] = given[q] /\ stripped' = stripped
               ELSE /\ bequest'[q].beneficiary = request[x].beneficiary
                    /\ given'[q] = request[x].beneficiary /\ stripped' = stripped \ {q}
            /\ beneficiaries' = beneficiaries
        BY <2>4, <3>1, BequestUpdated
      <4> HIDE DEF q
      <4>2. Bequests!GoesToTheGivenAlone'
        BY <3>1, <4>1 DEF GivenInv, Bequests!GoesToTheGivenAlone, Bequests!Live
      <4>3. (\A p \in stripped : bequest[p].state # "none")'
        BY <2>0, <4>1 DEF GivenInv
      <4> QED BY <4>2, <4>3 DEF GivenInv
    <3>2. CASE ~ (/\ Bequests!Live(request[x].bequest)
                  /\ request[x].beneficiary \in beneficiaries \cup {Nobody})
      BY <2>2, <2>4, <3>2 DEF Bequests!UpdateBequest
    <3> QED BY <3>1, <3>2
  <2>5. ASSUME NEW q \in Grant, Bequests!DeleteBequest(q) PROVE GivenInv'
    <3>1. \A p \in Grant : /\ bequest'[p].beneficiary = bequest[p].beneficiary
                            /\ \/ bequest'[p].state = bequest[p].state
                               \/ bequest'[p].state = "deleted"
      BY <2>0, <2>5 DEF Bequests!DeleteBequest, BequestRow
    <3>2. stripped' = stripped /\ given' = given /\ beneficiaries' = beneficiaries
      BY <2>5 DEF Bequests!DeleteBequest
    <3> QED BY <2>0, <3>1, <3>2 DEF GivenInv, Bequests!GoesToTheGivenAlone, Bequests!Live
  <2> QED
    BY <2>1, <2>2, <2>3, <2>4, <2>5
    DEF Bequests!Next, Bequests!vars, Bequests!Begin, Bequests!SeeBequest,
        Bequests!ReadBequest, Bequests!PutFile, Bequests!PutFails
<1> QED BY <1>1, <1>2, BequestsShaped, PTL DEF Bequests!Spec

\* x has been taken off by a change whose author had seen it, or had looked at
\* the bequest before it was added.
TakenOff(x) == \E v \in Amendment : /\ request[v].pc = "done" /\ request[v].list = "given"
                                    /\ x \notin request[v].keeps
                                    /\ x \in request[v].seen \/ <<x, v>> \in overrun

\* Whoever has looked at the bequest since has seen what is attached to it.
AddedInv ==
    \A x \in Amendment :
        request[x].pc = "done" /\ Bequests!Live(request[x].bequest) /\ ~ TakenOff(x) =>
            /\ x \in bequest[request[x].bequest].attachments
            /\ \A v \in Amendment \ {x} :
                 request[v].bequest = request[x].bequest
                 /\ request[v].pc \in {"viewed", "open", "stored"}
                   => x \in request[v].seen \/ <<x, v>> \in overrun

\* A request that is done stays as it is.
LEMMA DoneStays ==
    ASSUME BequestShape, [Bequests!Next]_Bequests!vars, NEW u \in Bequests!Upload,
           request[u].pc = "done"
    PROVE  request'[u] = request[u]
<1>0. Bequests!TypeOK /\ request \in [Bequests!Upload -> Asking]
        /\ Grant \subseteq Bequests!Upload /\ Amendment \subseteq Bequests!Upload
  BY BequestTyped DEF BequestShape, Bequests!Upload
<1>1. ASSUME NEW q \in Grant, NEW y \in Beneficiary, NEW n \in Name, Bequests!Begin(q, y, n)
      PROVE  request'[u] = request[u]
  BY <1>0, <1>1, BequestBegun
<1>2. ASSUME NEW x \in Amendment, NEW y \in Beneficiary \cup {Nobody}, NEW n \in Name,
             NEW list \in {"absent", "given"}, NEW keeps \in SUBSET request[x].seen,
             Bequests!ReadBequest(x, y, list, keeps, n)
      PROVE  request'[u] = request[u]
  <2>1. request[x].pc = "viewed" /\ \A v \in Bequests!Upload \ {x} : request'[v] = request[v]
    BY <1>0, <1>2, BequestRead
  <2> QED BY <2>1
<1>8. ASSUME NEW x \in Amendment, NEW q \in Grant, Bequests!SeeBequest(x, q)
      PROVE  request'[u] = request[u]
  <2>1. request[x].pc = "idle" /\ \A v \in Bequests!Upload \ {x} : request'[v] = request[v]
    BY <1>0, <1>8, BequestSeen
  <2> QED BY <2>1
<1>3. ASSUME NEW v \in Bequests!Upload, request[v].pc # "done",
             \/ request' = [request EXCEPT ![v].pc = "stored"]
             \/ request' = [request EXCEPT ![v].pc = "done"]
             \/ request' = [request EXCEPT ![v].pc = "failed"]
      PROVE  request'[u] = request[u]
  BY <1>0, <1>3
<1>4. ASSUME NEW v \in Bequests!Upload, Bequests!PutFile(v) \/ Bequests!PutFails(v)
      PROVE  request'[u] = request[u]
  BY <1>3, <1>4 DEF Bequests!PutFile, Bequests!PutFails
<1>5. ASSUME NEW q \in Grant, Bequests!CreateBequest(q) PROVE request'[u] = request[u]
  BY <1>0, <1>3, <1>5 DEF Bequests!CreateBequest
<1>6. ASSUME NEW x \in Amendment, Bequests!UpdateBequest(x) PROVE request'[u] = request[u]
  BY <1>0, <1>3, <1>6 DEF Bequests!UpdateBequest
<1>7. CASE UNCHANGED request
  BY <1>7
<1> QED BY <1>1, <1>2, <1>4, <1>5, <1>6, <1>7, <1>8 DEF Bequests!Next, Bequests!vars,
           Bequests!RewriteWill, Bequests!DeleteBequest

\* What is attached to a bequest that exists changes only by a change of it.
LEMMA AttachmentSteps ==
    ASSUME BequestShape, [Bequests!Next]_Bequests!vars, NEW q \in Grant,
           bequest[q].state # "none"
    PROVE  /\ bequest'[q].state = "live" => Bequests!Live(q)
           /\ \/ bequest'[q].attachments = bequest[q].attachments
              \/ \E v \in Amendment :
                   /\ Bequests!UpdateBequest(v) /\ request[v].bequest = q
                   /\ request'[v].pc = "done"
                   /\ Bequests!Live(q) /\ request[v].beneficiary \in beneficiaries \cup {Nobody}
                   /\ bequest'[q].attachments = Bequests!Attached(v, q)
<1> DEFINE Goal == /\ bequest'[q].state = "live" => Bequests!Live(q)
                   /\ \/ bequest'[q].attachments = bequest[q].attachments
                      \/ \E v \in Amendment :
                           /\ Bequests!UpdateBequest(v) /\ request[v].bequest = q
                           /\ request'[v].pc = "done"
                           /\ Bequests!Live(q)
                           /\ request[v].beneficiary \in beneficiaries \cup {Nobody}
                           /\ bequest'[q].attachments = Bequests!Attached(v, q)
<1>0. Bequests!TypeOK /\ request \in [Bequests!Upload -> Asking]
        /\ Grant \subseteq Bequests!Upload /\ Amendment \subseteq Bequests!Upload
      /\ bequest \in [Grant -> BequestRow]
  BY BequestTyped DEF BequestShape, Bequests!Upload
<1>1. ASSUME NEW new \in SUBSET Beneficiary, Bequests!RewriteWill(new) PROVE Goal
  <2>1. bequest'[q].state = bequest[q].state /\ bequest'[q].attachments = bequest[q].attachments
    BY <1>0, <1>1 DEF Bequests!RewriteWill, BequestRow
  <2> QED BY <2>1 DEF Bequests!Live
<1>2. ASSUME NEW p \in Grant, Bequests!CreateBequest(p) PROVE Goal
  <2>1. p # q
    BY <1>2 DEF Bequests!CreateBequest, BequestShape, RequestInv
  <2>2. bequest'[q] = bequest[q]
    <3>1. CASE request[p].beneficiary \in beneficiaries
      BY <1>2, <2>1, <3>1, BequestCreated
    <3>2. CASE request[p].beneficiary \notin beneficiaries
      BY <1>2, <3>2 DEF Bequests!CreateBequest
    <3> QED BY <3>1, <3>2
  <2> QED BY <2>2 DEF Bequests!Live
<1>3. ASSUME NEW x \in Amendment, Bequests!UpdateBequest(x) PROVE Goal
  <2>1. CASE Bequests!Live(request[x].bequest)
               /\ request[x].beneficiary \in beneficiaries \cup {Nobody}
    <3>1. CASE request[x].bequest = q
      <4>1. /\ bequest'[q].attachments = Bequests!Attached(x, q)
            /\ request' = [request EXCEPT ![x].pc = "done"] /\ x \in Bequests!Upload
        BY <1>3, <2>1, <3>1, BequestUpdated
      <4>2. request'[x].pc = "done"
        BY <4>1, BequestMoved DEF BequestShape
      <4> QED BY <1>3, <2>1, <3>1, <4>1, <4>2
    <3>2. CASE request[x].bequest # q
      <4>1. bequest'[q] = bequest[q]
        BY <1>3, <2>1, <3>2, BequestUpdated
      <4> QED BY <4>1 DEF Bequests!Live
    <3> QED BY <3>1, <3>2
  <2>2. CASE ~ (/\ Bequests!Live(request[x].bequest)
                /\ request[x].beneficiary \in beneficiaries \cup {Nobody})
    <3>1. bequest' = bequest
      BY <1>3, <2>2 DEF Bequests!UpdateBequest
    <3> QED BY <3>1 DEF Bequests!Live
  <2> QED BY <2>1, <2>2
<1>4. ASSUME NEW p \in Grant, Bequests!DeleteBequest(p) PROVE Goal
  <2>1. /\ bequest'[q].attachments = bequest[q].attachments
        /\ bequest'[q].state \in {bequest[q].state, "deleted"}
    BY <1>0, <1>4 DEF Bequests!DeleteBequest, BequestRow
  <2> QED BY <2>1 DEF Bequests!Live
<1>5. CASE UNCHANGED bequest
  BY <1>5 DEF Bequests!Live
<1>6. \/ \E new \in SUBSET Beneficiary : Bequests!RewriteWill(new)
      \/ \E p \in Grant : Bequests!CreateBequest(p) \/ Bequests!DeleteBequest(p)
      \/ \E x \in Amendment : Bequests!UpdateBequest(x)
      \/ UNCHANGED bequest
  BY DEF Bequests!Next, Bequests!vars, Bequests!Begin, Bequests!SeeBequest,
     Bequests!ReadBequest, Bequests!PutFile, Bequests!PutFails
<1> QED BY <1>1, <1>2, <1>3, <1>4, <1>5, <1>6

\* A change under way was so before, or its author has just looked at the bequest.
LEMMA ReaderSteps ==
    ASSUME BequestShape, [Bequests!Next]_Bequests!vars, NEW v \in Amendment,
           request'[v].pc \in {"viewed", "open", "stored"}
    PROVE  \/ /\ request[v].pc \in {"viewed", "open", "stored"}
              /\ request'[v].bequest = request[v].bequest /\ request'[v].seen = request[v].seen
           \/ /\ request'[v].bequest \in Grant
              /\ request'[v].seen = bequest[request'[v].bequest].attachments
              /\ bequest' = bequest
<1> DEFINE Goal == \/ /\ request[v].pc \in {"viewed", "open", "stored"}
                      /\ request'[v].bequest = request[v].bequest
                      /\ request'[v].seen = request[v].seen
                   \/ /\ request'[v].bequest \in Grant
                      /\ request'[v].seen = bequest[request'[v].bequest].attachments
                      /\ bequest' = bequest
<1>0. Bequests!TypeOK /\ request \in [Bequests!Upload -> Asking]
        /\ Grant \subseteq Bequests!Upload /\ Amendment \subseteq Bequests!Upload
      /\ Grant \cap Amendment = {}
  BY BequestTyped, ServicesAssumption DEF BequestShape, Bequests!Upload
<1>1. ASSUME NEW q \in Grant, NEW y \in Beneficiary, NEW n \in Name, Bequests!Begin(q, y, n)
      PROVE  Goal
  <2>1. request'[v] = request[v]
    BY <1>0, <1>1, BequestBegun
  <2> QED BY <2>1
<1>2. ASSUME NEW x \in Amendment, NEW y \in Beneficiary \cup {Nobody}, NEW n \in Name,
             NEW list \in {"absent", "given"}, NEW keeps \in SUBSET request[x].seen,
             Bequests!ReadBequest(x, y, list, keeps, n)
      PROVE  Goal
  <2>1. /\ \A u \in Bequests!Upload \ {x} : request'[u] = request[u]
        /\ request[x].pc = "viewed"
        /\ request'[x].bequest = request[x].bequest /\ request'[x].seen = request[x].seen
    BY <1>0, <1>2, BequestRead
  <2> QED BY <1>0, <2>1
<1>10. ASSUME NEW x \in Amendment, NEW q \in Grant, Bequests!SeeBequest(x, q) PROVE Goal
  <2>1. /\ \A u \in Bequests!Upload \ {x} : request'[u] = request[u]
        /\ request'[x].bequest = q /\ request'[x].seen = bequest[q].attachments
        /\ bequest' = bequest
    BY <1>0, <1>10, BequestSeen
  <2> QED BY <1>0, <2>1
<1>3. ASSUME NEW u \in Bequests!Upload, NEW p \in {"stored", "done", "failed"},
             request[u].pc \in {"viewed", "open", "stored"}, request' = [request EXCEPT ![u].pc = p]
      PROVE  Goal
  <2>1. v # u => request'[v] = request[v]
    BY <1>0, <1>3, BequestMoved
  <2>2. v = u => request'[v].bequest = request[v].bequest /\ request'[v].seen = request[v].seen
    BY <1>0, <1>3, BequestMoved
  <2> QED BY <1>3, <2>1, <2>2
<1>4. ASSUME NEW u \in Bequests!Upload, Bequests!PutFile(u) \/ Bequests!PutFails(u) PROVE Goal
  BY <1>3, <1>4 DEF Bequests!PutFile, Bequests!PutFails
<1>5. ASSUME NEW q \in Grant, Bequests!CreateBequest(q) PROVE Goal
  <2>1. request' = [request EXCEPT ![q].pc = "done"]
          \/ request' = [request EXCEPT ![q].pc = "failed"]
    BY <1>5 DEF Bequests!CreateBequest
  <2> QED BY <1>0, <1>3, <1>5, <2>1 DEF Bequests!CreateBequest
<1>6. ASSUME NEW x \in Amendment, Bequests!UpdateBequest(x) PROVE Goal
  <2>1. request' = [request EXCEPT ![x].pc = "done"]
          \/ request' = [request EXCEPT ![x].pc = "failed"]
    BY <1>6 DEF Bequests!UpdateBequest
  <2> QED BY <1>0, <1>3, <1>6, <2>1 DEF Bequests!UpdateBequest
<1>7. CASE UNCHANGED request
  BY <1>7
<1>8. CASE Bequests!Next
  BY <1>1, <1>2, <1>4, <1>5, <1>6, <1>7, <1>8, <1>10 DEF Bequests!Next, Bequests!RewriteWill,
     Bequests!DeleteBequest
<1>9. CASE UNCHANGED Bequests!vars
  BY <1>7, <1>9 DEF Bequests!vars
<1> QED BY <1>8, <1>9

\* A change that is now done has just been made.
LEMMA NewlyDone ==
    ASSUME BequestShape, [Bequests!Next]_Bequests!vars, NEW x \in Amendment,
           request[x].pc # "done", request'[x].pc = "done"
    PROVE  /\ Bequests!UpdateBequest(x) /\ Bequests!Live(request[x].bequest)
           /\ request[x].beneficiary \in beneficiaries \cup {Nobody}
<1>0. Bequests!TypeOK /\ request \in [Bequests!Upload -> Asking]
        /\ Grant \subseteq Bequests!Upload /\ Amendment \subseteq Bequests!Upload
      /\ Grant \cap Amendment = {}
  BY BequestTyped, ServicesAssumption DEF BequestShape, Bequests!Upload
<1>1. ASSUME NEW q \in Grant, NEW y \in Beneficiary, NEW n \in Name, Bequests!Begin(q, y, n)
      PROVE  FALSE
  BY <1>0, <1>1, BequestBegun
<1>8. ASSUME NEW v \in Amendment, NEW q \in Grant, Bequests!SeeBequest(v, q) PROVE FALSE
  <2>1. /\ \A u \in Bequests!Upload \ {v} : request'[u] = request[u]
        /\ request'[v].pc = "viewed" /\ v \in Bequests!Upload
    BY <1>0, <1>8, BequestSeen
  <2> QED BY <1>0, <2>1
<1>2. ASSUME NEW v \in Amendment, NEW y \in Beneficiary \cup {Nobody}, NEW n \in Name,
             NEW list \in {"absent", "given"}, NEW keeps \in SUBSET request[v].seen,
             Bequests!ReadBequest(v, y, list, keeps, n)
      PROVE  FALSE
  <2>1. /\ \A u \in Bequests!Upload \ {v} : request'[u] = request[u]
        /\ request'[v].pc = "open" /\ v \in Bequests!Upload
    BY <1>0, <1>2, BequestRead
  <2> QED BY <1>0, <2>1
<1>3. ASSUME NEW u \in Bequests!Upload, Bequests!PutFile(u) \/ Bequests!PutFails(u) PROVE FALSE
  <2>1. request' = [request EXCEPT ![u].pc = "stored"]
    BY <1>3 DEF Bequests!PutFile, Bequests!PutFails
  <2> QED BY <1>0, <2>1, BequestMoved
<1>4. ASSUME NEW q \in Grant, Bequests!CreateBequest(q) PROVE FALSE
  <2>1. request' = [request EXCEPT ![q].pc = "done"]
          \/ request' = [request EXCEPT ![q].pc = "failed"]
    BY <1>4 DEF Bequests!CreateBequest
  <2> QED BY <1>0, <2>1, BequestMoved
<1>5. ASSUME NEW v \in Amendment, Bequests!UpdateBequest(v), v # x PROVE FALSE
  <2>1. request' = [request EXCEPT ![v].pc = "done"]
          \/ request' = [request EXCEPT ![v].pc = "failed"]
    BY <1>5 DEF Bequests!UpdateBequest
  <2> QED BY <1>0, <1>5, <2>1, BequestMoved
<1>6. ASSUME Bequests!UpdateBequest(x) PROVE /\ Bequests!Live(request[x].bequest)
                                             /\ request[x].beneficiary \in beneficiaries \cup {Nobody}
  <2>1. request' # [request EXCEPT ![x].pc = "failed"]
    BY <1>0, BequestMoved
  <2> QED BY <1>6, <2>1 DEF Bequests!UpdateBequest
<1>7. CASE UNCHANGED request
  BY <1>7
<1> QED BY <1>1, <1>2, <1>3, <1>4, <1>5, <1>6, <1>7, <1>8 DEF Bequests!Next, Bequests!vars,
           Bequests!RewriteWill, Bequests!DeleteBequest

\* An attachment stays until a change sends a list without it.
LEMMA AddedIsKept == Bequests!Spec => []Bequests!AddedIsKeptAlone
<1>1. Bequests!Init => AddedInv
  BY DEF Bequests!Init, AddedInv, Bequests!Idle, Bequests!Upload
<1>2. BequestShape /\ AddedInv /\ [Bequests!Next]_Bequests!vars => AddedInv'
  <2> SUFFICES ASSUME BequestShape, AddedInv, [Bequests!Next]_Bequests!vars,
                      NEW x \in Amendment,
                      request'[x].pc = "done", bequest'[request'[x].bequest].state = "live",
                      ~ TakenOff(x)'
               PROVE  /\ x \in bequest'[request'[x].bequest].attachments
                      /\ \A v \in Amendment \ {x} :
                           request'[v].bequest = request'[x].bequest
                           /\ request'[v].pc \in {"viewed", "open", "stored"}
                             => x \in request'[v].seen \/ <<x, v>> \in overrun'
    BY DEF AddedInv, Bequests!Live
  <2>0. /\ Bequests!TypeOK /\ request \in [Bequests!Upload -> Asking]
        /\ Grant \subseteq Bequests!Upload /\ Amendment \subseteq Bequests!Upload
        /\ \A v \in Amendment : request[v].pc # "idle" =>
             request[v].bequest \in Grant /\ bequest[request[v].bequest].state # "none"
    BY BequestTyped DEF BequestShape, Bequests!Upload, RequestInv
  <2>1. overrun \subseteq overrun'
    BY DEF Bequests!Next, Bequests!vars, Bequests!RewriteWill, Bequests!Begin,
       Bequests!CreateBequest, Bequests!DeleteBequest, Bequests!SeeBequest,
       Bequests!ReadBequest, Bequests!UpdateBequest, Bequests!PutFile, Bequests!PutFails
  <2>2. CASE request[x].pc = "done"
    <3> DEFINE q == request[x].bequest
    <3>1. request'[x] = request[x] /\ q \in Grant /\ bequest[q].state # "none"
      BY <2>0, <2>2, DoneStays
    <3>2. Bequests!Live(q)
      BY <3>1, AttachmentSteps
    <3>3. ~ TakenOff(x)
      BY <2>0, <2>1, DoneStays DEF TakenOff
    <3>4. /\ x \in bequest[q].attachments
          /\ \A v \in Amendment \ {x} :
               request[v].bequest = q /\ request[v].pc \in {"viewed", "open", "stored"}
                 => x \in request[v].seen \/ <<x, v>> \in overrun
      BY <2>2, <3>2, <3>3 DEF AddedInv
    <3>5. x \in bequest'[q].attachments
      <4>1. ASSUME NEW v \in Amendment, Bequests!UpdateBequest(v), request[v].bequest = q,
                   request'[v].pc = "done", Bequests!Live(q),
                   request[v].beneficiary \in beneficiaries \cup {Nobody},
                   bequest'[q].attachments = Bequests!Attached(v, q)
            PROVE  x \in bequest'[q].attachments
        <5>1. request[v].pc = "stored" /\ v # x /\ request' = [request EXCEPT ![v].pc = "done"]
          BY <2>2, <4>1 DEF Bequests!UpdateBequest
        <5>2. x \in request[v].seen \/ <<x, v>> \in overrun'
          BY <2>1, <3>4, <4>1, <5>1
        <5>3. /\ request'[v].seen = request[v].seen /\ request'[v].keeps = request[v].keeps
              /\ request'[v].list = request[v].list
          BY <2>0, <5>1 DEF Asking
        <5>4. request[v].list = "given" => x \in request[v].keeps
          BY <4>1, <5>2, <5>3 DEF TakenOff
        <5> QED BY <3>4, <4>1, <5>4 DEF Bequests!Attached
      <4> QED BY <3>1, <3>4, <4>1, AttachmentSteps
    <3>6. ASSUME NEW v \in Amendment \ {x}, request'[v].bequest = q,
                 request'[v].pc \in {"viewed", "open", "stored"}
          PROVE  x \in request'[v].seen \/ <<x, v>> \in overrun'
      BY <2>1, <3>4, <3>6, ReaderSteps
    <3>7. request'[x].bequest = q
      BY <3>1
    <3> HIDE DEF q
    <3> QED BY Zenon, <3>5, <3>6, <3>7
  <2>3. CASE request[x].pc # "done"
    <3> DEFINE q == request[x].bequest
    <3>1. /\ Bequests!UpdateBequest(x) /\ Bequests!Live(q)
          /\ request[x].beneficiary \in beneficiaries \cup {Nobody}
      BY <2>0, <2>3, NewlyDone
    <3>2. /\ bequest'[q].attachments = Bequests!Attached(x, q)
          /\ request' = [request EXCEPT ![x].pc = "done"] /\ x \in Bequests!Upload
          /\ \A v \in Amendment \ {x} :
               request[v].bequest = q /\ request[v].pc \in {"viewed", "open", "stored"}
                 => <<x, v>> \in overrun'
      BY <3>1, BequestUpdated
    <3>3. request'[x].bequest = q /\ \A v \in Bequests!Upload \ {x} : request'[v] = request[v]
      BY <2>0, <3>2, BequestMoved
    <3>4. \A v \in Amendment \ {x} : request'[v] = request[v]
      BY <2>0, <3>3
    <3>5. x \in bequest'[q].attachments
      BY <3>2 DEF Bequests!Attached
    <3> HIDE DEF q
    <3>6. ASSUME NEW v \in Amendment \ {x}, request'[v].bequest = q,
                 request'[v].pc \in {"viewed", "open", "stored"}
          PROVE  <<x, v>> \in overrun'
      BY <3>2, <3>4, <3>6
    <3> QED BY Zenon, <3>3, <3>5, <3>6
  <2> QED BY <2>2, <2>3
<1>3. AddedInv => Bequests!AddedIsKeptAlone
  BY DEF AddedInv, Bequests!AddedIsKeptAlone, TakenOff
<1> QED BY <1>1, <1>2, <1>3, BequestsShaped, PTL DEF Bequests!Spec

\* A request that has not been sent has no file yet.
Unsent == {"idle", "viewed"}

\* Two requests that were given the same name have clashed; the file of a request
\* that is past putting it is its own.
FileInv ==
    /\ \A u, v \in Bequests!Upload :
         request[u].pc \notin Unsent /\ request[v].pc \notin Unsent /\ u # v =>
             request[u].file # request[v].file \/ request[u].file \in bequestClash
    /\ \A u \in Bequests!Upload : request[u].pc \in {"stored", "done", "failed"} =>
         disk[request[u].file] = u \/ u \in refused \/ request[u].file \in bequestClash

\* A file is the one its own request put.
LEMMA FilesHold == Bequests!Spec => []FileInv
<1>1. Bequests!Init => FileInv
  <2>1. Bequests!Init => \A u \in Bequests!Upload : request[u].pc = "idle"
    BY DEF Bequests!Init, Bequests!Idle
  <2> QED BY <2>1 DEF FileInv, Unsent
<1>2. BequestShape /\ FileInv /\ [Bequests!Next]_Bequests!vars => FileInv'
  <2> SUFFICES ASSUME BequestShape, FileInv, [Bequests!Next]_Bequests!vars PROVE FileInv'
    OBVIOUS
  <2>0. /\ Bequests!TypeOK /\ request \in [Bequests!Upload -> Asking]
        /\ Grant \subseteq Bequests!Upload /\ Amendment \subseteq Bequests!Upload
        /\ \A u \in Bequests!Upload : request[u].pc \notin Unsent => request[u].file \in Name
    BY BequestTyped DEF BequestShape, Bequests!Upload, RequestInv, Unsent
  <2>1. ASSUME NEW u \in Bequests!Upload, NEW n \in Name, request[u].pc \in Unsent,
               \A v \in Bequests!Upload \ {u} : request'[v] = request[v],
               request'[u].pc = "open", request'[u].file = n,
               bequestClash' = bequestClash \cup Bequests!Clashing(u, n), UNCHANGED <<disk,
                                                                                      refused>>
        PROVE  FileInv'
    BY <2>1 DEF FileInv, Bequests!Clashing, Unsent
  <2>2. ASSUME NEW u \in Bequests!Upload, NEW p \in {"done", "failed"},
               request[u].pc = "stored",
               request' = [request EXCEPT ![u].pc = p], UNCHANGED <<disk, refused,
                                                                    bequestClash>>
        PROVE  FileInv'
    BY <2>0, <2>2, BequestMoved DEF FileInv, Unsent
  <2>3. ASSUME NEW q \in Grant, NEW y \in Beneficiary, NEW n \in Name, Bequests!Begin(q, y, n)
        PROVE  FileInv'
    BY <2>0, <2>1, <2>3, BequestBegun DEF Unsent
  <2>4. ASSUME NEW x \in Amendment, NEW y \in Beneficiary \cup {Nobody},
               NEW n \in Name,
             NEW list \in {"absent", "given"}, NEW keeps \in SUBSET request[x].seen,
               Bequests!ReadBequest(x, y, list, keeps, n)
        PROVE  FileInv'
    <3>1. /\ request[x].pc \in Unsent /\ x \in Bequests!Upload
          /\ \A v \in Bequests!Upload \ {x} : request'[v] = request[v]
          /\ request'[x].pc = "open" /\ request'[x].file = n
          /\ bequestClash' = bequestClash \cup Bequests!Clashing(x, n)
          /\ UNCHANGED <<disk, refused>>
      BY <2>0, <2>4, BequestRead DEF Unsent
    <3> QED BY <2>1, <3>1
  <2>5. ASSUME NEW u \in Bequests!Upload, Bequests!PutFile(u) PROVE FileInv'
    <3>1. /\ \A v \in Bequests!Upload : /\ request'[v].file = request[v].file
                                        /\ (request'[v].pc \in Unsent) = (request[v].pc \in Unsent)
          /\ \A v \in Bequests!Upload \ {u} : request'[v] = request[v]
          /\ request[u].pc = "open"
      BY <2>0, <2>5, BequestMoved DEF Bequests!PutFile, Unsent
    <3>2. /\ disk'[request[u].file] = u
          /\ \A n \in Name : n # request[u].file => disk'[n] = disk[n]
          /\ UNCHANGED <<bequestClash, refused>>
      BY <2>0, <2>5, <3>1 DEF Bequests!PutFile, Bequests!TypeOK, Unsent
    <3> QED BY <2>0, <3>1, <3>2 DEF FileInv, Unsent
  <2>6. ASSUME NEW u \in Bequests!Upload, Bequests!PutFails(u) PROVE FileInv'
    <3>1. /\ \A v \in Bequests!Upload : /\ request'[v].file = request[v].file
                                        /\ (request'[v].pc \in Unsent) = (request[v].pc \in Unsent)
          /\ \A v \in Bequests!Upload \ {u} : request'[v] = request[v]
          /\ refused' = refused \cup {u} /\ UNCHANGED <<disk, bequestClash>>
      BY <2>0, <2>6, BequestMoved DEF Bequests!PutFails, Unsent
    <3> QED BY <3>1 DEF FileInv, Unsent
  <2>7. ASSUME NEW q \in Grant, Bequests!CreateBequest(q) PROVE FileInv'
    BY <2>0, <2>2, <2>7 DEF Bequests!CreateBequest
  <2>8. ASSUME NEW x \in Amendment, Bequests!UpdateBequest(x) PROVE FileInv'
    BY <2>0, <2>2, <2>8 DEF Bequests!UpdateBequest
  <2>10. ASSUME NEW x \in Amendment, NEW q \in Grant, Bequests!SeeBequest(x, q)
         PROVE  FileInv'
    <3>1. /\ request[x].pc = "idle" /\ request'[x].pc = "viewed" /\ x \in Bequests!Upload
          /\ \A v \in Bequests!Upload \ {x} : request'[v] = request[v]
          /\ UNCHANGED <<disk, refused, bequestClash>>
      BY <2>0, <2>10, BequestSeen
    <3> QED BY <3>1 DEF FileInv, Unsent
  <2>9. CASE UNCHANGED <<request, disk, refused, bequestClash>>
    BY <2>9 DEF FileInv
  <2> QED
    BY <2>3, <2>4, <2>5, <2>6, <2>7, <2>8, <2>9, <2>10 DEF Bequests!Next, Bequests!vars,
       Bequests!RewriteWill, Bequests!DeleteBequest
<1> QED BY <1>1, <1>2, BequestsShaped, PTL DEF Bequests!Spec

\* A bequest goes where it was given, with its attachments and their files.
LEMMA BequestsAlone == Bequests!Spec => []Bequests!TypeOK /\ []Bequests!BequestsAreSound
<1>0. BequestShape => Bequests!TypeOK
  BY DEF BequestShape
<1>1. GivenInv => Bequests!GoesToTheGivenAlone
  BY DEF GivenInv
<1>2. BequestShape /\ FileInv => Bequests!FileIsItsOwnAlone
  <2> SUFFICES ASSUME BequestShape, FileInv, NEW q \in Grant, NEW u \in bequest[q].attachments
               PROVE  disk[request[u].file] = u \/ u \in refused
                        \/ request[u].file \in bequestClash
    BY DEF Bequests!FileIsItsOwnAlone
  <2>1. u \in Bequests!Upload /\ request[u].pc = "done"
    BY BequestTyped DEF BequestShape, RequestInv, BequestRow
  <2> QED BY <2>1 DEF FileInv
<1>3. Bequests!GoesToTheGivenAlone /\ Bequests!AddedIsKeptAlone /\ Bequests!FileIsItsOwnAlone
         => Bequests!BequestsAreSound
  BY DEF Bequests!BequestsAreSound
<1> QED BY <1>0, <1>1, <1>2, <1>3, BequestsShaped, GivenHolds, AddedIsKept, FilesHold, PTL

\* A bequest goes to the beneficiary it was last given to, keeps what was attached
\* to it and opens the file that was sent, each unless the history says why not.
THEOREM BequestsHold == ServicesSpec => []BequestsAreSound
BY PartsBehave, BequestsAlone, PTL DEF BequestsAreSound

-----------------------------------------------------------------------------
(* Lists.  The place of a row is the number of rows before it in the order *)
(* of its list, itself included; what the client has not been shown stays  *)
(* beyond the places it has reached, what it has been shown behind them.   *)

\* When the rows of a list are, what comes before a row of a list or is the row,
\* and the place that gives it.
Times == [r \in Pages!Row |-> listed[r].at]
Ahead(r, S, t, q) ==
    {s \in S : IF q.list = "messages" THEN t[s] <= t[r] ELSE t[s] >= t[r]}
Place(r, S, t, q) == Cardinality(Ahead(r, S, t, q))
TiedIn(S, t) == \E r, s \in S : r # s /\ t[r] = t[s]

\* Counting rows means the same within the component and here.
LEMMA RowsCountAlike ==
    ASSUME NEW S PROVE Pages!Cardinality(S) = Cardinality(S)
BY Zenon DEF Pages!Cardinality, Cardinality

\* There are finitely many rows.
LEMMA RowsAreFinite ==
    ASSUME NEW S \in SUBSET Pages!Row
    PROVE  IsFiniteSet(S) /\ Cardinality(S) \in Nat
<1>1. 1 \in Int /\ MaxRow \in Int
  BY ServicesAssumption
<1>2. IsFiniteSet(Pages!Row)
  BY <1>1, FS_Interval DEF Pages!Row
<1> QED BY <1>2, FS_Subset, FS_CardinalityType

\* The place of a row is a number, at most that of the rows there are.
LEMMA PlaceIsNumber ==
    ASSUME NEW S \in SUBSET Pages!Row, NEW t, NEW q, NEW r
    PROVE  Place(r, S, t, q) \in Nat /\ Place(r, S, t, q) <= Cardinality(S)
<1>1. Ahead(r, S, t, q) \in SUBSET S /\ Ahead(r, S, t, q) \in SUBSET Pages!Row
  BY DEF Ahead
<1> QED BY <1>1, RowsAreFinite, FS_Subset DEF Place

\* In an order of rows without ties every row stands in its place.
LEMMA OrderIsByPlace ==
    ASSUME Pages!TypeOK, NEW S \in SUBSET Pages!Row, NEW q, ~TiedIn(S, Times),
           NEW f \in Pages!Orders(S, q)
    PROVE  /\ f \in [1..Cardinality(S) -> S]
           /\ \A r \in S : \E j \in 1..Cardinality(S) : f[j] = r
           /\ \A i, j \in 1..Cardinality(S) : f[i] = f[j] => i = j
           /\ \A j \in 1..Cardinality(S) : Place(f[j], S, Times, q) = j
<1> DEFINE n == Cardinality(S)
<1>1. IsFiniteSet(S) /\ n \in Nat
  BY RowsAreFinite
<1>2. f \in [1..n -> S] /\ \A i, j \in 1..n : i < j => f[i] # f[j] /\ Pages!Ordered(f[i], f[j], q)
  BY RowsCountAlike DEF Pages!Orders
<1>3. \A i, j \in 1..n : f[i] = f[j] => i = j
  BY <1>1, <1>2
<1>4. f \in Injection(1..n, S)
  BY <1>2, <1>3 DEF Injection, IsInjective
<1>5. IsFiniteSet(1..n) /\ Cardinality(1..n) = n
  <2>1. 1 \in Int /\ n \in Int
    BY <1>1
  <2>2. IsFiniteSet(1..n) /\ Cardinality(1..n) = IF 1 > n THEN 0 ELSE n - 1 + 1
    BY <2>1, FS_Interval, Zenon
  <2> QED BY <1>1, <2>2
<1>6. f \in Surjection(1..n, S)
  BY <1>1, <1>4, <1>5, FS_Injection
<1>7. \A r \in S : \E j \in 1..n : f[j] = r
  BY <1>6 DEF Surjection
<1>8. ASSUME NEW j \in 1..n PROVE Place(f[j], S, Times, q) = j
  <2> DEFINE A == Ahead(f[j], S, Times, q)
             g == [i \in 1..j |-> f[i]]
  <2>0. \A r \in Pages!Row : listed[r].at \in Nat /\ Times[r] = listed[r].at
    BY DEF Pages!TypeOK, Times
  <2>1. \A i \in 1..j : i \in 1..n
    BY <1>1
  <2>2. \A i \in 1..j : f[i] \in A
    <3> SUFFICES ASSUME NEW i \in 1..j PROVE f[i] \in A
      OBVIOUS
    <3>1. f[i] \in S /\ f[i] \in Pages!Row /\ f[j] \in Pages!Row
      BY <1>2, <2>1
    <3>2. Pages!Ordered(f[i], f[j], q)
      <4>1. CASE i < j BY <4>1, <1>2, <2>1
      <4>2. CASE i = j BY <4>2, <2>0, <3>1 DEF Pages!Ordered
      <4> QED BY <4>1, <4>2
    <3> QED BY <2>0, <3>1, <3>2 DEF Ahead, Pages!Ordered
  <2>3. ASSUME NEW r \in A PROVE \E i \in 1..j : f[i] = r
    <3>1. r \in S /\ Pages!Ordered(r, f[j], q)
      <4>1. r \in S /\ r \in Pages!Row /\ f[j] \in Pages!Row
        BY <1>2 DEF Ahead
      <4> QED BY <2>0, <4>1 DEF Ahead, Pages!Ordered
    <3>2. PICK i \in 1..n : f[i] = r
      BY <1>7, <3>1
    <3>3. ~(j < i)
      <4> SUFFICES ASSUME j < i PROVE FALSE
        OBVIOUS
      <4>1. f[j] # f[i] /\ Pages!Ordered(f[j], f[i], q) /\ Pages!Ordered(f[i], f[j], q)
        BY <1>2, <3>1, <3>2
      <4>2. f[i] \in S /\ f[j] \in S /\ f[i] \in Pages!Row /\ f[j] \in Pages!Row
        BY <1>2
      <4>3. listed[f[i]].at = listed[f[j]].at
        <5>1. listed[f[i]].at \in Nat /\ listed[f[j]].at \in Nat
          BY <2>0, <4>2
        <5> QED BY <4>1, <5>1 DEF Pages!Ordered
      <4> QED BY <2>0, <4>1, <4>2, <4>3 DEF TiedIn
    <3> QED BY <3>2, <3>3
  <2> HIDE DEF A
  <2>4. g \in [1..j -> A]
    BY <2>2
  <2>5. \A i, k \in 1..j : g[i] = g[k] => i = k
    BY <1>3, <2>1
  <2>6. \A r \in A : \E i \in 1..j : g[i] = r
    BY <2>3
  <2> HIDE DEF g
  <2>7. g \in Bijection(1..j, A)
    BY <2>4, <2>5, <2>6 DEF Bijection, Injection, IsInjective,
            Surjection
  <2>8. j \in Nat /\ ExistsBijection(1..j, A)
    BY <2>7, <1>1 DEF ExistsBijection
  <2>9. Cardinality(A) = j
    BY <2>8, FS_CountingElements
  <2> QED BY <2>9 DEF Place, A
<1> QED BY <1>2, <1>3, <1>7, <1>8

\* A page holds, once each, the rows whose place is after those of the pages
\* before it and within its own limit.
LEMMA PageIsByPlace ==
    ASSUME Pages!TypeOK, NEW S \in SUBSET Pages!Row, NEW q, ~TiedIn(S, Times),
           NEW f \in Pages!Orders(S, q), q.list # "mine", NEW p \in Nat, p > 0
    PROVE  LET P == Pages!PageOf(f, q, p)
               n == Cardinality(S)
           IN  /\ P \in Seq(Pages!Row) /\ Pages!Skip(p) \in Nat
               /\ Len(P) = IF n <= Pages!Skip(p) THEN 0
                           ELSE IF Pages!Skip(p) + Limit < n THEN Limit ELSE n - Pages!Skip(p)
               /\ \A i \in 1..Len(P) : /\ P[i] \in S
                                       /\ Place(P[i], S, Times, q) = Pages!Skip(p) + i
               /\ \A r \in S : Pages!Skip(p) < Place(r, S, Times, q)
                                   /\ Place(r, S, Times, q) <= Pages!Skip(p) + Limit
                                 => \E i \in 1..Len(P) : P[i] = r
<1> DEFINE n == Cardinality(S)
           lo == Pages!Skip(p)
           hi == IF lo + Limit < n THEN lo + Limit ELSE n
           P == SubSeq(f, lo + 1, hi)
<1>1. n \in Nat /\ Limit \in Nat
  BY RowsAreFinite, ServicesAssumption
<1>2. lo \in Nat
  BY <1>1 DEF Pages!Skip
<1>3. /\ f \in [1..n -> S]
      /\ \A r \in S : \E j \in 1..n : f[j] = r
      /\ \A j \in 1..n : Place(f[j], S, Times, q) = j
  BY OrderIsByPlace
<1>4. Len(f) = n
  BY <1>1, <1>3
<1>5. Pages!PageOf(f, q, p) = P
  BY <1>4 DEF Pages!PageOf
<1> HIDE DEF n, lo
<1>6. hi \in Nat /\ hi <= n /\ hi <= lo + Limit /\ (hi = n \/ hi = lo + Limit)
  BY <1>1, <1>2
<1> HIDE DEF hi
<1>7. \A i \in (lo + 1)..hi : i \in 1..n /\ f[i] \in Pages!Row /\ f[i] \in S
  BY <1>1, <1>2, <1>3, <1>6
<1>8. lo + 1 \in Int /\ hi \in Int
  BY <1>2, <1>6
<1>9. /\ P \in Seq(Pages!Row)
      /\ Len(P) = IF lo + 1 <= hi THEN hi - (lo + 1) + 1 ELSE 0
      /\ \A i \in 1..(hi - (lo + 1) + 1) : P[i] = f[(lo + 1) + i - 1]
  BY <1>7, <1>8, SubSeqProperties
<1> HIDE DEF P
<1>10. Len(P) = IF n <= lo THEN 0 ELSE IF lo + Limit < n THEN Limit ELSE n - lo
  BY <1>1, <1>2, <1>6, <1>9 DEF hi
<1>11. \A i \in 1..Len(P) : lo + i \in (lo + 1)..hi /\ P[i] = f[lo + i]
  <2> SUFFICES ASSUME NEW i \in 1..Len(P)
               PROVE  lo + i \in (lo + 1)..hi /\ P[i] = f[lo + i]
    OBVIOUS
  <2>1. Len(P) \in Nat /\ i \in Nat /\ 1 <= i /\ i <= Len(P)
    BY <1>2, <1>6, <1>9
  <2>2. lo + 1 <= hi /\ Len(P) = hi - (lo + 1) + 1
    BY <1>2, <1>6, <1>9, <2>1
  <2>3. (lo + 1) + i - 1 = lo + i /\ lo + i <= hi
    BY <1>2, <1>6, <2>1, <2>2
  <2> QED BY <1>2, <1>6, <1>9, <2>1, <2>2, <2>3
<1>12. \A i \in 1..Len(P) : P[i] \in S /\ Place(P[i], S, Times, q) = lo + i
  BY <1>3, <1>7, <1>11
<1>13. ASSUME NEW r \in S, lo < Place(r, S, Times, q), Place(r, S, Times, q) <= lo + Limit
       PROVE  \E i \in 1..Len(P) : P[i] = r
  <2>1. PICK j \in 1..n : f[j] = r
    BY <1>3
  <2>2. lo < j /\ j <= lo + Limit
    BY <1>3, <1>13, <2>1
  <2>3. j - lo \in 1..Len(P) /\ lo + (j - lo) = j
    BY <1>1, <1>2, <1>6, <1>9, <2>2
  <2>4. P[j - lo] = f[lo + (j - lo)]
    BY <1>11, <2>3
  <2> QED BY <2>1, <2>3, <2>4
<1> QED BY <1>2, <1>5, <1>9, <1>10, <1>12, <1>13 DEF n, lo

\* How many rows come before the first of the next page.
Reached(w) == Pages!Skip(IF "find" \in w.pending THEN w.page ELSE w.page + 1)
ShownBy(w) == {w.shown[i] : i \in DOMAIN w.shown}

\* While rows only come in, those the client has not been shown are on the pages
\* that follow; a page that ends the reading leaves none of them out.
MissedIn(w, a, d, S, t) ==
    w.pc # "idle" /\ d \cap {"left", "moved", "tied"} = {} =>
        /\ "find" \notin w.pending /\ (w.query.list = "mine" \/ w.empty) =>
             a \subseteq ShownBy(w)
        /\ w.query.list # "mine" =>
             /\ \A r \in a \ ShownBy(w) : Place(r, S, t, w.query) > Reached(w)
             /\ "between" \notin d /\ w.query.list # "messages" =>
                  /\ w.pending = {"find"} => w.total = Cardinality(S)
                  /\ w.pending = {} => a \subseteq ShownBy(w) \/ w.total > Reached(w)
        /\ w.pc = "done" /\ ("between" \notin d \/ w.query.list = "messages") =>
             a \subseteq ShownBy(w)

\* While rows only leave, or come in at the end of the list, those the client has been shown
\* are on the pages behind.
TwiceIn(w, d, S, t, atEnd) ==
    /\ w.pc # "idle" /\ d \cap {"moved", "tied"} = {}
    /\ "entered" \notin d \/ (atEnd /\ "late" \notin d)
    => /\ \A i, j \in DOMAIN w.shown : w.shown[i] = w.shown[j] => i = j
       /\ w.query.list # "mine" =>
            \A r \in ShownBy(w) \cap S : Place(r, S, t, w.query) <= Reached(w)
       /\ w.query.list = "mine" /\ "find" \in w.pending => w.shown = <<>>

\* While nothing happens the pages add up to the list, and to its total where
\* the client is told one.
CountedIn(w, d, S) ==
    w.pc # "idle" /\ d = {} /\ w.query.list \notin {"mine", "messages"} =>
        /\ Len(w.shown) = IF Reached(w) < Cardinality(S) THEN Reached(w)
                          ELSE Cardinality(S)
        /\ "count" \notin w.pending \/ w.page > 1 => w.total = Cardinality(S)
        /\ "find" \notin w.pending /\ w.empty => Cardinality(S) <= Reached(w)
        /\ w.pc = "done" => Len(w.shown) = w.total

\* The client reads a list of its table; what it has been shown was a row.
Walked ==
    /\ walk.pc = "idle" => walk.shown = <<>>
    /\ walk.pc # "idle" =>
         /\ walk.page > 0 /\ walk.query.list \in Pages!Lists
         /\ walk.query.list = "mine" => walk.page = 1
         /\ always \subseteq Pages!Visible(walk.query)
         /\ "tied" \notin disturbed => ~TiedIn(Pages!Visible(walk.query), Times)
    /\ walk.pc = "done" => walk.pending = {}
    /\ \A r \in ShownBy(walk) : listed[r].state \in {"live", "deleted"}

ListInv ==
    /\ Walked
    /\ MissedIn(walk, always, disturbed, Pages!Visible(walk.query), Times)
    /\ TwiceIn(walk, disturbed, Pages!Visible(walk.query), Times, table = "messages")
    /\ CountedIn(walk, disturbed, Pages!Visible(walk.query))

\* A page begins where the page before it ends.
LEMMA PagesAreNumbers ==
    ASSUME NEW p \in Nat, p > 0
    PROVE  /\ Pages!Skip(p) \in Nat /\ Pages!Skip(p + 1) \in Nat
           /\ Pages!Skip(p + 1) = Pages!Skip(p) + Limit
           /\ Pages!Skip(p + 1) = p * Limit
<1>1. Limit \in Nat
  BY ServicesAssumption
<1>2. (p - 1) * Limit \in Nat /\ p * Limit \in Nat
  BY <1>1
<1>3. p * Limit = (p - 1) * Limit + Limit
  BY <1>1
<1>4. (p + 1) - 1 = p
  OBVIOUS
<1> QED BY <1>1, <1>2, <1>3, <1>4 DEF Pages!Skip

\* A row's place does not drop while rows only come in, and does not rise while
\* they only leave.
LEMMA PlaceGrows ==
    ASSUME NEW S \in SUBSET Pages!Row, NEW T \in SUBSET Pages!Row, NEW t, NEW u, NEW q,
           NEW r \in S,
           S \subseteq T, \A s \in S : u[s] = t[s]
    PROVE  Place(r, S, t, q) <= Place(r, T, u, q)
<1>1. Ahead(r, S, t, q) \in SUBSET Ahead(r, T, u, q)
  BY DEF Ahead
<1>2. Ahead(r, T, u, q) \in SUBSET Pages!Row
  BY DEF Ahead
<1> QED BY <1>1, <1>2, RowsAreFinite, FS_Subset DEF Place

LEMMA PlaceFalls ==
    ASSUME NEW S \in SUBSET Pages!Row, NEW T \in SUBSET Pages!Row, NEW t, NEW u, NEW q,
           NEW r \in T,
           Ahead(r, T, u, q) \subseteq S, \A s \in Ahead(r, T, u, q) \cup {r} : u[s] = t[s]
    PROVE  Place(r, T, u, q) <= Place(r, S, t, q)
<1>1. Ahead(r, T, u, q) \in SUBSET Ahead(r, S, t, q)
  BY DEF Ahead
<1>2. Ahead(r, S, t, q) \in SUBSET Pages!Row
  BY DEF Ahead
<1> QED BY <1>1, <1>2, RowsAreFinite, FS_Subset DEF Place

\* What a step of somebody else does to the list that is read: always, the list
\* and its times before and after, and what has disturbed it.
Disturbs(w, a, b, d, e, S, T, t, u) ==
    /\ b = a \cap T /\ d \subseteq e
    /\ "left" \notin e => S \subseteq T
    /\ "entered" \notin e => T \subseteq S
    /\ "moved" \notin e => \A r \in S \cap T : u[r] = t[r]
    /\ "tied" \notin e => ~TiedIn(T, u)
    /\ "between" \notin e /\ w.pending # {} => S = T
    /\ "late" \notin e => \A r \in T \ S, s \in S : ~(u[r] < t[s])

\* What the client has not been shown stays ahead of it while others move.
LEMMA DisturbedMissed ==
    ASSUME NEW w, NEW a, NEW b, NEW d, NEW e, NEW S \in SUBSET Pages!Row,
           NEW T \in SUBSET Pages!Row,
           NEW t, NEW u, Disturbs(w, a, b, d, e, S, T, t, u), a \subseteq S,
           w.page \in Nat, w.page > 0, MissedIn(w, a, d, S, t)
    PROVE  MissedIn(w, b, e, T, u)
<1> SUFFICES ASSUME w.pc # "idle", e \cap {"left", "moved", "tied"} = {}
             PROVE  MissedIn(w, b, e, T, u)
  BY DEF MissedIn
<1>1. /\ d \cap {"left", "moved", "tied"} = {} /\ b \subseteq a
      /\ S \subseteq T /\ \A r \in S : u[r] = t[r]
      /\ "between" \notin e => "between" \notin d
  BY DEF Disturbs
<1>2. ASSUME w.query.list # "mine", NEW r \in b \ ShownBy(w)
      PROVE  Place(r, T, u, w.query) > Reached(w)
  <2>1. r \in S /\ Place(r, S, t, w.query) > Reached(w)
    BY <1>1, <1>2 DEF MissedIn
  <2>2. Place(r, S, t, w.query) <= Place(r, T, u, w.query)
    BY <1>1, <2>1, PlaceGrows
  <2>3. /\ Place(r, S, t, w.query) \in Nat /\ Place(r, T, u, w.query) \in Nat
        /\ Reached(w) \in Nat
    BY PlaceIsNumber, PagesAreNumbers DEF Reached
  <2> QED BY <2>1, <2>2, <2>3
<1>3. "between" \notin e /\ w.pending = {"find"} => S = T
  BY DEF Disturbs
<1> QED BY <1>1, <1>2, <1>3 DEF MissedIn

\* What the client has been shown stays behind it while others move.
LEMMA DisturbedTwice ==
    ASSUME NEW w, NEW a, NEW b, NEW d, NEW e, NEW S \in SUBSET Pages!Row,
           NEW T \in SUBSET Pages!Row,
           NEW t \in [Pages!Row -> Nat], NEW u \in [Pages!Row -> Nat], NEW atEnd \in BOOLEAN,
           Disturbs(w, a, b, d, e, S, T, t, u), w.page \in Nat, w.page > 0,
           ShownBy(w) \subseteq Pages!Row,
           atEnd => /\ w.query.list = "messages"
                    /\ \A r \in T \ S : r \notin ShownBy(w),
           TwiceIn(w, d, S, t, atEnd)
    PROVE  TwiceIn(w, e, T, u, atEnd)
<1> SUFFICES ASSUME w.pc # "idle", e \cap {"moved", "tied"} = {},
                    "entered" \notin e \/ (atEnd /\ "late" \notin e)
             PROVE  TwiceIn(w, e, T, u, atEnd)
  BY DEF TwiceIn
<1>1. /\ d \cap {"moved", "tied"} = {} /\ ("entered" \notin d \/ (atEnd /\ "late" \notin d))
      /\ \A r \in S \cap T : u[r] = t[r]
      /\ ~TiedIn(T, u)
  BY DEF Disturbs
<1>2. ASSUME w.query.list # "mine", NEW r \in ShownBy(w) \cap T
      PROVE  Place(r, T, u, w.query) <= Reached(w)
  <2>1. r \in S /\ Ahead(r, T, u, w.query) \subseteq S
    <3>1. CASE "entered" \notin e
      BY <1>2, <3>1 DEF Disturbs, Ahead
    <3>2. CASE atEnd /\ "late" \notin e
      <4>1. r \in S /\ u[r] = t[r]
        BY <1>1, <1>2, <3>2
      <4>2. ASSUME NEW s \in Ahead(r, T, u, w.query), s \notin S
            PROVE  FALSE
        <5>1. s \in T /\ s \in Pages!Row /\ r \in Pages!Row /\ u[s] <= u[r]
          BY <3>2, <4>1 DEF Ahead
        <5>2. ~(u[s] < t[r])
          BY <3>2, <4>1, <4>2, <5>1 DEF Disturbs
        <5>3. u[s] = u[r]
          <6>1. u[s] \in Nat /\ u[r] \in Nat
            BY <5>1
          <6> QED BY <4>1, <5>1, <5>2, <6>1
        <5> QED BY <1>1, <1>2, <4>1, <4>2, <5>1, <5>3 DEF TiedIn
      <4> QED BY <4>1, <4>2
    <3> QED BY <1>1, <3>1, <3>2
  <2>2. \A s \in Ahead(r, T, u, w.query) \cup {r} : u[s] = t[s]
    BY <1>1, <1>2, <2>1 DEF Ahead
  <2>3. Place(r, T, u, w.query) <= Place(r, S, t, w.query)
    BY <1>2, <2>1, <2>2, PlaceFalls
  <2>4. Place(r, S, t, w.query) <= Reached(w)
    BY <1>1, <1>2, <2>1 DEF TwiceIn
  <2>5. /\ Place(r, S, t, w.query) \in Nat /\ Place(r, T, u, w.query) \in Nat
        /\ Reached(w) \in Nat
    BY PlaceIsNumber, PagesAreNumbers DEF Reached
  <2> QED BY <2>3, <2>4, <2>5
<1> QED BY <1>1, <1>2 DEF TwiceIn

\* A list that nothing has disturbed has the rows it had.
LEMMA DisturbedCount ==
    ASSUME NEW w, NEW a, NEW b, NEW d, NEW e, NEW S, NEW T, NEW t, NEW u,
           Disturbs(w, a, b, d, e, S, T, t, u), CountedIn(w, d, S)
    PROVE  CountedIn(w, e, T)
<1> SUFFICES ASSUME e = {} PROVE CountedIn(w, e, T)
  BY DEF CountedIn
<1>1. S = T /\ d = {}
  BY DEF Disturbs
<1> QED BY <1>1 DEF CountedIn

\* Places are counted from 1.
LEMMA PlaceIsPositive ==
    ASSUME NEW S \in SUBSET Pages!Row, NEW t \in [Pages!Row -> Nat], NEW q, NEW r \in S
    PROVE  Place(r, S, t, q) > 0
<1>1. t[r] \in Nat
  OBVIOUS
<1>2. r \in Ahead(r, S, t, q) /\ Ahead(r, S, t, q) \in SUBSET Pages!Row
  BY <1>1 DEF Ahead
<1> QED BY <1>2, RowsAreFinite, FS_EmptySet DEF Place

\* A page is a sequence of rows of the list.
LEMMA PageIsOfList ==
    ASSUME NEW S \in SUBSET Pages!Row, NEW q, NEW f \in Pages!Orders(S, q), NEW p \in Nat,
           p > 0
    PROVE  Pages!PageOf(f, q, p) \in Seq(S)
<1> DEFINE n == Cardinality(S)
<1>1. n \in Nat /\ Limit \in Nat /\ Pages!Skip(p) \in Nat
  BY RowsAreFinite, ServicesAssumption, PagesAreNumbers
<1>2. f \in [1..n -> S]
  BY RowsCountAlike DEF Pages!Orders
<1> HIDE DEF n
<1>3. Len(f) = n /\ f \in Seq(S)
  BY <1>1, <1>2
<1> DEFINE lo == Pages!Skip(p) + 1
           hi == IF Pages!Skip(p) + Limit < Len(f) THEN Pages!Skip(p) + Limit ELSE Len(f)
<1>4. lo \in Int /\ hi \in Int /\ \A i \in lo..hi : f[i] \in S
  BY <1>1, <1>2, <1>3
<1>5. SubSeq(f, lo, hi) \in Seq(S)
  <2> HIDE DEF lo, hi
  <2> QED BY <1>4, SubSeqProperties
<1> QED BY <1>3, <1>5 DEF Pages!PageOf

\* What the client has been shown grows by a page.
LEMMA ShownGrows ==
    ASSUME NEW s \in Seq(Pages!Row), NEW P \in Seq(Pages!Row)
    PROVE  /\ s \o P \in Seq(Pages!Row) /\ Len(s \o P) = Len(s) + Len(P)
           /\ {(s \o P)[i] : i \in DOMAIN (s \o P)} =
                {s[i] : i \in DOMAIN s} \cup {P[i] : i \in 1..Len(P)}
           /\ /\ \A i, j \in DOMAIN s : s[i] = s[j] => i = j
              /\ \A i, j \in 1..Len(P) : P[i] = P[j] => i = j
              /\ \A i \in DOMAIN s, j \in 1..Len(P) : s[i] # P[j]
              => \A i, j \in DOMAIN (s \o P) : (s \o P)[i] = (s \o P)[j] => i = j
<1> DEFINE c == s \o P
           m == Len(s)
           n == Len(P)
<1>1. /\ c \in Seq(Pages!Row) /\ Len(c) = m + n /\ m \in Nat /\ n \in Nat
      /\ \A i \in 1..(m + n) : c[i] = IF i <= m THEN s[i] ELSE P[i - m]
  BY ConcatProperties
<1>2. DOMAIN c = 1..(m + n) /\ DOMAIN s = 1..m
  BY <1>1
<1> HIDE DEF c, m, n
<1>3. \A i \in 1..m : i \in 1..(m + n) /\ c[i] = s[i]
  BY <1>1
<1>4. \A i \in 1..n : m + i \in 1..(m + n) /\ c[m + i] = P[i]
  BY <1>1
<1>5. \A i \in 1..(m + n) : \/ i \in 1..m /\ c[i] = s[i]
                            \/ i - m \in 1..n /\ i = m + (i - m) /\ c[i] = P[i - m]
  BY <1>1
<1>6. {c[i] : i \in 1..(m + n)} = {s[i] : i \in 1..m} \cup {P[i] : i \in 1..n}
  BY <1>3, <1>4, <1>5
<1>7. ASSUME \A i, j \in 1..m : s[i] = s[j] => i = j,
             \A i, j \in 1..n : P[i] = P[j] => i = j,
             \A i \in 1..m, j \in 1..n : s[i] # P[j],
             NEW i \in 1..(m + n), NEW j \in 1..(m + n), c[i] = c[j]
      PROVE  i = j
  <2>1. CASE i \in 1..m /\ c[i] = s[i] /\ j \in 1..m /\ c[j] = s[j]
    BY <1>7, <2>1
  <2>2. CASE i \in 1..m /\ c[i] = s[i] /\ j - m \in 1..n /\ c[j] = P[j - m]
    BY <1>7, <2>2
  <2>3. CASE i - m \in 1..n /\ c[i] = P[i - m] /\ j \in 1..m /\ c[j] = s[j]
    BY <1>7, <2>3
  <2>4. CASE /\ i - m \in 1..n /\ i = m + (i - m) /\ c[i] = P[i - m]
             /\ j - m \in 1..n /\ j = m + (j - m) /\ c[j] = P[j - m]
    <3>1. i - m = j - m
      BY <1>7, <2>4
    <3> QED BY <2>4, <3>1
  <2> QED BY <1>5, <2>1, <2>2, <2>3, <2>4
<1> QED BY <1>1, <1>2, <1>6, <1>7 DEF c, m, n

\* The rows of the pages up to one, and of that one.
LEMMA PagesAddUp ==
    ASSUME NEW lo \in Nat, NEW n \in Nat, NEW L \in Nat
    PROVE  (IF lo < n THEN lo ELSE n)
             + (IF n <= lo THEN 0 ELSE IF lo + L < n THEN L ELSE n - lo)
             = IF lo + L < n THEN lo + L ELSE n
OBVIOUS

\* The next page is read: the walk v the client w goes on with.
AfterFind(w, page) ==
    [w EXCEPT !.shown = @ \o page, !.empty = page = <<>>, !.pending = @ \ {"find"}]

LEMMA PageFound ==
    ASSUME Pages!TypeOK, NEW w \in Pages!Walk, NEW a, NEW d, NEW S \in SUBSET Pages!Row,
           a \subseteq S,
           "tied" \notin d => ~TiedIn(S, Times), NEW m,
           w.pc = "reading", w.page > 0, "find" \in w.pending,
           w.query.list = "mine" => w.page = 1,
           NEW f \in Pages!Orders(S, w.query),
           MissedIn(w, a, d, S, Times), TwiceIn(w, d, S, Times, m), CountedIn(w, d, S),
           NEW v, v = AfterFind(w, Pages!PageOf(f, w.query, w.page))
    PROVE  /\ v \in Pages!Walk
           /\ ShownBy(v) \subseteq ShownBy(w) \cup S
           /\ MissedIn(v, a, d, S, Times) /\ TwiceIn(v, d, S, Times, m)
           /\ CountedIn(v, d, S)
<1> USE DEF AfterFind
<1> DEFINE P == Pages!PageOf(f, w.query, w.page)
           n == Cardinality(S)
           lo == Pages!Skip(w.page)
<1>1. P \in Seq(S) /\ P \in Seq(Pages!Row) /\ w.shown \in Seq(Pages!Row) /\ w.page \in Nat
  <2>1. w.page \in Nat /\ w.shown \in Seq(Pages!Row)
    BY DEF Pages!Walk
  <2>2. P \in Seq(S)
    BY <2>1, PageIsOfList
  <2> HIDE DEF P
  <2> QED BY <2>1, <2>2
<1>2. /\ v.pc = "reading" /\ v.query = w.query /\ v.page = w.page /\ v.total = w.total
      /\ v.shown = w.shown \o P /\ v.empty = (P = <<>>)
      /\ v.pending = w.pending \ {"find"}
  BY DEF Pages!Walk
<1>3. /\ lo \in Nat /\ Reached(w) = lo /\ Reached(v) = lo + Limit
      /\ Limit \in Nat /\ Limit > 0 /\ n \in Nat
  BY <1>1, <1>2, PagesAreNumbers, RowsAreFinite, ServicesAssumption DEF Reached
<1> HIDE DEF P, n, lo
<1>4. v \in Pages!Walk
  <2>1. w.shown \o P \in Seq(Pages!Row) /\ (P = <<>>) \in BOOLEAN
    BY <1>1, ShownGrows
  <2> QED BY <2>1 DEF Pages!Walk, P
<1>5. /\ ShownBy(v) = ShownBy(w) \cup {P[i] : i \in 1..Len(P)}
      /\ Len(v.shown) = Len(w.shown) + Len(P)
      /\ /\ \A i, j \in DOMAIN w.shown : w.shown[i] = w.shown[j] => i = j
         /\ \A i, j \in 1..Len(P) : P[i] = P[j] => i = j
         /\ \A i \in DOMAIN w.shown, j \in 1..Len(P) : w.shown[i] # P[j]
         => \A i, j \in DOMAIN v.shown : v.shown[i] = v.shown[j] => i = j
  <2> DEFINE c == w.shown \o P
  <2>1. /\ {c[i] : i \in DOMAIN c} =
             {w.shown[i] : i \in DOMAIN w.shown} \cup {P[i] : i \in 1..Len(P)}
        /\ Len(c) = Len(w.shown) + Len(P)
        /\ /\ \A i, j \in DOMAIN w.shown : w.shown[i] = w.shown[j] => i = j
           /\ \A i, j \in 1..Len(P) : P[i] = P[j] => i = j
           /\ \A i \in DOMAIN w.shown, j \in 1..Len(P) : w.shown[i] # P[j]
           => \A i, j \in DOMAIN c : c[i] = c[j] => i = j
    BY <1>1, ShownGrows
  <2>2. v.shown = c
    BY <1>2
  <2> HIDE DEF c
  <2>3. ShownBy(v) = {c[i] : i \in DOMAIN c} /\ Len(v.shown) = Len(c)
    BY <2>2 DEF ShownBy
  <2>4. ShownBy(w) = {w.shown[i] : i \in DOMAIN w.shown}
    BY DEF ShownBy
  <2>5. ShownBy(v) = ShownBy(w) \cup {P[i] : i \in 1..Len(P)}
    BY <2>1, <2>3, <2>4, Zenon
  <2>6. Len(v.shown) = Len(w.shown) + Len(P)
    BY <2>1, <2>3
  <2>7. ASSUME \A i, j \in DOMAIN w.shown : w.shown[i] = w.shown[j] => i = j,
               \A i, j \in 1..Len(P) : P[i] = P[j] => i = j,
               \A i \in DOMAIN w.shown, j \in 1..Len(P) : w.shown[i] # P[j]
        PROVE  \A i, j \in DOMAIN v.shown : v.shown[i] = v.shown[j] => i = j
    <3>1. \A i, j \in DOMAIN c : c[i] = c[j] => i = j
      BY <2>1, <2>7
    <3> QED BY <2>2, <3>1
  <2> QED BY <2>5, <2>6, <2>7
<1>6. ShownBy(v) \subseteq ShownBy(w) \cup S
  BY <1>1, <1>5
\* A user's own requests are one page.
<1>7. ASSUME w.query.list = "mine", "tied" \notin d
      PROVE  /\ S = {P[i] : i \in 1..Len(P)}
             /\ \A i, j \in 1..Len(P) : P[i] = P[j] => i = j
  <2>1. P = f
    BY <1>7 DEF P, Pages!PageOf
  <2>2. /\ f \in [1..n -> S] /\ \A r \in S : \E j \in 1..n : f[j] = r
        /\ \A i, j \in 1..n : f[i] = f[j] => i = j
    BY <1>7, OrderIsByPlace DEF n
  <2>3. Len(P) = n
    BY <1>3, <2>1, <2>2
  <2> QED BY <2>1, <2>2, <2>3
\* The other lists go by place.
<1>8. ASSUME w.query.list # "mine", "tied" \notin d
      PROVE  /\ Len(P) = IF n <= lo THEN 0 ELSE IF lo + Limit < n THEN Limit ELSE n - lo
             /\ \A i \in 1..Len(P) : P[i] \in S /\ Place(P[i], S, Times, w.query) = lo + i
             /\ \A r \in S :
                  lo < Place(r, S, Times, w.query) /\ Place(r, S, Times, w.query) <= lo + Limit
                    => \E i \in 1..Len(P) : P[i] = r
  BY <1>1, <1>8, PageIsByPlace DEF P, n, lo
<1>9. \A r : Place(r, S, Times, w.query) \in Nat /\ Place(r, S, Times, w.query) <= n
  BY PlaceIsNumber DEF n
<1>10. MissedIn(v, a, d, S, Times)
  <2> SUFFICES ASSUME d \cap {"left", "moved", "tied"} = {}
               PROVE  /\ v.query.list = "mine" \/ v.empty => a \subseteq ShownBy(v)
                      /\ v.query.list # "mine" =>
                           /\ \A r \in a \ ShownBy(v) :
                                Place(r, S, Times, w.query) > Reached(v)
                           /\ /\ "between" \notin d /\ w.query.list # "messages"
                              /\ v.pending = {}
                              => a \subseteq ShownBy(v) \/ v.total > Reached(v)
    BY <1>2 DEF MissedIn
  <2>1. "tied" \notin d
    OBVIOUS
  <2>2. CASE v.query.list = "mine"
    BY <1>2, <1>5, <1>7, <2>1, <2>2
  <2>3. CASE v.query.list # "mine"
    <3>1. ASSUME NEW r \in a \ ShownBy(v)
          PROVE  Place(r, S, Times, w.query) > lo + Limit
      <4>1. Place(r, S, Times, w.query) > lo
        BY <1>2, <1>3, <1>5, <2>3, <3>1 DEF MissedIn
      <4>2. ~(Place(r, S, Times, w.query) <= lo + Limit)
        BY <1>2, <1>5, <1>8, <2>1, <2>3, <3>1, <4>1
      <4> QED BY <1>3, <1>9, <4>2
    <3>2. ASSUME v.empty PROVE a \subseteq ShownBy(v)
      <4>0. P = <<>>
        BY <1>2, <3>2
      <4>1. Len(P) = 0
        BY <4>0
      <4>2. n <= lo + Limit
        BY <1>2, <1>3, <1>8, <2>1, <2>3, <4>1
      <4> QED BY <1>3, <1>9, <3>1, <4>2
    <3>3. ASSUME "between" \notin d, w.query.list # "messages", v.pending = {}
          PROVE  a \subseteq ShownBy(v) \/ v.total > Reached(v)
      <4>1. w.pending = {"find"}
        BY <1>2, <3>3
      <4>2. v.total = n
        BY <1>2, <2>3, <3>3, <4>1 DEF MissedIn, n
      <4> QED BY <1>3, <1>9, <3>1, <4>2
    <3> QED BY <1>2, <1>3, <2>3, <3>1, <3>2, <3>3
  <2> QED BY <2>2, <2>3
<1>11. TwiceIn(v, d, S, Times, m)
  <2> SUFFICES ASSUME d \cap {"moved", "tied"} = {},
                      "entered" \notin d \/ (m /\ "late" \notin d)
               PROVE  /\ \A i, j \in DOMAIN v.shown : v.shown[i] = v.shown[j] => i = j
                      /\ v.query.list # "mine" =>
                           \A r \in ShownBy(v) \cap S :
                              Place(r, S, Times, w.query) <= Reached(v)
    BY <1>2 DEF TwiceIn
  <2>1. "tied" \notin d /\ \A i, j \in DOMAIN w.shown : w.shown[i] = w.shown[j] => i = j
    BY DEF TwiceIn
  <2>2. CASE v.query.list = "mine"
    <3>1. w.shown = <<>>
      BY <1>2, <2>2 DEF TwiceIn
    <3> QED BY <1>2, <1>5, <1>7, <2>1, <2>2, <3>1
  <2>3. CASE v.query.list # "mine"
    <3>1. \A r \in ShownBy(w) \cap S : Place(r, S, Times, w.query) <= lo
      BY <1>2, <1>3, <2>3 DEF TwiceIn
    <3>2. \A i \in 1..Len(P) : /\ P[i] \in S
                               /\ Place(P[i], S, Times, w.query) = lo + i
                               /\ lo < lo + i /\ lo + i <= lo + Limit
      <4>1. Len(P) \in Nat /\ Len(P) <= Limit
        BY <1>2, <1>3, <1>8, <2>1, <2>3
      <4> QED BY <1>2, <1>3, <1>8, <2>1, <2>3, <4>1
    <3>3. \A i \in 1..Len(P) : P[i] \notin ShownBy(w)
      BY <1>3, <3>1, <3>2
    <3>4. \A i, j \in 1..Len(P) : P[i] = P[j] => i = j
      <4>1. \A i, j \in 1..Len(P) : i \in Int /\ j \in Int /\ (lo + i = lo + j => i = j)
        BY <1>1, <1>3
      <4> QED BY <3>2, <4>1
    <3>5. \A i \in DOMAIN w.shown, j \in 1..Len(P) : w.shown[i] # P[j]
      BY <3>3 DEF ShownBy
    <3>6. ASSUME NEW r \in ShownBy(v) \cap S
          PROVE  Place(r, S, Times, w.query) <= lo + Limit
      <4>1. CASE r \in ShownBy(w)
        BY <1>3, <1>9, <3>1, <3>6, <4>1
      <4>2. CASE r \notin ShownBy(w)
        BY <1>5, <3>2, <3>6, <4>2
      <4> QED BY <4>1, <4>2
    <3>7. \A i, j \in DOMAIN v.shown : v.shown[i] = v.shown[j] => i = j
      BY <1>5, <2>1, <3>4, <3>5
    <3>8. \A r \in ShownBy(v) \cap S : Place(r, S, Times, w.query) <= Reached(v)
      BY <1>3, <3>6
    <3> QED BY <3>7, <3>8
  <2> QED BY <2>2, <2>3
<1>12. CountedIn(v, d, S)
  <2> SUFFICES ASSUME d = {}, w.query.list \notin {"mine", "messages"}
               PROVE  CountedIn(v, d, S)
    BY <1>2 DEF CountedIn
  <2>1. Len(w.shown) = IF lo < n THEN lo ELSE n
    BY <1>3 DEF CountedIn, n
  <2>2. Len(P) = IF n <= lo THEN 0 ELSE IF lo + Limit < n THEN Limit ELSE n - lo
    BY <1>8
  <2>3. Len(v.shown) = IF lo + Limit < n THEN lo + Limit ELSE n
    <3>1. Len(v.shown) = Len(w.shown) + Len(P)
      BY <1>5
    <3>2. lo \in Nat /\ n \in Nat /\ Limit \in Nat
      BY <1>3
    <3>3. (IF lo < n THEN lo ELSE n)
            + (IF n <= lo THEN 0 ELSE IF lo + Limit < n THEN Limit ELSE n - lo)
            = IF lo + Limit < n THEN lo + Limit ELSE n
      BY <3>2, PagesAddUp
    <3> QED BY <2>1, <2>2, <3>1, <3>3, Zenon
  <2>4. v.empty => n <= lo + Limit
    <3> SUFFICES ASSUME v.empty PROVE n <= lo + Limit
      OBVIOUS
    <3>0. P = <<>>
      BY <1>2
    <3>1. Len(P) = 0
      BY <3>0
    <3> QED BY <1>3, <2>2, <3>1
  <2>5. "count" \notin v.pending \/ v.page > 1 => v.total = n
    BY <1>2 DEF CountedIn, n
  <2> QED BY <1>2, <1>3, <2>3, <2>4, <2>5 DEF CountedIn, n
<1> QED BY <1>4, <1>6, <1>10, <1>11, <1>12

\* The total is counted: the walk v the client w goes on with.
AfterCount(w, n) == [w EXCEPT !.total = n, !.pending = @ \ {"count"}]

LEMMA TotalCounted ==
    ASSUME NEW w \in Pages!Walk, NEW a, NEW d, NEW S \in SUBSET Pages!Row, a \subseteq S,
           NEW t, NEW m, NEW n \in Nat,
           w.query.list \notin {"mine", "messages"} => n = Cardinality(S),
           w.pc = "reading", w.page > 0,
           MissedIn(w, a, d, S, t), TwiceIn(w, d, S, t, m), CountedIn(w, d, S),
           NEW v, v = AfterCount(w, n)
    PROVE  /\ v \in Pages!Walk /\ ShownBy(v) = ShownBy(w)
           /\ MissedIn(v, a, d, S, t) /\ TwiceIn(v, d, S, t, m) /\ CountedIn(v, d, S)
<1> USE DEF AfterCount
<1>1. /\ v \in Pages!Walk /\ v.pc = "reading" /\ v.query = w.query /\ v.page = w.page
      /\ v.total = n /\ v.shown = w.shown /\ v.empty = w.empty
      /\ v.pending = w.pending \ {"count"}
  BY DEF Pages!Walk
<1>2. ShownBy(v) = ShownBy(w) /\ Reached(v) = Reached(w)
  BY <1>1 DEF ShownBy, Reached
<1>3. Reached(w) \in Nat
  <2>1. w.page \in Nat
    BY DEF Pages!Walk
  <2> QED BY <2>1, PagesAreNumbers DEF Reached
<1>4. MissedIn(v, a, d, S, t)
  <2> SUFFICES ASSUME d \cap {"left", "moved", "tied"} = {}
               PROVE  MissedIn(v, a, d, S, t)
    BY DEF MissedIn
  <2>1. ASSUME w.query.list \notin {"mine", "messages"}, NEW r \in a, r \notin ShownBy(w)
        PROVE  v.total > Reached(w)
    <3>1. Place(r, S, t, w.query) > Reached(w)
      BY <1>1, <2>1 DEF MissedIn
    <3>2. Place(r, S, t, w.query) \in Nat /\ Place(r, S, t, w.query) <= n
      BY <2>1, PlaceIsNumber
    <3> QED BY <1>1, <1>3, <3>1, <3>2
  <2> QED BY <1>1, <1>2, <2>1 DEF MissedIn
<1>5. TwiceIn(v, d, S, t, m)
  BY <1>1, <1>2 DEF TwiceIn
<1>6. CountedIn(v, d, S)
  BY <1>1, <1>2 DEF CountedIn
<1> QED BY <1>1, <1>2, <1>4, <1>5, <1>6

\* The client goes on to the next page, or has read the list to its end.
LEMMA PageTurned ==
    ASSUME NEW w \in Pages!Walk, NEW a, NEW d, NEW S \in SUBSET Pages!Row,
           NEW t, NEW m, w.pc = "reading", w.page > 0, w.pending = {},
           MissedIn(w, a, d, S, t), TwiceIn(w, d, S, t, m), CountedIn(w, d, S),
           NEW v,
           \/ /\ w.query.list # "mine"
              /\ v = [w EXCEPT !.page = @ + 1, !.pending = {"count", "find"}]
           \/ /\ v = [w EXCEPT !.pc = "done"]
              /\ \/ w.query.list # "messages" /\ w.page * Limit >= w.total
                 \/ w.query.list = "mine"
                 \/ w.empty
    PROVE  /\ v \in Pages!Walk /\ ShownBy(v) = ShownBy(w)
           /\ MissedIn(v, a, d, S, t) /\ TwiceIn(v, d, S, t, m) /\ CountedIn(v, d, S)
<1>1. w.page \in Nat /\ w.total \in Nat
  BY DEF Pages!Walk
<1>2. Reached(w) = Pages!Skip(w.page + 1) /\ Reached(w) = w.page * Limit /\ Reached(w) \in Nat
  BY <1>1, PagesAreNumbers DEF Reached
<1>3. CASE /\ w.query.list # "mine"
           /\ v = [w EXCEPT !.page = @ + 1, !.pending = {"count", "find"}]
  <2>1. /\ v \in Pages!Walk /\ v.pc = "reading" /\ v.query = w.query /\ v.page = w.page + 1
        /\ v.total = w.total /\ v.shown = w.shown /\ v.pending = {"count", "find"}
    <3>1. w.page + 1 \in Nat /\ {"count", "find"} \in SUBSET {"count", "find"}
      BY <1>1
    <3>2. v \in Pages!Walk
      BY <1>3, <3>1 DEF Pages!Walk
    <3> QED BY <1>3, <3>2 DEF Pages!Walk
  <2>2. ShownBy(v) = ShownBy(w) /\ Reached(v) = Reached(w)
    BY <1>2, <2>1 DEF ShownBy, Reached
  <2>3. MissedIn(v, a, d, S, t)
    BY <1>3, <2>1, <2>2 DEF MissedIn
  <2>4. TwiceIn(v, d, S, t, m)
    BY <1>3, <2>1, <2>2 DEF TwiceIn
  <2>5. CountedIn(v, d, S)
    BY <1>3, <2>1, <2>2 DEF CountedIn
  <2> QED BY <2>1, <2>2, <2>3, <2>4, <2>5
<1>4. CASE /\ v = [w EXCEPT !.pc = "done"]
           /\ \/ w.query.list # "messages" /\ w.page * Limit >= w.total
              \/ w.query.list = "mine"
              \/ w.empty
  <2>1. /\ v \in Pages!Walk /\ v.pc = "done" /\ v.query = w.query /\ v.page = w.page
        /\ v.total = w.total /\ v.shown = w.shown /\ v.pending = {} /\ v.empty = w.empty
    BY <1>4 DEF Pages!Walk
  <2>2. ShownBy(v) = ShownBy(w) /\ Reached(v) = Reached(w)
    BY <1>2, <2>1 DEF ShownBy, Reached
  <2>3. \/ w.query.list # "messages" /\ ~(w.total > Reached(w))
        \/ w.query.list = "mine"
        \/ w.empty
    BY <1>1, <1>2, <1>4
  <2>4. MissedIn(v, a, d, S, t)
    BY <2>1, <2>2, <2>3 DEF MissedIn
  <2>5. TwiceIn(v, d, S, t, m)
    BY <2>1, <2>2 DEF TwiceIn
  <2>6. CountedIn(v, d, S)
    <3> SUFFICES ASSUME d = {}, w.query.list \notin {"mine", "messages"}
                 PROVE  CountedIn(v, d, S)
      BY <2>1 DEF CountedIn
    <3>1. /\ Len(w.shown) = IF Reached(w) < Cardinality(S) THEN Reached(w)
                            ELSE Cardinality(S)
          /\ w.total = Cardinality(S)
          /\ w.empty => Cardinality(S) <= Reached(w)
      BY DEF CountedIn
    <3>2. Cardinality(S) \in Nat
      BY RowsAreFinite
    <3>3. Len(w.shown) = w.total
      BY <1>2, <2>3, <3>1, <3>2
    <3> QED BY <2>1, <2>2, <3>1, <3>3 DEF CountedIn
  <2> QED BY <2>1, <2>2, <2>4, <2>5, <2>6
<1> QED BY <1>3, <1>4

\* The client opens a list.
LEMMA ListOpened ==
    ASSUME NEW v \in Pages!Walk, NEW d, NEW S \in SUBSET Pages!Row,
           NEW t \in [Pages!Row -> Nat], NEW m,
           v.pc = "reading", v.page = 1, v.shown = <<>>, v.pending = {"count", "find"}
    PROVE  MissedIn(v, S, d, S, t) /\ TwiceIn(v, d, S, t, m) /\ CountedIn(v, d, S)
<1>1. Reached(v) = 0 /\ ShownBy(v) = {}
  <2>1. Pages!Skip(1) = 0
    BY ServicesAssumption DEF Pages!Skip
  <2> QED BY <2>1 DEF Reached, ShownBy
<1>2. \A r \in S : Place(r, S, t, v.query) > 0
  BY PlaceIsPositive
<1>3. MissedIn(v, S, d, S, t)
  BY <1>1, <1>2 DEF MissedIn
<1>4. TwiceIn(v, d, S, t, m)
  BY <1>1 DEF TwiceIn
<1>5. CountedIn(v, d, S)
  <2>1. Cardinality(S) \in Nat /\ Len(v.shown) = 0
    BY RowsAreFinite
  <2> QED BY <1>1, <2>1 DEF CountedIn
<1> QED BY <1>3, <1>4, <1>5

\* A list is made of rows of the table.
LEMMA ListedRows ==
    ASSUME NEW q
    PROVE  /\ Pages!Visible(q) \in SUBSET Pages!Row
           /\ Pages!Visible(walk.query)' \in SUBSET Pages!Row
BY DEF Pages!Visible, Pages!FindAllForAdmin, Pages!FindAllForAgent, Pages!FindAllForClient,
       Pages!GetAvailableRequests, Pages!GetAllDisasters, Pages!GetCompletedRequests,
       Pages!GetMyRequests,
       Pages!FindAllMessages

\* A list shows rows that are there, and the same ones until the table changes.
LEMMA ListedAreLive ==
    ASSUME NEW q, NEW r \in Pages!Visible(q)
    PROVE  Pages!Live(r)
BY DEF Pages!Visible, Pages!FindAllForAdmin, Pages!FindAllForAgent, Pages!FindAllForClient,
       Pages!GetAvailableRequests, Pages!GetAllDisasters, Pages!GetCompletedRequests,
       Pages!GetMyRequests,
       Pages!FindAllMessages

LEMMA SameList ==
    ASSUME UNCHANGED listed, NEW q, walk'.query = q
    PROVE  Pages!Visible(walk.query)' = Pages!Visible(q) /\ Times' = Times
BY DEF Pages!Visible, Pages!FindAllForAdmin, Pages!FindAllForAgent, Pages!FindAllForClient,
       Pages!Live, Pages!HasStatus,
       Pages!GetAvailableRequests, Pages!GetAllDisasters, Pages!GetCompletedRequests,
       Pages!GetMyRequests,
       Pages!FindAllMessages, Times

\* The columns of a row.
RowRecord == [state : {"none", "pending", "live", "deleted"}, owner : User \cup {Nobody},
              other : User \cup {Nobody}, status : Pages!Label, at : 0..MaxAt]

\* What a change of the table may do: rows are there to stay, if only as deleted
\* ones, and of messages one begins to be stored, is committed or is deleted.
Changes ==
    /\ UNCHANGED <<table, walk>> /\ Pages!Observe
    /\ listed' \in [Pages!Row -> RowRecord]
    /\ \A r \in Pages!Row :
         listed[r].state \in {"live", "deleted"} => listed'[r].state \in {"live", "deleted"}
    /\ table = "messages" =>
         \A r \in Pages!Row : \/ listed'[r] = listed[r]
                              \/ listed'[r].state # "live"
                              \/ listed[r].state \notin {"live", "deleted"}

\* Every change of the table is one.
LEMMA ChangeChanges ==
    ASSUME Pages!TypeOK, Pages!Change, UNCHANGED table
    PROVE  Changes
<1>1. listed \in [Pages!Row -> RowRecord]
  BY DEF Pages!TypeOK, RowRecord
<1>2. 0 \in 0..MaxAt /\ \A k \in 1..MaxAt : k \in 0..MaxAt
  BY ServicesAssumption
<1>3. ASSUME NEW r \in Pages!Row, NEW new \in RowRecord,
             listed[r].state \in {"live", "deleted"} => new.state \in {"live", "deleted"},
             listed' = [listed EXCEPT ![r] = new], UNCHANGED walk, Pages!Observe,
             table = "messages" => \/ new.state # "live"
                                   \/ listed[r].state \notin {"live", "deleted"}
      PROVE  Changes
  BY <1>1, <1>3 DEF Changes
<1>4. ASSUME NEW r \in Pages!Row, NEW p \in User, NEW q \in User \cup {Nobody},
             NEW v \in {"pending", "live"},
             NEW s \in Pages!Label, NEW k \in 1..MaxAt, Pages!Insert(r, v, p, q, s, k)
      PROVE  Changes
  <2> DEFINE new == [state |-> v, owner |-> p, other |-> q, status |-> s, at |-> k]
  <2>1. new \in RowRecord
    BY <1>2 DEF RowRecord
  <2>2. /\ listed' = [listed EXCEPT ![r] = new] /\ UNCHANGED walk /\ Pages!Observe
        /\ listed[r].state = "none"
    BY <1>4 DEF Pages!Insert
  <2> HIDE DEF new
  <2> QED BY <1>3, <2>1, <2>2
<1>5. ASSUME NEW r \in Pages!Row, NEW k \in 1..MaxAt, NEW p \in User, NEW q \in User,
             Pages!Book(r, p, q, k)
      PROVE  Changes
  BY <1>4, <1>5 DEF Pages!Book, Pages!Label
<1>6. ASSUME NEW r \in Pages!Row, NEW k \in 1..MaxAt, NEW p \in User,
             Pages!CreateRequest(r, p, k)
      PROVE  Changes
  BY <1>4, <1>6 DEF Pages!CreateRequest, Pages!Label
<1>7. ASSUME NEW r \in Pages!Row, NEW k \in 1..MaxAt, NEW p \in User,
             Pages!SendMessage(r, p, k)
      PROVE  Changes
  BY <1>4, <1>7 DEF Pages!SendMessage, Pages!Label
<1>8. ASSUME NEW r \in Pages!Row, NEW k \in 1..MaxAt, Pages!Reschedule(r, k)
      PROVE  Changes
  <2>1. listed[r] \in RowRecord
    BY <1>1
  <2>2. [listed[r] EXCEPT !.at = k, !.status = "PENDING"] \in RowRecord
    BY <1>2, <2>1 DEF RowRecord, Pages!Label
  <2>3. [listed[r] EXCEPT !.at = k, !.status = "PENDING"].state = listed[r].state
    BY <2>1 DEF RowRecord
  <2>4. /\ listed' = [listed EXCEPT ![r] = [listed[r] EXCEPT !.at = k, !.status = "PENDING"]]
        /\ UNCHANGED walk /\ Pages!Observe /\ table = "appointments" /\ listed[r].state = "live"
    BY <1>1, <1>8 DEF Pages!Reschedule, Pages!Live
  <2> QED BY <1>3, <2>2, <2>3, <2>4
<1>9. ASSUME NEW r \in Pages!Row, NEW s \in NewStatus, Pages!UpdateStatus(r, s)
      PROVE  Changes
  <2>1. listed[r] \in RowRecord
    BY <1>1
  <2>2. [listed[r] EXCEPT !.status = s] \in RowRecord
    BY <2>1 DEF RowRecord, Pages!Label
  <2>3. [listed[r] EXCEPT !.status = s].state = listed[r].state
    BY <2>1 DEF RowRecord
  <2>4. /\ listed' = [listed EXCEPT ![r] = [listed[r] EXCEPT !.status = s]]
        /\ UNCHANGED walk /\ Pages!Observe /\ table = "appointments" /\ listed[r].state = "live"
    BY <1>1, <1>9 DEF Pages!UpdateStatus, Pages!Live
  <2> QED BY <1>3, <2>2, <2>3, <2>4
<1>10. ASSUME NEW r \in Pages!Row, NEW q \in User, Pages!AcceptRequest(r, q)
       PROVE  Changes
  <2>1. listed[r] \in RowRecord
    BY <1>1
  <2>2. [listed[r] EXCEPT !.status = "ACCEPTED", !.other = q] \in RowRecord
    BY <2>1 DEF RowRecord, Pages!Label
  <2>3. [listed[r] EXCEPT !.status = "ACCEPTED", !.other = q].state = listed[r].state
    BY <2>1 DEF RowRecord
  <2>4. /\ listed' = [listed EXCEPT ![r] = [listed[r] EXCEPT !.status = "ACCEPTED", !.other = q]]
        /\ UNCHANGED walk /\ Pages!Observe /\ table = "requests" /\ listed[r].state = "live"
    BY <1>1, <1>10 DEF Pages!AcceptRequest, Pages!Live
  <2> QED BY <1>3, <2>2, <2>3, <2>4
<1>11. ASSUME NEW r \in Pages!Row, Pages!CompleteRequest(r)
       PROVE  Changes
  <2>1. listed[r] \in RowRecord
    BY <1>1
  <2>2. [listed[r] EXCEPT !.status = "COMPLETED"] \in RowRecord
    BY <2>1 DEF RowRecord, Pages!Label
  <2>3. [listed[r] EXCEPT !.status = "COMPLETED"].state = listed[r].state
    BY <2>1 DEF RowRecord
  <2>4. /\ listed' = [listed EXCEPT ![r] = [listed[r] EXCEPT !.status = "COMPLETED"]]
        /\ UNCHANGED walk /\ Pages!Observe /\ table = "requests" /\ listed[r].state = "live"
    BY <1>1, <1>11 DEF Pages!CompleteRequest, Pages!Live
  <2> QED BY <1>3, <2>2, <2>3, <2>4
<1>12. ASSUME NEW r \in Pages!Row, Pages!DeleteMessage(r)
       PROVE  Changes
  <2>1. listed[r] \in RowRecord
    BY <1>1
  <2>2. [listed[r] EXCEPT !.state = "deleted"] \in RowRecord
    BY <2>1 DEF RowRecord
  <2>3. [listed[r] EXCEPT !.state = "deleted"].state = "deleted"
    BY <2>1 DEF RowRecord
  <2>4. /\ listed' = [listed EXCEPT ![r] = [listed[r] EXCEPT !.state = "deleted"]]
        /\ UNCHANGED walk /\ Pages!Observe
    BY <1>1, <1>12 DEF Pages!DeleteMessage
  <2> QED BY <1>3, <2>2, <2>3, <2>4
<1>13. ASSUME NEW r \in Pages!Row, Pages!Commit(r)
       PROVE  Changes
  <2>1. listed[r] \in RowRecord
    BY <1>1
  <2>2. [listed[r] EXCEPT !.state = "live"] \in RowRecord
    BY <2>1 DEF RowRecord
  <2>3. /\ listed' = [listed EXCEPT ![r] = [listed[r] EXCEPT !.state = "live"]]
        /\ UNCHANGED walk /\ Pages!Observe /\ listed[r].state = "pending"
    BY <1>1, <1>13 DEF Pages!Commit
  <2> QED BY <1>3, <2>2, <2>3
<1> QED BY <1>5, <1>6, <1>7, <1>8, <1>9, <1>10, <1>11, <1>12, <1>13 DEF Pages!Change

\* A change disturbs the list that is read in no other way than is written down.
LEMMA ChangeDisturbs ==
    ASSUME Pages!TypeOK, Changes, walk.pc = "reading"
    PROVE  /\ Disturbs(walk, always, always', disturbed, disturbed', Pages!Visible(walk.query),
                       Pages!Visible(walk.query)', Times, Times')
           /\ Times \in [Pages!Row -> Nat] /\ Times' \in [Pages!Row -> Nat]
           /\ Pages!Visible(walk.query)' \in SUBSET Pages!Row
<1> DEFINE S == Pages!Visible(walk.query)
           T == Pages!Visible(walk.query)'
<1>1. S \in SUBSET Pages!Row /\ T \in SUBSET Pages!Row
  BY ListedRows
<1>2. \A r \in Pages!Row : /\ Times[r] = listed[r].at /\ Times'[r] = listed'[r].at
                           /\ listed[r].at \in Nat /\ listed'[r].at \in Nat
  <2>1. listed \in [Pages!Row -> RowRecord] /\ listed' \in [Pages!Row -> RowRecord]
    BY DEF Pages!TypeOK, RowRecord, Changes
  <2>2. \A k \in 0..MaxAt : k \in Nat
    BY ServicesAssumption
  <2> QED BY <2>1, <2>2 DEF RowRecord, Times
<1>3. Times \in [Pages!Row -> Nat] /\ Times' \in [Pages!Row -> Nat]
  BY <1>2 DEF Times
<1>4. /\ always' = always \cap T /\ disturbed \subseteq disturbed'
      /\ ~(S \subseteq T) => "left" \in disturbed'
      /\ ~(T \subseteq S) => "entered" \in disturbed'
      /\ (\E r \in S \cap T : listed'[r].at # listed[r].at) => "moved" \in disturbed'
      /\ Pages!Tied(S)' => "tied" \in disturbed'
      /\ S # T /\ walk.pending # {} => "between" \in disturbed'
      /\ (\E r \in T \ S, s \in S : listed'[r].at < listed[s].at) => "late" \in disturbed'
  <2>1. Pages!Observe
    BY DEF Changes
  <2> QED BY <2>1 DEF Pages!Observe
<1>5. Pages!Tied(S)' <=> \E r, s \in T : r # s /\ listed'[r].at = listed'[s].at
  BY DEF Pages!Tied
<1> HIDE DEF S, T
<1>6. (\E r \in S \cap T : listed'[r].at # listed[r].at)
      <=> ~\A r \in S \cap T : Times'[r] = Times[r]
  BY <1>1, <1>2
<1>7. (\E r, s \in T : r # s /\ listed'[r].at = listed'[s].at) <=> TiedIn(T, Times')
  BY <1>1, <1>2 DEF TiedIn
<1>8. (\E r \in T \ S, s \in S : listed'[r].at < listed[s].at)
      <=> ~\A r \in T \ S, s \in S : ~(Times'[r] < Times[s])
  BY <1>1, <1>2
<1>9. Disturbs(walk, always, always', disturbed, disturbed', S, T, Times, Times')
  BY <1>4, <1>5, <1>6, <1>7, <1>8 DEF Disturbs
<1> QED BY <1>1, <1>3, <1>9 DEF S, T

\* The invariant outlives what others do to the table.
LEMMA TableChanged ==
    ASSUME Pages!TypeOK, ListInv, Changes, walk.pc # "done"
    PROVE  Pages!TypeOK' /\ ListInv'
<1> DEFINE S == Pages!Visible(walk.query)
           T == Pages!Visible(walk.query)'
<1>1. /\ UNCHANGED <<table, walk>> /\ listed' \in [Pages!Row -> RowRecord]
      /\ \A r \in Pages!Row :
           listed[r].state \in {"live", "deleted"} => listed'[r].state \in {"live", "deleted"}
  BY DEF Changes
<1>2. S \in SUBSET Pages!Row /\ T \in SUBSET Pages!Row
  BY ListedRows
<1>3. ShownBy(walk) \subseteq Pages!Row /\ walk \in Pages!Walk /\ walk.page \in Nat
  BY DEF Pages!TypeOK, Pages!Walk, ShownBy
<1>4. Pages!TypeOK'
  <2>1. Pages!Observe
    BY DEF Changes
  <2>2. /\ always' \subseteq Pages!Row
        /\ disturbed' \subseteq {"left", "entered", "moved", "tied", "between", "late"}
    BY <2>1 DEF Pages!Observe, Pages!TypeOK
  <2> QED BY <1>1, <2>2 DEF Pages!TypeOK, RowRecord
<1>5. /\ walk.pc = "idle" => walk.shown = <<>>
      /\ walk.pc = "reading" =>
           /\ walk.page > 0 /\ walk.query.list \in Pages!Lists
           /\ walk.query.list = "mine" => walk.page = 1
           /\ always \subseteq S
      /\ \A r \in ShownBy(walk) : listed[r].state \in {"live", "deleted"}
      /\ MissedIn(walk, always, disturbed, S, Times)
      /\ TwiceIn(walk, disturbed, S, Times, table = "messages")
      /\ CountedIn(walk, disturbed, S)
  BY DEF ListInv, Walked
<1>6. \A r \in ShownBy(walk) : listed'[r].state \in {"live", "deleted"}
  BY <1>1, <1>3, <1>5
<1>7. Pages!Lists' = Pages!Lists
  BY <1>1 DEF Pages!Lists
<1>8. CASE walk.pc = "idle"
  <2>1. Walked'
    BY <1>1, <1>5, <1>6, <1>8 DEF Walked, ShownBy
  <2> QED BY <1>1, <1>4, <1>8, <2>1 DEF ListInv, MissedIn, TwiceIn, CountedIn
<1>9. CASE walk.pc = "reading"
  <2>1. /\ Disturbs(walk, always, always', disturbed, disturbed', S, T, Times, Times')
        /\ Times \in [Pages!Row -> Nat] /\ Times' \in [Pages!Row -> Nat]
    BY <1>9, ChangeDisturbs
  <2>2. table = "messages" =>
          /\ walk.query.list = "messages"
          /\ \A r \in T \ S : r \notin ShownBy(walk)
    <3> SUFFICES ASSUME table = "messages"
                 PROVE  /\ walk.query.list = "messages"
                        /\ \A r \in T \ S : listed[r].state \notin {"live", "deleted"}
      BY <1>5
    <3>1. walk.query.list = "messages"
      BY <1>5, <1>9 DEF Pages!Lists
    <3>2. S = Pages!FindAllMessages(walk.query) /\ T = Pages!FindAllMessages(walk.query)'
      BY <1>1, <3>1 DEF Pages!Visible
    <3>3. ASSUME NEW r \in T \ S
          PROVE  r \in Pages!Row /\ ~(listed'[r] = listed[r]) /\ listed'[r].state = "live"
      BY <1>1, <3>2, <3>3 DEF Pages!FindAllMessages, Pages!Live
    <3> QED BY <3>1, <3>3 DEF Changes
  <2> HIDE DEF S, T
  <2>3. MissedIn(walk, always', disturbed', T, Times')
    BY <1>2, <1>3, <1>5, <1>9, <2>1, DisturbedMissed
  <2>4. TwiceIn(walk, disturbed', T, Times', table = "messages")
    <3>1. (table = "messages") \in BOOLEAN
      OBVIOUS
    <3> QED BY <1>2, <1>3, <1>5, <1>9, <2>1, <2>2, <3>1, DisturbedTwice
  <2>5. CountedIn(walk, disturbed', T)
    BY <1>5, <2>1, DisturbedCount
  <2>6. always' \subseteq T /\ ("tied" \notin disturbed' => ~TiedIn(T, Times'))
    BY <2>1 DEF Disturbs
  <2>7. Walked'
    <3>1. walk'.pc = "reading" /\ T = Pages!Visible(walk.query)'
      BY <1>1, <1>9 DEF T
    <3> QED BY <1>1, <1>5, <1>6, <1>7, <1>9, <2>6, <3>1 DEF Walked
  <2> QED BY <1>1, <1>4, <2>3, <2>4, <2>5, <2>7 DEF ListInv, T
<1> QED BY <1>3, <1>8, <1>9 DEF Pages!Walk

\* The client moves and the table stands still.
LEMMA ClientMoved ==
    ASSUME Pages!TypeOK, UNCHANGED <<table, listed>>,
           walk' \in Pages!Walk, always' \subseteq Pages!Visible(walk'.query),
           disturbed' \subseteq {"left", "entered", "moved", "tied", "between", "late"},
           walk'.pc # "idle", walk'.page > 0, walk'.query.list \in Pages!Lists,
           walk'.query.list = "mine" => walk'.page = 1,
           walk'.pc = "done" => walk'.pending = {},
           "tied" \notin disturbed' => ~TiedIn(Pages!Visible(walk'.query), Times),
           \A r \in ShownBy(walk') : listed[r].state \in {"live", "deleted"},
           MissedIn(walk', always', disturbed', Pages!Visible(walk'.query), Times),
           TwiceIn(walk', disturbed', Pages!Visible(walk'.query), Times, table = "messages"),
           CountedIn(walk', disturbed', Pages!Visible(walk'.query))
    PROVE  Pages!TypeOK' /\ ListInv'
<1>1. Pages!Visible(walk.query)' = Pages!Visible(walk'.query) /\ Times' = Times
  BY SameList
<1>2. Pages!Lists' = Pages!Lists
  BY DEF Pages!Lists
<1>3. Pages!TypeOK'
  <2>1. always' \subseteq Pages!Row
    BY ListedRows
  <2> QED BY <2>1 DEF Pages!TypeOK
<1>4. Walked'
  BY <1>1, <1>2 DEF Walked
<1> QED BY <1>1, <1>3, <1>4 DEF ListInv

\* The invariant holds when the client opens a list, ...
LEMMA ListOpens ==
    ASSUME Pages!TypeOK, UNCHANGED table, NEW l \in Pages!Lists, NEW u \in User \cup {Nobody},
           NEW s \in NewStatus \cup {Nobody}, NEW k \in 0..MaxAt, Pages!Begin(l, u, s, k)
    PROVE  Pages!TypeOK' /\ ListInv'
<1> DEFINE q == [list |-> l, viewer |-> u, status |-> s, after |-> k]
           S == Pages!Visible(q)
<1>1. l \in Pages!ListName
  BY DEF Pages!TypeOK, Pages!Lists, Pages!ListName
<1>2. /\ walk' = [pc |-> "reading", query |-> q, page |-> 1, total |-> 0, shown |-> <<>>,
                  pending |-> {"count", "find"}, empty |-> FALSE]
      /\ always' = S /\ disturbed' = (IF Pages!Tied(S) THEN {"tied"} ELSE {})
      /\ UNCHANGED <<table, listed>>
  BY DEF Pages!Begin, Pages!Idle
<1>3. walk' \in Pages!Walk
  <2>1. <<>> \in Seq(Pages!Row) /\ 1 \in Nat /\ 0 \in Nat
    OBVIOUS
  <2> QED BY <1>1, <1>2, <2>1 DEF Pages!Walk
<1>4. S \in SUBSET Pages!Row /\ Times \in [Pages!Row -> Nat]
  <2>1. \A j \in 0..MaxAt : j \in Nat
    BY ServicesAssumption
  <2> QED BY <2>1, ListedRows DEF Pages!TypeOK, Times
<1>5. Pages!Tied(S) <=> TiedIn(S, Times)
  BY <1>4 DEF Pages!Tied, TiedIn, Times
<1>6. /\ walk'.pc = "reading" /\ walk'.page = 1 /\ walk'.shown = <<>> /\ walk'.query = q
      /\ walk'.pending = {"count", "find"} /\ walk'.query.list = l
  BY <1>2
<1>7. ShownBy(walk') = {}
  BY <1>6 DEF ShownBy
<1> HIDE DEF q, S
<1>8. /\ MissedIn(walk', S, disturbed', S, Times)
      /\ TwiceIn(walk', disturbed', S, Times, table = "messages")
      /\ CountedIn(walk', disturbed', S)
  BY <1>3, <1>4, <1>6, ListOpened
<1>9. /\ disturbed' \subseteq {"left", "entered", "moved", "tied", "between", "late"}
      /\ "tied" \notin disturbed' => ~TiedIn(S, Times)
  BY <1>2, <1>5
<1>10. Pages!Visible(walk'.query) = S /\ always' = S
  BY <1>2, <1>6 DEF S
<1>11. /\ walk'.pc # "idle" /\ walk'.page > 0 /\ walk'.query.list \in Pages!Lists
       /\ walk'.query.list = "mine" => walk'.page = 1
       /\ walk'.pc = "done" => walk'.pending = {}
       /\ \A r \in ShownBy(walk') : listed[r].state \in {"live", "deleted"}
  BY <1>6, <1>7
<1>12. /\ always' \subseteq Pages!Visible(walk'.query)
       /\ "tied" \notin disturbed' => ~TiedIn(Pages!Visible(walk'.query), Times)
       /\ MissedIn(walk', always', disturbed', Pages!Visible(walk'.query), Times)
       /\ TwiceIn(walk', disturbed', Pages!Visible(walk'.query), Times, table = "messages")
       /\ CountedIn(walk', disturbed', Pages!Visible(walk'.query))
  BY <1>8, <1>9, <1>10, Zenon
<1>13. UNCHANGED <<table, listed>>
  BY <1>2
<1> QED BY <1>3, <1>9, <1>11, <1>12, <1>13, ClientMoved, Zenon

\* ... and while it reads it.
LEMMA PageReads ==
    ASSUME Pages!TypeOK, ListInv, UNCHANGED table, Pages!Count \/ Pages!Find \/ Pages!NextPage
    PROVE  Pages!TypeOK' /\ ListInv'
<1> DEFINE S == Pages!Visible(walk.query)
<1>1. S \in SUBSET Pages!Row /\ walk \in Pages!Walk
  BY ListedRows DEF Pages!TypeOK
<1>2. /\ walk.pc = "reading" /\ UNCHANGED <<table, listed, always, disturbed>>
  BY DEF Pages!Count, Pages!Find, Pages!NextPage
<1>3. /\ walk.page > 0 /\ walk.query.list \in Pages!Lists
      /\ walk.query.list = "mine" => walk.page = 1
      /\ always \subseteq S
      /\ "tied" \notin disturbed => ~TiedIn(S, Times)
      /\ \A r \in ShownBy(walk) : listed[r].state \in {"live", "deleted"}
      /\ MissedIn(walk, always, disturbed, S, Times)
      /\ TwiceIn(walk, disturbed, S, Times, table = "messages")
      /\ CountedIn(walk, disturbed, S)
  BY <1>2 DEF ListInv, Walked
<1>4. \A r \in S : listed[r].state \in {"live", "deleted"}
  BY ListedAreLive DEF Pages!Live
<1>5. disturbed \subseteq {"left", "entered", "moved", "tied", "between", "late"}
  BY DEF Pages!TypeOK
\* What remains to be shown of the client after a step.
<1>6. ASSUME walk' \in Pages!Walk, walk'.query = walk.query, walk'.pc # "idle",
             walk'.page > 0, walk.query.list = "mine" => walk'.page = 1,
             walk'.pc = "done" => walk'.pending = {},
             ShownBy(walk') \subseteq ShownBy(walk) \cup S,
             MissedIn(walk', always, disturbed, S, Times),
             TwiceIn(walk', disturbed, S, Times, table = "messages"),
             CountedIn(walk', disturbed, S)
      PROVE  Pages!TypeOK' /\ ListInv'
  <2>1. Pages!Visible(walk'.query) = S
    BY <1>6
  <2>2. \A r \in ShownBy(walk') : listed[r].state \in {"live", "deleted"}
    BY <1>3, <1>4, <1>6
  <2> HIDE DEF S
  <2> QED BY <1>2, <1>3, <1>5, <1>6, <2>1, <2>2, ClientMoved
<1> HIDE DEF S
<1>7. CASE Pages!Count
  <2> DEFINE n == Pages!Told(walk.query, walk.page)
  <2>1. n \in Nat /\ (walk.query.list \notin {"mine", "messages"} => n = Cardinality(S))
    <3> DEFINE U == {r \in S : walk.query.list = "mine" =>
                                 listed[r].status \in {"PENDING", "ACCEPTED"}}
    <3>1. Pages!Total(walk.query) = Cardinality(U) /\ U \in SUBSET Pages!Row
      BY <1>1, RowsCountAlike DEF Pages!Total, S
    <3>2. walk.query.list # "mine" => U = S
      OBVIOUS
    <3>3. walk.page \in Nat /\ Cardinality(U) \in Nat
      BY <1>1, <3>1, RowsAreFinite DEF Pages!Walk
    <3> HIDE DEF U
    <3> QED BY <3>1, <3>2, <3>3 DEF Pages!Told
  <2>2. walk' = AfterCount(walk, n)
    BY <1>7 DEF Pages!Count, AfterCount
  <2> HIDE DEF n
  <2>3. /\ walk' \in Pages!Walk /\ ShownBy(walk') = ShownBy(walk)
        /\ MissedIn(walk', always, disturbed, S, Times)
        /\ TwiceIn(walk', disturbed, S, Times, table = "messages")
        /\ CountedIn(walk', disturbed, S)
    <3>1. walk.pc = "reading"
      BY <1>2
    <3> QED BY <1>1, <1>3, <2>1, <2>2, <3>1, TotalCounted, SMTT(60)
  <2>4. walk'.query = walk.query /\ walk'.pc = "reading" /\ walk'.page = walk.page
    BY <1>1, <1>2, <2>2 DEF Pages!Walk, AfterCount
  <2> QED BY <1>3, <1>6, <2>3, <2>4
<1>8. CASE Pages!Find
  <2>1. PICK f \in Pages!Orders(S, walk.query) :
           walk' = AfterFind(walk, Pages!PageOf(f, walk.query, walk.page))
    BY <1>8 DEF Pages!Find, AfterFind, S
  <2>2. "find" \in walk.pending
    BY <1>8 DEF Pages!Find
  <2>3. /\ walk' \in Pages!Walk /\ ShownBy(walk') \subseteq ShownBy(walk) \cup S
        /\ MissedIn(walk', always, disturbed, S, Times)
        /\ TwiceIn(walk', disturbed, S, Times, table = "messages")
        /\ CountedIn(walk', disturbed, S)
    <3>1. walk.pc = "reading"
      BY <1>2
    <3> QED BY <1>1, <1>3, <2>1, <2>2, <3>1, PageFound, SMTT(60)
  <2>4. walk'.query = walk.query /\ walk'.pc = "reading" /\ walk'.page = walk.page
    BY <1>1, <1>2, <2>1 DEF Pages!Walk, AfterFind
  <2> QED BY <1>3, <1>6, <2>3, <2>4
<1>9. CASE Pages!NextPage
  <2>1. /\ walk.pending = {}
        /\ \/ /\ walk.query.list # "mine"
              /\ walk' = [walk EXCEPT !.page = @ + 1, !.pending = {"count", "find"}]
           \/ /\ walk' = [walk EXCEPT !.pc = "done"]
              /\ \/ walk.query.list # "messages" /\ walk.page * Limit >= walk.total
                 \/ walk.query.list = "mine"
                 \/ walk.empty
    BY <1>9 DEF Pages!NextPage
  <2>2. /\ walk' \in Pages!Walk /\ ShownBy(walk') = ShownBy(walk)
        /\ MissedIn(walk', always, disturbed, S, Times)
        /\ TwiceIn(walk', disturbed, S, Times, table = "messages")
        /\ CountedIn(walk', disturbed, S)
    BY <1>1, <1>2, <1>3, <2>1, PageTurned
  <2>3. /\ walk'.query = walk.query /\ walk'.pc # "idle" /\ walk'.page > 0
        /\ walk.query.list = "mine" => walk'.page = walk.page
        /\ walk'.pc = "done" => walk'.pending = {}
    <3>1. walk.page \in Nat
      BY <1>1 DEF Pages!Walk
    <3>2. walk.pc = "reading" /\ walk.page > 0 /\ walk.pending = {}
      BY <1>2, <1>3, <2>1
    <3>3. CASE /\ walk.query.list # "mine"
               /\ walk' = [walk EXCEPT !.page = @ + 1, !.pending = {"count", "find"}]
      <4>1. walk'.query = walk.query /\ walk'.pc = walk.pc /\ walk'.page = walk.page + 1
        BY <1>1, <3>3 DEF Pages!Walk
      <4> QED BY <3>1, <3>2, <3>3, <4>1
    <3>4. CASE walk' = [walk EXCEPT !.pc = "done"]
      <4>1. /\ walk'.query = walk.query /\ walk'.pc = "done" /\ walk'.page = walk.page
            /\ walk'.pending = walk.pending
        BY <1>1, <3>4 DEF Pages!Walk
      <4> QED BY <3>2, <4>1
    <3> QED BY <2>1, <3>3, <3>4
  <2> QED BY <1>3, <1>6, <2>2, <2>3
<1> QED BY <1>7, <1>8, <1>9

\* A client who turns the pages sees every row, once, and as many as the total.
LEMMA ListsAlone == Pages!Spec => []Pages!TypeOK /\ []Pages!ListsAreSound
<1>1. Pages!Init => Pages!TypeOK /\ ListInv
  <2> SUFFICES ASSUME Pages!Init PROVE Pages!TypeOK /\ ListInv
    OBVIOUS
  <2>1. /\ walk = Pages!Idle /\ Pages!Idle \in Pages!Walk
        /\ Pages!Idle.pc = "idle" /\ Pages!Idle.shown = <<>>
    <3>1. <<>> \in Seq(Pages!Row) /\ 0 \in Nat /\ 0 \in 0..MaxAt
      BY ServicesAssumption
    <3> QED BY <3>1 DEF Pages!Init, Pages!Idle, Pages!NoQuery, Pages!Walk
  <2>2. Pages!TypeOK
    <3>1. 0 \in 0..MaxAt
      BY ServicesAssumption
    <3> QED BY <2>1, <3>1 DEF Pages!Init, Pages!TypeOK, Pages!NoRow, Pages!Label
  <2>3. Walked
    BY <2>1 DEF Walked, ShownBy
  <2> QED BY <2>1, <2>2, <2>3 DEF ListInv, MissedIn, TwiceIn, CountedIn
<1>2. Pages!TypeOK /\ ListInv /\ [Pages!Next]_Pages!vars => Pages!TypeOK' /\ ListInv'
  <2> SUFFICES ASSUME Pages!TypeOK, ListInv, [Pages!Next]_Pages!vars
               PROVE  Pages!TypeOK' /\ ListInv'
    OBVIOUS
  <2>1. CASE UNCHANGED Pages!vars
    <3>1. UNCHANGED <<table, listed, walk, always, disturbed>>
      BY <2>1 DEF Pages!vars
    <3>2. /\ Pages!Visible(walk.query)' = Pages!Visible(walk.query)
          /\ Times' = Times /\ Pages!Lists' = Pages!Lists
      BY <3>1, SameList DEF Pages!Lists
    <3> QED BY <3>1, <3>2 DEF Pages!TypeOK, ListInv, Walked
  <2>2. CASE UNCHANGED table /\ walk.pc # "done" /\ Pages!Change
    BY <2>2, ChangeChanges, TableChanged
  <2>3. ASSUME UNCHANGED table, NEW l \in Pages!Lists, NEW u \in User \cup {Nobody},
               NEW s \in NewStatus \cup {Nobody}, NEW k \in 0..MaxAt, Pages!Begin(l, u, s, k)
        PROVE  Pages!TypeOK' /\ ListInv'
    BY <2>3, ListOpens
  <2>4. CASE UNCHANGED table /\ (Pages!Count \/ Pages!Find \/ Pages!NextPage)
    BY <2>4, PageReads
  <2> QED BY <2>1, <2>2, <2>3, <2>4 DEF Pages!Next
<1>3. Pages!TypeOK /\ ListInv => Pages!ListsAreSound
  <2> SUFFICES ASSUME Pages!TypeOK, ListInv PROVE Pages!ListsAreSound
    OBVIOUS
  <2>1. ShownBy(walk) = Pages!Read
    BY DEF ShownBy, Pages!Read
  <2>2. Pages!NoneIsMissedAlone
    <3>1. table = "messages" /\ walk.pc = "done" => walk.query.list = "messages"
      BY DEF ListInv, Walked, Pages!Lists
    <3> QED BY <2>1, <3>1 DEF ListInv, MissedIn, Pages!NoneIsMissedAlone
  <2>3. Pages!NoneIsTwiceAlone
    BY DEF ListInv, Walked, TwiceIn, Pages!NoneIsTwiceAlone
  <2>4. Pages!TotalIsShownAlone
    BY DEF ListInv, CountedIn, Pages!TotalIsShownAlone
  <2> QED BY <2>2, <2>3, <2>4 DEF Pages!ListsAreSound
<1> QED BY <1>1, <1>2, <1>3, PTL DEF Pages!Spec

\* Whoever reads a list of appointments, requests or messages to its end while
\* others write has seen every row that stayed in it, none twice, and as many as
\* the total, each unless the history says what disturbed the list.
THEOREM ListsHold == ServicesSpec => []ListsAreSound
BY PartsBehave, ListsAlone, PTL DEF ListsAreSound

-----------------------------------------------------------------------------
\* Every component keeps its shape, whichever moves.
THEOREM ServicesTypeCorrect == ServicesSpec => []ServicesTypeOK
BY PartsBehave, ChatAlone, GatewayAlone, NoticesAlone, PayoutTypeCorrect, AppointmentsAlone,
   BequestsAlone, ListsAlone, PTL DEF ServicesTypeOK
=============================================================================
