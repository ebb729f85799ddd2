--------------------------- MODULE AccountProofs ----------------------------
(***************************************************************************)
(* Proofs about sessions, profiles and the first accounts, for any         *)
(* accounts, logins, updates, lists to seed, runs and administrators, and  *)
(* that everything an account is made of keeps its shape.                  *)
(***************************************************************************)
EXTENDS Account, VerificationProofs

\* An account is its components beside one another: each takes its own steps.
LEMMA PartsBehave == AccountSpec => Spec /\ Sessions!Spec /\ Profiles!Spec /\ Rosters!Spec
<1>1. AccountInit => Init /\ Sessions!Init /\ Profiles!Init /\ Rosters!Init
  BY DEF AccountInit
<1> USE DEF AccountNext, MoveCodes, MoveSessions, MoveProfiles, MoveRosters, parts
<1>2. [AccountNext]_parts => [Next]_vars
  OBVIOUS
<1>3. [AccountNext]_parts => [Sessions!Next]_Sessions!vars
  BY DEF sessions, Sessions!vars
<1>4. [AccountNext]_parts => [Profiles!Next]_Profiles!vars
  BY DEF profiles, Profiles!vars
<1>5. [AccountNext]_parts => [Rosters!Next]_Rosters!vars
  BY DEF rosters, Rosters!vars
<1> QED
  BY <1>1, <1>2, <1>3, <1>4, <1>5, PTL
  DEF AccountSpec, Spec, Sessions!Spec, Profiles!Spec, Rosters!Spec

-----------------------------------------------------------------------------
(* Sessions.                                                               *)

\* A login that has started has a user, an account an address and a change what it
\* read and proved; the shape alone allows them none.
SessionStarted ==
    /\ \A l \in Login : login[l].pc # "idle" =>
           login[l].user \in Holder /\ login[l].address \in Inbox
    /\ \A u \in Holder : account[u].state = "active" => account[u].email \in Inbox
    /\ \A x \in Change : change[x].pc \in {"asked", "proven"} => change[x].address \in Inbox

SessionRow == [state : {"none", "active", "removed"}, email : Inbox \cup {Nobody},
               password : Sessions!Password \cup {Nobody}, secret : BOOLEAN,
               twoFactor : BOOLEAN]

\* The columns of a row can be set, and keep their types.
LEMMA RowIsKept ==
    ASSUME NEW row \in SessionRow, NEW b \in BOOLEAN,
           NEW s \in {"none", "active", "removed"}, NEW a \in Inbox \cup {Nobody},
           NEW p \in Sessions!Password \cup {Nobody}
    PROVE  /\ [row EXCEPT !.state = s] \in SessionRow
           /\ [row EXCEPT !.state = s, !.email = a, !.password = p] \in SessionRow
           /\ [row EXCEPT !.email = a, !.password = p] \in SessionRow
           /\ [row EXCEPT !.password = p] \in SessionRow
           /\ [row EXCEPT !.secret = b] \in SessionRow
           /\ [row EXCEPT !.twoFactor = b] \in SessionRow
           /\ [row EXCEPT !.twoFactor = b, !.secret = b] \in SessionRow
  BY Zenon DEF SessionRow

\* What the columns hold after a write.
LEMMA RowReads ==
    ASSUME NEW row \in SessionRow, NEW a \in Inbox \cup {Nobody},
           NEW p \in Sessions!Password \cup {Nobody}
    PROVE  /\ [row EXCEPT !.email = a, !.password = p].state = row.state
           /\ [row EXCEPT !.email = a, !.password = p].email = a
           /\ [row EXCEPT !.email = a, !.password = p].password = p
           /\ [row EXCEPT !.email = a, !.password = p].twoFactor = row.twoFactor
           /\ [row EXCEPT !.password = p].state = row.state
           /\ [row EXCEPT !.password = p].email = row.email
           /\ [row EXCEPT !.password = p].password = p
           /\ [row EXCEPT !.password = p].twoFactor = row.twoFactor
  BY DEF SessionRow

\* An update of address and password: what it leaves, what it writes, and whom it puts
\* into the histories.
LEMMA RewriteSteps ==
    ASSUME Sessions!TypeOK, NEW u \in Holder, NEW a \in Inbox,
           NEW p \in Sessions!Password \cup {Nobody}, Sessions!Rewrite(u, a, p)
    PROVE  /\ account' \in [Holder -> SessionRow]
           /\ Sessions!Exists(u) /\ Sessions!MayHave(u, a)
           /\ account'[u].state = account[u].state
           /\ account'[u].email = a /\ account'[u].password = p
           /\ account'[u].twoFactor = account[u].twoFactor
           /\ \A w \in Holder \ {u} : account'[w] = account[w]
           /\ raced' = IF Sessions!Writing(a) # {} THEN raced \cup {u} ELSE raced
           /\ parted' = IF a # account[u].email THEN parted \cup Sessions!Comparing(u)
                        ELSE parted
           /\ UNCHANGED <<stored, login, refresh, logout, ended, stale, lost, switched,
                          mistaken>>
<1>1. account \in [Holder -> SessionRow]
  BY DEF Sessions!TypeOK, SessionRow
<1>2. account' = [account EXCEPT ![u] = [account[u] EXCEPT !.email = a, !.password = p]]
  BY Zenon DEF Sessions!Rewrite
<1>3. [account[u] EXCEPT !.email = a, !.password = p] \in SessionRow
  BY <1>1, RowIsKept
<1>4. account' \in [Holder -> SessionRow]
  BY <1>1, <1>2, <1>3
<1>5. account'[u] = [account[u] EXCEPT !.email = a, !.password = p]
  BY <1>1, <1>2
<1>6. /\ account'[u].state = account[u].state /\ account'[u].email = a
      /\ account'[u].password = p /\ account'[u].twoFactor = account[u].twoFactor
  BY <1>1, <1>5, RowReads
<1>7. \A w \in Holder \ {u} : account'[w] = account[w]
  BY <1>1, <1>2
<1>8. /\ Sessions!Exists(u) /\ Sessions!MayHave(u, a)
      /\ raced' = IF Sessions!Writing(a) # {} THEN raced \cup {u} ELSE raced
      /\ parted' = IF a # account[u].email THEN parted \cup Sessions!Comparing(u)
                   ELSE parted
      /\ UNCHANGED <<stored, login, refresh, logout, ended, stale, lost, switched, mistaken>>
  BY DEF Sessions!Rewrite
<1> QED BY <1>4, <1>6, <1>7, <1>8

\* Every update of address or password is one such write, and a change of a password
\* that is under way stays as it is.
LEMMA Rewrites ==
    ASSUME Sessions!TypeOK, SessionStarted,
           \/ \E x \in Change, u \in Holder, a \in Inbox : Sessions!AdminUpdate(x, u, a)
           \/ \E x \in Change, a \in Inbox : Sessions!ResetPassword(x, a)
           \/ \E u \in Holder, a \in Inbox, p \in Sessions!Password \cup {Nobody} :
                 Sessions!UpdateUser(u, a, p)
    PROVE  /\ \E u \in Holder, a \in Inbox, p \in Sessions!Password \cup {Nobody} :
                 Sessions!Rewrite(u, a, p)
           /\ \/ change' = change
              \/ \E x \in Change, a \in Inbox :
                    /\ change[x].pc = "idle"
                    /\ change' = [change EXCEPT ![x] = [pc |-> "done", address |-> a,
                                                       old |-> Nobody]]
<1>1. ASSUME NEW x \in Change, NEW u \in Holder, NEW a \in Inbox, Sessions!SetBy(x, u, a)
      PROVE  /\ Sessions!Rewrite(u, a, x) /\ x \in Sessions!Password
             /\ change[x].pc = "idle"
             /\ change' = [change EXCEPT ![x] = [pc |-> "done", address |-> a,
                                                old |-> Nobody]]
  BY <1>1 DEF Sessions!SetBy, Sessions!Password
<1>2. CASE \E x \in Change, u \in Holder, a \in Inbox : Sessions!AdminUpdate(x, u, a)
  BY <1>1, <1>2 DEF Sessions!AdminUpdate
<1>3. CASE \E x \in Change, a \in Inbox : Sessions!ResetPassword(x, a)
  BY <1>1, <1>3 DEF Sessions!ResetPassword, Sessions!Owner
<1>4. CASE \E u \in Holder, a \in Inbox, p \in Sessions!Password \cup {Nobody} :
             Sessions!UpdateUser(u, a, p)
  BY <1>4 DEF Sessions!UpdateUser
<1> QED BY <1>2, <1>3, <1>4

Updates ==
    \/ \E x \in Change, u \in Holder, a \in Inbox : Sessions!AdminUpdate(x, u, a)
    \/ \E x \in Change, a \in Inbox : Sessions!ResetPassword(x, a)
    \/ \E u \in Holder, a \in Inbox, p \in Sessions!Password \cup {Nobody} :
          Sessions!UpdateUser(u, a, p)

\* The state keeps its shape and who has started has a user.
LEMMA SessionTyped == Sessions!Spec => [](Sessions!TypeOK /\ SessionStarted)
<1>1. Sessions!Init => Sessions!TypeOK /\ SessionStarted
  BY DEF Sessions!Init, Sessions!TypeOK, SessionStarted, Sessions!NoAccount,
     Sessions!IdleLogin, Sessions!IdleRefresh, Sessions!IdleChange
<1>2. Sessions!TypeOK /\ SessionStarted /\ [Sessions!Next]_Sessions!vars
          => Sessions!TypeOK' /\ SessionStarted'
  <2> SUFFICES ASSUME Sessions!TypeOK, SessionStarted, [Sessions!Next]_Sessions!vars
      PROVE  Sessions!TypeOK' /\ SessionStarted'
    OBVIOUS
  <2> USE DEF Sessions!TypeOK, SessionStarted, Sessions!Password
  <2>1. ASSUME NEW l \in Login, NEW u \in Holder, NEW p \in Sessions!Password,
               Sessions!FindUser(l, u, p)
        PROVE  Sessions!TypeOK' /\ SessionStarted'
    BY <2>1 DEF Sessions!FindUser, Sessions!Exists
  <2>2. ASSUME NEW l \in Login, Sessions!CheckPassword(l)
        PROVE  Sessions!TypeOK' /\ SessionStarted'
    BY <2>2 DEF Sessions!CheckPassword
  <2>3. ASSUME NEW l \in Login, Sessions!SignTokens(l) PROVE Sessions!TypeOK' /\ SessionStarted'
    <3>1. CASE Sessions!Exists(login[l].user)
      <4>1. login' = [login EXCEPT ![l].pc = "signed"]
        BY <2>3, <3>1 DEF Sessions!SignTokens
      <4> QED BY <2>3, <4>1 DEF Sessions!SignTokens
    <3>2. CASE ~Sessions!Exists(login[l].user)
      <4>1. login' = [login EXCEPT ![l].pc = "refused"]
        BY <2>3, <3>2 DEF Sessions!SignTokens
      <4> QED BY <2>3, <4>1 DEF Sessions!SignTokens
    <3> QED BY <3>1, <3>2
  <2>4. ASSUME NEW l \in Login, Sessions!StoreToken(l) PROVE Sessions!TypeOK' /\ SessionStarted'
    BY <2>4 DEF Sessions!StoreToken, Sessions!Store
  <2>5. ASSUME NEW r \in Refresh, NEW u \in Holder, NEW t \in Login, Sessions!GetStored(r, u, t)
        PROVE  Sessions!TypeOK' /\ SessionStarted'
    BY <2>5 DEF Sessions!GetStored
  <2>6. ASSUME NEW r \in Refresh, Sessions!SignAccess(r) \/ Sessions!FinishRefresh(r)
        PROVE  Sessions!TypeOK' /\ SessionStarted'
    <3>1. CASE Sessions!SignAccess(r)
      BY <3>1 DEF Sessions!SignAccess
    <3>2. CASE Sessions!FinishRefresh(r)
      BY <3>2 DEF Sessions!FinishRefresh, Sessions!IdleRefresh
    <3> QED BY <2>6, <3>1, <3>2
  <2>7. ASSUME NEW o \in Logout, Sessions!Revoke(o) PROVE Sessions!TypeOK' /\ SessionStarted'
    BY <2>7 DEF Sessions!Revoke, Sessions!Store
  <2>8. ASSUME NEW o \in Logout, NEW u \in Holder, Sessions!StartLogout(o, u)
        PROVE  Sessions!TypeOK' /\ SessionStarted'
    BY <2>8 DEF Sessions!StartLogout
  <2>9. ASSUME NEW x \in Change, NEW u \in Holder, Sessions!ReadAddress(x, u)
        PROVE  Sessions!TypeOK' /\ SessionStarted'
    BY <2>9 DEF Sessions!ReadAddress, Sessions!Exists, Sessions!signing
  <2>10. ASSUME NEW x \in Change, NEW p \in Sessions!Password, Sessions!ProveOld(x, p)
         PROVE  Sessions!TypeOK' /\ SessionStarted'
    <3>1. change[x].address \in Inbox
      BY <2>10 DEF Sessions!ProveOld
    <3>2. raced' \subseteq Holder
      BY <2>10 DEF Sessions!ProveOld, Sessions!Owner
    <3> QED BY <2>10, <3>1, <3>2 DEF Sessions!ProveOld, Sessions!signing
  <2>11. ASSUME NEW x \in Change, Sessions!WriteNew(x)
         PROVE  Sessions!TypeOK' /\ SessionStarted'
    <3>1. account \in [Holder -> SessionRow]
      BY DEF SessionRow
    <3>2. x \in Sessions!Password
      OBVIOUS
    <3>3. \A u \in Holder : /\ account'[u] \in SessionRow
                            /\ account'[u].state = account[u].state
                            /\ account'[u].email = account[u].email
      <4> SUFFICES ASSUME NEW u \in Holder
                   PROVE  /\ account'[u] \in SessionRow
                          /\ account'[u].state = account[u].state
                          /\ account'[u].email = account[u].email
        OBVIOUS
      <4>1. \/ account'[u] = account[u]
            \/ account'[u] = [account[u] EXCEPT !.password = x]
        BY <2>11 DEF Sessions!WriteNew
      <4>2. account[u] \in SessionRow
        BY <3>1
      <4>3. CASE account'[u] = account[u]
        BY <4>2, <4>3
      <4>4. CASE account'[u] = [account[u] EXCEPT !.password = x]
        <5>1. [account[u] EXCEPT !.password = x] \in SessionRow
          BY <3>2, <4>2, RowIsKept
        <5>2. account'[u].state = account[u].state /\ account'[u].email = account[u].email
          BY <3>2, <4>2, <4>4, RowReads
        <5> QED BY <4>4, <5>1, <5>2
      <4> QED BY <4>1, <4>3, <4>4
    <3>4. account' \in [Holder -> SessionRow]
      BY <2>11, <3>3 DEF Sessions!WriteNew
    <3>5. lost' \subseteq Holder
      BY <2>11 DEF Sessions!WriteNew, Sessions!Owner
    <3>6. /\ change' \in [Change -> [pc : {"idle", "asked", "proven", "done"},
                                    address : Inbox \cup {Nobody},
                                    old : Sessions!Password \cup {Nobody}]]
          /\ \A y \in Change : change'[y].pc \in {"asked", "proven"} =>
                                  change'[y].address \in Inbox
          /\ UNCHANGED <<stored, refresh, logout, stale, raced, login, ended, switched,
                         parted, mistaken>>
      BY <2>11 DEF Sessions!WriteNew, Sessions!signing
    <3>7. Sessions!TypeOK'
      BY <3>4, <3>5, <3>6 DEF SessionRow
    <3> QED BY <3>3, <3>6, <3>7
  <2>16. ASSUME Updates PROVE Sessions!TypeOK' /\ SessionStarted'
    <3>1. PICK u \in Holder, a \in Inbox, p \in Sessions!Password \cup {Nobody} :
            Sessions!Rewrite(u, a, p)
      BY <2>16, Rewrites DEF Updates
    <3>2. /\ account' \in [Holder -> SessionRow]
          /\ account'[u].email = a /\ \A w \in Holder \ {u} : account'[w] = account[w]
          /\ raced' = IF Sessions!Writing(a) # {} THEN raced \cup {u} ELSE raced
          /\ parted' = IF a # account[u].email THEN parted \cup Sessions!Comparing(u)
                       ELSE parted
          /\ UNCHANGED <<stored, login, refresh, logout, ended, stale, lost, switched,
                         mistaken>>
      BY <3>1, RewriteSteps
    <3>3. raced' \subseteq Holder /\ parted' \subseteq Login
      BY <3>2 DEF Sessions!Comparing
    <3>4. /\ change' \in [Change -> [pc : {"idle", "asked", "proven", "done"},
                                    address : Inbox \cup {Nobody},
                                    old : Sessions!Password \cup {Nobody}]]
          /\ \A y \in Change : change'[y].pc \in {"asked", "proven"} =>
                                  change'[y].address \in Inbox
      <4>1. \/ change' = change
            \/ \E x \in Change, d \in Inbox :
                  change' = [change EXCEPT ![x] = [pc |-> "done", address |-> d,
                                                   old |-> Nobody]]
        BY <2>16, Rewrites DEF Updates
      <4> QED BY <4>1
    <3>5. Sessions!TypeOK'
      BY <3>2, <3>3, <3>4 DEF SessionRow
    <3>6. \A w \in Holder : account'[w].state = "active" => account'[w].email \in Inbox
      BY <3>2
    <3> QED BY <3>2, <3>4, <3>5, <3>6
  <2>17. ASSUME NEW u \in Holder, NEW a \in Inbox, Sessions!AddUser(u, a)
         PROVE  Sessions!TypeOK' /\ SessionStarted'
    <3>1. Sessions!NoAccount \in SessionRow
      BY DEF Sessions!NoAccount, SessionRow
    <3>2. [Sessions!NoAccount EXCEPT !.state = "active", !.email = a, !.password = u]
            \in SessionRow
      BY <3>1, RowIsKept
    <3>3. account \in [Holder -> SessionRow]
      BY DEF SessionRow
    <3>4. account' \in [Holder -> SessionRow]
      BY <2>17, <3>2, <3>3 DEF Sessions!AddUser
    <3>5. account'[u].email = a /\ \A w \in Holder \ {u} : account'[w] = account[w]
      BY <2>17, <3>3 DEF Sessions!AddUser, Sessions!NoAccount
    <3>6. raced' \subseteq Holder
      BY <2>17 DEF Sessions!AddUser
    <3>7. UNCHANGED <<stored, refresh, logout, change, stale, lost, login, ended, switched,
                      parted, mistaken>>
      BY <2>17 DEF Sessions!AddUser, Sessions!signing
    <3>8. Sessions!TypeOK'
      BY <3>4, <3>6, <3>7 DEF SessionRow
    <3>9. \A w \in Holder : account'[w].state = "active" => account'[w].email \in Inbox
      BY <3>5
    <3> QED BY <3>7, <3>8, <3>9
  <2>12. ASSUME NEW u \in Holder, Sessions!ExpireToken(u)
         PROVE  Sessions!TypeOK' /\ SessionStarted'
    BY <2>12 DEF Sessions!ExpireToken, Sessions!Store
  <2>13. ASSUME NEW u \in Holder,
                \/ Sessions!RemoveUser(u) \/ Sessions!GenerateSecret(u)
                \/ Sessions!DisableTwoFactor(u)
         PROVE  Sessions!TypeOK' /\ SessionStarted'
    <3>1. account \in [Holder -> SessionRow] /\ account[u] \in SessionRow
      BY DEF SessionRow
    <3>2. CASE Sessions!RemoveUser(u)
      <4>1. account' = [account EXCEPT ![u] = [account[u] EXCEPT !.state = "removed"]]
        BY <3>2, Zenon DEF Sessions!RemoveUser
      <4>2. account' \in [Holder -> SessionRow]
        BY <3>1, <4>1, RowIsKept
      <4>3. parted' \subseteq Login
        BY <3>2 DEF Sessions!RemoveUser, Sessions!Comparing
      <4>4. \A w \in Holder : account'[w].state = "active" => account'[w] = account[w]
        BY <3>1, <4>1
      <4> QED BY <3>2, <4>2, <4>3, <4>4 DEF Sessions!RemoveUser, SessionRow
    <3>3. CASE Sessions!GenerateSecret(u)
      <4>1. account' = [account EXCEPT ![u] = [account[u] EXCEPT !.secret = TRUE]]
        BY <3>3, Zenon DEF Sessions!GenerateSecret
      <4>2. account' \in [Holder -> SessionRow]
        BY <3>1, <4>1, RowIsKept
      <4> QED BY <3>3, <4>2 DEF Sessions!GenerateSecret, SessionRow
    <3>4. CASE Sessions!DisableTwoFactor(u)
      <4>1. account' = [account EXCEPT ![u] =
                          [account[u] EXCEPT !.twoFactor = FALSE, !.secret = FALSE]]
        BY <3>4, Zenon DEF Sessions!DisableTwoFactor
      <4>2. account' \in [Holder -> SessionRow]
        BY <3>1, <4>1, RowIsKept
      <4> QED BY <3>4, <4>2 DEF Sessions!DisableTwoFactor, SessionRow
    <3> QED BY <2>13, <3>2, <3>3, <3>4
  <2>14. ASSUME NEW u \in Holder, Sessions!EnableTwoFactor(u)
         PROVE  Sessions!TypeOK' /\ SessionStarted'
    <3>1. account \in [Holder -> SessionRow] /\ account[u] \in SessionRow
      BY DEF SessionRow
    <3>2. account' = [account EXCEPT ![u] = [account[u] EXCEPT !.twoFactor = TRUE]]
      BY <2>14, Zenon DEF Sessions!EnableTwoFactor
    <3>3. account' \in [Holder -> SessionRow]
      BY <3>1, <3>2, RowIsKept
    <3>4. switched' \subseteq Login
      BY <2>14 DEF Sessions!EnableTwoFactor, Sessions!InFlight
    <3> QED BY <2>14, <3>3, <3>4 DEF Sessions!EnableTwoFactor, SessionRow
  <2>15. CASE UNCHANGED Sessions!vars
    BY <2>15 DEF Sessions!vars
  <2> QED BY <2>1, <2>2, <2>3, <2>4, <2>5, <2>6, <2>7, <2>8, <2>9, <2>10, <2>11, <2>12,
             <2>13, <2>14, <2>15, <2>16, <2>17 DEF Sessions!Next, Updates
<1> QED BY <1>1, <1>2, PTL DEF Sessions!Spec

\* The state keeps its shape, through all logins, changes and removals.
LEMMA SessionTypeCorrect == Sessions!Spec => []Sessions!TypeOK
  BY SessionTyped, PTL

-----------------------------------------------------------------------------
(* Tokens.                                                                 *)

\* A token has ended only after its login was answered, and Nobody is none.
EndedWasAnswered ==
    /\ \A t \in ended : login[t].pc = "answered"
    /\ Nobody \notin ended

\* A request whose token had ended when it came is refused and stays so.
StaleIsRefused == \A r \in stale : refresh[r].pc = "refused"

TokenInv == Sessions!StoredIsLive /\ EndedWasAnswered /\ StaleIsRefused

\* What Redis puts in the place of a user's token keeps the two sides apart:
\* the token that goes was answered and is nobody else's.
LEMMA StoreKeeps ==
    ASSUME Sessions!TypeOK, Sessions!StoredIsLive, EndedWasAnswered, NEW u \in Holder,
           NEW t \in Login \cup {Nobody}, Sessions!Store(u, t),
           t # Nobody => /\ login'[t].user = u /\ login'[t].pc = "answered"
                         /\ t \notin ended,
           \A l \in Login \ {t} : login'[l] = login[l],
           \A l \in Login : login[l].pc = "answered" => login'[l] = login[l]
    PROVE  Sessions!StoredIsLive' /\ EndedWasAnswered'
<1>1. /\ stored' = [stored EXCEPT ![u] = t]
      /\ ended' = ended \cup ({stored[u]} \ {t, Nobody})
  BY DEF Sessions!Store
<1>2. EndedWasAnswered'
  BY <1>1 DEF EndedWasAnswered, Sessions!StoredIsLive, Sessions!TypeOK
<1>3. ASSUME NEW w \in Holder, stored'[w] # Nobody
      PROVE  /\ login'[stored'[w]].user = w /\ login'[stored'[w]].pc = "answered"
             /\ stored'[w] \notin ended'
  <2>1. CASE w = u
    BY <1>1, <1>3, <2>1 DEF Sessions!TypeOK
  <2>2. CASE w # u
    <3>1. stored'[w] = stored[w] /\ stored[w] \in Login
      BY <1>1, <1>3, <2>2 DEF Sessions!TypeOK
    <3>2. /\ login[stored[w]].user = w /\ login[stored[w]].pc = "answered"
          /\ stored[w] \notin ended
      BY <1>3, <3>1 DEF Sessions!StoredIsLive
    <3>3. stored[w] # stored[u]
      BY <1>3, <2>2, <3>1, <3>2 DEF Sessions!StoredIsLive
    <3> QED BY <1>1, <3>1, <3>2, <3>3
  <2> QED BY <2>1, <2>2
<1> QED BY <1>2, <1>3 DEF Sessions!StoredIsLive

\* Tokens that Redis holds are live, and what has ended opens nothing, while
\* logins, refreshes, logouts and the expiry interleave.
LEMMA TokensAreKept == Sessions!Spec => []TokenInv
<1>1. Sessions!Init => TokenInv
  BY DEF Sessions!Init, TokenInv, Sessions!StoredIsLive, EndedWasAnswered, StaleIsRefused
<1>2. Sessions!TypeOK /\ SessionStarted /\ TokenInv /\ [Sessions!Next]_Sessions!vars
          => TokenInv'
  <2> SUFFICES ASSUME Sessions!TypeOK, SessionStarted, TokenInv, [Sessions!Next]_Sessions!vars
      PROVE  TokenInv'
    OBVIOUS
  <2> USE DEF TokenInv
  <2>1. ASSUME NEW l \in Login, NEW u \in Holder, NEW p \in Sessions!Password,
               Sessions!FindUser(l, u, p)
        PROVE  TokenInv'
    BY <2>1 DEF Sessions!FindUser, Sessions!TypeOK, Sessions!StoredIsLive, EndedWasAnswered,
       StaleIsRefused
  <2>2. ASSUME NEW l \in Login, Sessions!CheckPassword(l) PROVE TokenInv'
    BY <2>2 DEF Sessions!CheckPassword, Sessions!TypeOK, Sessions!StoredIsLive,
       EndedWasAnswered, StaleIsRefused
  <2>3. ASSUME NEW l \in Login, Sessions!SignTokens(l) PROVE TokenInv'
    BY <2>3 DEF Sessions!SignTokens, Sessions!TypeOK, Sessions!StoredIsLive, EndedWasAnswered,
       StaleIsRefused
  <2>4. ASSUME NEW l \in Login, Sessions!StoreToken(l) PROVE TokenInv'
    <3>1. /\ login[l].pc = "signed" /\ login[l].user \in Holder
          /\ login' = [login EXCEPT ![l].pc = "answered"]
          /\ Sessions!Store(login[l].user, l) /\ UNCHANGED <<refresh, stale>>
      BY <2>4 DEF Sessions!StoreToken, SessionStarted
    <3>2. /\ login'[l].user = login[l].user /\ login'[l].pc = "answered"
          /\ \A k \in Login \ {l} : login'[k] = login[k]
      BY <3>1 DEF Sessions!TypeOK
    <3>3. l \notin ended
      BY <3>1 DEF EndedWasAnswered
    <3>4. Sessions!StoredIsLive' /\ EndedWasAnswered'
      BY <3>1, <3>2, <3>3, StoreKeeps
    <3> QED BY <3>1, <3>4 DEF StaleIsRefused
  <2>5. ASSUME NEW r \in Refresh, NEW u \in Holder, NEW t \in Login, Sessions!GetStored(r, u, t)
        PROVE  TokenInv'
    <3>1. t \in ended => stored[u] # t
      BY DEF Sessions!StoredIsLive, EndedWasAnswered
    <3>2. r \notin stale
      BY <2>5 DEF Sessions!GetStored, StaleIsRefused
    <3>3. StaleIsRefused'
      BY <2>5, <3>1, <3>2 DEF Sessions!GetStored, Sessions!MatchesStored, StaleIsRefused,
         Sessions!TypeOK
    <3> QED BY <2>5, <3>3 DEF Sessions!GetStored, Sessions!StoredIsLive, EndedWasAnswered
  <2>6. ASSUME NEW r \in Refresh, Sessions!SignAccess(r) PROVE TokenInv'
    BY <2>6 DEF Sessions!SignAccess, Sessions!TypeOK, Sessions!StoredIsLive, EndedWasAnswered,
       StaleIsRefused
  <2>7. ASSUME NEW r \in Refresh, Sessions!FinishRefresh(r) PROVE TokenInv'
    BY <2>7 DEF Sessions!FinishRefresh, Sessions!TypeOK, Sessions!StoredIsLive,
       EndedWasAnswered, StaleIsRefused
  <2>8. ASSUME NEW o \in Logout, Sessions!Revoke(o) PROVE TokenInv'
    <3>1. /\ logout[o] \in Holder /\ Sessions!Store(logout[o], Nobody)
          /\ UNCHANGED <<login, refresh, stale>>
      BY <2>8 DEF Sessions!Revoke, Sessions!TypeOK
    <3>2. Sessions!StoredIsLive' /\ EndedWasAnswered'
      BY <3>1, StoreKeeps
    <3> QED BY <3>1, <3>2 DEF StaleIsRefused
  <2>9. ASSUME NEW u \in Holder, Sessions!ExpireToken(u) PROVE TokenInv'
    <3>1. Sessions!Store(u, Nobody) /\ UNCHANGED <<login, refresh, stale>>
      BY <2>9 DEF Sessions!ExpireToken
    <3>2. Sessions!StoredIsLive' /\ EndedWasAnswered'
      BY <3>1, StoreKeeps
    <3> QED BY <3>1, <3>2 DEF StaleIsRefused
  <2>10. CASE UNCHANGED <<stored, login, refresh, ended, stale>>
    BY <2>10 DEF Sessions!StoredIsLive, EndedWasAnswered, StaleIsRefused
  <2>11. ASSUME NEW o \in Logout, NEW u \in Holder, Sessions!StartLogout(o, u)
         PROVE  UNCHANGED <<stored, login, refresh, ended, stale>>
    BY <2>11 DEF Sessions!StartLogout
  <2>12. ASSUME NEW x \in Change,
                \/ Sessions!WriteNew(x)
                \/ \E u \in Holder : Sessions!ReadAddress(x, u)
                \/ \E p \in Sessions!Password : Sessions!ProveOld(x, p)
         PROVE  UNCHANGED <<stored, login, refresh, ended, stale>>
    BY <2>12 DEF Sessions!WriteNew, Sessions!ReadAddress, Sessions!ProveOld, Sessions!signing
  <2>15. ASSUME Updates PROVE UNCHANGED <<stored, login, refresh, ended, stale>>
    BY <2>15, Rewrites DEF Updates, Sessions!Rewrite
  <2>16. ASSUME NEW u \in Holder, NEW a \in Inbox, Sessions!AddUser(u, a)
         PROVE  UNCHANGED <<stored, login, refresh, ended, stale>>
    BY <2>16 DEF Sessions!AddUser, Sessions!signing
  <2>13. ASSUME NEW u \in Holder,
                Sessions!RemoveUser(u) \/ Sessions!GenerateSecret(u)
                  \/ Sessions!EnableTwoFactor(u)
                \/ Sessions!DisableTwoFactor(u)
         PROVE  UNCHANGED <<stored, login, refresh, ended, stale>>
    BY <2>13 DEF Sessions!RemoveUser, Sessions!GenerateSecret, Sessions!EnableTwoFactor,
       Sessions!DisableTwoFactor
  <2>14. CASE UNCHANGED Sessions!vars
    BY <2>10, <2>14 DEF Sessions!vars
  <2> QED BY <2>1, <2>2, <2>3, <2>4, <2>5, <2>6, <2>7, <2>8, <2>9, <2>10, <2>11, <2>12,
             <2>13, <2>14, <2>15, <2>16 DEF Sessions!Next, Updates
<1> QED BY <1>1, <1>2, SessionTyped, PTL DEF Sessions!Spec

-----------------------------------------------------------------------------
(* Passwords.                                                              *)

\* A change of a password that is between compare and write at the address of u.
UnderWay(x, u) == change[x].pc = "proven" /\ change[x].address = account[u].email

\* No two accounts have an address together; and where nothing else was written between
\* compare and write, one change at most is under way at the address of an account,
\* and the password is still the one it was proven by.
OneWriting ==
    /\ \A u, w \in Holder : Sessions!Exists(u) /\ Sessions!Exists(w)
                               /\ account[u].email = account[w].email => u = w
    /\ \A u \in Holder \ raced : Sessions!Exists(u) =>
         \A x, y \in Change :
            UnderWay(x, u) /\ UnderWay(y, u) => x = y /\ account[u].password = change[x].old

PasswordInv == Sessions!ProvenIsReplacedAlone /\ OneWriting

\* A write to one account keeps this, if it notes an account that comes to an address, or
\* whose password is written, while a change is under way there.
LEMMA WriteKeepsOne ==
    ASSUME Sessions!TypeOK, PasswordInv, NEW u \in Holder,
           lost' = lost, raced \subseteq raced',
           \A w \in Holder \ {u} : account'[w] = account[w],
           \A w \in Holder \ {u} : Sessions!Exists(w) =>
               account[w].email # account'[u].email,
           Sessions!Writing(account'[u].email) # {} => u \in raced',
           \A x \in Change : \/ change'[x] = change[x]
                            \/ (change[x].pc # "proven" /\ change'[x].pc # "proven")
    PROVE  PasswordInv'
<1>1. Sessions!ProvenIsReplacedAlone'
  BY DEF PasswordInv, Sessions!ProvenIsReplacedAlone
<1>2. \A w, v \in Holder : Sessions!Exists(w)' /\ Sessions!Exists(v)'
                             /\ account'[w].email = account'[v].email => w = v
  BY DEF PasswordInv, OneWriting, Sessions!Exists
<1>3. ASSUME NEW w \in Holder \ raced', Sessions!Exists(w)',
             NEW x \in Change, NEW y \in Change, UnderWay(x, w)', UnderWay(y, w)'
      PROVE  x = y /\ account'[w].password = change'[x].old
  <2>1. change'[x] = change[x] /\ change'[y] = change[y]
    BY <1>3 DEF UnderWay
  <2>2. w # u
    BY <1>3, <2>1 DEF UnderWay, Sessions!Writing
  <2>3. w \in Holder \ raced /\ account'[w] = account[w] /\ Sessions!Exists(w)
    BY <1>3, <2>2 DEF Sessions!Exists
  <2>4. UnderWay(x, w) /\ UnderWay(y, w)
    BY <1>3, <2>1, <2>3 DEF UnderWay
  <2> QED BY <2>1, <2>3, <2>4 DEF PasswordInv, OneWriting
<1> QED BY <1>1, <1>2, <1>3 DEF PasswordInv, OneWriting

\* Nobody's password is lost to a change unless another write came between.
LEMMA PasswordsAreKept == Sessions!Spec => []PasswordInv
<1>1. Sessions!Init => PasswordInv
  BY DEF Sessions!Init, PasswordInv, Sessions!ProvenIsReplacedAlone, OneWriting,
     Sessions!Exists, Sessions!NoAccount
<1>2. Sessions!TypeOK /\ SessionStarted /\ PasswordInv /\ [Sessions!Next]_Sessions!vars
          => PasswordInv'
  <2> SUFFICES ASSUME Sessions!TypeOK, SessionStarted, PasswordInv,
                      [Sessions!Next]_Sessions!vars
      PROVE  PasswordInv'
    OBVIOUS
  <2>1. ASSUME NEW x \in Change, NEW p \in Sessions!Password, Sessions!ProveOld(x, p)
        PROVE  PasswordInv'
    <3> DEFINE a == change[x].address
    <3>1. /\ change' = [change EXCEPT ![x] =
               [pc |-> IF Sessions!Proves(a, p) THEN "proven" ELSE "done",
                address |-> a, old |-> p]]
          /\ change[x].pc = "asked"
          /\ raced' = IF Sessions!Proves(a, p) /\ Sessions!Writing(a) # {}
                      THEN raced \cup Sessions!Owner(a) ELSE raced
          /\ UNCHANGED <<account, lost>>
      BY <2>1 DEF Sessions!ProveOld, Sessions!Compares
    <3>2. \A y \in Change \ {x} : change'[y] = change[y]
      BY <3>1 DEF Sessions!TypeOK
    <3>3. /\ change'[x].pc = (IF Sessions!Proves(a, p) THEN "proven" ELSE "done")
          /\ change'[x].address = a /\ change'[x].old = p
      BY <3>1 DEF Sessions!TypeOK
    <3>4. Sessions!ProvenIsReplacedAlone'
      BY <3>1 DEF PasswordInv, Sessions!ProvenIsReplacedAlone
    <3>5. ASSUME NEW w \in Holder \ raced', Sessions!Exists(w), Sessions!Proves(a, p),
                 account[w].email = a
          PROVE  /\ account[w].password = p
                 /\ \A y \in Change : ~UnderWay(y, w)
      <4>1. account[w].password = p
        BY <3>5 DEF Sessions!Proves, Sessions!Owner, PasswordInv, OneWriting
      <4>2. w \in Sessions!Owner(a)
        BY <3>5 DEF Sessions!Owner
      <4>3. Sessions!Writing(a) = {}
        BY <3>1, <3>5, <4>2
      <4> QED BY <3>5, <4>1, <4>3 DEF Sessions!Writing, UnderWay
    <3>6. ASSUME NEW w \in Holder \ raced', Sessions!Exists(w),
                 NEW y \in Change, NEW z \in Change, UnderWay(y, w)', UnderWay(z, w)'
          PROVE  y = z /\ account[w].password = change'[y].old
      <4>1. w \in Holder \ raced
        BY <3>1, <3>6
      <4>2. CASE account[w].email = a /\ Sessions!Proves(a, p)
        <5>1. \A v \in Change \ {x} : ~UnderWay(v, w)'
          BY <3>1, <3>2, <3>5, <3>6, <4>2 DEF UnderWay
        <5>2. y = x /\ z = x
          BY <3>6, <5>1
        <5> QED BY <3>3, <3>5, <3>6, <4>2, <5>2
      <4>3. CASE ~(account[w].email = a /\ Sessions!Proves(a, p))
        <5>1. y # x /\ z # x
          BY <3>1, <3>3, <3>6, <4>3 DEF UnderWay
        <5>2. UnderWay(y, w) /\ UnderWay(z, w) /\ change'[y] = change[y]
          BY <3>1, <3>2, <3>6, <5>1 DEF UnderWay
        <5> QED BY <3>6, <4>1, <5>2 DEF PasswordInv, OneWriting
      <4> QED BY <4>2, <4>3
    <3> QED BY <3>1, <3>4, <3>6 DEF PasswordInv, OneWriting, Sessions!Exists, UnderWay
  <2>2. ASSUME NEW x \in Change, Sessions!WriteNew(x) PROVE PasswordInv'
    <3> DEFINE a == change[x].address
    <3>1. /\ change[x].pc = "proven"
          /\ change' = [change EXCEPT ![x].pc = "done"]
          /\ lost' = lost \cup {u \in Sessions!Owner(a) : account[u].password # change[x].old}
          /\ raced' = raced
      BY <2>2 DEF Sessions!WriteNew
    <3>2. lost' \subseteq raced'
      BY <3>1 DEF PasswordInv, Sessions!ProvenIsReplacedAlone, OneWriting, Sessions!Owner,
         UnderWay
    <3>3. change'[x].pc = "done" /\ \A y \in Change \ {x} : change'[y] = change[y]
      BY <3>1 DEF Sessions!TypeOK
    <3>4. account \in [Holder -> SessionRow] /\ x \in Sessions!Password
      BY DEF Sessions!TypeOK, SessionRow, Sessions!Password
    <3>5. ASSUME NEW u \in Holder
          PROVE  /\ account'[u].state = account[u].state
                 /\ account'[u].email = account[u].email
                 /\ u \notin Sessions!Owner(a) => account'[u] = account[u]
      <4>1. CASE u \in Sessions!Owner(a)
        <5>1. account'[u] = [account[u] EXCEPT !.password = x]
          BY <2>2, <4>1 DEF Sessions!WriteNew
        <5> QED BY <3>4, <4>1, <5>1, RowReads
      <4>2. CASE u \notin Sessions!Owner(a)
        BY <2>2, <4>2 DEF Sessions!WriteNew
      <4> QED BY <4>1, <4>2
    <3>6. ASSUME NEW w \in Holder \ raced, Sessions!Exists(w),
                 NEW y \in Change, NEW z \in Change, UnderWay(y, w)', UnderWay(z, w)'
          PROVE  y = z /\ account'[w].password = change'[y].old
      <4>1. y # x /\ z # x
        BY <3>3, <3>6 DEF UnderWay
      <4>2. UnderWay(y, w) /\ UnderWay(z, w)
        BY <3>3, <3>5, <3>6, <4>1 DEF UnderWay
      <4>3. account[w].email # a
        BY <3>1, <3>6, <4>1, <4>2 DEF PasswordInv, OneWriting, UnderWay
      <4>4. account'[w] = account[w]
        BY <3>5, <4>3 DEF Sessions!Owner
      <4> QED BY <3>3, <3>6, <4>1, <4>2, <4>4 DEF PasswordInv, OneWriting
    <3>7. Sessions!ProvenIsReplacedAlone'
      BY <3>2 DEF Sessions!ProvenIsReplacedAlone
    <3>8. \A w \in Holder : Sessions!Exists(w)' = Sessions!Exists(w)
      BY <3>5 DEF Sessions!Exists
    <3>9. \A u, w \in Holder : Sessions!Exists(u)' /\ Sessions!Exists(w)'
                                 /\ account'[u].email = account'[w].email => u = w
      BY <3>5, <3>8 DEF PasswordInv, OneWriting
    <3> QED BY <3>1, <3>6, <3>7, <3>8, <3>9 DEF PasswordInv, OneWriting
  <2>3. ASSUME Updates PROVE PasswordInv'
    <3>1. PICK u \in Holder, a \in Inbox, p \in Sessions!Password \cup {Nobody} :
            Sessions!Rewrite(u, a, p)
      BY <2>3, Rewrites DEF Updates
    <3>2. /\ Sessions!MayHave(u, a)
          /\ account'[u].email = a /\ \A w \in Holder \ {u} : account'[w] = account[w]
          /\ raced' = IF Sessions!Writing(a) # {} THEN raced \cup {u} ELSE raced
          /\ lost' = lost
      BY <3>1, RewriteSteps
    <3>3. \A w \in Holder \ {u} : Sessions!Exists(w) => account[w].email # a
      BY <3>2 DEF Sessions!MayHave, Sessions!Owner
    <3>4. \/ change' = change
          \/ \E x \in Change, d \in Inbox :
                /\ change[x].pc = "idle"
                /\ change' = [change EXCEPT ![x] = [pc |-> "done", address |-> d,
                                                   old |-> Nobody]]
      BY <2>3, Rewrites DEF Updates
    <3>5. \A x \in Change : \/ change'[x] = change[x]
                           \/ (change[x].pc # "proven" /\ change'[x].pc # "proven")
      <4>1. CASE change' = change
        BY <4>1
      <4>2. ASSUME NEW x \in Change, NEW d \in Inbox, change[x].pc = "idle",
                   change' = [change EXCEPT ![x] = [pc |-> "done", address |-> d,
                                                    old |-> Nobody]]
            PROVE  \A y \in Change : \/ change'[y] = change[y]
                                    \/ (change[y].pc # "proven" /\ change'[y].pc # "proven")
        <5>1. change'[x].pc = "done" /\ \A y \in Change \ {x} : change'[y] = change[y]
          BY <4>2 DEF Sessions!TypeOK
        <5> QED BY <4>2, <5>1
      <4> QED BY <3>4, <4>1, <4>2
    <3> QED BY <3>2, <3>3, <3>5, WriteKeepsOne
  <2>4. ASSUME NEW u \in Holder, NEW a \in Inbox, Sessions!AddUser(u, a) PROVE PasswordInv'
    <3>1. /\ account'[u].email = a /\ \A w \in Holder \ {u} : account'[w] = account[w]
          /\ raced' = IF Sessions!Writing(a) # {} THEN raced \cup {u} ELSE raced
          /\ UNCHANGED <<lost, change>> /\ Sessions!Owner(a) = {}
      BY <2>4 DEF Sessions!AddUser, Sessions!NoAccount, Sessions!TypeOK
    <3>2. \A w \in Holder \ {u} : Sessions!Exists(w) => account[w].email # a
      BY <3>1 DEF Sessions!Owner
    <3> QED BY <3>1, <3>2, WriteKeepsOne
  <2>5. ASSUME UNCHANGED <<change, lost, raced>>,
               \A w \in Holder : /\ account'[w].password = account[w].password
                                 /\ account'[w].email = account[w].email
                                 /\ Sessions!Exists(w)' => Sessions!Exists(w)
        PROVE  PasswordInv'
    BY <2>5 DEF PasswordInv, Sessions!ProvenIsReplacedAlone, OneWriting, UnderWay
  <2>6. ASSUME NEW u \in Holder,
               \/ Sessions!RemoveUser(u) \/ Sessions!GenerateSecret(u)
               \/ Sessions!EnableTwoFactor(u) \/ Sessions!DisableTwoFactor(u)
        PROVE  PasswordInv'
    <3>1. CASE Sessions!RemoveUser(u)
      BY <2>5, <3>1 DEF Sessions!RemoveUser, Sessions!TypeOK, Sessions!Exists
    <3>2. CASE Sessions!GenerateSecret(u)
      BY <2>5, <3>2 DEF Sessions!GenerateSecret, Sessions!TypeOK, Sessions!Exists
    <3>3. CASE Sessions!EnableTwoFactor(u)
      BY <2>5, <3>3 DEF Sessions!EnableTwoFactor, Sessions!TypeOK, Sessions!Exists
    <3>4. CASE Sessions!DisableTwoFactor(u)
      BY <2>5, <3>4 DEF Sessions!DisableTwoFactor, Sessions!TypeOK, Sessions!Exists
    <3> QED BY <2>6, <3>1, <3>2, <3>3, <3>4
  <2>7. CASE UNCHANGED <<account, change, lost, raced>>
    BY <2>5, <2>7 DEF Sessions!Exists
  <2>8. ASSUME NEW x \in Change, NEW u \in Holder, Sessions!ReadAddress(x, u)
        PROVE  PasswordInv'
    <3>1. /\ change' = [change EXCEPT ![x] = [pc |-> "asked", address |-> account[u].email,
                                             old |-> Nobody]]
          /\ change[x].pc = "idle" /\ UNCHANGED <<account, lost, raced>>
      BY <2>8 DEF Sessions!ReadAddress
    <3>2. change'[x].pc = "asked" /\ \A y \in Change \ {x} : change'[y] = change[y]
      BY <3>1 DEF Sessions!TypeOK
    <3>3. \A y \in Change, w \in Holder :
            UnderWay(y, w)' => UnderWay(y, w) /\ change'[y] = change[y]
      BY <3>1, <3>2 DEF UnderWay
    <3> QED BY <3>1, <3>3 DEF PasswordInv, Sessions!ProvenIsReplacedAlone, OneWriting,
                              Sessions!Exists
  <2>9. ASSUME NEW l \in Login,
               \/ \E u \in Holder, p \in Sessions!Password : Sessions!FindUser(l, u, p)
               \/ Sessions!CheckPassword(l) \/ Sessions!SignTokens(l) \/ Sessions!StoreToken(l)
        PROVE  UNCHANGED <<account, change, lost, raced>>
    BY <2>9 DEF Sessions!FindUser, Sessions!CheckPassword, Sessions!SignTokens,
       Sessions!StoreToken
  <2>10. ASSUME NEW r \in Refresh,
               \/ \E u \in Holder, t \in Login : Sessions!GetStored(r, u, t)
               \/ Sessions!SignAccess(r) \/ Sessions!FinishRefresh(r)
        PROVE  UNCHANGED <<account, change, lost, raced>>
    BY <2>10 DEF Sessions!GetStored, Sessions!SignAccess, Sessions!FinishRefresh
  <2>11. ASSUME NEW o \in Logout,
               Sessions!Revoke(o) \/ \E u \in Holder : Sessions!StartLogout(o, u)
        PROVE  UNCHANGED <<account, change, lost, raced>>
    BY <2>11 DEF Sessions!Revoke, Sessions!StartLogout
  <2>12. ASSUME NEW u \in Holder, Sessions!ExpireToken(u)
        PROVE  UNCHANGED <<account, change, lost, raced>>
    BY <2>12 DEF Sessions!ExpireToken
  <2>13. CASE UNCHANGED Sessions!vars
    BY <2>7, <2>13 DEF Sessions!vars
  <2> QED BY <2>1, <2>2, <2>3, <2>4, <2>6, <2>7, <2>8, <2>9, <2>10, <2>11, <2>12, <2>13
          DEF Sessions!Next, Updates
<1> QED BY <1>1, <1>2, SessionTyped, PTL DEF Sessions!Spec

-----------------------------------------------------------------------------
(* The comparison of a login.                                              *)

\* A login about to compare still has its account at the address it looks up, unless the
\* account lost it meanwhile.
LoginsAtHome ==
    \A l \in Login \ parted : login[l].pc = "found" =>
        login[l].user \in Sessions!Owner(login[l].address)

\* A login is let in with the password of the account it opens, unless that moved.
LEMMA LoginsOpenTheirOwn == Sessions!Spec => [](Sessions!OpensItsOwn /\ LoginsAtHome)
<1>1. Sessions!Init => Sessions!OpensItsOwn /\ LoginsAtHome
  BY DEF Sessions!Init, Sessions!OpensItsOwn, LoginsAtHome, Sessions!IdleLogin
<1>2. Sessions!TypeOK /\ SessionStarted /\ Sessions!OpensItsOwn /\ LoginsAtHome
          /\ [Sessions!Next]_Sessions!vars
        => Sessions!OpensItsOwn' /\ LoginsAtHome'
  <2> SUFFICES ASSUME Sessions!TypeOK, SessionStarted, Sessions!OpensItsOwn, LoginsAtHome,
                      [Sessions!Next]_Sessions!vars
               PROVE  Sessions!OpensItsOwn' /\ LoginsAtHome'
    OBVIOUS
  <2>1. ASSUME NEW l \in Login, NEW u \in Holder, NEW p \in Sessions!Password,
               Sessions!FindUser(l, u, p)
        PROVE  Sessions!OpensItsOwn' /\ LoginsAtHome'
    <3>1. /\ login'[l].user = u /\ login'[l].address = account[u].email
          /\ \A k \in Login \ {l} : login'[k] = login[k]
          /\ Sessions!Exists(u) /\ UNCHANGED <<account, parted, mistaken>>
      BY <2>1 DEF Sessions!FindUser, Sessions!TypeOK
    <3> QED BY <3>1 DEF Sessions!OpensItsOwn, LoginsAtHome, Sessions!Owner, Sessions!Exists
  <2>2. ASSUME NEW l \in Login, Sessions!CheckPassword(l)
        PROVE  Sessions!OpensItsOwn' /\ LoginsAtHome'
    <3>1. /\ login[l].pc = "found" /\ login'[l].pc # "found"
          /\ \A k \in Login \ {l} : login'[k] = login[k]
          /\ mistaken' \subseteq mistaken \cup {l}
          /\ login[l].user \in Sessions!Owner(login[l].address) => mistaken' = mistaken
          /\ UNCHANGED <<account, parted>>
      BY <2>2 DEF Sessions!CheckPassword, Sessions!TypeOK
    <3>2. l \notin parted => mistaken' = mistaken
      BY <3>1 DEF LoginsAtHome
    <3> QED BY <3>1, <3>2 DEF Sessions!OpensItsOwn, LoginsAtHome, Sessions!Owner, Sessions!Exists
  <2>3. ASSUME NEW l \in Login, Sessions!SignTokens(l) \/ Sessions!StoreToken(l)
        PROVE  Sessions!OpensItsOwn' /\ LoginsAtHome'
    <3>1. /\ login'[l].pc # "found" /\ \A k \in Login \ {l} : login'[k] = login[k]
          /\ UNCHANGED <<account, parted, mistaken>>
      BY <2>3 DEF Sessions!SignTokens, Sessions!StoreToken, Sessions!TypeOK
    <3> QED BY <3>1 DEF Sessions!OpensItsOwn, LoginsAtHome, Sessions!Owner, Sessions!Exists
  <2>4. ASSUME UNCHANGED <<login, mistaken>>, parted \subseteq parted',
               \A l \in Login \ parted' : login[l].pc = "found" =>
                   /\ account'[login[l].user].state = account[login[l].user].state
                   /\ account'[login[l].user].email = account[login[l].user].email
        PROVE  Sessions!OpensItsOwn' /\ LoginsAtHome'
    <3>1. LoginsAtHome'
      BY <2>4 DEF LoginsAtHome, Sessions!Owner, Sessions!Exists
    <3> QED BY <2>4, <3>1 DEF Sessions!OpensItsOwn
  <2>5. ASSUME Updates PROVE Sessions!OpensItsOwn' /\ LoginsAtHome'
    <3>1. PICK u \in Holder, a \in Inbox, p \in Sessions!Password \cup {Nobody} :
            Sessions!Rewrite(u, a, p)
      BY <2>5, Rewrites DEF Updates
    <3>2. /\ account'[u].state = account[u].state /\ account'[u].email = a
          /\ \A w \in Holder \ {u} : account'[w] = account[w]
          /\ parted' = IF a # account[u].email THEN parted \cup Sessions!Comparing(u)
                       ELSE parted
          /\ UNCHANGED <<login, mistaken>>
      BY <3>1, RewriteSteps
    <3>3. ASSUME NEW l \in Login \ parted', login[l].pc = "found"
          PROVE  /\ account'[login[l].user].state = account[login[l].user].state
                 /\ account'[login[l].user].email = account[login[l].user].email
      <4>1. login[l].user \in Holder
        BY <3>3 DEF SessionStarted
      <4> QED BY <3>2, <3>3, <4>1 DEF Sessions!Comparing
    <3> QED BY <2>4, <3>2, <3>3
  <2>6. ASSUME NEW u \in Holder, NEW a \in Inbox, Sessions!AddUser(u, a)
        PROVE  Sessions!OpensItsOwn' /\ LoginsAtHome'
    <3>1. /\ account[u].state = "none" /\ \A w \in Holder \ {u} : account'[w] = account[w]
          /\ UNCHANGED <<login, parted, mistaken>>
      BY <2>6 DEF Sessions!AddUser, Sessions!signing, Sessions!TypeOK
    <3>2. \A l \in Login \ parted : login[l].pc = "found" =>
             account'[login[l].user] = account[login[l].user]
      BY <3>1 DEF LoginsAtHome, Sessions!Owner, Sessions!Exists
    <3> QED BY <2>4, <3>1, <3>2
  <2>7. ASSUME NEW u \in Holder, Sessions!RemoveUser(u)
        PROVE  Sessions!OpensItsOwn' /\ LoginsAtHome'
    <3>1. /\ \A w \in Holder \ {u} : account'[w] = account[w]
          /\ parted' = parted \cup Sessions!Comparing(u) /\ UNCHANGED <<login, mistaken>>
      BY <2>7 DEF Sessions!RemoveUser, Sessions!TypeOK
    <3>2. \A l \in Login \ parted' : login[l].pc = "found" => login[l].user \in Holder \ {u}
      BY <3>1 DEF Sessions!Comparing, SessionStarted
    <3> QED BY <2>4, <3>1, <3>2
  <2>8. ASSUME NEW x \in Change, Sessions!WriteNew(x)
        PROVE  Sessions!OpensItsOwn' /\ LoginsAtHome'
    <3>1. account \in [Holder -> SessionRow] /\ x \in Sessions!Password
      BY DEF Sessions!TypeOK, SessionRow, Sessions!Password
    <3>2. /\ \A w \in Holder : account'[w].state = account[w].state
                               /\ account'[w].email = account[w].email
          /\ UNCHANGED <<login, parted, mistaken>>
      BY <2>8, <3>1, RowReads DEF Sessions!WriteNew, Sessions!signing
    <3> QED BY <2>4, <3>2 DEF SessionStarted
  <2>9. ASSUME NEW u \in Holder,
               \/ Sessions!GenerateSecret(u) \/ Sessions!EnableTwoFactor(u)
               \/ Sessions!DisableTwoFactor(u)
        PROVE  Sessions!OpensItsOwn' /\ LoginsAtHome'
    <3>1. UNCHANGED <<login, parted, mistaken>>
      BY <2>9 DEF Sessions!GenerateSecret, Sessions!EnableTwoFactor,
         Sessions!DisableTwoFactor
    <3>2. CASE Sessions!GenerateSecret(u)
      BY <2>4, <3>1, <3>2 DEF Sessions!GenerateSecret, Sessions!TypeOK, SessionStarted
    <3>3. CASE Sessions!EnableTwoFactor(u)
      BY <2>4, <3>1, <3>3 DEF Sessions!EnableTwoFactor, Sessions!TypeOK, SessionStarted
    <3>4. CASE Sessions!DisableTwoFactor(u)
      BY <2>4, <3>1, <3>4 DEF Sessions!DisableTwoFactor, Sessions!TypeOK, SessionStarted
    <3> QED BY <2>9, <3>2, <3>3, <3>4
  <2>10. CASE UNCHANGED <<account, login, parted, mistaken>>
    BY <2>4, <2>10
  <2>11. ASSUME NEW r \in Refresh,
                \/ \E u \in Holder, t \in Login : Sessions!GetStored(r, u, t)
                \/ Sessions!SignAccess(r) \/ Sessions!FinishRefresh(r)
         PROVE  UNCHANGED <<account, login, parted, mistaken>>
    BY <2>11 DEF Sessions!GetStored, Sessions!SignAccess, Sessions!FinishRefresh
  <2>12. ASSUME NEW o \in Logout,
                Sessions!Revoke(o) \/ \E u \in Holder : Sessions!StartLogout(o, u)
         PROVE  UNCHANGED <<account, login, parted, mistaken>>
    BY <2>12 DEF Sessions!Revoke, Sessions!StartLogout
  <2>13. ASSUME NEW x \in Change,
                \/ \E u \in Holder : Sessions!ReadAddress(x, u)
                \/ \E p \in Sessions!Password : Sessions!ProveOld(x, p)
         PROVE  UNCHANGED <<account, login, parted, mistaken>>
    BY <2>13 DEF Sessions!ReadAddress, Sessions!ProveOld, Sessions!signing
  <2>14. ASSUME NEW u \in Holder, Sessions!ExpireToken(u)
         PROVE  UNCHANGED <<account, login, parted, mistaken>>
    BY <2>14 DEF Sessions!ExpireToken
  <2>15. CASE UNCHANGED Sessions!vars
    BY <2>10, <2>15 DEF Sessions!vars
  <2> QED BY <2>1, <2>2, <2>3, <2>5, <2>6, <2>7, <2>8, <2>9, <2>10, <2>11, <2>12, <2>13,
             <2>14, <2>15 DEF Sessions!Next, Updates
<1> QED BY <1>1, <1>2, SessionTyped, PTL DEF Sessions!Spec

-----------------------------------------------------------------------------
(* The second factor.                                                      *)

\* A login goes on past a second factor only if it was under way when the
\* factor was switched on.
LEMMA SecondFactorHolds == Sessions!Spec => []Sessions!NoLoginPastSecondFactor
<1>1. Sessions!Init => Sessions!NoLoginPastSecondFactor
  BY DEF Sessions!Init, Sessions!NoLoginPastSecondFactor, Sessions!IdleLogin
<1>2. Sessions!TypeOK /\ SessionStarted /\ Sessions!NoLoginPastSecondFactor
        /\ [Sessions!Next]_Sessions!vars
        => Sessions!NoLoginPastSecondFactor'
  <2> SUFFICES ASSUME Sessions!TypeOK, SessionStarted, Sessions!NoLoginPastSecondFactor,
                      [Sessions!Next]_Sessions!vars
               PROVE  Sessions!NoLoginPastSecondFactor'
    OBVIOUS
  <2>1. ASSUME NEW l \in Login, NEW u \in Holder, NEW p \in Sessions!Password,
               Sessions!FindUser(l, u, p)
        PROVE  Sessions!NoLoginPastSecondFactor'
    BY <2>1 DEF Sessions!FindUser, Sessions!PassesTwoFactor, Sessions!TypeOK,
       Sessions!NoLoginPastSecondFactor
  <2>2. ASSUME NEW l \in Login, Sessions!CheckPassword(l)
        PROVE  Sessions!NoLoginPastSecondFactor'
    BY <2>2 DEF Sessions!CheckPassword, Sessions!TypeOK, Sessions!NoLoginPastSecondFactor
  <2>3. ASSUME NEW l \in Login, Sessions!SignTokens(l) PROVE Sessions!NoLoginPastSecondFactor'
    BY <2>3 DEF Sessions!SignTokens, Sessions!TypeOK, Sessions!NoLoginPastSecondFactor
  <2>4. ASSUME NEW l \in Login, Sessions!StoreToken(l) PROVE Sessions!NoLoginPastSecondFactor'
    BY <2>4 DEF Sessions!StoreToken, Sessions!TypeOK, Sessions!NoLoginPastSecondFactor
  <2>5. ASSUME NEW u \in Holder, Sessions!EnableTwoFactor(u)
        PROVE  Sessions!NoLoginPastSecondFactor'
    <3>1. /\ account' = [account EXCEPT ![u].twoFactor = TRUE]
          /\ switched' = switched \cup Sessions!InFlight(u) /\ login' = login
      BY <2>5 DEF Sessions!EnableTwoFactor
    <3>2. \A w \in Holder \ {u} : account'[w] = account[w]
      BY <3>1 DEF Sessions!TypeOK
    <3>3. ASSUME NEW l \in Login, login[l].pc \in {"found", "validated", "signed"},
                 account'[login[l].user].twoFactor
          PROVE  l \in switched'
      <4>1. login[l].user \in Holder
        BY <3>3 DEF SessionStarted
      <4>2. CASE login[l].user = u
        BY <3>1, <3>3, <4>2 DEF Sessions!InFlight
      <4>3. CASE login[l].user # u
        BY <3>1, <3>2, <3>3, <4>1, <4>3 DEF Sessions!NoLoginPastSecondFactor
      <4> QED BY <4>2, <4>3
    <3> QED BY <3>1, <3>3 DEF Sessions!NoLoginPastSecondFactor
  <2>6. ASSUME NEW u \in Holder, Sessions!DisableTwoFactor(u)
        PROVE  Sessions!NoLoginPastSecondFactor'
    <3>1. /\ account' = [account EXCEPT ![u].twoFactor = FALSE, ![u].secret = FALSE]
          /\ UNCHANGED <<login, switched>>
      BY <2>6 DEF Sessions!DisableTwoFactor
    <3>2. /\ \A w \in Holder \ {u} : account'[w] = account[w]
          /\ account'[u].twoFactor = FALSE
      BY <3>1 DEF Sessions!TypeOK
    <3> QED BY <3>1, <3>2 DEF Sessions!NoLoginPastSecondFactor, SessionStarted
  <2>7. ASSUME /\ UNCHANGED <<login, switched>>
               /\ \A w \in Holder : account'[w].twoFactor = account[w].twoFactor
        PROVE  Sessions!NoLoginPastSecondFactor'
    BY <2>7 DEF Sessions!NoLoginPastSecondFactor, SessionStarted
  <2>8. ASSUME NEW u \in Holder, Sessions!RemoveUser(u) PROVE Sessions!NoLoginPastSecondFactor'
    BY <2>7, <2>8 DEF Sessions!RemoveUser, Sessions!TypeOK
  <2>9. ASSUME NEW u \in Holder, Sessions!GenerateSecret(u)
        PROVE  Sessions!NoLoginPastSecondFactor'
    BY <2>7, <2>9 DEF Sessions!GenerateSecret, Sessions!TypeOK
  <2>10. ASSUME NEW x \in Change, Sessions!WriteNew(x) PROVE Sessions!NoLoginPastSecondFactor'
    <3>1. account \in [Holder -> SessionRow] /\ x \in Sessions!Password
      BY DEF Sessions!TypeOK, SessionRow, Sessions!Password
    <3>2. /\ \A w \in Holder : account'[w].twoFactor = account[w].twoFactor
          /\ UNCHANGED <<login, switched>>
      BY <2>10, <3>1, RowReads DEF Sessions!WriteNew, Sessions!signing
    <3> QED BY <2>7, <3>2
  <2>11. ASSUME Updates PROVE Sessions!NoLoginPastSecondFactor'
    <3>1. PICK u \in Holder, a \in Inbox, p \in Sessions!Password \cup {Nobody} :
            Sessions!Rewrite(u, a, p)
      BY <2>11, Rewrites DEF Updates
    <3>2. /\ account'[u].twoFactor = account[u].twoFactor /\ UNCHANGED <<login, switched>>
          /\ \A w \in Holder \ {u} : account'[w] = account[w]
      BY <3>1, RewriteSteps
    <3> QED BY <2>7, <3>2
  <2>18. ASSUME NEW u \in Holder, NEW a \in Inbox, Sessions!AddUser(u, a)
         PROVE  Sessions!NoLoginPastSecondFactor'
    <3>1. /\ account'[u].twoFactor = FALSE /\ UNCHANGED <<login, switched>>
          /\ \A w \in Holder \ {u} : account'[w] = account[w]
      BY <2>18 DEF Sessions!AddUser, Sessions!NoAccount, Sessions!signing, Sessions!TypeOK
    <3> QED BY <3>1 DEF Sessions!NoLoginPastSecondFactor, SessionStarted
  <2>12. CASE UNCHANGED <<account, login, switched>>
    BY <2>7, <2>12
  <2>13. ASSUME NEW r \in Refresh,
                \/ \E u \in Holder, t \in Login : Sessions!GetStored(r, u, t)
                \/ Sessions!SignAccess(r) \/ Sessions!FinishRefresh(r)
         PROVE  UNCHANGED <<account, login, switched>>
    BY <2>13 DEF Sessions!GetStored, Sessions!SignAccess, Sessions!FinishRefresh
  <2>14. ASSUME NEW o \in Logout,
                Sessions!Revoke(o) \/ \E u \in Holder : Sessions!StartLogout(o, u)
         PROVE  UNCHANGED <<account, login, switched>>
    BY <2>14 DEF Sessions!Revoke, Sessions!StartLogout
  <2>15. ASSUME NEW x \in Change,
                \/ \E u \in Holder : Sessions!ReadAddress(x, u)
                \/ \E p \in Sessions!Password : Sessions!ProveOld(x, p)
         PROVE  UNCHANGED <<account, login, switched>>
    BY <2>15 DEF Sessions!ReadAddress, Sessions!ProveOld, Sessions!signing
  <2>16. ASSUME NEW u \in Holder, Sessions!ExpireToken(u)
         PROVE  UNCHANGED <<account, login, switched>>
    BY <2>16 DEF Sessions!ExpireToken
  <2>17. CASE UNCHANGED Sessions!vars
    BY <2>12, <2>17 DEF Sessions!vars
  <2> QED BY <2>1, <2>2, <2>3, <2>4, <2>5, <2>6, <2>8, <2>9, <2>10, <2>11, <2>12, <2>13,
             <2>14, <2>15, <2>16, <2>17, <2>18 DEF Sessions!Next, Updates
<1> QED BY <1>1, <1>2, SessionTyped, PTL DEF Sessions!Spec

-----------------------------------------------------------------------------
\* A token that ended opens nothing to a request that comes afterwards, the one
\* Redis holds is live, a change replaces the password that was proven unless
\* something else was written between, a login is let in by its own account's
\* password, and a second factor stops every login that starts after it was
\* switched on.
LEMMA SessionsAlone == Sessions!Spec => []Sessions!TypeOK /\ []Sessions!SessionsAreSound
<1>1. Sessions!TypeOK /\ TokenInv /\ PasswordInv /\ Sessions!NoLoginPastSecondFactor
          /\ Sessions!OpensItsOwn
        => Sessions!SessionsAreSound
  <2> SUFFICES ASSUME Sessions!TypeOK, TokenInv, PasswordInv,
                      Sessions!NoLoginPastSecondFactor, Sessions!OpensItsOwn
               PROVE  Sessions!SessionsAreSound
    OBVIOUS
  <2>1. Sessions!EndedTokenIsDead
    BY DEF TokenInv, StaleIsRefused, Sessions!EndedTokenIsDead
  <2> QED BY <2>1 DEF TokenInv, PasswordInv, Sessions!SessionsAreSound
<1> QED BY <1>1, SessionTypeCorrect, TokensAreKept, PasswordsAreKept, LoginsOpenTheirOwn,
           SecondFactorHolds, PTL

\* A token that has ended opens nothing, a changed password is the one that was
\* proven unless something else wrote it or its address moved meanwhile, a login
\* opens the account whose password it had, and a second factor stops whoever logs
\* in after it was switched on.
THEOREM SessionsHold == AccountSpec => []SessionsAreSound
BY PartsBehave, SessionsAlone, PTL DEF SessionsAreSound

-----------------------------------------------------------------------------
(* Profiles.                                                               *)

\* The columns of requests and of rows that were created.
Updating == [pc : {"idle", "number", "checked", "deleted", "put", "done"},
             user : Profiles!Account \cup {Nobody}, old : Name \cup {Nobody},
             phone : Phone \cup {Nobody}, image : BOOLEAN, name : Name \cup {Nobody}]
Registering == [pc : {"idle", "unique", "put", "done"}, address : Mailbox \cup {Nobody},
                phone : Phone \cup {Nobody}, name : Name \cup {Nobody}]
JoinedRow == [address : Mailbox \cup {Nobody}, certificate : Name \cup {Nobody}]

\* An update that has begun has its user, and a number if it looks for one; one
\* that has put its file has the file's name, which was drawn.
UpdatesFit ==
    \A x \in Update :
        /\ update[x].pc # "idle" => update[x].user \in Profiles!Account
        /\ update[x].pc = "number" => update[x].phone \in Phone
        /\ update[x].pc \in {"deleted", "put"} => update[x].image
        /\ update[x].pc = "put" => update[x].name \in Name
        /\ update[x].name \in Name => /\ update[x].pc \in {"put", "done"}
                                      /\ <<"avatar", update[x].name>> \in named

\* Updates of one user do not overlap, and the row stays as it was read, except
\* where the history says so.
UpdatesAlternate ==
    /\ \A x, y \in Update :
         x # y /\ Profiles!Running(x) /\ Profiles!Running(y) /\ update[x].user = update[y].user
            => update[x].user \in overlap
    /\ \A x \in Update : Profiles!Running(x) /\ update[x].user \notin overlap
                            => avatar[update[x].user] = update[x].old

\* A file that a row names, or that an update is to delete, is the file of an
\* update of that user.
FileOf(u, n) == n = Nobody \/ \E z \in Update : update[z].name = n /\ update[z].user = u
FilesTrace ==
    /\ \A x, y \in Update : x # y /\ update[x].name = update[y].name
                               => update[x].name \in clash \cup {Nobody}
    /\ \A u \in Profiles!Account : FileOf(u, avatar[u])
    /\ \A x \in Update : Profiles!Running(x) => FileOf(update[x].user, update[x].old)
    /\ files \subseteq named

\* Between the deletion and the row: the old file is gone, the new one is there.
FilesChange ==
    /\ \A x \in Update : update[x].pc \in {"deleted", "put"} =>
         <<"avatar", update[x].old>> \notin files \/ update[x].old \in clash
    /\ \A x \in Update : update[x].pc = "put" /\ update[x].user \notin overlap \cup hit =>
         <<"avatar", update[x].name>> \in files \/ update[x].name \in clash

\* A number that was found free, or that the row had, is still nobody else's.
Checked(x) == update[x].pc \in {"checked", "deleted", "put"} /\ update[x].phone # Nobody
NumbersFree ==
    /\ \A x \in Update : Checked(x) /\ update[x].phone \notin claimed =>
         \A u \in Profiles!Account \ {update[x].user} : phone[u] # update[x].phone
    /\ \A x, y \in Update :
         Checked(x) /\ Checked(y) /\ update[x].phone = update[y].phone
            => update[x].user = update[y].user \/ update[x].phone \in claimed

\* The certificate of a row is the one its own request put on the disk.
CertificatesFit ==
    \A r \in Register :
        /\ joined[r].certificate # Nobody => joined[r].certificate = register[r].name
        /\ register[r].name # Nobody =>
             /\ register[r].pc \in {"put", "done"}
             /\ r \in hit \/ <<"body_certificates", register[r].name>> \in files

\* The inductive invariant.
ProfilesInv == Profiles!TypeOK /\ UpdatesFit /\ UpdatesAlternate /\ FilesTrace /\ FilesChange
       /\ NumbersFree /\ CertificatesFit /\ Profiles!ProfilesAreSound

\* One update takes a step and the others stay where they are.
UpdateMoves(x, pc) ==
    /\ update' \in [Update -> Updating]
    /\ \A y \in Update \ {x} : update'[y] = update[y]
    /\ update'[x].pc = pc /\ update'[x].user = update[x].user
    /\ update'[x].old = update[x].old /\ update'[x].phone = update[x].phone
    /\ update'[x].image = update[x].image

\* Requests and rows have their columns.
LEMMA UpdateTyped ==
    ASSUME Profiles!TypeOK
    PROVE  /\ update \in [Update -> Updating] /\ register \in [Register -> Registering]
           /\ joined \in [Register -> JoinedRow]
BY DEF Profiles!TypeOK, Updating, Registering, JoinedRow

\* An update goes on, or ends, as it is.
LEMMA UpdateGoesOn ==
    ASSUME Profiles!TypeOK, NEW x \in Update, NEW pc \in {"checked", "deleted", "done"},
           update' = [update EXCEPT ![x].pc = pc]
    PROVE  UpdateMoves(x, pc) /\ update'[x].name = update[x].name
<1>1. update \in [Update -> Updating]
  BY UpdateTyped
<1> QED BY <1>1 DEF Updating, UpdateMoves

\* An update draws the name of its file.
LEMMA UpdateDraws ==
    ASSUME Profiles!TypeOK, NEW x \in Update, NEW n \in Name,
           update' = [update EXCEPT ![x].pc = "put", ![x].name = n]
    PROVE  UpdateMoves(x, "put") /\ update'[x].name = n
<1> DEFINE r == [update[x] EXCEPT !.pc = "put", !.name = n]
<1>1. update \in [Update -> Updating]
  BY UpdateTyped
<1>2. update' = [update EXCEPT ![x] = r]
  BY <1>1
<1>3. /\ r \in Updating /\ r.pc = "put" /\ r.name = n /\ r.user = update[x].user
      /\ r.old = update[x].old /\ r.phone = update[x].phone /\ r.image = update[x].image
  BY <1>1 DEF Updating
<1> HIDE DEF r
<1> QED BY <1>1, <1>2, <1>3 DEF UpdateMoves

\* An update begins with the row as it is.
LEMMA UpdateBegins ==
    ASSUME Profiles!TypeOK, NEW x \in Update, NEW u \in Profiles!Account, NEW p \in Phone \cup {Nobody},
           NEW image \in BOOLEAN, Profiles!Read(x, u, p, image)
    PROVE  /\ update[x].pc = "idle"
           /\ update' \in [Update -> Updating]
           /\ \A y \in Update \ {x} : update'[y] = update[y]
           /\ update'[x].pc \in {"number", "checked"} /\ update'[x].user = u
           /\ update'[x].pc = "checked" => p = Nobody \/ p = phone[u]
           /\ update'[x].pc = "number" => p # Nobody
           /\ update'[x].old = avatar[u] /\ update'[x].phone = p
           /\ update'[x].image = image /\ update'[x].name = Nobody
<1> DEFINE r == [pc |-> IF p # Nobody /\ p # phone[u] THEN "number" ELSE "checked",
                 user |-> u, old |-> avatar[u], phone |-> p, image |-> image,
                 name |-> Nobody]
<1>1. update \in [Update -> Updating]
  BY UpdateTyped
<1>2. update' = [update EXCEPT ![x] = r] /\ update[x].pc = "idle"
  BY DEF Profiles!Read
<1>3. avatar[u] \in Name \cup {Nobody}
  BY DEF Profiles!TypeOK
<1>4. /\ r \in Updating /\ r.pc \in {"number", "checked"} /\ r.user = u
      /\ r.pc = "checked" => p = Nobody \/ p = phone[u]
      /\ r.pc = "number" => p # Nobody
  BY <1>3 DEF Updating
<1>5. r.old = avatar[u] /\ r.phone = p /\ r.image = image /\ r.name = Nobody
  OBVIOUS
<1> HIDE DEF r
<1> QED BY <1>1, <1>2, <1>4, <1>5

\* An update begins.
LEMMA ReadKeeps ==
    ASSUME ProfilesInv, NEW x \in Update, NEW u \in Profiles!Account, NEW p \in Phone \cup {Nobody},
           NEW image \in BOOLEAN, Profiles!Read(x, u, p, image)
    PROVE  ProfilesInv'
<1>1. /\ update[x].pc = "idle"
      /\ update' \in [Update -> Updating]
      /\ \A y \in Update \ {x} : update'[y] = update[y]
      /\ update'[x].pc \in {"number", "checked"} /\ update'[x].user = u
      /\ update'[x].pc = "checked" => p = Nobody \/ p = phone[u]
      /\ update'[x].pc = "number" => p # Nobody
      /\ update'[x].old = avatar[u] /\ update'[x].phone = p
      /\ update'[x].image = image /\ update'[x].name = Nobody
  BY UpdateBegins DEF ProfilesInv
<1>2. update[x].name = Nobody
  BY <1>1, UpdateTyped DEF ProfilesInv, UpdatesFit, Updating
<1>3. Profiles!TypeOK'
  BY <1>1, <1>2, AccountAssumption DEF Profiles!Read, ProfilesInv, Profiles!ProfilesAreSound,
     Profiles!TypeOK, UpdatesFit, Updating, Registering, JoinedRow
<1>4. UpdatesFit'
  BY <1>1, <1>2, AccountAssumption DEF Profiles!Read, ProfilesInv, Profiles!ProfilesAreSound,
     UpdatesFit
<1>5. UpdatesAlternate'
  BY <1>1, <1>2, AccountAssumption DEF Profiles!Read, ProfilesInv, Profiles!ProfilesAreSound,
     UpdatesAlternate, Profiles!Running, UpdatesFit
<1>6. FilesTrace'
  BY <1>1, <1>2, AccountAssumption DEF Profiles!Read, ProfilesInv, Profiles!ProfilesAreSound,
     FilesTrace, FileOf, Profiles!Running, UpdatesFit
<1>7. FilesChange'
  BY <1>1, <1>2, AccountAssumption DEF Profiles!Read, ProfilesInv, Profiles!ProfilesAreSound,
     FilesChange, UpdatesFit
<1>8. NumbersFree'
  <2>1. phone' = phone /\ claimed' = claimed
    BY DEF Profiles!Read
  <2>2. ASSUME NEW y \in Update, Checked(y)', update'[y].phone \notin claimed,
               NEW w \in Profiles!Account \ {update'[y].user}
        PROVE  phone[w] # update'[y].phone
    <3>1. CASE y = x
      BY <1>1, <2>2, <3>1 DEF Checked, ProfilesInv, Profiles!ProfilesAreSound,
         Profiles!NumberIsUniqueAlone
    <3>2. CASE y # x
      BY <1>1, <2>2, <3>2 DEF Checked, ProfilesInv, NumbersFree
    <3> QED BY <3>1, <3>2
  <2>3. ASSUME NEW y \in Update, NEW z \in Update, Checked(y)', Checked(z)',
               update'[y].phone = update'[z].phone, update'[y].user # update'[z].user
        PROVE  update'[y].phone \in claimed
    <3>1. CASE y = x
      <4>1. z # x /\ Checked(z) /\ update[z] = update'[z]
        BY <1>1, <2>3, <3>1 DEF Checked
      <4>2. update[z].phone = phone[u] /\ u \in Profiles!Account \ {update[z].user}
        BY <1>1, <2>3, <3>1, <4>1 DEF Checked
      <4> QED BY <2>3, <4>1, <4>2 DEF ProfilesInv, NumbersFree
    <3>2. CASE z = x
      <4>1. y # x /\ Checked(y) /\ update[y] = update'[y]
        BY <1>1, <2>3, <3>2 DEF Checked
      <4>2. update[y].phone = phone[u] /\ u \in Profiles!Account \ {update[y].user}
        BY <1>1, <2>3, <3>2, <4>1 DEF Checked
      <4> QED BY <2>3, <4>1, <4>2 DEF ProfilesInv, NumbersFree
    <3>3. CASE y # x /\ z # x
      BY <1>1, <2>3, <3>3 DEF Checked, ProfilesInv, NumbersFree
    <3> QED BY <3>1, <3>2, <3>3
  <2> QED BY <2>1, <2>2, <2>3 DEF NumbersFree
<1>9. CertificatesFit'
  BY <1>1, <1>2, AccountAssumption DEF Profiles!Read, ProfilesInv, Profiles!ProfilesAreSound,
     CertificatesFit
<1>10. Profiles!AvatarIsStoredAlone'
  BY <1>1, <1>2, AccountAssumption DEF Profiles!Read, ProfilesInv, Profiles!ProfilesAreSound,
     Profiles!AvatarIsStoredAlone
<1>11. Profiles!NoAvatarIsLeftAlone'
  BY <1>1, <1>2, AccountAssumption DEF Profiles!Read, ProfilesInv, Profiles!ProfilesAreSound,
     Profiles!NoAvatarIsLeftAlone
<1>12. Profiles!NumberIsUniqueAlone'
  BY <1>1, <1>2, AccountAssumption DEF Profiles!Read, ProfilesInv, Profiles!ProfilesAreSound,
     Profiles!NumberIsUniqueAlone
<1>13. Profiles!CertificateIsStored'
  BY <1>1, <1>2, AccountAssumption DEF Profiles!Read, ProfilesInv, Profiles!ProfilesAreSound,
     Profiles!CertificateIsStored
<1> QED BY <1>3, <1>4, <1>5, <1>6, <1>7, <1>8, <1>9, <1>10, <1>11, <1>12, <1>13 DEF
           ProfilesInv, Profiles!ProfilesAreSound

\* The number is looked for.
LEMMA CheckNumberKeeps ==
    ASSUME ProfilesInv, NEW x \in Update, Profiles!CheckNumber(x)
    PROVE  ProfilesInv'
<1>1. UpdateMoves(x, update'[x].pc) /\ update'[x].name = update[x].name
      /\ update[x].pc = "number"
      /\ update'[x].pc = IF Profiles!Free(update[x].phone) THEN "checked" ELSE "done"
  BY UpdateGoesOn DEF ProfilesInv, Profiles!CheckNumber, UpdateMoves
<1>2. Profiles!TypeOK'
  <2>1. claimed' \subseteq Phone
    BY <1>1 DEF Profiles!CheckNumber, ProfilesInv, Profiles!TypeOK, UpdatesFit
  <2> QED BY <1>1, <2>1 DEF Profiles!CheckNumber, UpdateMoves, ProfilesInv, Profiles!TypeOK,
             Updating
<1>3. UpdatesFit'
  BY <1>1, AccountAssumption DEF Profiles!CheckNumber, Profiles!Free, UpdateMoves, ProfilesInv,
     Profiles!ProfilesAreSound, UpdatesFit
<1>4. UpdatesAlternate'
  BY <1>1, AccountAssumption DEF Profiles!CheckNumber, Profiles!Free, UpdateMoves, ProfilesInv,
     Profiles!ProfilesAreSound, UpdatesAlternate, Profiles!Running, UpdatesFit
<1>5. FilesTrace'
  BY <1>1, AccountAssumption DEF Profiles!CheckNumber, Profiles!Free, UpdateMoves, ProfilesInv,
     Profiles!ProfilesAreSound, FilesTrace, FileOf, Profiles!Running, UpdatesFit
<1>6. FilesChange'
  BY <1>1, AccountAssumption DEF Profiles!CheckNumber, Profiles!Free, UpdateMoves, ProfilesInv,
     Profiles!ProfilesAreSound, FilesChange, UpdatesFit
<1>7. NumbersFree'
  BY <1>1, AccountAssumption DEF Profiles!CheckNumber, Profiles!Free, Profiles!Writers,
     UpdateMoves, ProfilesInv, Profiles!ProfilesAreSound, NumbersFree, Checked, UpdatesFit
<1>8. CertificatesFit'
  BY <1>1, AccountAssumption DEF Profiles!CheckNumber, Profiles!Free, UpdateMoves, ProfilesInv,
     Profiles!ProfilesAreSound, CertificatesFit
<1>9. Profiles!AvatarIsStoredAlone'
  BY <1>1, AccountAssumption DEF Profiles!CheckNumber, Profiles!Free, UpdateMoves, ProfilesInv,
     Profiles!ProfilesAreSound, Profiles!AvatarIsStoredAlone
<1>10. Profiles!NoAvatarIsLeftAlone'
  BY <1>1, AccountAssumption DEF Profiles!CheckNumber, Profiles!Free, UpdateMoves, ProfilesInv,
     Profiles!ProfilesAreSound, Profiles!NoAvatarIsLeftAlone
<1>11. Profiles!NumberIsUniqueAlone'
  BY <1>1, AccountAssumption DEF Profiles!CheckNumber, Profiles!Free, UpdateMoves, ProfilesInv,
     Profiles!ProfilesAreSound, Profiles!NumberIsUniqueAlone
<1>12. Profiles!CertificateIsStored'
  BY <1>1, AccountAssumption DEF Profiles!CheckNumber, Profiles!Free, UpdateMoves, ProfilesInv,
     Profiles!ProfilesAreSound, Profiles!CertificateIsStored
<1> QED BY <1>2, <1>3, <1>4, <1>5, <1>6, <1>7, <1>8, <1>9, <1>10, <1>11, <1>12 DEF ProfilesInv,
           Profiles!ProfilesAreSound

\* The old avatar is deleted.
LEMMA DeleteOldKeeps ==
    ASSUME ProfilesInv, NEW x \in Update, Profiles!DeleteOld(x)
    PROVE  ProfilesInv'
<1>1. UpdateMoves(x, "deleted") /\ update'[x].name = update[x].name
  BY UpdateGoesOn DEF ProfilesInv, Profiles!DeleteOld
<1>2. Profiles!TypeOK'
  BY <1>1, AccountAssumption DEF Profiles!DeleteOld, Profiles!Delete, UpdateMoves, ProfilesInv,
     Profiles!ProfilesAreSound, Profiles!TypeOK, UpdatesFit, Updating, Registering, JoinedRow
<1>3. UpdatesFit'
  BY <1>1, AccountAssumption DEF Profiles!DeleteOld, Profiles!Delete, UpdateMoves, ProfilesInv,
     Profiles!ProfilesAreSound, UpdatesFit
<1>4. UpdatesAlternate'
  BY <1>1, AccountAssumption DEF Profiles!DeleteOld, Profiles!Delete, UpdateMoves, ProfilesInv,
     Profiles!ProfilesAreSound, UpdatesAlternate, Profiles!Running, UpdatesFit
<1>5. FilesTrace'
  BY <1>1, AccountAssumption DEF Profiles!DeleteOld, Profiles!Delete, UpdateMoves, ProfilesInv,
     Profiles!ProfilesAreSound, FilesTrace, FileOf, Profiles!Running, UpdatesFit
<1>6. FilesChange'
  <2>1. /\ files' = files \ {<<"avatar", update[x].old>>} /\ update[x].pc = "checked"
        /\ UNCHANGED <<clash, overlap, hit>>
    BY DEF Profiles!DeleteOld, Profiles!Delete
  <2>2. ASSUME NEW y \in Update, update'[y].pc \in {"deleted", "put"}
        PROVE  <<"avatar", update'[y].old>> \notin files' \/ update'[y].old \in clash
    BY <1>1, <2>1, <2>2 DEF UpdateMoves, ProfilesInv, FilesChange
  <2>3. ASSUME NEW y \in Update, update'[y].pc = "put", update'[y].user \notin overlap \cup hit
        PROVE  <<"avatar", update'[y].name>> \in files' \/ update'[y].name \in clash
    <3>1. y # x /\ update'[y] = update[y]
      BY <1>1, <2>3 DEF UpdateMoves
    <3>2. <<"avatar", update[y].name>> \in files \/ update[y].name \in clash
      BY <2>3, <3>1 DEF ProfilesInv, FilesChange
    <3>3. CASE update[y].name = update[x].old
      <4>1. Profiles!Running(x) /\ Profiles!Running(y) /\ update[y].name \in Name
        BY <2>1, <2>3, <3>1 DEF Profiles!Running, ProfilesInv, UpdatesFit
      <4>2. PICK z \in Update : update[z].name = update[y].name
              /\ update[z].user = update[x].user
        BY <3>3, <4>1, AccountAssumption DEF ProfilesInv, FilesTrace, FileOf
      <4>3. z # y
        BY <2>3, <3>1, <4>1, <4>2 DEF ProfilesInv, UpdatesAlternate
      <4> QED BY <3>1, <4>1, <4>2, <4>3, AccountAssumption DEF ProfilesInv, FilesTrace
    <3>4. CASE update[y].name # update[x].old
      BY <2>1, <3>1, <3>2, <3>4
    <3> QED BY <3>3, <3>4
  <2> QED BY <2>1, <2>2, <2>3 DEF FilesChange
<1>7. NumbersFree'
  BY <1>1, AccountAssumption DEF Profiles!DeleteOld, Profiles!Delete, UpdateMoves, ProfilesInv,
     Profiles!ProfilesAreSound, NumbersFree, Checked, UpdatesFit
<1>8. CertificatesFit'
  BY <1>1, AccountAssumption DEF Profiles!DeleteOld, Profiles!Delete, UpdateMoves, ProfilesInv,
     Profiles!ProfilesAreSound, CertificatesFit
<1>9. Profiles!AvatarIsStoredAlone'
  <2>1. /\ files' = files \ {<<"avatar", update[x].old>>} /\ update[x].pc = "checked"
        /\ UNCHANGED <<clash, overlap, hit, avatar>>
    BY DEF Profiles!DeleteOld, Profiles!Delete
  <2> SUFFICES ASSUME NEW u \in Profiles!Account, u \notin overlap \cup hit, avatar[u] # Nobody,
                      avatar[u] \notin clash,
                      ~\E y \in Update : update'[y].pc \in {"deleted", "put"}
                                          /\ update'[y].user = u
               PROVE  <<"avatar", avatar[u]>> \in files'
    BY <2>1 DEF Profiles!AvatarIsStoredAlone
  <2>2. \A y \in Update : update[y].pc \in {"deleted", "put"} => update[y].user # u
    BY <1>1, <2>1 DEF UpdateMoves
  <2>3. <<"avatar", avatar[u]>> \in files
    BY <2>2 DEF ProfilesInv, Profiles!ProfilesAreSound, Profiles!AvatarIsStoredAlone
  <2>4. update[x].user # u
    BY <1>1 DEF UpdateMoves
  <2>5. ASSUME avatar[u] = update[x].old PROVE FALSE
    <3>1. PICK z \in Update : update[z].name = avatar[u] /\ update[z].user = u
      BY DEF ProfilesInv, FilesTrace, FileOf
    <3>2. PICK y \in Update : update[y].name = avatar[u] /\ update[y].user = update[x].user
      BY <2>1, <2>5 DEF Profiles!Running, ProfilesInv, FilesTrace, FileOf
    <3> QED BY <2>4, <3>1, <3>2 DEF ProfilesInv, FilesTrace
  <2> QED BY <2>1, <2>3, <2>5
<1>10. Profiles!NoAvatarIsLeftAlone'
  BY <1>1, AccountAssumption DEF Profiles!DeleteOld, Profiles!Delete, UpdateMoves, ProfilesInv,
     Profiles!ProfilesAreSound, Profiles!NoAvatarIsLeftAlone
<1>11. Profiles!NumberIsUniqueAlone'
  BY <1>1, AccountAssumption DEF Profiles!DeleteOld, Profiles!Delete, UpdateMoves, ProfilesInv,
     Profiles!ProfilesAreSound, Profiles!NumberIsUniqueAlone
<1>12. Profiles!CertificateIsStored'
  BY <1>1, AccountAssumption DEF Profiles!DeleteOld, Profiles!Delete, UpdateMoves, ProfilesInv,
     Profiles!ProfilesAreSound, Profiles!CertificateIsStored
<1> QED BY <1>2, <1>3, <1>4, <1>5, <1>6, <1>7, <1>8, <1>9, <1>10, <1>11, <1>12 DEF ProfilesInv,
           Profiles!ProfilesAreSound

\* The new avatar is put on the disk.
LEMMA PutNewKeeps ==
    ASSUME ProfilesInv, NEW x \in Update, NEW n \in Name, Profiles!PutNew(x, n)
    PROVE  ProfilesInv'
<1>1. UpdateMoves(x, "put") /\ update'[x].name = n
  BY UpdateDraws DEF ProfilesInv, Profiles!PutNew
<1>2. Profiles!TypeOK'
  BY <1>1, AccountAssumption DEF Profiles!PutNew, Profiles!Put, Profiles!Draw, UpdateMoves,
     ProfilesInv, Profiles!ProfilesAreSound, Profiles!TypeOK, UpdatesFit, Updating,
     Registering, JoinedRow
<1>3. UpdatesFit'
  <2>1. update[x].pc = "deleted" /\ named' = named \cup {<<"avatar", n>>}
    BY DEF Profiles!PutNew, Profiles!Put, Profiles!Draw
  <2>2. update[x].image /\ update[x].user \in Profiles!Account
    BY <2>1 DEF ProfilesInv, UpdatesFit
  <2> SUFFICES ASSUME NEW y \in Update
               PROVE  /\ update'[y].pc # "idle" => update'[y].user \in Profiles!Account
                      /\ update'[y].pc = "number" => update'[y].phone \in Phone
                      /\ update'[y].pc \in {"deleted", "put"} => update'[y].image
                      /\ update'[y].pc = "put" => update'[y].name \in Name
                      /\ update'[y].name \in Name => /\ update'[y].pc \in {"put", "done"}
                                                     /\ <<"avatar", update'[y].name>> \in named'
    BY DEF UpdatesFit
  <2>3. CASE y = x
    BY <1>1, <2>1, <2>2, <2>3 DEF UpdateMoves
  <2>4. CASE y # x
    BY <1>1, <2>1, <2>4 DEF UpdateMoves, ProfilesInv, UpdatesFit
  <2> QED BY <2>3, <2>4
<1>4. UpdatesAlternate'
  BY <1>1, AccountAssumption DEF Profiles!PutNew, Profiles!Put, Profiles!Draw, UpdateMoves,
     ProfilesInv, Profiles!ProfilesAreSound, UpdatesAlternate, Profiles!Running, UpdatesFit
<1>5. FilesTrace'
  <2>1. /\ update[x].pc = "deleted" /\ files' = files \cup {<<"avatar", n>>}
        /\ named' = named \cup {<<"avatar", n>>}
        /\ clash' = IF <<"avatar", n>> \in named THEN clash \cup {n} ELSE clash
        /\ avatar' = avatar
    BY DEF Profiles!PutNew, Profiles!Put, Profiles!Draw
  <2>2. update[x].name = Nobody
    BY <2>1, UpdateTyped DEF ProfilesInv, UpdatesFit, Updating
  <2>3. ASSUME NEW y \in Update, NEW z \in Update, y # z, update'[y].name = update'[z].name
        PROVE  update'[y].name \in clash' \cup {Nobody}
    <3>1. ASSUME NEW w \in Update \ {x}, update[w].name = n PROVE n \in clash'
      BY <2>1, <3>1 DEF ProfilesInv, UpdatesFit
    <3>2. CASE y # x /\ z # x
      BY <1>1, <2>1, <2>3, <3>2 DEF UpdateMoves, ProfilesInv, FilesTrace
    <3> QED BY <1>1, <2>3, <3>1, <3>2 DEF UpdateMoves
  <2>4. ASSUME NEW u \in Profiles!Account \cup {Nobody}, NEW m, FileOf(u, m) PROVE FileOf(u, m)'
    BY <1>1, <2>2, <2>4 DEF UpdateMoves, FileOf
  <2>5. \A u \in Profiles!Account : FileOf(u, avatar[u])'
    BY <2>1, <2>4 DEF ProfilesInv, FilesTrace
  <2>6. ASSUME NEW y \in Update, Profiles!Running(y)'
        PROVE  FileOf(update[y].user, update[y].old)'
    <3>1. Profiles!Running(y)
      BY <1>1, <2>1, <2>6 DEF Profiles!Running, UpdateMoves
    <3>2. FileOf(update[y].user, update[y].old) /\ update[y].user \in Profiles!Account
      BY <3>1 DEF ProfilesInv, FilesTrace, UpdatesFit, Profiles!Running
    <3>3. update'[y].user = update[y].user /\ update'[y].old = update[y].old
      BY <1>1 DEF UpdateMoves
    <3> QED BY <1>1, <2>2, <3>2, <3>3 DEF UpdateMoves, FileOf
  <2>7. files' \subseteq named'
    BY <2>1 DEF ProfilesInv, FilesTrace
  <2> QED BY <2>3, <2>5, <2>6, <2>7 DEF FilesTrace
<1>6. FilesChange'
  <2>1. /\ update[x].pc = "deleted" /\ files' = files \cup {<<"avatar", n>>}
        /\ clash' = IF <<"avatar", n>> \in named THEN clash \cup {n} ELSE clash
        /\ UNCHANGED <<overlap, hit>>
    BY DEF Profiles!PutNew, Profiles!Put, Profiles!Draw
  <2>2. ASSUME NEW y \in Update, update'[y].pc \in {"deleted", "put"}
        PROVE  <<"avatar", update'[y].old>> \notin files' \/ update'[y].old \in clash'
    <3>1. update'[y].old = update[y].old /\ update[y].pc \in {"deleted", "put"}
      BY <1>1, <2>1, <2>2 DEF UpdateMoves
    <3>2. <<"avatar", update[y].old>> \notin files \/ update[y].old \in clash
      BY <3>1 DEF ProfilesInv, FilesChange
    <3>3. ASSUME update[y].old = n PROVE n \in clash'
      <4>1. PICK z \in Update : update[z].name = n
        BY <3>1, <3>3, AccountAssumption DEF Profiles!Running, ProfilesInv, FilesTrace, FileOf
      <4> QED BY <2>1, <4>1 DEF ProfilesInv, UpdatesFit
    <3> QED BY <2>1, <3>1, <3>2, <3>3
  <2>3. ASSUME NEW y \in Update, update'[y].pc = "put", update'[y].user \notin overlap \cup hit
        PROVE  <<"avatar", update'[y].name>> \in files' \/ update'[y].name \in clash'
    BY <1>1, <2>1, <2>3 DEF UpdateMoves, ProfilesInv, FilesChange
  <2> QED BY <2>1, <2>2, <2>3 DEF FilesChange
<1>7. NumbersFree'
  BY <1>1, AccountAssumption DEF Profiles!PutNew, Profiles!Put, Profiles!Draw, UpdateMoves,
     ProfilesInv, Profiles!ProfilesAreSound, NumbersFree, Checked, UpdatesFit
<1>8. CertificatesFit'
  BY <1>1, AccountAssumption DEF Profiles!PutNew, Profiles!Put, Profiles!Draw, UpdateMoves,
     ProfilesInv, Profiles!ProfilesAreSound, CertificatesFit
<1>9. Profiles!AvatarIsStoredAlone'
  BY <1>1, AccountAssumption DEF Profiles!PutNew, Profiles!Put, Profiles!Draw, UpdateMoves,
     ProfilesInv, Profiles!ProfilesAreSound, Profiles!AvatarIsStoredAlone
<1>10. Profiles!NoAvatarIsLeftAlone'
  BY <1>1, AccountAssumption DEF Profiles!PutNew, Profiles!Put, Profiles!Draw, UpdateMoves,
     ProfilesInv, Profiles!ProfilesAreSound, Profiles!NoAvatarIsLeftAlone
<1>11. Profiles!NumberIsUniqueAlone'
  BY <1>1, AccountAssumption DEF Profiles!PutNew, Profiles!Put, Profiles!Draw, UpdateMoves,
     ProfilesInv, Profiles!ProfilesAreSound, Profiles!NumberIsUniqueAlone
<1>12. Profiles!CertificateIsStored'
  BY <1>1, AccountAssumption DEF Profiles!PutNew, Profiles!Put, Profiles!Draw, UpdateMoves,
     ProfilesInv, Profiles!ProfilesAreSound, Profiles!CertificateIsStored
<1> QED BY <1>2, <1>3, <1>4, <1>5, <1>6, <1>7, <1>8, <1>9, <1>10, <1>11, <1>12 DEF ProfilesInv,
           Profiles!ProfilesAreSound

\* The disk refuses the new avatar.
LEMMA PutFailsKeeps ==
    ASSUME ProfilesInv, NEW x \in Update, NEW n \in Name, Profiles!PutFails(x, n)
    PROVE  ProfilesInv'
<1>1. UpdateMoves(x, "put") /\ update'[x].name = n
  BY UpdateDraws DEF ProfilesInv, Profiles!PutFails
<1>2. Profiles!TypeOK'
  BY <1>1, AccountAssumption DEF Profiles!PutFails, Profiles!Fault, Profiles!Draw, UpdateMoves,
     ProfilesInv, Profiles!ProfilesAreSound, Profiles!TypeOK, UpdatesFit, Updating,
     Registering, JoinedRow
<1>3. UpdatesFit'
  <2>1. update[x].pc = "deleted" /\ named' = named \cup {<<"avatar", n>>}
    BY DEF Profiles!PutFails, Profiles!Draw
  <2>2. update[x].image /\ update[x].user \in Profiles!Account
    BY <2>1 DEF ProfilesInv, UpdatesFit
  <2> SUFFICES ASSUME NEW y \in Update
               PROVE  /\ update'[y].pc # "idle" => update'[y].user \in Profiles!Account
                      /\ update'[y].pc = "number" => update'[y].phone \in Phone
                      /\ update'[y].pc \in {"deleted", "put"} => update'[y].image
                      /\ update'[y].pc = "put" => update'[y].name \in Name
                      /\ update'[y].name \in Name => /\ update'[y].pc \in {"put", "done"}
                                                     /\ <<"avatar", update'[y].name>> \in named'
    BY DEF UpdatesFit
  <2>3. CASE y = x
    BY <1>1, <2>1, <2>2, <2>3 DEF UpdateMoves
  <2>4. CASE y # x
    BY <1>1, <2>1, <2>4 DEF UpdateMoves, ProfilesInv, UpdatesFit
  <2> QED BY <2>3, <2>4
<1>4. UpdatesAlternate'
  BY <1>1, AccountAssumption DEF Profiles!PutFails, Profiles!Fault, Profiles!Draw, UpdateMoves,
     ProfilesInv, Profiles!ProfilesAreSound, UpdatesAlternate, Profiles!Running, UpdatesFit
<1>5. FilesTrace'
  <2>1. /\ update[x].pc = "deleted" /\ files' = files
        /\ named' = named \cup {<<"avatar", n>>}
        /\ clash' = IF <<"avatar", n>> \in named THEN clash \cup {n} ELSE clash
        /\ avatar' = avatar
    BY DEF Profiles!PutFails, Profiles!Draw
  <2>2. update[x].name = Nobody
    BY <2>1, UpdateTyped DEF ProfilesInv, UpdatesFit, Updating
  <2>3. ASSUME NEW y \in Update, NEW z \in Update, y # z, update'[y].name = update'[z].name
        PROVE  update'[y].name \in clash' \cup {Nobody}
    <3>1. ASSUME NEW w \in Update \ {x}, update[w].name = n PROVE n \in clash'
      BY <2>1, <3>1 DEF ProfilesInv, UpdatesFit
    <3>2. CASE y # x /\ z # x
      BY <1>1, <2>1, <2>3, <3>2 DEF UpdateMoves, ProfilesInv, FilesTrace
    <3> QED BY <1>1, <2>3, <3>1, <3>2 DEF UpdateMoves
  <2>4. ASSUME NEW u \in Profiles!Account \cup {Nobody}, NEW m, FileOf(u, m) PROVE FileOf(u, m)'
    BY <1>1, <2>2, <2>4 DEF UpdateMoves, FileOf
  <2>5. \A u \in Profiles!Account : FileOf(u, avatar[u])'
    BY <2>1, <2>4 DEF ProfilesInv, FilesTrace
  <2>6. ASSUME NEW y \in Update, Profiles!Running(y)'
        PROVE  FileOf(update[y].user, update[y].old)'
    <3>1. Profiles!Running(y)
      BY <1>1, <2>1, <2>6 DEF Profiles!Running, UpdateMoves
    <3>2. FileOf(update[y].user, update[y].old) /\ update[y].user \in Profiles!Account
      BY <3>1 DEF ProfilesInv, FilesTrace, UpdatesFit, Profiles!Running
    <3>3. update'[y].user = update[y].user /\ update'[y].old = update[y].old
      BY <1>1 DEF UpdateMoves
    <3> QED BY <1>1, <2>2, <3>2, <3>3 DEF UpdateMoves, FileOf
  <2>7. files' \subseteq named'
    BY <2>1 DEF ProfilesInv, FilesTrace
  <2> QED BY <2>3, <2>5, <2>6, <2>7 DEF FilesTrace
<1>6. FilesChange'
  BY <1>1, AccountAssumption DEF Profiles!PutFails, Profiles!Fault, Profiles!Draw, UpdateMoves,
     ProfilesInv, Profiles!ProfilesAreSound, FilesChange, UpdatesFit
<1>7. NumbersFree'
  BY <1>1, AccountAssumption DEF Profiles!PutFails, Profiles!Fault, Profiles!Draw, UpdateMoves,
     ProfilesInv, Profiles!ProfilesAreSound, NumbersFree, Checked, UpdatesFit
<1>8. CertificatesFit'
  BY <1>1, AccountAssumption DEF Profiles!PutFails, Profiles!Fault, Profiles!Draw, UpdateMoves,
     ProfilesInv, Profiles!ProfilesAreSound, CertificatesFit
<1>9. Profiles!AvatarIsStoredAlone'
  BY <1>1, AccountAssumption DEF Profiles!PutFails, Profiles!Fault, Profiles!Draw, UpdateMoves,
     ProfilesInv, Profiles!ProfilesAreSound, Profiles!AvatarIsStoredAlone
<1>10. Profiles!NoAvatarIsLeftAlone'
  BY <1>1, AccountAssumption DEF Profiles!PutFails, Profiles!Fault, Profiles!Draw, UpdateMoves,
     ProfilesInv, Profiles!ProfilesAreSound, Profiles!NoAvatarIsLeftAlone
<1>11. Profiles!NumberIsUniqueAlone'
  BY <1>1, AccountAssumption DEF Profiles!PutFails, Profiles!Fault, Profiles!Draw, UpdateMoves,
     ProfilesInv, Profiles!ProfilesAreSound, Profiles!NumberIsUniqueAlone
<1>12. Profiles!CertificateIsStored'
  BY <1>1, AccountAssumption DEF Profiles!PutFails, Profiles!Fault, Profiles!Draw, UpdateMoves,
     ProfilesInv, Profiles!ProfilesAreSound, Profiles!CertificateIsStored
<1> QED BY <1>2, <1>3, <1>4, <1>5, <1>6, <1>7, <1>8, <1>9, <1>10, <1>11, <1>12 DEF ProfilesInv,
           Profiles!ProfilesAreSound

\* The row is written.
LEMMA WriteKeeps ==
    ASSUME ProfilesInv, NEW x \in Update, Profiles!Write(x)
    PROVE  ProfilesInv'
<1>1. UpdateMoves(x, "done") /\ update'[x].name = update[x].name
  BY UpdateGoesOn DEF ProfilesInv, Profiles!Write
<1>2. Profiles!TypeOK'
  BY <1>1, AccountAssumption DEF Profiles!Write, Profiles!WriteRow, UpdateMoves, ProfilesInv,
     Profiles!ProfilesAreSound, Profiles!TypeOK, UpdatesFit, Updating, Registering, JoinedRow
<1>3. UpdatesFit'
  BY <1>1, AccountAssumption DEF Profiles!Write, Profiles!WriteRow, UpdateMoves, ProfilesInv,
     Profiles!ProfilesAreSound, UpdatesFit
<1>4. UpdatesAlternate'
  BY <1>1, AccountAssumption DEF Profiles!Write, Profiles!WriteRow, UpdateMoves, ProfilesInv,
     Profiles!ProfilesAreSound, UpdatesAlternate, Profiles!Running, UpdatesFit
<1>5. FilesTrace'
  BY <1>1, AccountAssumption DEF Profiles!Write, Profiles!WriteRow, UpdateMoves, ProfilesInv,
     Profiles!ProfilesAreSound, FilesTrace, FileOf, Profiles!Running, UpdatesFit
<1>6. FilesChange'
  BY <1>1, AccountAssumption DEF Profiles!Write, Profiles!WriteRow, UpdateMoves, ProfilesInv,
     Profiles!ProfilesAreSound, FilesChange, UpdatesFit
<1>7. NumbersFree'
  BY <1>1, AccountAssumption DEF Profiles!Write, Profiles!WriteRow, UpdateMoves, ProfilesInv,
     Profiles!ProfilesAreSound, NumbersFree, Checked, UpdatesFit
<1>8. CertificatesFit'
  BY <1>1, AccountAssumption DEF Profiles!Write, Profiles!WriteRow, UpdateMoves, ProfilesInv,
     Profiles!ProfilesAreSound, CertificatesFit
<1>9. Profiles!AvatarIsStoredAlone'
  <2>1. /\ update[x].pc = IF update[x].image THEN "put" ELSE "checked"
        /\ avatar' = [avatar EXCEPT ![update[x].user] =
                        IF update[x].image THEN update[x].name ELSE update[x].old]
        /\ UNCHANGED <<files, clash, overlap, hit>>
    BY DEF Profiles!Write, Profiles!WriteRow
  <2>2. Profiles!Running(x) /\ update[x].user \in Profiles!Account
          /\ avatar \in [Profiles!Account -> Name \cup {Nobody}]
    BY <2>1 DEF Profiles!Running, ProfilesInv, UpdatesFit, Profiles!TypeOK
  <2> SUFFICES ASSUME NEW u \in Profiles!Account, u \notin overlap \cup hit, avatar'[u] # Nobody,
                      avatar'[u] \notin clash,
                      ~\E y \in Update : update'[y].pc \in {"deleted", "put"}
                                          /\ update'[y].user = u
               PROVE  <<"avatar", avatar'[u]>> \in files
    BY <2>1 DEF Profiles!AvatarIsStoredAlone
  <2>3. CASE u = update[x].user /\ update[x].image
    BY <2>1, <2>2, <2>3 DEF ProfilesInv, FilesChange
  <2>4. CASE ~(u = update[x].user /\ update[x].image)
    <3>1. avatar'[u] = avatar[u]
      BY <2>1, <2>2, <2>4 DEF ProfilesInv, UpdatesAlternate
    <3>2. ASSUME NEW y \in Update, update[y].pc \in {"deleted", "put"}, update[y].user = u
          PROVE  FALSE
      <4>1. y # x
        BY <2>1, <2>4, <3>2
      <4> QED BY <1>1, <3>2, <4>1 DEF UpdateMoves
    <3> QED BY <3>1, <3>2 DEF ProfilesInv, Profiles!ProfilesAreSound,
               Profiles!AvatarIsStoredAlone
  <2> QED BY <2>3, <2>4
<1>10. Profiles!NoAvatarIsLeftAlone'
  <2>1. /\ update[x].pc = IF update[x].image THEN "put" ELSE "checked"
        /\ avatar' = [avatar EXCEPT ![update[x].user] =
                        IF update[x].image THEN update[x].name ELSE update[x].old]
        /\ UNCHANGED <<files, clash, overlap, hit>>
    BY DEF Profiles!Write, Profiles!WriteRow
  <2>2. Profiles!Running(x) /\ update[x].user \in Profiles!Account
          /\ avatar \in [Profiles!Account -> Name \cup {Nobody}]
    BY <2>1 DEF Profiles!Running, ProfilesInv, UpdatesFit, Profiles!TypeOK
  <2> SUFFICES ASSUME NEW n \in Name, n \notin clash, <<"avatar", n>> \in files,
                      \A u \in Profiles!Account : u \notin overlap \cup hit /\ avatar'[u] # n,
                      ~\E y \in Update : update'[y].pc = "put" /\ update'[y].name = n
               PROVE  FALSE
    BY <2>1 DEF Profiles!NoAvatarIsLeftAlone
  <2>3. CASE \E u \in Profiles!Account : avatar[u] = n
    <3>1. update[x].image /\ avatar[update[x].user] = n
      BY <2>1, <2>2, <2>3 DEF ProfilesInv, UpdatesAlternate
    <3>2. update[x].old = n /\ update[x].pc = "put"
      BY <2>1, <2>2, <3>1 DEF ProfilesInv, UpdatesAlternate
    <3> QED BY <3>2 DEF ProfilesInv, FilesChange
  <2>4. CASE \E y \in Update : update[y].pc = "put" /\ update[y].name = n
    <3>1. PICK y \in Update : update[y].pc = "put" /\ update[y].name = n
      BY <2>4
    <3>2. y = x
      BY <1>1, <3>1 DEF UpdateMoves
    <3>3. update[x].image
      BY <3>1, <3>2 DEF ProfilesInv, UpdatesFit
    <3> QED BY <2>1, <2>2, <3>1, <3>2, <3>3
  <2> QED BY <2>3, <2>4 DEF ProfilesInv, Profiles!ProfilesAreSound, Profiles!NoAvatarIsLeftAlone
<1>11. Profiles!NumberIsUniqueAlone'
  <2>1. /\ phone' = [phone EXCEPT ![update[x].user] =
                        IF update[x].phone = Nobody THEN @ ELSE update[x].phone]
        /\ claimed' = claimed /\ update[x].pc \in {"put", "checked"}
    BY DEF Profiles!Write, Profiles!WriteRow
  <2>2. update[x].user \in Profiles!Account /\ phone \in [Profiles!Account -> Phone \cup {Nobody}]
    BY <2>1 DEF ProfilesInv, UpdatesFit, Profiles!TypeOK
  <2>3. CASE update[x].phone = Nobody
    BY <2>1, <2>2, <2>3 DEF ProfilesInv, Profiles!ProfilesAreSound, Profiles!NumberIsUniqueAlone
  <2>4. CASE update[x].phone # Nobody
    <3>1. Checked(x)
      BY <2>1, <2>4 DEF Checked
    <3>2. update[x].phone \in claimed
          \/ \A u \in Profiles!Account \ {update[x].user} : phone[u] # update[x].phone
      BY <3>1 DEF ProfilesInv, NumbersFree
    <3> QED BY <2>1, <2>2, <2>4, <3>2 DEF ProfilesInv, Profiles!ProfilesAreSound,
               Profiles!NumberIsUniqueAlone
  <2> QED BY <2>3, <2>4
<1>12. Profiles!CertificateIsStored'
  BY <1>1, AccountAssumption DEF Profiles!Write, Profiles!WriteRow, UpdateMoves, ProfilesInv,
     Profiles!ProfilesAreSound, Profiles!CertificateIsStored
<1> QED BY <1>2, <1>3, <1>4, <1>5, <1>6, <1>7, <1>8, <1>9, <1>10, <1>11, <1>12 DEF ProfilesInv,
           Profiles!ProfilesAreSound

\* The update fails.
LEMMA UpdateFailsKeeps ==
    ASSUME ProfilesInv, NEW x \in Update, Profiles!UpdateFails(x)
    PROVE  ProfilesInv'
<1>1. UpdateMoves(x, "done") /\ update'[x].name = update[x].name
  BY UpdateGoesOn DEF ProfilesInv, Profiles!UpdateFails
<1>2. Profiles!TypeOK'
  <2>1. update[x].user \in Profiles!Account /\ profileFaults' = profileFaults + 1
          /\ hit' = hit \cup {update[x].user}
    BY DEF Profiles!UpdateFails, Profiles!Fault, Profiles!Running, ProfilesInv, UpdatesFit
  <2> QED BY <1>1, <2>1 DEF Profiles!UpdateFails, UpdateMoves, ProfilesInv, Profiles!TypeOK,
             Updating
<1>3. UpdatesFit'
  BY <1>1, AccountAssumption DEF Profiles!UpdateFails, Profiles!Fault, UpdateMoves,
     Profiles!Running, ProfilesInv, Profiles!ProfilesAreSound, UpdatesFit
<1>4. UpdatesAlternate'
  BY <1>1, AccountAssumption DEF Profiles!UpdateFails, Profiles!Fault, UpdateMoves,
     ProfilesInv, Profiles!ProfilesAreSound, UpdatesAlternate, Profiles!Running, UpdatesFit
<1>5. FilesTrace'
  BY <1>1, AccountAssumption DEF Profiles!UpdateFails, Profiles!Fault, UpdateMoves,
     ProfilesInv, Profiles!ProfilesAreSound, FilesTrace, FileOf, Profiles!Running, UpdatesFit
<1>6. FilesChange'
  BY <1>1, AccountAssumption DEF Profiles!UpdateFails, Profiles!Fault, UpdateMoves,
     ProfilesInv, Profiles!ProfilesAreSound, FilesChange, UpdatesFit
<1>7. NumbersFree'
  BY <1>1, AccountAssumption DEF Profiles!UpdateFails, Profiles!Fault, UpdateMoves,
     ProfilesInv, Profiles!ProfilesAreSound, NumbersFree, Checked, UpdatesFit
<1>8. CertificatesFit'
  BY <1>1, AccountAssumption DEF Profiles!UpdateFails, Profiles!Fault, UpdateMoves,
     ProfilesInv, Profiles!ProfilesAreSound, CertificatesFit
<1>9. Profiles!AvatarIsStoredAlone'
  BY <1>1, AccountAssumption DEF Profiles!UpdateFails, Profiles!Fault, UpdateMoves,
     ProfilesInv, Profiles!ProfilesAreSound, Profiles!AvatarIsStoredAlone
<1>10. Profiles!NoAvatarIsLeftAlone'
  BY <1>1, AccountAssumption DEF Profiles!UpdateFails, Profiles!Fault, UpdateMoves,
     Profiles!Running, UpdatesFit, ProfilesInv, Profiles!ProfilesAreSound,
     Profiles!NoAvatarIsLeftAlone
<1>11. Profiles!NumberIsUniqueAlone'
  BY <1>1, AccountAssumption DEF Profiles!UpdateFails, Profiles!Fault, UpdateMoves,
     ProfilesInv, Profiles!ProfilesAreSound, Profiles!NumberIsUniqueAlone
<1>12. Profiles!CertificateIsStored'
  BY <1>1, AccountAssumption DEF Profiles!UpdateFails, Profiles!Fault, UpdateMoves,
     ProfilesInv, Profiles!ProfilesAreSound, Profiles!CertificateIsStored
<1> QED BY <1>2, <1>3, <1>4, <1>5, <1>6, <1>7, <1>8, <1>9, <1>10, <1>11, <1>12 DEF ProfilesInv,
           Profiles!ProfilesAreSound

\* A registration begins.
LEMMA CheckAddressKeeps ==
    ASSUME ProfilesInv, NEW r \in Register, NEW a \in Mailbox,
           NEW p \in Phone \cup {Nobody}, Profiles!CheckAddress(r, a, p)
    PROVE  ProfilesInv'
<1>1. register' \in [Register -> Registering] /\ register \in [Register -> Registering]
  BY UpdateTyped DEF ProfilesInv, Profiles!CheckAddress, Registering
<1>2. Profiles!TypeOK'
  BY <1>1, AccountAssumption DEF Profiles!CheckAddress, ProfilesInv, Profiles!ProfilesAreSound,
     Profiles!TypeOK, UpdatesFit, Updating, Registering, JoinedRow
<1>3. UpdatesFit'
  BY <1>1, AccountAssumption DEF Profiles!CheckAddress, ProfilesInv, Profiles!ProfilesAreSound,
     UpdatesFit
<1>4. UpdatesAlternate'
  BY <1>1, AccountAssumption DEF Profiles!CheckAddress, ProfilesInv, Profiles!ProfilesAreSound,
     UpdatesAlternate, Profiles!Running, UpdatesFit
<1>5. FilesTrace'
  BY <1>1, AccountAssumption DEF Profiles!CheckAddress, ProfilesInv, Profiles!ProfilesAreSound,
     FilesTrace, FileOf, Profiles!Running, UpdatesFit
<1>6. FilesChange'
  BY <1>1, AccountAssumption DEF Profiles!CheckAddress, ProfilesInv, Profiles!ProfilesAreSound,
     FilesChange, UpdatesFit
<1>7. NumbersFree'
  BY <1>1, AccountAssumption DEF Profiles!CheckAddress, ProfilesInv, Profiles!ProfilesAreSound,
     NumbersFree, Checked, UpdatesFit
<1>8. CertificatesFit'
  BY <1>1, AccountAssumption DEF Profiles!CheckAddress, ProfilesInv, Profiles!ProfilesAreSound,
     CertificatesFit
<1>9. Profiles!AvatarIsStoredAlone'
  BY <1>1, AccountAssumption DEF Profiles!CheckAddress, ProfilesInv, Profiles!ProfilesAreSound,
     Profiles!AvatarIsStoredAlone
<1>10. Profiles!NoAvatarIsLeftAlone'
  BY <1>1, AccountAssumption DEF Profiles!CheckAddress, ProfilesInv, Profiles!ProfilesAreSound,
     Profiles!NoAvatarIsLeftAlone
<1>11. Profiles!NumberIsUniqueAlone'
  BY <1>1, AccountAssumption DEF Profiles!CheckAddress, ProfilesInv, Profiles!ProfilesAreSound,
     Profiles!NumberIsUniqueAlone
<1>12. Profiles!CertificateIsStored'
  BY <1>1, AccountAssumption DEF Profiles!CheckAddress, ProfilesInv, Profiles!ProfilesAreSound,
     Profiles!CertificateIsStored
<1> QED BY <1>2, <1>3, <1>4, <1>5, <1>6, <1>7, <1>8, <1>9, <1>10, <1>11, <1>12 DEF ProfilesInv,
           Profiles!ProfilesAreSound

\* The certificate is put on the disk.
LEMMA PutCertificateKeeps ==
    ASSUME ProfilesInv, NEW r \in Register, NEW n \in Name, Profiles!PutCertificate(r, n)
    PROVE  ProfilesInv'
<1>1. register' \in [Register -> Registering] /\ register \in [Register -> Registering]
  BY UpdateTyped DEF ProfilesInv, Profiles!PutCertificate, Registering
<1>2. Profiles!TypeOK'
  BY <1>1, AccountAssumption DEF Profiles!PutCertificate, Profiles!Put, Profiles!Draw,
     ProfilesInv, Profiles!ProfilesAreSound, Profiles!TypeOK, UpdatesFit, Updating,
     Registering, JoinedRow
<1>3. UpdatesFit'
  BY <1>1, AccountAssumption DEF Profiles!PutCertificate, Profiles!Put, Profiles!Draw,
     ProfilesInv, Profiles!ProfilesAreSound, UpdatesFit
<1>4. UpdatesAlternate'
  BY <1>1, AccountAssumption DEF Profiles!PutCertificate, Profiles!Put, Profiles!Draw,
     ProfilesInv, Profiles!ProfilesAreSound, UpdatesAlternate, Profiles!Running, UpdatesFit
<1>5. FilesTrace'
  BY <1>1, AccountAssumption DEF Profiles!PutCertificate, Profiles!Put, Profiles!Draw,
     ProfilesInv, Profiles!ProfilesAreSound, FilesTrace, FileOf, Profiles!Running, UpdatesFit
<1>6. FilesChange'
  BY <1>1, AccountAssumption DEF Profiles!PutCertificate, Profiles!Put, Profiles!Draw,
     ProfilesInv, Profiles!ProfilesAreSound, FilesChange, UpdatesFit
<1>7. NumbersFree'
  BY <1>1, AccountAssumption DEF Profiles!PutCertificate, Profiles!Put, Profiles!Draw,
     ProfilesInv, Profiles!ProfilesAreSound, NumbersFree, Checked, UpdatesFit
<1>8. CertificatesFit'
  <2>1. /\ register[r].pc = "unique"
          /\ register' = [register EXCEPT ![r].pc = "put", ![r].name = n]
        /\ files' = files \cup {<<"body_certificates", n>>} /\ UNCHANGED <<joined, hit>>
    BY DEF Profiles!PutCertificate, Profiles!Put
  <2>2. joined[r].certificate = Nobody
    BY <2>1 DEF ProfilesInv, CertificatesFit
  <2>3. /\ register'[r].pc = "put" /\ register'[r].name = n
        /\ \A s \in Register \ {r} : register'[s] = register[s]
    BY <1>1, <2>1 DEF Registering
  <2> SUFFICES ASSUME NEW s \in Register
               PROVE  /\ joined[s].certificate # Nobody
                          => joined[s].certificate = register'[s].name
                      /\ register'[s].name # Nobody =>
                           /\ register'[s].pc \in {"put", "done"}
                           /\ s \in hit'
                                \/ <<"body_certificates", register'[s].name>> \in files'
    BY <2>1 DEF CertificatesFit
  <2>4. CASE s = r
    BY <2>1, <2>2, <2>3, <2>4
  <2>5. CASE s # r
    <3>1. register'[s] = register[s]
      BY <2>3, <2>5
    <3>2. /\ joined[s].certificate # Nobody => joined[s].certificate = register[s].name
          /\ register[s].name # Nobody =>
               /\ register[s].pc \in {"put", "done"}
               /\ s \in hit \/ <<"body_certificates", register[s].name>> \in files
      BY DEF ProfilesInv, CertificatesFit
    <3>3. hit \subseteq hit' /\ files \subseteq files'
      BY <2>1
    <3> QED BY <3>1, <3>2, <3>3
  <2> QED BY <2>4, <2>5
<1>9. Profiles!AvatarIsStoredAlone'
  BY <1>1, AccountAssumption DEF Profiles!PutCertificate, Profiles!Put, Profiles!Draw,
     ProfilesInv, Profiles!ProfilesAreSound, Profiles!AvatarIsStoredAlone
<1>10. Profiles!NoAvatarIsLeftAlone'
  BY <1>1, AccountAssumption DEF Profiles!PutCertificate, Profiles!Put, Profiles!Draw,
     ProfilesInv, Profiles!ProfilesAreSound, Profiles!NoAvatarIsLeftAlone
<1>11. Profiles!NumberIsUniqueAlone'
  BY <1>1, AccountAssumption DEF Profiles!PutCertificate, Profiles!Put, Profiles!Draw,
     ProfilesInv, Profiles!ProfilesAreSound, Profiles!NumberIsUniqueAlone
<1>12. Profiles!CertificateIsStored'
  BY <1>1, AccountAssumption DEF Profiles!PutCertificate, Profiles!Put, Profiles!Draw,
     ProfilesInv, Profiles!ProfilesAreSound, Profiles!CertificateIsStored
<1> QED BY <1>2, <1>3, <1>4, <1>5, <1>6, <1>7, <1>8, <1>9, <1>10, <1>11, <1>12 DEF ProfilesInv,
           Profiles!ProfilesAreSound

\* The disk refuses the certificate.
LEMMA CertificateFailsKeeps ==
    ASSUME ProfilesInv, NEW r \in Register, NEW n \in Name, Profiles!CertificateFails(r, n)
    PROVE  ProfilesInv'
<1>1. register' \in [Register -> Registering] /\ register \in [Register -> Registering]
  BY UpdateTyped DEF ProfilesInv, Profiles!CertificateFails, Registering
<1>2. Profiles!TypeOK'
  BY <1>1, AccountAssumption DEF Profiles!CertificateFails, Profiles!Fault, Profiles!Draw,
     ProfilesInv, Profiles!ProfilesAreSound, Profiles!TypeOK, UpdatesFit, Updating,
     Registering, JoinedRow, Profiles!Account
<1>3. UpdatesFit'
  BY <1>1, AccountAssumption DEF Profiles!CertificateFails, Profiles!Fault, Profiles!Draw,
     ProfilesInv, Profiles!ProfilesAreSound, UpdatesFit
<1>4. UpdatesAlternate'
  BY <1>1, AccountAssumption DEF Profiles!CertificateFails, Profiles!Fault, Profiles!Draw,
     ProfilesInv, Profiles!ProfilesAreSound, UpdatesAlternate, Profiles!Running, UpdatesFit
<1>5. FilesTrace'
  BY <1>1, AccountAssumption DEF Profiles!CertificateFails, Profiles!Fault, Profiles!Draw,
     ProfilesInv, Profiles!ProfilesAreSound, FilesTrace, FileOf, Profiles!Running, UpdatesFit
<1>6. FilesChange'
  BY <1>1, AccountAssumption DEF Profiles!CertificateFails, Profiles!Fault, Profiles!Draw,
     ProfilesInv, Profiles!ProfilesAreSound, FilesChange, UpdatesFit
<1>7. NumbersFree'
  BY <1>1, AccountAssumption DEF Profiles!CertificateFails, Profiles!Fault, Profiles!Draw,
     ProfilesInv, Profiles!ProfilesAreSound, NumbersFree, Checked, UpdatesFit
<1>8. CertificatesFit'
  <2>1. /\ register[r].pc = "unique"
          /\ register' = [register EXCEPT ![r].pc = "put", ![r].name = n]
        /\ hit' = hit \cup {r} /\ UNCHANGED <<joined, files>>
    BY DEF Profiles!CertificateFails, Profiles!Fault
  <2>2. joined[r].certificate = Nobody
    BY <2>1 DEF ProfilesInv, CertificatesFit
  <2>3. /\ register'[r].pc = "put" /\ register'[r].name = n
        /\ \A s \in Register \ {r} : register'[s] = register[s]
    BY <1>1, <2>1 DEF Registering
  <2> SUFFICES ASSUME NEW s \in Register
               PROVE  /\ joined[s].certificate # Nobody
                          => joined[s].certificate = register'[s].name
                      /\ register'[s].name # Nobody =>
                           /\ register'[s].pc \in {"put", "done"}
                           /\ s \in hit'
                                \/ <<"body_certificates", register'[s].name>> \in files'
    BY <2>1 DEF CertificatesFit
  <2>4. CASE s = r
    BY <2>1, <2>2, <2>3, <2>4
  <2>5. CASE s # r
    <3>1. register'[s] = register[s]
      BY <2>3, <2>5
    <3>2. /\ joined[s].certificate # Nobody => joined[s].certificate = register[s].name
          /\ register[s].name # Nobody =>
               /\ register[s].pc \in {"put", "done"}
               /\ s \in hit \/ <<"body_certificates", register[s].name>> \in files
      BY DEF ProfilesInv, CertificatesFit
    <3>3. hit \subseteq hit' /\ files \subseteq files'
      BY <2>1
    <3> QED BY <3>1, <3>2, <3>3
  <2> QED BY <2>4, <2>5
<1>9. Profiles!AvatarIsStoredAlone'
  BY <1>1, AccountAssumption DEF Profiles!CertificateFails, Profiles!Fault, Profiles!Draw,
     ProfilesInv, Profiles!ProfilesAreSound, Profiles!AvatarIsStoredAlone
<1>10. Profiles!NoAvatarIsLeftAlone'
  BY <1>1, AccountAssumption DEF Profiles!CertificateFails, Profiles!Fault, Profiles!Draw,
     ProfilesInv, Profiles!ProfilesAreSound, Profiles!NoAvatarIsLeftAlone
<1>11. Profiles!NumberIsUniqueAlone'
  BY <1>1, AccountAssumption DEF Profiles!CertificateFails, Profiles!Fault, Profiles!Draw,
     ProfilesInv, Profiles!ProfilesAreSound, Profiles!NumberIsUniqueAlone
<1>12. Profiles!CertificateIsStored'
  BY <1>1, AccountAssumption DEF Profiles!CertificateFails, Profiles!Fault, Profiles!Draw,
     ProfilesInv, Profiles!ProfilesAreSound, Profiles!CertificateIsStored
<1> QED BY <1>2, <1>3, <1>4, <1>5, <1>6, <1>7, <1>8, <1>9, <1>10, <1>11, <1>12 DEF ProfilesInv,
           Profiles!ProfilesAreSound

\* The row is created, or refused.
LEMMA CreateAccountKeeps ==
    ASSUME ProfilesInv, NEW r \in Register, Profiles!CreateAccount(r)
    PROVE  ProfilesInv'
<1>1. register' \in [Register -> Registering] /\ register \in [Register -> Registering]
  BY UpdateTyped DEF ProfilesInv, Profiles!CreateAccount, Registering
<1>0. /\ register[r].pc \in {"unique", "put"}
      /\ register' = [register EXCEPT ![r].pc = "done"]
      /\ UNCHANGED <<avatar, files, update, overlap, named, clash, profileFaults, hit>>
      /\ UNCHANGED <<joined, phone, claimed>> \/ Profiles!CreateRow(r)
  BY DEF Profiles!CreateAccount
<1>r. ASSUME Profiles!CreateRow(r)
      PROVE  /\ joined' = [joined EXCEPT ![r] = [address |-> register[r].address,
                                                certificate |-> register[r].name]]
             /\ phone' = [phone EXCEPT ![r] = register[r].phone]
             /\ claimed' = IF register[r].phone # Nobody
                             /\ (\/ ~Profiles!Free(register[r].phone)
                                 \/ Profiles!Writers(register[r].phone) # {})
                           THEN claimed \cup {register[r].phone} ELSE claimed
  BY <1>r DEF Profiles!CreateRow
<1>p. /\ register[r].phone \in Phone \cup {Nobody} /\ r \in Profiles!Account
      /\ phone \in [Profiles!Account -> Phone \cup {Nobody}] /\ claimed \subseteq Phone
      /\ joined \in [Register -> JoinedRow]
  BY <1>1, UpdateTyped DEF Registering, ProfilesInv, Profiles!TypeOK, Profiles!Account
<1>2. Profiles!TypeOK'
  <2>1. joined' \in [Register -> JoinedRow]
    <3> DEFINE row == [address |-> register[r].address, certificate |-> register[r].name]
    <3>1. row \in JoinedRow
      BY <1>1 DEF Registering, JoinedRow
    <3>2. joined' = joined \/ joined' = [joined EXCEPT ![r] = row]
      BY <1>0, <1>r
    <3> HIDE DEF row
    <3> QED BY <1>p, <3>1, <3>2
  <2>2. phone' \in [Profiles!Account -> Phone \cup {Nobody}] /\ claimed' \subseteq Phone
    BY <1>0, <1>r, <1>p
  <2> QED BY <1>0, <1>1, <2>1, <2>2 DEF ProfilesInv, Profiles!TypeOK, Registering, JoinedRow
<1>3. UpdatesFit'
  BY <1>0, <1>1, AccountAssumption DEF ProfilesInv,
     Profiles!ProfilesAreSound, UpdatesFit
<1>4. UpdatesAlternate'
  BY <1>0, <1>1, AccountAssumption DEF ProfilesInv,
     Profiles!ProfilesAreSound, UpdatesAlternate, Profiles!Running, UpdatesFit
<1>5. FilesTrace'
  BY <1>0, <1>1, AccountAssumption DEF ProfilesInv,
     Profiles!ProfilesAreSound, FilesTrace, FileOf, Profiles!Running, UpdatesFit
<1>6. FilesChange'
  BY <1>0, <1>1, AccountAssumption DEF ProfilesInv,
     Profiles!ProfilesAreSound, FilesChange, UpdatesFit
<1>7. NumbersFree'
  <2>1. CASE UNCHANGED <<joined, phone, claimed>>
    BY <1>0, <2>1 DEF ProfilesInv, NumbersFree, Checked
  <2>2. CASE Profiles!CreateRow(r)
    <3>1. claimed \subseteq claimed'
      BY <1>r, <2>2
    <3>2. ASSUME NEW x \in Update, Checked(x), update[x].phone \notin claimed',
                 NEW u \in Profiles!Account \ {update[x].user}
          PROVE  phone'[u] # update[x].phone
      <4>1. phone[u] # update[x].phone
        BY <3>1, <3>2 DEF ProfilesInv, NumbersFree
      <4>2. register[r].phone # update[x].phone
        BY <1>r, <2>2, <3>2 DEF Checked, Profiles!Writers
      <4> QED BY <1>r, <1>p, <2>2, <4>1, <4>2
    <3>3. \A x, y \in Update :
            Checked(x) /\ Checked(y) /\ update[x].phone = update[y].phone
              => update[x].user = update[y].user \/ update[x].phone \in claimed'
      BY <3>1 DEF ProfilesInv, NumbersFree
    <3> QED BY <1>0, <3>2, <3>3 DEF NumbersFree, Checked
  <2> QED BY <1>0, <2>1, <2>2
<1>8. CertificatesFit'
  <2>1. /\ register'[r].pc = "done" /\ register'[r].name = register[r].name
        /\ \A s \in Register \ {r} : register'[s] = register[s]
    BY <1>0, <1>1 DEF Registering
  <2>2. /\ joined'[r].certificate = joined[r].certificate
           \/ joined'[r].certificate = register[r].name
        /\ \A s \in Register \ {r} : joined'[s] = joined[s]
    BY <1>0, <1>r, <1>p DEF JoinedRow
  <2> QED BY <1>0, <2>1, <2>2 DEF ProfilesInv, CertificatesFit
<1>9. Profiles!AvatarIsStoredAlone'
  BY <1>0, <1>1, AccountAssumption DEF ProfilesInv,
     Profiles!ProfilesAreSound, Profiles!AvatarIsStoredAlone
<1>10. Profiles!NoAvatarIsLeftAlone'
  BY <1>0, <1>1, AccountAssumption DEF ProfilesInv,
     Profiles!ProfilesAreSound, Profiles!NoAvatarIsLeftAlone
<1>11. Profiles!NumberIsUniqueAlone'
  <2>1. CASE UNCHANGED <<joined, phone, claimed>>
    BY <2>1 DEF ProfilesInv, Profiles!ProfilesAreSound, Profiles!NumberIsUniqueAlone
  <2>2. CASE Profiles!CreateRow(r)
    <3>1. \A u \in Profiles!Account \ {r} :
            phone[u] = register[r].phone => phone[u] = Nobody \/ phone[u] \in claimed'
      BY <1>r, <2>2 DEF Profiles!Free
    <3> QED BY <1>r, <1>p, <2>2, <3>1 DEF ProfilesInv, Profiles!ProfilesAreSound,
               Profiles!NumberIsUniqueAlone
  <2> QED BY <1>0, <2>1, <2>2
<1>12. Profiles!CertificateIsStored'
  <2>1. CertificatesFit'
    BY <1>8
  <2> QED BY <2>1 DEF CertificatesFit, Profiles!CertificateIsStored
<1> QED BY <1>2, <1>3, <1>4, <1>5, <1>6, <1>7, <1>8, <1>9, <1>10, <1>11, <1>12 DEF ProfilesInv,
           Profiles!ProfilesAreSound

\* The invariant holds before any request.
LEMMA ProfilesStart == Profiles!Init => ProfilesInv
<1> SUFFICES ASSUME Profiles!Init PROVE ProfilesInv
  OBVIOUS
<1>1. Profiles!TypeOK
  BY AccountAssumption DEF Profiles!Init, Profiles!TypeOK, Profiles!IdleUpdate,
     Profiles!IdleRegister, Profiles!NotJoined
<1>2. UpdatesFit /\ UpdatesAlternate /\ FilesTrace /\ FilesChange /\ NumbersFree
  BY AccountAssumption DEF Profiles!Init, Profiles!IdleUpdate, UpdatesFit, UpdatesAlternate,
     FilesTrace, FileOf,
                           FilesChange, NumbersFree, Checked, Profiles!Running
<1>3. CertificatesFit /\ Profiles!CertificateIsStored
  BY DEF Profiles!Init, Profiles!NotJoined, Profiles!IdleRegister, CertificatesFit,
     Profiles!CertificateIsStored
<1>4. Profiles!AvatarIsStoredAlone /\ Profiles!NoAvatarIsLeftAlone
        /\ Profiles!NumberIsUniqueAlone
  BY DEF Profiles!Init, Profiles!AvatarIsStoredAlone, Profiles!NoAvatarIsLeftAlone,
     Profiles!NumberIsUniqueAlone
<1> QED BY <1>1, <1>2, <1>3, <1>4 DEF ProfilesInv, Profiles!ProfilesAreSound

\* The invariant holds on when nothing changes.
LEMMA ProfilesStand ==
    ASSUME ProfilesInv, UNCHANGED Profiles!vars PROVE ProfilesInv'
<1>1. Profiles!TypeOK' /\ UpdatesFit' /\ UpdatesAlternate' /\ FilesTrace'
  BY DEF Profiles!vars, ProfilesInv, Profiles!TypeOK, UpdatesFit, UpdatesAlternate, FilesTrace,
     FileOf, Profiles!Running
<1>2. FilesChange' /\ NumbersFree' /\ CertificatesFit'
  BY DEF Profiles!vars, ProfilesInv, FilesChange, NumbersFree, Checked, CertificatesFit
<1>3. Profiles!ProfilesAreSound'
  BY DEF Profiles!vars, ProfilesInv, Profiles!ProfilesAreSound, Profiles!AvatarIsStoredAlone,
     Profiles!NoAvatarIsLeftAlone,
         Profiles!NumberIsUniqueAlone, Profiles!CertificateIsStored
<1> QED BY <1>1, <1>2, <1>3 DEF ProfilesInv

\* Rows and files agree: what a row names is stored and what is stored is named,
\* but for the races, clashes and faults the histories record.
LEMMA ProfilesAlone == Profiles!Spec => []Profiles!TypeOK /\ []Profiles!ProfilesAreSound
<1>1. Profiles!Init => ProfilesInv
  BY ProfilesStart
<1>2. ProfilesInv /\ [Profiles!Next]_Profiles!vars => ProfilesInv'
  <2> SUFFICES ASSUME ProfilesInv, [Profiles!Next]_Profiles!vars PROVE ProfilesInv'
    OBVIOUS
  <2>1. ASSUME NEW x \in Update, NEW u \in Profiles!Account, NEW p \in Phone \cup {Nobody},
               NEW image \in BOOLEAN, Profiles!Read(x, u, p, image)
        PROVE  ProfilesInv'
    BY <2>1, ReadKeeps
  <2>2. ASSUME NEW x \in Update,
               \/ Profiles!CheckNumber(x) \/ Profiles!DeleteOld(x)
               \/ Profiles!Write(x) \/ Profiles!UpdateFails(x)
        PROVE  ProfilesInv'
    BY <2>2, CheckNumberKeeps, DeleteOldKeeps, WriteKeeps, UpdateFailsKeeps
  <2>3. ASSUME NEW x \in Update, NEW n \in Name,
               Profiles!PutNew(x, n) \/ Profiles!PutFails(x, n)
        PROVE  ProfilesInv'
    BY <2>3, PutNewKeeps, PutFailsKeeps
  <2>4. ASSUME NEW r \in Register, NEW a \in Mailbox, NEW p \in Phone \cup {Nobody},
               Profiles!CheckAddress(r, a, p)
        PROVE  ProfilesInv'
    BY <2>4, CheckAddressKeeps
  <2>5. ASSUME NEW r \in Register, NEW n \in Name,
               Profiles!PutCertificate(r, n) \/ Profiles!CertificateFails(r, n)
        PROVE  ProfilesInv'
    BY <2>5, PutCertificateKeeps, CertificateFailsKeeps
  <2>6. ASSUME NEW r \in Register, Profiles!CreateAccount(r)
        PROVE  ProfilesInv'
    BY <2>6, CreateAccountKeeps
  <2>7. CASE UNCHANGED Profiles!vars
    BY <2>7, ProfilesStand
  <2> QED BY <2>1, <2>2, <2>3, <2>4, <2>5, <2>6, <2>7 DEF Profiles!Next
<1>3. ProfilesInv => Profiles!TypeOK /\ Profiles!ProfilesAreSound
  BY DEF ProfilesInv
<1> QED BY <1>1, <1>2, <1>3, PTL DEF Profiles!Spec

\* A row and the files beside it agree and a number is one account's, each unless
\* requests overlapped, names clashed or a fault hit the account.
THEOREM ProfilesHold == AccountSpec => []ProfilesAreSound
BY PartsBehave, ProfilesAlone, PTL DEF ProfilesAreSound

-----------------------------------------------------------------------------
(* The first accounts.                                                     *)

\* The columns of accounts, runs and requests.
UserRow == [state : {"none", "live", "deleted"}, email : Rosters!Address \cup {Nobody},
            username : Rosters!Seeded \cup {Nobody}, type : Rosters!Type \cup {Nobody},
            plan : Rosters!Plan \cup {Nobody}, agent : Row \cup {Nobody}, approved : BOOLEAN]
RunRow == [pc : {"idle", "plans", "roles", "look", "users", "read", "map", "done", "failed"},
           step : Nat, found : {"ask", "yes", "no"}, agent : Row \cup {Nobody},
           users : [Rosters!Seeded -> Row \cup {Nobody}]]
RequestRow == [pc : {"idle", "create", "update", "approve", "reject", "done"},
               id : Row \cup {Nobody}, email : Rosters!Address \cup {Nobody},
               type : Rosters!Type \cup {Nobody}]

\* Where a run is in its lists.
StepsFit ==
    \A r \in Run :
        /\ seed[r].pc = "plans" => seed[r].step \in DOMAIN Plans
        /\ seed[r].pc = "roles" => seed[r].step \in DOMAIN Roles
        /\ seed[r].pc \in {"users", "map"} => seed[r].step \in DOMAIN Seeds
        /\ seed[r].pc \in {"idle", "look", "read"} => seed[r].step = 1
        /\ seed[r].pc = "idle" => seed[r].found = "ask" /\ touched[r] = {}

\* What the administrators' requests have at each step.
AdminFits ==
    \A q \in Request :
        /\ admin[q].pc = "create" => admin[q].email \in Rosters!Address
        /\ admin[q].pc \in {"update", "approve", "reject"} => admin[q].id \in Row

\* The state keeps its shape, and whatever is in progress is at a place of its own.
RosterTyped == Rosters!TypeOK /\ StepsFit /\ AdminFits

\* The addresses a run has written, and those it has given their role.
WrittenBy(r) ==
    {e \in Rosters!Seeded : \/ seed[r].pc \in {"read", "map", "done"}
                            \/ /\ seed[r].pc = "users"
                               /\ \E j \in 1..(seed[r].step - 1) : Seeds[j] = e}
MappedBy(r) ==
    {e \in Rosters!Seeded : \/ seed[r].pc = "done"
                            \/ /\ seed[r].pc = "map"
                               /\ \E j \in 1..(seed[r].step - 1) : Seeds[j] = e}

\* An address is one account's, a seeded name is at home unless it moved, roles are
\* those of accounts that exist, and what a run has read was an account once.
RowsFit ==
    /\ \A u \in Row : IF Rosters!Exists(u) THEN user[u].email \in Rosters!Address
                     ELSE user[u].email = Nobody /\ user[u].username = Nobody
    /\ \A u, v \in Row : user[u].email = user[v].email => u = v \/ user[u].email = Nobody
    /\ \A u \in Row : user[u].username # Nobody =>
                       user[u].email = user[u].username \/ moved # {}
    /\ \A p \in roleUser : Rosters!Exists(p[2])
    /\ \A r \in Run, e \in Rosters!Seeded :
         seed[r].pc = "map" /\ seed[r].users[e] # Nobody =>
            user[seed[r].users[e]].state # "none"

\* What the runs have put in the lists; one that is alone found them as they are.
ListsFit ==
    \A r \in Run :
        /\ seed[r].pc = "plans" =>
             /\ \A j \in 1..(seed[r].step - 1) : Plans[j] \in plan
             /\ seed[r].found = "no" /\ r \notin together => Plans[seed[r].step] \notin plan
        /\ seed[r].pc \in {"roles", "look", "users", "read", "map", "done"}
               => Rosters!Plan \subseteq plan
        /\ seed[r].pc = "roles" =>
             /\ \A j \in 1..(seed[r].step - 1) : Roles[j] \in role
             /\ seed[r].found = "no" /\ r \notin together => Roles[seed[r].step] \notin role
        /\ seed[r].pc \in {"look", "users", "read", "map", "done"}
               => Rosters!Type \subseteq role

\* Runs beside one another know of each other, and what is touched during the later of
\* two others is touched during the earlier.
RunsFit ==
    \A r \in Run, s \in Rosters!Running :
        \/ r = s \/ seed[r].pc = "idle"
        \/ r \in together /\ s \in together
        \/ r \notin Rosters!Running /\ touched[s] \subseteq touched[r]

\* The type of what a run has written or read.
TypesFollow ==
    \A r \in Rosters!Running, e \in Rosters!Seeded, u \in Row :
        /\ \/ e \in WrittenBy(r) /\ user[u].email = e
           \/ seed[r].pc = "map" /\ seed[r].users[e] = u /\ Rosters!Exists(u)
        => user[u].type = TypeOf[e] \/ u \in retyped \cup newcomer

\* While no seeded account has moved, what a run has written or read is at home.
AtHome ==
    moved = {} =>
        \A r \in Run, e \in Rosters!Seeded :
            /\ e \in WrittenBy(r) => \E u \in Row : user[u].email = e /\ user[u].username = e
            /\ seed[r].pc = "map" /\ seed[r].users[e] # Nobody =>
                 Rosters!Exists(seed[r].users[e]) /\ user[seed[r].users[e]].username = e

\* The agent a run was told of.
AgentFits ==
    \A r \in Run :
        seed[r].pc = "users" /\ Agent \in WrittenBy(r) \ touched[r] =>
            seed[r].agent \in Rosters!Holders(Agent)

\* What a run has written, as it is for as long as nobody touches it.
AsWritten(e, u) ==
    /\ user[u].email = e /\ user[u].username = e /\ user[u].type = TypeOf[e]
HasAgent(e, u) == Rosters!IsClient(e)
    => user[u].plan = PlanOf[e] /\ user[u].agent \in Rosters!Holders(Agent)
StaysWritten ==
    \A r \in Run : \A e \in WrittenBy(r) \ Rosters!Changed(r) :
        \E u \in Row : AsWritten(e, u) /\ (Agent \notin Rosters!Changed(r) => HasAgent(e, u))

\* So do the roles.
StaysMapped ==
    \A r \in Run :
        /\ seed[r].pc = "map" =>
             \A e \in Rosters!Seeded \ Rosters!Changed(r) :
                 seed[r].users[e] \in Rosters!Holders(e)
        /\ \A e \in MappedBy(r) \ Rosters!Changed(r), u \in Row :
             user[u].email = e => <<TypeOf[e], u>> \in roleUser

\* The inductive invariant.
RosterInv ==
    /\ RosterTyped /\ RowsFit /\ ListsFit /\ RunsFit /\ TypesFollow /\ AtHome
    /\ AgentFits /\ StaysWritten /\ StaysMapped
    /\ Rosters!RolesFollowTypeAlone /\ Rosters!RerunSucceedsAlone

\* The lists hold something.
LEMMA ListFacts ==
    /\ DOMAIN Plans = 1..Len(Plans) /\ Len(Plans) \in Nat \ {0}
    /\ DOMAIN Roles = 1..Len(Roles) /\ Len(Roles) \in Nat \ {0}
    /\ DOMAIN Seeds = 1..Len(Seeds) /\ Len(Seeds) \in Nat \ {0}
BY SeedAssumption

\* The next entry of a list, or the next phase.
LEMMA StepOn ==
    ASSUME NEW S, NEW list \in Seq(S), NEW s \in RunRow, s.step \in DOMAIN list, NEW next
    PROVE  /\ Rosters!Step(s, list, next).found = "ask"
           /\ Rosters!Step(s, list, next).agent = s.agent
           /\ Rosters!Step(s, list, next).users = s.users
           /\ \/ /\ Rosters!Step(s, list, next).pc = s.pc
                 /\ Rosters!Step(s, list, next).step = s.step + 1
                 /\ s.step + 1 \in DOMAIN list
                 /\ Rosters!Step(s, list, next) \in RunRow
              \/ /\ Rosters!Step(s, list, next).pc = next
                 /\ Rosters!Step(s, list, next).step = 1
                 /\ \A j \in DOMAIN list : j <= s.step
                 /\ next \in {"roles", "look", "read", "done"} =>
                      Rosters!Step(s, list, next) \in RunRow
<1>1. DOMAIN list = 1..Len(list) /\ Len(list) \in Nat
  OBVIOUS
<1>2. CASE s.step < Len(list)
  <2>1. Rosters!Step(s, list, next) = [s EXCEPT !.step = s.step + 1, !.found = "ask"]
    BY <1>2 DEF Rosters!Step
  <2>2. s.step \in 1..Len(list) /\ s.step + 1 \in 1..Len(list) /\ s.step + 1 \in Nat
    BY <1>1, <1>2 DEF RunRow
  <2>3. /\ Rosters!Step(s, list, next) \in RunRow
        /\ Rosters!Step(s, list, next).pc = s.pc
        /\ Rosters!Step(s, list, next).step = s.step + 1
        /\ Rosters!Step(s, list, next).found = "ask"
        /\ Rosters!Step(s, list, next).agent = s.agent
        /\ Rosters!Step(s, list, next).users = s.users
    BY <2>1, <2>2 DEF RunRow
  <2> QED BY <1>1, <2>2, <2>3
<1>3. CASE ~(s.step < Len(list))
  <2>1. Rosters!Step(s, list, next) = [s EXCEPT !.pc = next, !.step = 1, !.found = "ask"]
    BY <1>3 DEF Rosters!Step
  <2>2. s.step \in 1..Len(list) /\ \A j \in 1..Len(list) : j <= s.step
    BY <1>1, <1>3 DEF RunRow
  <2>3. /\ Rosters!Step(s, list, next).pc = next /\ Rosters!Step(s, list, next).step = 1
        /\ Rosters!Step(s, list, next).found = "ask"
        /\ Rosters!Step(s, list, next).agent = s.agent
        /\ Rosters!Step(s, list, next).users = s.users
    BY <2>1 DEF RunRow
  <2>4. next \in {"roles", "look", "read", "done"} => Rosters!Step(s, list, next) \in RunRow
    <3> SUFFICES ASSUME next \in {"roles", "look", "read", "done"}
                 PROVE  [s EXCEPT !.pc = next, !.step = 1, !.found = "ask"] \in RunRow
      BY <2>1
    <3> QED BY DEF RunRow
  <2> QED BY <1>1, <2>2, <2>3, <2>4
<1> QED BY <1>2, <1>3

\* A step of a run leaves the other runs and the administrators alone.
LEMMA RunMoves ==
    ASSUME RosterTyped, NEW r \in Run, Rosters!RunStep(r)
    PROVE  /\ seed' \in [Run -> RunRow]
           /\ \A s \in Run \ {r} : seed'[s] = seed[s]
           /\ UNCHANGED <<admin, touched, moved, newcomer>>
           /\ together \subseteq together' /\ cut \subseteq cut'
           /\ seed'[r].pc = "plans" => seed'[r].step \in DOMAIN Plans
           /\ seed'[r].pc = "roles" => seed'[r].step \in DOMAIN Roles
           /\ seed'[r].pc \in {"users", "map"} => seed'[r].step \in DOMAIN Seeds
           /\ seed'[r].pc \in {"look", "read"} => seed'[r].step = 1
           /\ seed'[r].pc # "idle"
<1>0. seed \in [Run -> RunRow] /\ seed[r] \in RunRow
  BY DEF RosterTyped, Rosters!TypeOK, RunRow
<1> USE DEF Rosters!stores, Rosters!changes
<1>1. CASE Rosters!Start(r)
  <2>1. /\ seed' = [seed EXCEPT ![r].pc = "plans"] /\ seed[r].pc = "idle"
        /\ together \subseteq together'
        /\ UNCHANGED <<admin, touched, moved, newcomer, cut>>
    BY <1>1 DEF Rosters!Start
  <2>2. seed[r].step = 1
    BY <2>1 DEF RosterTyped, StepsFit
  <2>3. [seed[r] EXCEPT !.pc = "plans"] \in RunRow
    BY <1>0 DEF RunRow
  <2>4. /\ seed'[r] = [seed[r] EXCEPT !.pc = "plans"]
        /\ seed' \in [Run -> RunRow] /\ \A s \in Run \ {r} : seed'[s] = seed[s]
    BY <1>0, <2>1, <2>3
  <2>5. seed'[r].pc = "plans" /\ seed'[r].step = 1
    BY <1>0, <2>2, <2>4 DEF RunRow
  <2>6. 1 \in DOMAIN Plans
    BY ListFacts
  <2> QED BY <2>1, <2>4, <2>5, <2>6
<1>2. CASE Rosters!FindPlan(r)
  BY <1>0, <1>2 DEF Rosters!FindPlan, RosterTyped, StepsFit, RunRow
<1>3. CASE Rosters!WritePlan(r)
  <2>1. seed[r].pc = "plans" /\ seed[r].step \in DOMAIN Plans
    BY <1>3 DEF Rosters!WritePlan, RosterTyped, StepsFit
  <2>2. /\ \A s \in Run \ {r} : seed'[s] = seed[s]
        /\ \/ seed' = [seed EXCEPT ![r] = [seed[r] EXCEPT !.pc = "failed"]]
           \/ seed' = [seed EXCEPT ![r] = Rosters!Step(seed[r], Plans, "roles")]
    BY <1>0, <1>3 DEF Rosters!WritePlan
  <2>3. UNCHANGED <<admin, touched, moved, newcomer, together, cut>>
    BY <1>3 DEF Rosters!WritePlan
  <2> HIDE DEF Rosters!stores, Rosters!changes
  <2>4. CASE seed' = [seed EXCEPT ![r] = [seed[r] EXCEPT !.pc = "failed"]]
    BY <1>0, <2>2, <2>3, <2>4 DEF RunRow
  <2>5. CASE seed' = [seed EXCEPT ![r] = Rosters!Step(seed[r], Plans, "roles")]
    <3>1. Plans \in Seq(Rosters!Plan)
      BY SeedAssumption
    <3>2. seed'[r] = Rosters!Step(seed[r], Plans, "roles")
      BY <1>0, <2>5
    <3>3. /\ seed'[r] \in RunRow /\ seed'[r].pc \in {"plans", "roles"}
          /\ seed'[r].pc = "plans" => seed'[r].step \in DOMAIN Plans
          /\ seed'[r].pc = "roles" => seed'[r].step = 1
      BY <1>0, <2>1, <3>1, <3>2, StepOn, SMTT(20)
    <3> QED BY <1>0, <2>2, <2>3, <2>5, <3>2, <3>3, ListFacts
  <2> QED BY <2>2, <2>4, <2>5
<1>4. CASE Rosters!FindRole(r)
  BY <1>0, <1>4 DEF Rosters!FindRole, RosterTyped, StepsFit, RunRow
<1>5. CASE Rosters!WriteRole(r)
  <2>1. seed[r].pc = "roles" /\ seed[r].step \in DOMAIN Roles
    BY <1>5 DEF Rosters!WriteRole, RosterTyped, StepsFit
  <2>2. /\ \A s \in Run \ {r} : seed'[s] = seed[s]
        /\ \/ seed' = [seed EXCEPT ![r] = [seed[r] EXCEPT !.pc = "failed"]]
           \/ seed' = [seed EXCEPT ![r] = Rosters!Step(seed[r], Roles, "look")]
    BY <1>0, <1>5 DEF Rosters!WriteRole
  <2>3. UNCHANGED <<admin, touched, moved, newcomer, together, cut>>
    BY <1>5 DEF Rosters!WriteRole
  <2> HIDE DEF Rosters!stores, Rosters!changes
  <2>4. CASE seed' = [seed EXCEPT ![r] = [seed[r] EXCEPT !.pc = "failed"]]
    BY <1>0, <2>2, <2>3, <2>4 DEF RunRow
  <2>5. CASE seed' = [seed EXCEPT ![r] = Rosters!Step(seed[r], Roles, "look")]
    <3>1. Roles \in Seq(Rosters!Type)
      BY SeedAssumption
    <3>2. seed'[r] = Rosters!Step(seed[r], Roles, "look")
      BY <1>0, <2>5
    <3>3. /\ seed'[r] \in RunRow /\ seed'[r].pc \in {"roles", "look"}
          /\ seed'[r].pc = "roles" => seed'[r].step \in DOMAIN Roles
          /\ seed'[r].pc = "look" => seed'[r].step = 1
      BY <1>0, <2>1, <3>1, <3>2, StepOn, SMTT(20)
    <3> QED BY <1>0, <2>2, <2>3, <2>5, <3>2, <3>3, ListFacts
  <2> QED BY <2>2, <2>4, <2>5
<1>6. CASE Rosters!LookUpPlans(r)
  BY <1>0, <1>6, ListFacts DEF Rosters!LookUpPlans, RosterTyped, StepsFit, RunRow
<1>7. CASE Rosters!UpsertUser(r)
  <2>1. seed[r].pc = "users" /\ seed[r].step \in DOMAIN Seeds
    BY <1>7 DEF Rosters!UpsertUser, RosterTyped, StepsFit
  <2> DEFINE t == Rosters!Step(seed[r], Seeds, "read")
  <2>2. PICK u \in Row :
          \/ seed' = [seed EXCEPT ![r].pc = "failed"]
          \/ seed' = [seed EXCEPT ![r] = [t EXCEPT
                         !.agent = IF Seeds[seed[r].step] = Agent THEN u ELSE t.agent]]
    <3> DEFINE e == Seeds[seed[r].step]
    <3>1. PICK u \in IF Rosters!Holders(e) # {} THEN Rosters!Holders(e) ELSE Rosters!Fresh :
            \/ seed' = [seed EXCEPT ![r].pc = "failed"]
            \/ seed' = [seed EXCEPT ![r] = [t EXCEPT !.agent = IF e = Agent THEN u ELSE @]]
      BY <1>7 DEF Rosters!UpsertUser
    <3>2. u \in Row
      BY DEF Rosters!Holders, Rosters!Fresh, Rosters!Unused
    <3> HIDE DEF t, e
    <3>3. e = Seeds[seed[r].step]
      BY DEF e
    <3> QED BY <3>1, <3>2, <3>3
  <2>3. UNCHANGED <<admin, touched, moved, newcomer, together, cut>>
    BY <1>7 DEF Rosters!UpsertUser
  <2> HIDE DEF Rosters!stores, Rosters!changes
  <2>4. CASE seed' = [seed EXCEPT ![r].pc = "failed"]
    BY <1>0, <2>3, <2>4 DEF RunRow
  <2>5. CASE seed' = [seed EXCEPT ![r] = [t EXCEPT
                        !.agent = IF Seeds[seed[r].step] = Agent THEN u ELSE t.agent]]
    <3>1. Seeds \in Seq(Rosters!Seeded)
      BY SeedAssumption
    <3>2. PICK a \in Row \cup {Nobody} : seed' = [seed EXCEPT ![r] = [t EXCEPT !.agent = a]]
      BY <1>0, <2>1, <2>5, <3>1, StepOn DEF RunRow
    <3>3. /\ t \in RunRow /\ t.pc \in {"users", "read"}
          /\ t.pc = "users" => t.step \in DOMAIN Seeds
          /\ t.pc = "read" => t.step = 1
      BY <1>0, <2>1, <3>1, StepOn, SMTT(20)
    <3> HIDE DEF t
    <3>4. /\ seed'[r] \in RunRow /\ seed'[r].pc = t.pc /\ seed'[r].step = t.step
          /\ seed' \in [Run -> RunRow] /\ \A o \in Run \ {r} : seed'[o] = seed[o]
      BY <1>0, <3>2, <3>3 DEF RunRow
    <3> QED BY <2>3, <3>3, <3>4
  <2> QED BY <2>2, <2>4, <2>5
<1>8. CASE Rosters!ReadUsers(r)
  <2>1. seed' = [seed EXCEPT ![r].pc = "map", ![r].users = seed'[r].users]
    BY <1>0, <1>8 DEF Rosters!ReadUsers
  <2>2. seed'[r].users \in [Rosters!Seeded -> Row \cup {Nobody}]
    <3>1. seed'[r].users = [e \in Rosters!Seeded |-> IF Rosters!Holders(e) = {} THEN Nobody
                                             ELSE CHOOSE u \in Rosters!Holders(e) : TRUE]
      BY <1>0, <1>8 DEF Rosters!ReadUsers, RunRow
    <3>2. \A e \in Rosters!Seeded : Rosters!Holders(e) # {} =>
            (CHOOSE u \in Rosters!Holders(e) : TRUE) \in Row
      BY DEF Rosters!Holders
    <3> QED BY <3>1, <3>2
  <2>3. seed[r].step = 1 /\ UNCHANGED <<admin, touched, moved, newcomer, together, cut>>
    BY <1>8 DEF Rosters!ReadUsers, RosterTyped, StepsFit
  <2>4. seed'[r] \in RunRow /\ seed'[r].pc = "map" /\ seed'[r].step = 1
        /\ \A s \in Run \ {r} : seed'[s] = seed[s]
    BY <1>0, <2>1, <2>2, <2>3 DEF RunRow
  <2>5. seed' \in [Run -> RunRow]
    BY <1>0, <2>1, <2>4
  <2> QED BY <2>3, <2>4, <2>5, ListFacts
<1>9. CASE Rosters!MapRole(r)
  <2>1. seed[r].pc = "map" /\ seed[r].step \in DOMAIN Seeds
    BY <1>9 DEF Rosters!MapRole, RosterTyped, StepsFit
  <2>2. \/ seed' = [seed EXCEPT ![r].pc = "failed"]
        \/ seed' = [seed EXCEPT ![r] = Rosters!Step(seed[r], Seeds, "done")]
    BY <1>0, <1>9 DEF Rosters!MapRole
  <2>3. UNCHANGED <<admin, touched, moved, newcomer, together, cut>>
    BY <1>9 DEF Rosters!MapRole
  <2> HIDE DEF Rosters!stores, Rosters!changes
  <2>4. CASE seed' = [seed EXCEPT ![r].pc = "failed"]
    BY <1>0, <2>3, <2>4 DEF RunRow
  <2>5. CASE seed' = [seed EXCEPT ![r] = Rosters!Step(seed[r], Seeds, "done")]
    <3>1. Seeds \in Seq(Rosters!Seeded)
      BY SeedAssumption
    <3>2. seed'[r] = Rosters!Step(seed[r], Seeds, "done")
      BY <1>0, <2>5
    <3>3. /\ seed'[r] \in RunRow /\ seed'[r].pc \in {"map", "done"}
          /\ seed'[r].pc = "map" => seed'[r].step \in DOMAIN Seeds
      BY <1>0, <2>1, <3>1, <3>2, StepOn, SMTT(20)
    <3> QED BY <1>0, <2>3, <2>5, <3>2, <3>3
  <2> QED BY <2>2, <2>4, <2>5
<1>10. CASE Rosters!CutOff(r)
  BY <1>0, <1>10 DEF Rosters!CutOff, RunRow
<1> QED BY <1>1, <1>2, <1>3, <1>4, <1>5, <1>6, <1>7, <1>8, <1>9, <1>10 DEF Rosters!RunStep

\* What Upsert writes is a row.
LEMMA CreatedIsRow ==
    ASSUME user \in [Row -> UserRow], NEW u \in Row, NEW e \in Rosters!Seeded,
           NEW a \in Row \cup {Nobody}
    PROVE  /\ Rosters!Created(u, e, a) \in UserRow
           /\ Rosters!Created(u, e, a).state = "live" /\ Rosters!Created(u, e, a).email = e
           /\ Rosters!Created(u, e, a).username = e /\ Rosters!Created(u, e, a).type = TypeOf[e]
           /\ Rosters!IsClient(e) => /\ Rosters!Created(u, e, a).plan = PlanOf[e]
                                     /\ Rosters!Created(u, e, a).agent = a
<1>1. Rosters!NoRow \in UserRow /\ user[u] \in UserRow
  BY DEF Rosters!NoRow, UserRow
<1>2. e \in Rosters!Address /\ TypeOf[e] \in Rosters!Type
        /\ PlanOf[e] \in Rosters!Plan \cup {Nobody}
  BY SeedAssumption DEF Rosters!Address
<1>3. ASSUME NEW row \in UserRow
      PROVE  /\ Rosters!Written(row, e, a) \in UserRow
             /\ Rosters!Written(row, e, a).state = "live"
             /\ Rosters!Written(row, e, a).email = e
             /\ Rosters!Written(row, e, a).username = e
             /\ Rosters!Written(row, e, a).type = TypeOf[e]
             /\ Rosters!IsClient(e) => /\ Rosters!Written(row, e, a).plan = PlanOf[e]
                                       /\ Rosters!Written(row, e, a).agent = a
  <2>1. CASE Rosters!IsClient(e)
    <3>1. Rosters!Written(row, e, a) =
            [row EXCEPT !.state = "live", !.email = e, !.username = e,
                        !.type = TypeOf[e], !.plan = PlanOf[e], !.agent = a]
      BY <2>1 DEF Rosters!Written
    <3> QED BY <1>2, <3>1 DEF UserRow
  <2>2. CASE ~Rosters!IsClient(e)
    <3>1. Rosters!Written(row, e, a) =
            [row EXCEPT !.state = "live", !.email = e, !.username = e, !.type = TypeOf[e]]
      BY <2>2 DEF Rosters!Written, UserRow
    <3> QED BY <1>2, <2>2, <3>1 DEF UserRow
  <2> QED BY <2>1, <2>2
<1>4. \E row \in UserRow : Rosters!Created(u, e, a) = Rosters!Written(row, e, a)
  BY <1>1 DEF Rosters!Created, Rosters!Updated
<1> QED BY <1>3, <1>4

\* What a step of a run makes of the stores keeps their shape.
LEMMA RunTyped ==
    ASSUME RosterTyped, NEW r \in Run, Rosters!RunStep(r)
    PROVE  /\ plan' \subseteq Rosters!Plan /\ role' \subseteq Rosters!Type
             /\ user' \in [Row -> UserRow]
           /\ roleUser' \subseteq Rosters!Type \X Row
           /\ retyped' \subseteq Row /\ together' \subseteq Run /\ cut' \subseteq Run
<1>0. /\ plan \subseteq Rosters!Plan /\ role \subseteq Rosters!Type /\ user \in [Row -> UserRow]
      /\ roleUser \subseteq Rosters!Type \X Row /\ seed[r] \in RunRow
      /\ retyped \subseteq Row /\ together \subseteq Run /\ cut \subseteq Run
  BY DEF RosterTyped, Rosters!TypeOK, UserRow, RunRow
<1> USE DEF Rosters!stores, Rosters!changes
<1>1. CASE Rosters!Start(r)
  BY <1>0, <1>1 DEF Rosters!Start, Rosters!Running
<1>2. CASE Rosters!FindPlan(r)
  BY <1>0, <1>2 DEF Rosters!FindPlan
<1>3. CASE Rosters!WritePlan(r)
  <2>1. Plans[seed[r].step] \in Rosters!Plan
    BY <1>3 DEF Rosters!WritePlan, RosterTyped, StepsFit, Rosters!Plan
  <2> QED BY <1>0, <1>3, <2>1 DEF Rosters!WritePlan
<1>4. CASE Rosters!FindRole(r)
  BY <1>0, <1>4 DEF Rosters!FindRole
<1>5. CASE Rosters!WriteRole(r)
  <2>1. Roles[seed[r].step] \in Rosters!Type
    BY <1>5 DEF Rosters!WriteRole, RosterTyped, StepsFit, Rosters!Type
  <2> QED BY <1>0, <1>5, <2>1 DEF Rosters!WriteRole
<1>6. CASE Rosters!LookUpPlans(r)
  BY <1>0, <1>6 DEF Rosters!LookUpPlans
<1>7. CASE Rosters!UpsertUser(r)
  <2> DEFINE e == Seeds[seed[r].step]
  <2>1. e \in Rosters!Seeded
    BY <1>7 DEF Rosters!UpsertUser, RosterTyped, StepsFit, Rosters!Seeded
  <2>2. PICK u \in Row :
          \/ UNCHANGED <<user, retyped>>
          \/ /\ user' = [user EXCEPT ![u] = Rosters!Created(u, e, seed[r].agent)]
             /\ retyped' \subseteq retyped \cup {u}
    BY <1>7 DEF Rosters!UpsertUser, Rosters!Holders, Rosters!Fresh, Rosters!Unused
  <2>3. Rosters!Created(u, e, seed[r].agent) \in UserRow
    BY <1>0, <2>1, CreatedIsRow DEF RunRow
  <2>4. user' \in [Row -> UserRow] /\ retyped' \subseteq Row
    BY <1>0, <2>2, <2>3
  <2> QED BY <1>0, <1>7, <2>4 DEF Rosters!UpsertUser
<1>8. CASE Rosters!ReadUsers(r)
  BY <1>0, <1>8 DEF Rosters!ReadUsers
<1>9. CASE Rosters!MapRole(r)
  <2>1. Seeds[seed[r].step] \in Rosters!Seeded
    BY <1>9 DEF Rosters!MapRole, RosterTyped, StepsFit, Rosters!Seeded
  <2>2. TypeOf[Seeds[seed[r].step]] \in Rosters!Type
    BY <2>1, SeedAssumption
  <2>3. seed[r].users[Seeds[seed[r].step]] \in Row \cup {Nobody}
    BY <1>0, <2>1 DEF RunRow
  <2> QED BY <1>0, <1>9, <2>2, <2>3 DEF Rosters!MapRole, Rosters!RoleOf
<1>10. CASE Rosters!CutOff(r)
  BY <1>0, <1>10 DEF Rosters!CutOff
<1> QED BY <1>1, <1>2, <1>3, <1>4, <1>5, <1>6, <1>7, <1>8, <1>9, <1>10 DEF Rosters!RunStep

\* Rows that agree in everything but their approval.
Alike(v) ==
    /\ user'[v].state = user[v].state /\ user'[v].email = user[v].email
    /\ user'[v].username = user[v].username /\ user'[v].type = user[v].type
    /\ user'[v].plan = user[v].plan /\ user'[v].agent = user[v].agent

\* The row of u changes: it stays where it is, comes to an address nobody holds, or goes.
RowMoves(u) ==
    /\ user' \in [Row -> UserRow]
    /\ \A v \in Row \ {u} : user'[v] = user[v]
    /\ roleUser' = {p \in roleUser : p[2] # u \/ Rosters!Exists(u)'}
    /\ user[u].state # "deleted" /\ user'[u].state # "none"
    /\ ~Rosters!Exists(u)' => Rosters!Exists(u)
    /\ IF Rosters!Exists(u)' THEN /\ user'[u].email \in Rosters!Address
                                  /\ Rosters!Holders(user'[u].email) \subseteq {u}
                                  /\ user'[u].username = user[u].username
                     ELSE user'[u].email = Nobody /\ user'[u].username = Nobody
    /\ \A r \in Run :
         touched'[r] = IF seed[r].pc # "idle"
                       THEN touched[r]
                              \cup ({user[u].username, user[u].email} \cap Rosters!Seeded)
                       ELSE touched[r]
    /\ moved \subseteq moved' /\ newcomer \subseteq newcomer' /\ retyped \subseteq retyped'
    /\ user[u].username # Nobody /\ user'[u].email # user[u].email => moved' # {}
    /\ user'[u].email \in Rosters!Seeded \ {user[u].email} /\ Rosters!Running # {}
         => u \in newcomer'
    /\ Rosters!Exists(u) /\ Rosters!Exists(u)' /\ user'[u].type # user[u].type => u \in retyped'
    /\ UNCHANGED <<plan, role, seed, together, cut>>

\* Only approvals and requests change.
RowsStand ==
    /\ user' \in [Row -> UserRow]
    /\ \A v \in Row : Alike(v)
    /\ UNCHANGED <<plan, role, roleUser, seed, touched, moved, newcomer, retyped, together,
                   cut>>

\* The history keeps its shape.
LEMMA TouchTyped ==
    ASSUME RosterTyped, NEW u \in Row, NEW arrives, NEW leaves, Rosters!Touch(u, arrives,
           leaves)
    PROVE  touched' \in [Run -> SUBSET Rosters!Seeded] /\ moved' \subseteq Rosters!Seeded
             /\ newcomer' \subseteq Row
<1>1. user[u].username \in Rosters!Seeded \cup {Nobody}
  BY DEF RosterTyped, Rosters!TypeOK
<1>2. /\ touched \in [Run -> SUBSET Rosters!Seeded] /\ moved \subseteq Rosters!Seeded
        /\ newcomer \subseteq Row
  BY DEF RosterTyped, Rosters!TypeOK
<1>3. \A r \in Run :
        (IF seed[r].pc # "idle"
         THEN touched[r] \cup ({user[u].username, user[u].email} \cap Rosters!Seeded)
         ELSE touched[r]) \in SUBSET Rosters!Seeded
  BY <1>2
<1> QED BY <1>1, <1>2, <1>3 DEF Rosters!Touch

\* What an owner or an administrator does is one of the two.
LEMMA OthersMove ==
    ASSUME RosterTyped, RowsFit,
           \/ \E u \in Row : Rosters!Leave(u)
           \/ \E q \in Request : Rosters!RequestStep(q)
           \/ \E u \in Row, t \in Rosters!Type : Rosters!Retype(u, t)
    PROVE  /\ RowsStand \/ \E u \in Row : RowMoves(u)
           /\ admin' \in [Request -> RequestRow] /\ AdminFits'
           /\ touched' \in [Run -> SUBSET Rosters!Seeded] /\ moved' \subseteq Rosters!Seeded
           /\ newcomer' \subseteq Row /\ retyped' \subseteq Row
<1>0. /\ user \in [Row -> UserRow] /\ roleUser \subseteq Rosters!Type \X Row
      /\ admin \in [Request -> RequestRow] /\ AdminFits
      /\ touched \in [Run -> SUBSET Rosters!Seeded] /\ moved \subseteq Rosters!Seeded
      /\ newcomer \subseteq Row /\ retyped \subseteq Row
  BY DEF RosterTyped, Rosters!TypeOK, UserRow, RequestRow
<1>a. \A p \in roleUser : Rosters!Exists(p[2])
  BY DEF RowsFit
<1>b. Rosters!Seeded \subseteq Rosters!Address /\ Nobody \notin Rosters!Address
  /\ Nobody \notin Rosters!Seeded
  BY SeedAssumption DEF Rosters!Address
<1>c. \A u \in Row : ~Rosters!Exists(u) => user[u].email = Nobody /\ user[u].username = Nobody
  BY DEF RowsFit
<1> USE DEF Rosters!stores, Rosters!changes
<1>1. ASSUME NEW u \in Row, Rosters!DeleteUser(u)
      PROVE  RowMoves(u) /\ UNCHANGED <<admin, retyped>> /\ Rosters!Touch(u, Nobody, TRUE)
  <2>1. /\ Rosters!Exists(u)
          /\ user' = [user EXCEPT ![u] = [Rosters!NoRow EXCEPT !.state = "deleted"]]
        /\ roleUser' = {p \in roleUser : p[2] # u} /\ Rosters!Touch(u, Nobody, TRUE)
        /\ UNCHANGED <<plan, role, seed, admin, retyped, together, cut>>
    BY <1>1 DEF Rosters!DeleteUser
  <2>2. [Rosters!NoRow EXCEPT !.state = "deleted"] \in UserRow
    BY DEF Rosters!NoRow, UserRow
  <2>3. user'[u] = [Rosters!NoRow EXCEPT !.state = "deleted"]
          /\ \A v \in Row \ {u} : user'[v] = user[v]
    BY <1>0, <2>1
  <2>4. user'[u].state = "deleted" /\ user'[u].email = Nobody /\ user'[u].username = Nobody
    BY <2>3 DEF Rosters!NoRow
  <2>5. user' \in [Row -> UserRow]
    BY <1>0, <2>1, <2>2
  <2> QED BY <1>b, <2>1, <2>3, <2>4, <2>5 DEF RowMoves, Rosters!Exists, Rosters!Touch
<1>2. ASSUME NEW u \in Row, NEW e \in Rosters!Address, Rosters!ChangeEmail(u, e)
      PROVE  RowMoves(u) /\ UNCHANGED <<admin, retyped>> /\ Rosters!Touch(u, e, TRUE)
  <2>1. /\ Rosters!Exists(u) /\ e # user[u].email /\ Rosters!Holders(e) = {}
        /\ user' = [user EXCEPT ![u].email = e] /\ Rosters!Touch(u, e, TRUE)
        /\ UNCHANGED <<plan, role, roleUser, seed, admin, retyped, together, cut>>
    BY <1>2 DEF Rosters!ChangeEmail
  <2>3. user'[u] = [user[u] EXCEPT !.email = e] /\ \A v \in Row \ {u} : user'[v] = user[v]
    BY <1>0, <2>1
  <2>4. /\ user'[u].email = e /\ user'[u].state = user[u].state /\ user'[u].type = user[u].type
        /\ user'[u].username = user[u].username /\ user'[u] \in UserRow
    BY <1>0, <2>3 DEF UserRow
  <2>5. user' \in [Row -> UserRow] /\ Rosters!Exists(u)' /\ user'[u].state = "live"
    BY <1>0, <2>1, <2>4 DEF Rosters!Exists
  <2>6. roleUser' = {p \in roleUser : p[2] # u \/ Rosters!Exists(u)'}
    BY <2>1, <2>5
  <2> QED BY <2>1, <2>3, <2>4, <2>5, <2>6 DEF RowMoves, Rosters!Touch
<1>r. ASSUME NEW u \in Row, NEW t \in Rosters!Type, Rosters!Retype(u, t)
      PROVE  /\ RowMoves(u) /\ admin' = admin /\ retyped' = retyped \cup {u}
             /\ Rosters!Touch(u, Nobody, FALSE)
  <2>1. /\ Rosters!Exists(u) /\ user' = [user EXCEPT ![u].type = t]
        /\ Rosters!Touch(u, Nobody, FALSE) /\ retyped' = retyped \cup {u}
        /\ UNCHANGED <<plan, role, roleUser, seed, admin, together, cut>>
    BY <1>r DEF Rosters!Retype
  <2>2. user'[u] = [user[u] EXCEPT !.type = t] /\ \A v \in Row \ {u} : user'[v] = user[v]
    BY <1>0, <2>1
  <2>3. /\ user'[u].email = user[u].email /\ user'[u].state = user[u].state
        /\ user'[u].type = t /\ user'[u].username = user[u].username
        /\ user'[u] \in UserRow
    BY <1>0, <2>2 DEF UserRow
  <2>4. user' \in [Row -> UserRow] /\ Rosters!Exists(u)' /\ user'[u].state = "live"
    BY <1>0, <2>1, <2>2, <2>3 DEF Rosters!Exists
  <2>5. /\ user'[u].email \in Rosters!Address
        /\ Rosters!Holders(user'[u].email) \subseteq {u}
    BY <1>b, <2>1, <2>3 DEF RowsFit, Rosters!Holders
  <2>6. roleUser' = {p \in roleUser : p[2] # u \/ Rosters!Exists(u)'}
    BY <2>1, <2>4
  <2> QED BY <2>1, <2>2, <2>3, <2>4, <2>5, <2>6 DEF RowMoves, Rosters!Touch
<1>3. ASSUME NEW q \in Request, NEW kind \in {"create", "update"}, NEW u \in Row \cup {Nobody},
             NEW e \in Rosters!Address \cup {Nobody}, NEW t \in Rosters!Type,
             Rosters!CheckEmail(q, kind, u, e, t)
      PROVE  RowsStand /\ admin' \in [Request -> RequestRow] /\ AdminFits'
  <2>1. RowsStand
    BY <1>0, <1>3 DEF Rosters!CheckEmail, RowsStand, Alike
  <2>2. admin' = [admin EXCEPT ![q] = [pc |-> kind, id |-> u, email |-> e, type |-> t]]
        /\ (kind = "create" <=> u = Nobody) /\ (kind = "create" => e # Nobody)
    BY <1>3 DEF Rosters!CheckEmail
  <2>3. [pc |-> kind, id |-> u, email |-> e, type |-> t] \in RequestRow
    BY DEF RequestRow
  <2>4. /\ admin'[q] = [pc |-> kind, id |-> u, email |-> e, type |-> t]
        /\ \A p \in Request \ {q} : admin'[p] = admin[p]
        /\ admin' \in [Request -> RequestRow]
    BY <1>0, <2>2, <2>3
  <2> QED BY <1>0, <2>1, <2>2, <2>4 DEF AdminFits
<1>4. ASSUME NEW q \in Request, NEW kind \in {"approve", "reject"}, NEW u \in Row,
             Rosters!CheckApproval(q, kind, u)
      PROVE  RowsStand /\ admin' \in [Request -> RequestRow] /\ AdminFits'
  <2>1. RowsStand
    BY <1>0, <1>4 DEF Rosters!CheckApproval, RowsStand, Alike
  <2>2. admin' = [admin EXCEPT ![q] = [Rosters!IdleRequest EXCEPT !.pc = kind, !.id = u]]
    BY <1>4 DEF Rosters!CheckApproval
  <2>3. [Rosters!IdleRequest EXCEPT !.pc = kind, !.id = u] \in RequestRow
    BY DEF RequestRow, Rosters!IdleRequest
  <2>4. /\ admin'[q].pc = kind /\ admin'[q].id = u
        /\ \A p \in Request \ {q} : admin'[p] = admin[p]
        /\ admin' \in [Request -> RequestRow]
    BY <1>0, <2>2, <2>3 DEF Rosters!IdleRequest
  <2> QED BY <1>0, <2>1, <2>4 DEF AdminFits
<1>5. ASSUME NEW q \in Request, admin' = [admin EXCEPT ![q].pc = "done"]
      PROVE  admin' \in [Request -> RequestRow] /\ AdminFits'
  <2>1. [admin[q] EXCEPT !.pc = "done"] \in RequestRow
    BY <1>0 DEF RequestRow
  <2>2. /\ admin'[q].pc = "done" /\ \A p \in Request \ {q} : admin'[p] = admin[p]
        /\ admin' \in [Request -> RequestRow]
    BY <1>0, <1>5, <2>1 DEF RequestRow
  <2> QED BY <1>0, <2>2 DEF AdminFits
<1>6. ASSUME NEW q \in Request, Rosters!WriteApproval(q)
      PROVE  RowsStand
  <2>1. admin[q].id \in Row
    BY <1>0, <1>6 DEF Rosters!WriteApproval, AdminFits
  <2>2. PICK b \in BOOLEAN : user' = [user EXCEPT ![admin[q].id].approved = b]
    <3>1. (IF Rosters!Exists(admin[q].id) THEN admin[q].pc = "approve"
           ELSE user[admin[q].id].approved)
            \in BOOLEAN
      BY <1>0, <2>1 DEF UserRow
    <3> QED BY <1>6, <3>1 DEF Rosters!WriteApproval
  <2>3. user' \in [Row -> UserRow] /\ \A v \in Row : Alike(v)
    BY <1>0, <2>1, <2>2 DEF UserRow, Alike
  <2> QED BY <1>6, <2>3 DEF Rosters!WriteApproval, RowsStand
<1>7. ASSUME NEW q \in Request, Rosters!CreateUser(q)
      PROVE  \/ RowsStand /\ UNCHANGED <<touched, moved, newcomer>>
             \/ \E u \in Row : RowMoves(u) /\ Rosters!Touch(u, admin[q].email, FALSE)
  <2>1. admin[q].email \in Rosters!Address /\ admin[q].type \in Rosters!Type \cup {Nobody}
    BY <1>0, <1>7 DEF Rosters!CreateUser, AdminFits, RequestRow
  <2>2. PICK u \in Rosters!Fresh :
          IF Rosters!Holders(admin[q].email) # {} THEN UNCHANGED <<user, Rosters!changes>>
          ELSE /\ user' = [user EXCEPT ![u] = [Rosters!NoRow EXCEPT !.state = "live",
                                     !.email = admin[q].email, !.type = admin[q].type]]
               /\ Rosters!Touch(u, admin[q].email, FALSE) /\ UNCHANGED retyped
    BY <1>7 DEF Rosters!CreateUser
  <2>3. u \in Row /\ user[u].state = "none" /\ ~Rosters!Exists(u)
    BY DEF Rosters!Fresh, Rosters!Unused, Rosters!Exists
  <2>4. CASE Rosters!Holders(admin[q].email) # {}
    BY <1>0, <1>7, <2>2, <2>4 DEF Rosters!CreateUser, RowsStand, Alike
  <2>5. CASE Rosters!Holders(admin[q].email) = {}
    <3>1. /\ user' = [user EXCEPT ![u] = [Rosters!NoRow EXCEPT !.state = "live",
                                    !.email = admin[q].email, !.type = admin[q].type]]
          /\ Rosters!Touch(u, admin[q].email, FALSE) /\ UNCHANGED retyped
      BY <2>2, <2>5
    <3>2. user'[u] = [Rosters!NoRow EXCEPT !.state = "live", !.email = admin[q].email,
                                   !.type = admin[q].type]
          /\ \A v \in Row \ {u} : user'[v] = user[v]
      BY <1>0, <2>3, <3>1
    <3>3. user'[u] \in UserRow /\ user'[u].state = "live" /\ user'[u].email = admin[q].email
          /\ user'[u].username = Nobody
      BY <2>1, <3>2 DEF Rosters!NoRow, UserRow
    <3>4. user[u].username = Nobody
      BY <1>c, <2>3
    <3>5. user' \in [Row -> UserRow] /\ Rosters!Exists(u)'
      BY <1>0, <2>3, <3>1, <3>2, <3>3 DEF Rosters!Exists
    <3>6. roleUser' = {p \in roleUser : p[2] # u \/ Rosters!Exists(u)'}
      BY <1>7, <3>5 DEF Rosters!CreateUser
    <3>7. UNCHANGED <<plan, role, seed, together, cut>>
      BY <1>7 DEF Rosters!CreateUser
    <3> QED BY <2>1, <2>3, <2>5, <3>1, <3>2, <3>3, <3>4, <3>5, <3>6, <3>7 DEF RowMoves,
               Rosters!Touch
  <2> QED BY <2>4, <2>5
<1>8. ASSUME NEW q \in Request, Rosters!UpdateUser(q)
      PROVE  \/ RowsStand /\ UNCHANGED <<touched, moved, newcomer>>
             \/ \E u \in Row, e \in Rosters!Address, leaves \in BOOLEAN :
                  RowMoves(u) /\ Rosters!Touch(u, e, leaves)
  <2>0. admin[q].id \in Row /\ admin[q].email \in Rosters!Address \cup {Nobody}
          /\ admin[q].type \in Rosters!Type \cup {Nobody}
    BY <1>0, <1>8 DEF Rosters!UpdateUser, AdminFits, RequestRow
  <2>u. PICK u \in Row : u = admin[q].id
    BY <2>0
  <2>e. PICK e : e = IF admin[q].email = Nobody THEN user[u].email ELSE admin[q].email
    OBVIOUS
  <2>2. CASE ~Rosters!Exists(u) \/ Rosters!Holders(e) \ {u} # {}
    BY <1>0, <1>8, <2>u, <2>e, <2>2 DEF Rosters!UpdateUser, RowsStand, Alike
  <2>3. CASE Rosters!Exists(u) /\ Rosters!Holders(e) \ {u} = {}
    <3>1. /\ user' = [user EXCEPT ![u].email = e, ![u].type = admin[q].type]
          /\ Rosters!Touch(u, e, e # user[u].email)
          /\ retyped' = IF user[u].type # admin[q].type THEN retyped \cup {u} ELSE retyped
          /\ UNCHANGED <<plan, role, roleUser, seed, together, cut>>
      BY <1>8, <2>u, <2>e, <2>3 DEF Rosters!UpdateUser
    <3>2. e \in Rosters!Address
      BY <2>0, <2>e, <2>3 DEF RowsFit
    <3>3. user'[u] = [user[u] EXCEPT !.email = e, !.type = admin[q].type]
          /\ \A v \in Row \ {u} : user'[v] = user[v]
      BY <1>0, <2>0, <3>1
    <3>4. /\ user'[u].email = e /\ user'[u].state = user[u].state
          /\ user'[u].type = admin[q].type
          /\ user'[u].username = user[u].username /\ user'[u] \in UserRow
      BY <1>0, <2>0, <3>2, <3>3 DEF UserRow
    <3>5. user' \in [Row -> UserRow] /\ user'[u].state = "live"
      BY <1>0, <2>0, <2>3, <3>1, <3>3, <3>4 DEF Rosters!Exists
    <3>6. roleUser' = {p \in roleUser : p[2] # u \/ Rosters!Exists(u)'}
      BY <3>1, <3>5 DEF Rosters!Exists
    <3>7. RowMoves(u)
      <4>1. user'[u].state # "none" /\ (user'[u].state = "live")
              /\ Rosters!Holders(e) \subseteq {u}
        BY <2>3, <3>5
      <4>2. user[u].type # user'[u].type => u \in retyped'
        BY <3>1, <3>4
      <4>3. retyped \subseteq retyped'
        BY <3>1
      <4> QED BY <3>1, <3>2, <3>3, <3>4, <3>5, <3>6, <4>1, <4>2, <4>3 DEF RowMoves,
                 Rosters!Touch, Rosters!Exists
    <3> QED BY <2>0, <3>1, <3>2, <3>7
  <2> QED BY <2>2, <2>3
<1>10. ASSUME NEW q \in Request, Rosters!CreateUser(q) \/ Rosters!UpdateUser(q)
       PROVE  retyped' \subseteq Row /\ admin' = [admin EXCEPT ![q].pc = "done"]
  <2>1. Rosters!CreateUser(q) => retyped' = retyped
    BY DEF Rosters!CreateUser
  <2>2. Rosters!UpdateUser(q) => retyped' = retyped \/ retyped' = retyped \cup {admin[q].id}
    BY DEF Rosters!UpdateUser
  <2>3. Rosters!UpdateUser(q) => admin[q].id \in Row
    BY <1>0 DEF Rosters!UpdateUser, AdminFits
  <2> QED BY <1>0, <1>10, <2>1, <2>2, <2>3 DEF Rosters!CreateUser, Rosters!UpdateUser
<1> HIDE DEF Rosters!stores, Rosters!changes
<1>11. ASSUME NEW u \in Row,
              Rosters!DeleteUser(u) \/ \E e \in Rosters!Address : Rosters!ChangeEmail(u, e)
       PROVE  /\ RowMoves(u) /\ admin' = admin /\ AdminFits' /\ retyped' = retyped
              /\ touched' \in [Run -> SUBSET Rosters!Seeded] /\ moved' \subseteq Rosters!Seeded
              /\ newcomer' \subseteq Row
  <2>1. RowMoves(u) /\ UNCHANGED <<admin, retyped>>
          /\ \E e, leaves : Rosters!Touch(u, e, leaves)
    BY <1>1, <1>2, <1>11
  <2> QED BY <1>0, <2>1, TouchTyped DEF AdminFits
<1>12. RowsStand => UNCHANGED <<touched, moved, newcomer, retyped>>
  BY DEF RowsStand
<1>13. ASSUME NEW u \in Row, NEW t \in Rosters!Type, Rosters!Retype(u, t)
       PROVE  /\ RowMoves(u) /\ admin' = admin /\ AdminFits' /\ retyped' \subseteq Row
              /\ touched' \in [Run -> SUBSET Rosters!Seeded] /\ moved' \subseteq Rosters!Seeded
              /\ newcomer' \subseteq Row
  <2>1. /\ RowMoves(u) /\ admin' = admin /\ retyped' = retyped \cup {u}
        /\ Rosters!Touch(u, Nobody, FALSE)
    BY <1>r, <1>13
  <2> QED BY <1>0, <2>1, TouchTyped DEF AdminFits
<1>14. CASE \E u \in Row, t \in Rosters!Type : Rosters!Retype(u, t)
  BY <1>0, <1>13, <1>14
<1> QED BY <1>0, <1>3, <1>4, <1>5, <1>6, <1>7, <1>8, <1>10, <1>11, <1>12, <1>14, TouchTyped
  DEF Rosters!WriteApproval, Rosters!Leave, Rosters!RequestStep

\* The shape of the state and the places of runs and requests are kept.
LEMMA RosterStaysTyped == RosterTyped /\ RowsFit /\ [Rosters!Next]_Rosters!vars => RosterTyped'
<1> SUFFICES ASSUME RosterTyped, RowsFit, [Rosters!Next]_Rosters!vars PROVE RosterTyped'
  OBVIOUS
<1>0. /\ plan \subseteq Rosters!Plan /\ role \subseteq Rosters!Type
        /\ roleUser \subseteq Rosters!Type \X Row
      /\ seed \in [Run -> RunRow] /\ admin \in [Request -> RequestRow]
      /\ touched \in [Run -> SUBSET Rosters!Seeded] /\ moved \subseteq Rosters!Seeded
      /\ newcomer \subseteq Row /\ retyped \subseteq Row /\ together \subseteq Run
      /\ cut \subseteq Run
  BY DEF RosterTyped, Rosters!TypeOK, RunRow, RequestRow
<1>1. ASSUME NEW r \in Run, Rosters!RunStep(r) PROVE RosterTyped'
  <2>1. Rosters!TypeOK'
    BY <1>0, <1>1, RunTyped, RunMoves DEF Rosters!TypeOK, UserRow, RunRow, RequestRow
  <2>2. AdminFits'
    BY <1>1, RunMoves DEF RosterTyped, AdminFits
  <2>3. StepsFit'
    BY <1>1, RunMoves DEF RosterTyped, StepsFit
  <2> QED BY <2>1, <2>2, <2>3 DEF RosterTyped
<1>2. ASSUME ~\E r \in Run : Rosters!RunStep(r), Rosters!Next PROVE RosterTyped'
  <2>1. /\ RowsStand \/ \E u \in Row : RowMoves(u)
        /\ admin' \in [Request -> RequestRow] /\ AdminFits'
        /\ touched' \in [Run -> SUBSET Rosters!Seeded] /\ moved' \subseteq Rosters!Seeded
        /\ newcomer' \subseteq Row /\ retyped' \subseteq Row
    BY <1>2, OthersMove DEF Rosters!Next, Rosters!RunsAndLeavers
  <2>2. /\ user' \in [Row -> UserRow] /\ roleUser' \subseteq roleUser
        /\ UNCHANGED <<plan, role, seed, together, cut>>
        /\ \A r \in Run : seed[r].pc = "idle" => touched'[r] = touched[r]
    BY <2>1 DEF RowsStand, RowMoves
  <2>3. Rosters!TypeOK'
    BY <1>0, <2>1, <2>2 DEF Rosters!TypeOK, UserRow, RunRow, RequestRow
  <2>4. StepsFit'
    BY <2>2 DEF RosterTyped, StepsFit
  <2> QED BY <2>1, <2>3, <2>4 DEF RosterTyped
<1>3. CASE UNCHANGED Rosters!vars
  BY <1>3 DEF Rosters!vars, RosterTyped, Rosters!TypeOK, StepsFit, AdminFits
<1> QED BY <1>1, <1>2, <1>3 DEF Rosters!Next

\* A run that has not begun to write accounts, or has failed.
Begins(r) ==
    /\ seed'[r].pc \in {"plans", "roles", "look", "users", "failed"}
    /\ seed'[r].pc = "users" => seed'[r].step = 1

\* No account and no role of one changes, and no run comes further among them.
Quiet ==
    /\ \A v \in Row : Alike(v)
    /\ \A r \in Run : seed'[r] = seed[r] \/ Begins(r)
    /\ UNCHANGED <<roleUser, touched, moved, newcomer, retyped>> /\ together \subseteq together'

\* Run r writes the account of e to row u.
Writes(r, u, e) ==
    /\ seed[r].pc = "users" /\ e = Seeds[seed[r].step]
    /\ seed'[r].pc \in {"users", "read"} /\ WrittenBy(r)' = WrittenBy(r) \cup {e}
    /\ seed'[r].agent = IF e = Agent THEN u ELSE seed[r].agent
    /\ \A o \in Run \ {r} : seed'[o] = seed[o]
    /\ \/ u \in Rosters!Holders(e)
       \/ Rosters!Holders(e) = {} /\ user[u].state = "none"
    /\ \A v \in Row \ {u} : user'[v] = user[v]
    /\ user'[u].state = "live" /\ user'[u].email = e /\ user'[u].username = e
    /\ user'[u].type = TypeOf[e]
    /\ Rosters!IsClient(e) => user'[u].plan = PlanOf[e] /\ user'[u].agent = seed[r].agent
    /\ retyped \subseteq retyped'
    /\ Rosters!Exists(u) /\ user[u].type # TypeOf[e] => u \in retyped'
    /\ UNCHANGED <<roleUser, touched, moved, newcomer, together>>

\* Run r reads the accounts by address.
Reads(r) ==
    /\ seed[r].pc = "read" /\ seed'[r].pc = "map" /\ seed'[r].step = 1
    /\ \A e \in Rosters!Seeded : \/ Rosters!Holders(e) = {} /\ seed'[r].users[e] = Nobody
                                 \/ seed'[r].users[e] \in Rosters!Holders(e)
    /\ \A o \in Run \ {r} : seed'[o] = seed[o]
    /\ UNCHANGED <<user, roleUser, touched, moved, newcomer, retyped, together>>

\* Run r gives the account it read for e its role.
Maps(r, e) ==
    /\ seed[r].pc = "map" /\ e \in Rosters!Seeded /\ seed'[r].pc \in {"map", "done"}
    /\ MappedBy(r)' = MappedBy(r) \cup {e} /\ seed'[r].users = seed[r].users
    /\ \A o \in Run \ {r} : seed'[o] = seed[o]
    /\ IF seed[r].users[e] = Nobody THEN roleUser' = roleUser
       ELSE /\ Rosters!Exists(seed[r].users[e])
            /\ roleUser' = roleUser \cup {<<TypeOf[e], seed[r].users[e]>>}
    /\ UNCHANGED <<user, touched, moved, newcomer, retyped, together>>

\* The entries before a place of the list, and those up to it.
LEMMA UpTo ==
    ASSUME NEW k \in DOMAIN Seeds, NEW e \in Rosters!Seeded
    PROVE  /\ (\E j \in 1..(k + 1 - 1) : Seeds[j] = e)
                <=> (\E j \in 1..(k - 1) : Seeds[j] = e) \/ e = Seeds[k]
           /\ (\A j \in DOMAIN Seeds : j <= k)
                => ((\E j \in 1..(k - 1) : Seeds[j] = e) \/ e = Seeds[k])
<1>1. DOMAIN Seeds = 1..Len(Seeds) /\ Len(Seeds) \in Nat /\ k \in Nat
  BY ListFacts
<1>2. PICK i \in DOMAIN Seeds : Seeds[i] = e
  BY DEF Rosters!Seeded
<1>3. (\A j \in DOMAIN Seeds : j <= k) => i \in 1..(k - 1) \/ i = k
  BY <1>1
<1>4. \A j : j \in 1..(k + 1 - 1) <=> j \in 1..(k - 1) \/ j = k
  BY <1>1
<1> QED BY <1>2, <1>3, <1>4

\* Every step of a run is one of these.
LEMMA RunShapes ==
    ASSUME RosterTyped, NEW r \in Run, Rosters!RunStep(r)
    PROVE  Quiet \/ Reads(r)
           \/ \E e \in Rosters!Seeded : Maps(r, e) \/ \E u \in Row : Writes(r, u, e)
<1>0. /\ seed \in [Run -> RunRow] /\ seed[r] \in RunRow /\ user \in [Row -> UserRow]
      /\ \A o \in Run \ {r} : seed'[o] = seed[o]
      /\ UNCHANGED <<touched, moved, newcomer>> /\ together \subseteq together'
  BY RunMoves DEF RosterTyped, Rosters!TypeOK, RunRow, UserRow
<1>1. ASSUME UNCHANGED <<user, roleUser, retyped>>, Begins(r) PROVE Quiet
  BY <1>0, <1>1 DEF Quiet, Alike
<1>2. ASSUME \/ Rosters!Start(r) \/ Rosters!FindPlan(r) \/ Rosters!FindRole(r)
             \/ Rosters!LookUpPlans(r) \/ Rosters!CutOff(r)
      PROVE  UNCHANGED <<user, roleUser, retyped>> /\ Begins(r)
  <2>1. UNCHANGED <<user, roleUser, retyped>>
    BY <1>2 DEF Rosters!Start, Rosters!FindPlan, Rosters!FindRole, Rosters!LookUpPlans,
       Rosters!CutOff, Rosters!stores, Rosters!changes
  <2>2. Begins(r)
    BY <1>0, <1>2 DEF Rosters!Start, Rosters!FindPlan, Rosters!FindRole, Rosters!LookUpPlans,
       Rosters!CutOff, Begins, RunRow, RosterTyped, StepsFit
  <2> QED BY <2>1, <2>2
<1>3. ASSUME Rosters!WritePlan(r) \/ Rosters!WriteRole(r)
      PROVE  UNCHANGED <<user, roleUser, retyped>> /\ Begins(r)
  <2>1. UNCHANGED <<user, roleUser, retyped>>
    BY <1>3 DEF Rosters!WritePlan, Rosters!WriteRole, Rosters!changes
  <2>2. Plans \in Seq(Rosters!Plan) /\ Roles \in Seq(Rosters!Type)
    BY SeedAssumption
  <2>3. CASE Rosters!WritePlan(r)
    <3>1. \/ seed'[r] = [seed[r] EXCEPT !.pc = "failed"]
            \/ seed'[r] = Rosters!Step(seed[r], Plans, "roles")
      BY <1>0, <2>3 DEF Rosters!WritePlan
    <3>2. seed[r].pc = "plans" /\ seed[r].step \in DOMAIN Plans
      BY <2>3 DEF Rosters!WritePlan, RosterTyped, StepsFit
    <3>3. Rosters!Step(seed[r], Plans, "roles").pc \in {"plans", "roles"}
      BY <1>0, <2>2, <3>2, StepOn
    <3> QED BY <1>0, <2>1, <3>1, <3>3 DEF Begins, RunRow
  <2>4. CASE Rosters!WriteRole(r)
    <3>1. \/ seed'[r] = [seed[r] EXCEPT !.pc = "failed"]
            \/ seed'[r] = Rosters!Step(seed[r], Roles, "look")
      BY <1>0, <2>4 DEF Rosters!WriteRole
    <3>2. seed[r].pc = "roles" /\ seed[r].step \in DOMAIN Roles
      BY <2>4 DEF Rosters!WriteRole, RosterTyped, StepsFit
    <3>3. Rosters!Step(seed[r], Roles, "look").pc \in {"roles", "look"}
      BY <1>0, <2>2, <3>2, StepOn
    <3> QED BY <1>0, <2>1, <3>1, <3>3 DEF Begins, RunRow
  <2> QED BY <1>3, <2>3, <2>4
<1>4. CASE Rosters!ReadUsers(r)
  <2>1. seed'[r].pc = "map" /\ seed'[r].step = seed[r].step /\ seed[r].step = 1
    BY <1>0, <1>4 DEF Rosters!ReadUsers, RosterTyped, StepsFit, RunRow
  <2>2. \A e \in Rosters!Seeded : seed'[r].users[e] = IF Rosters!Holders(e) = {} THEN Nobody
                                              ELSE CHOOSE u \in Rosters!Holders(e) : TRUE
    BY <1>0, <1>4 DEF Rosters!ReadUsers, RunRow
  <2>3. Reads(r)
    BY <1>0, <1>4, <2>1, <2>2 DEF Rosters!ReadUsers, Reads, Rosters!stores, Rosters!changes
  <2> QED BY <2>3
<1>5. CASE Rosters!MapRole(r)
  <2>1. PICK e \in Rosters!Seeded : e = Seeds[seed[r].step]
    BY <1>5 DEF Rosters!MapRole, RosterTyped, StepsFit, Rosters!Seeded
  <2>2. PICK u : u = seed[r].users[e]
    OBVIOUS
  <2>3. seed[r].pc = "map" /\ seed[r].step \in DOMAIN Seeds /\ Seeds \in Seq(Rosters!Seeded)
    BY <1>5, SeedAssumption DEF Rosters!MapRole, RosterTyped, StepsFit
  <2>4. CASE u # Nobody /\ ~Rosters!Exists(u)
    <3>1. UNCHANGED <<user, roleUser, retyped>> /\ seed'[r].pc = "failed"
      BY <1>0, <1>5, <2>1, <2>2, <2>4 DEF Rosters!MapRole, RunRow, Rosters!changes
    <3> QED BY <1>1, <3>1 DEF Begins
  <2>5. CASE ~(u # Nobody /\ ~Rosters!Exists(u))
    <3>1. /\ seed'[r] = Rosters!Step(seed[r], Seeds, "done")
          /\ roleUser' = IF u = Nobody THEN roleUser ELSE roleUser \cup {<<TypeOf[e], u>>}
          /\ UNCHANGED <<user, retyped, together>>
      BY <1>0, <1>5, <2>1, <2>2, <2>5 DEF Rosters!MapRole, Rosters!RoleOf, Rosters!changes
    <3>2. /\ seed'[r].users = seed[r].users
          /\ \/ seed'[r].pc = "map" /\ seed'[r].step = seed[r].step + 1
             \/ seed'[r].pc = "done" /\ \A j \in DOMAIN Seeds : j <= seed[r].step
      BY <1>0, <2>3, <3>1, StepOn
    <3>3. MappedBy(r)' = MappedBy(r) \cup {e}
      <4>1. ASSUME NEW x \in Rosters!Seeded
            PROVE  x \in MappedBy(r)' <=> x \in MappedBy(r) \cup {e}
        <5>1. /\ (\E j \in 1..(seed[r].step + 1 - 1) : Seeds[j] = x)
                   <=> (\E j \in 1..(seed[r].step - 1) : Seeds[j] = x) \/ x = e
              /\ (\A j \in DOMAIN Seeds : j <= seed[r].step)
                   => (\E j \in 1..(seed[r].step - 1) : Seeds[j] = x) \/ x = e
          BY <2>1, <2>3, UpTo
        <5> QED BY <2>3, <3>2, <5>1 DEF MappedBy
      <4> QED BY <4>1 DEF MappedBy
    <3> QED BY <1>0, <2>2, <2>3, <2>5, <3>1, <3>2, <3>3 DEF Maps
  <2> QED BY <2>4, <2>5
<1>6. CASE Rosters!UpsertUser(r)
  <2>1. PICK e \in Rosters!Seeded : e = Seeds[seed[r].step]
    BY <1>6 DEF Rosters!UpsertUser, RosterTyped, StepsFit, Rosters!Seeded
  <2>3. seed[r].pc = "users" /\ seed[r].step \in DOMAIN Seeds /\ Seeds \in Seq(Rosters!Seeded)
    BY <1>6, SeedAssumption DEF Rosters!UpsertUser, RosterTyped, StepsFit
  <2> DEFINE t == Rosters!Step(seed[r], Seeds, "read")
  <2>4. PICK u :
          /\ Rosters!Holders(e) # {} => u \in Rosters!Holders(e)
          /\ Rosters!Holders(e) = {} => u \in Rosters!Fresh
          /\ IF Rosters!Named(e) \ Rosters!Holders(e) # {}
             THEN seed' = [seed EXCEPT ![r].pc = "failed"] /\ UNCHANGED <<user, retyped>>
             ELSE /\ user' = [user EXCEPT ![u] = Rosters!Created(u, e, seed[r].agent)]
                  /\ seed' = [seed EXCEPT ![r] =
                                [t EXCEPT !.agent = IF e = Agent THEN u ELSE @]]
                  /\ retyped' = IF Rosters!Exists(u) /\ user[u].type # TypeOf[e]
                                THEN retyped \cup {u} ELSE retyped
    BY <1>6, <2>1 DEF Rosters!UpsertUser
  <2>5. /\ u \in Row
        /\ \/ u \in Rosters!Holders(e)
           \/ Rosters!Holders(e) = {} /\ user[u].state = "none"
    <3>1. \A v \in Rosters!Holders(e) : v \in Row
      BY DEF Rosters!Holders
    <3>2. \A v \in Rosters!Fresh : v \in Row /\ user[v].state = "none"
      BY DEF Rosters!Fresh, Rosters!Unused
    <3> HIDE DEF t
    <3>3. Rosters!Holders(e) # {} => u \in Rosters!Holders(e)
      BY <2>4
    <3>4. Rosters!Holders(e) = {} => u \in Rosters!Fresh
      BY <2>4
    <3> QED BY <3>1, <3>2, <3>3, <3>4
  <2>6. UNCHANGED <<roleUser, touched, moved, newcomer, together>>
    BY <1>6 DEF Rosters!UpsertUser
  <2>7. CASE Rosters!Named(e) \ Rosters!Holders(e) # {}
    <3>1. seed'[r].pc = "failed" /\ UNCHANGED <<user, retyped>>
      BY <1>0, <2>4, <2>7 DEF RunRow
    <3> QED BY <1>1, <2>6, <3>1 DEF Begins
  <2>8. CASE Rosters!Named(e) \ Rosters!Holders(e) = {}
    <3>1. /\ user' = [user EXCEPT ![u] = Rosters!Created(u, e, seed[r].agent)]
          /\ seed' = [seed EXCEPT ![r] = [t EXCEPT !.agent = IF e = Agent THEN u ELSE @]]
          /\ retyped' = IF Rosters!Exists(u) /\ user[u].type # TypeOf[e]
                        THEN retyped \cup {u} ELSE retyped
      BY <2>4, <2>8
    <3>2. /\ t \in RunRow /\ t.agent = seed[r].agent
          /\ \/ t.pc = "users" /\ t.step = seed[r].step + 1
             \/ t.pc = "read" /\ \A j \in DOMAIN Seeds : j <= seed[r].step
      BY <1>0, <2>3, StepOn
    <3> HIDE DEF t
    <3>3. /\ seed'[r].pc = t.pc /\ seed'[r].step = t.step
          /\ seed'[r].agent = IF e = Agent THEN u ELSE seed[r].agent
      BY <1>0, <3>1, <3>2 DEF RunRow
    <3>4. WrittenBy(r)' = WrittenBy(r) \cup {e}
      BY <2>1, <2>3, <3>2, <3>3, UpTo, SMTT(20) DEF WrittenBy
    <3>5. user'[u] = Rosters!Created(u, e, seed[r].agent)
            /\ \A v \in Row \ {u} : user'[v] = user[v]
      BY <1>0, <2>5, <3>1
    <3>6. /\ user'[u].state = "live" /\ user'[u].email = e
          /\ user'[u].username = e /\ user'[u].type = TypeOf[e]
          /\ Rosters!IsClient(e) => user'[u].plan = PlanOf[e] /\ user'[u].agent = seed[r].agent
      BY <1>0, <2>5, <3>5, CreatedIsRow DEF RunRow
    <3>7. /\ retyped \subseteq retyped'
          /\ Rosters!Exists(u) /\ user[u].type # TypeOf[e] => u \in retyped'
      BY <3>1
    <3>8. Writes(r, u, e)
      BY <1>0, <2>1, <2>3, <2>5, <2>6, <3>2, <3>3, <3>4, <3>5, <3>6, <3>7 DEF Writes
    <3> QED BY <2>5, <3>8
  <2> QED BY <2>7, <2>8
<1> QED BY <1>1, <1>2, <1>3, <1>4, <1>5, <1>6 DEF Rosters!RunStep

\* What the accounts and the runs' progress among them keep.
AccountsFit ==
    RowsFit /\ TypesFollow /\ AtHome /\ AgentFits /\ StaysWritten /\ StaysMapped
    /\ Rosters!RolesFollowTypeAlone

\* A change that a run has seen stays seen.
LEMMA ChangedGrows ==
    ASSUME \A r \in Run : touched[r] \subseteq touched'[r],
           together \subseteq Run, together \subseteq together'
    PROVE  \A r \in Run : Rosters!Changed(r) \subseteq Rosters!Changed(r)'
             /\ touched'[r] \subseteq Rosters!Changed(r)'
<1>1. ASSUME NEW r \in Run, NEW o \in Run, NEW e \in touched'[o],
             o = r \/ (r \in together' /\ o \in together')
      PROVE  e \in Rosters!Changed(r)'
  <2>1. o \in {r} \cup IF r \in together' THEN together' ELSE {}
    BY <1>1
  <2> QED BY <2>1 DEF Rosters!Changed
<1>2. ASSUME NEW r \in Run, NEW e \in Rosters!Changed(r)
      PROVE  \E o \in Run : e \in touched[o] /\ (o = r \/ (r \in together /\ o \in together))
  <2>1. CASE r \in together
    <3>1. PICK o \in {r} \cup together : e \in touched[o]
      BY <2>1 DEF Rosters!Changed
    <3> QED BY <2>1, <3>1
  <2>2. CASE r \notin together
    <3>1. e \in UNION {touched[o] : o \in {r} \cup {}}
      BY <2>2 DEF Rosters!Changed
    <3> QED BY <3>1
  <2> QED BY <2>1, <2>2
<1>3. ASSUME NEW r \in Run, NEW e \in Rosters!Changed(r) PROVE e \in Rosters!Changed(r)'
  <2>1. PICK o \in Run : e \in touched[o] /\ (o = r \/ (r \in together /\ o \in together))
    BY <1>2
  <2>2. e \in touched'[o] /\ (o = r \/ (r \in together' /\ o \in together'))
    BY <2>1
  <2> QED BY <1>1, <2>2
<1>4. TAKE r \in Run
<1>5. Rosters!Changed(r) \subseteq Rosters!Changed(r)'
  BY <1>3
<1>6. ASSUME NEW e \in touched'[r] PROVE e \in Rosters!Changed(r)'
  BY <1>1
<1> QED BY <1>5, <1>6

\* What was touched under a run, or one beside it, has changed for the run.
LEMMA ChangedHolds ==
    ASSUME NEW r \in Run
    PROVE  /\ touched[r] \subseteq Rosters!Changed(r)
           /\ \A o \in together : r \in together => touched[o] \subseteq Rosters!Changed(r)
BY DEF Rosters!Changed

\* What holds of accounts and runs, holds on when no account changes,
LEMMA QuietKeeps == RosterTyped /\ RosterTyped' /\ AccountsFit /\ Quiet => AccountsFit'
<1> SUFFICES ASSUME RosterTyped, RosterTyped', AccountsFit, Quiet PROVE AccountsFit'
  OBVIOUS
<1>1. /\ \A v \in Row : Alike(v) /\ (Rosters!Exists(v)' <=> Rosters!Exists(v))
      /\ \A e : Rosters!Holders(e)' = Rosters!Holders(e)
      /\ UNCHANGED <<roleUser, touched, moved, newcomer, retyped>>
  BY DEF Quiet, Alike, Rosters!Exists, Rosters!Holders
<1>2. ASSUME NEW r \in Run
      PROVE  \/ /\ seed'[r] = seed[r]
                /\ WrittenBy(r)' = WrittenBy(r) /\ MappedBy(r)' = MappedBy(r)
             \/ WrittenBy(r)' = {} /\ MappedBy(r)' = {} /\ seed'[r].pc # "map"
  <2>1. CASE seed'[r] = seed[r]
    BY <2>1 DEF WrittenBy, MappedBy
  <2>2. CASE Begins(r)
    BY <2>2 DEF WrittenBy, MappedBy, Begins
  <2> QED BY <2>1, <2>2 DEF Quiet
<1>3. \A r \in Run : Rosters!Changed(r) \subseteq Rosters!Changed(r)'
  <2>1. together \subseteq Run /\ together \subseteq together'
    BY DEF RosterTyped, Rosters!TypeOK, Quiet
  <2> QED BY <1>1, <2>1, ChangedGrows
<1>4. roleUser \subseteq Rosters!Type \X Row
        /\ \A r \in Run : seed[r].users \in [Rosters!Seeded -> Row \cup {Nobody}]
  BY DEF RosterTyped, Rosters!TypeOK
<1>5. RowsFit'
  <2>1. \A r \in Run, e \in Rosters!Seeded : seed[r].users[e] # Nobody
            => seed[r].users[e] \in Row
    BY <1>4
  <2> QED BY <1>1, <1>2, <1>4, <2>1 DEF AccountsFit, RowsFit, Alike
<1>6. TypesFollow'
  <2> SUFFICES ASSUME NEW r \in Rosters!Running', NEW e \in Rosters!Seeded, NEW u \in Row,
                      \/ e \in WrittenBy(r)' /\ user'[u].email = e
                      \/ seed'[r].pc = "map" /\ seed'[r].users[e] = u /\ Rosters!Exists(u)'
               PROVE  user'[u].type = TypeOf[e] \/ u \in retyped' \cup newcomer'
    BY DEF TypesFollow
  <2>1. r \in Run /\ seed'[r] = seed[r] /\ WrittenBy(r)' = WrittenBy(r)
    BY <1>2 DEF Rosters!Running
  <2>2. r \in Rosters!Running
    BY <2>1 DEF Rosters!Running
  <2> QED BY <1>1, <2>1, <2>2 DEF AccountsFit, TypesFollow, Alike
<1>7. AtHome'
  <2> SUFFICES ASSUME moved' = {}, NEW r \in Run, NEW e \in Rosters!Seeded
               PROVE  /\ e \in WrittenBy(r)'
                          => \E u \in Row : user'[u].email = e /\ user'[u].username = e
                      /\ seed'[r].pc = "map" /\ seed'[r].users[e] # Nobody =>
                           /\ user'[seed'[r].users[e]].state = "live"
                           /\ user'[seed'[r].users[e]].username = e
    BY DEF AtHome, Rosters!Exists
  <2>1. seed[r].users[e] # Nobody => seed[r].users[e] \in Row
    BY <1>4
  <2> QED BY <1>1, <1>2, <2>1 DEF AccountsFit, AtHome, Alike, Rosters!Exists
<1>8. AgentFits'
  BY <1>1, <1>2 DEF AccountsFit, AgentFits
<1>9. StaysWritten'
  <2> SUFFICES ASSUME NEW r \in Run, NEW e \in WrittenBy(r)', e \notin Rosters!Changed(r)'
               PROVE  \E u \in Row :
                          /\ AsWritten(e, u)'
                          /\ Agent \notin Rosters!Changed(r)' => HasAgent(e, u)'
    BY DEF StaysWritten
  <2>1. PICK u \in Row : AsWritten(e, u) /\ (Agent \notin Rosters!Changed(r) => HasAgent(e, u))
    BY <1>2, <1>3 DEF AccountsFit, StaysWritten
  <2> QED BY <1>1, <1>3, <2>1 DEF AsWritten, HasAgent, Alike
<1>10. StaysMapped'
  <2> SUFFICES ASSUME NEW r \in Run
               PROVE  /\ seed'[r].pc = "map" =>
                           \A e \in Rosters!Seeded : e \notin Rosters!Changed(r)'
                               => seed'[r].users[e] \in Rosters!Holders(e)'
                      /\ \A e \in MappedBy(r)', u \in Row :
                           e \notin Rosters!Changed(r)' /\ user'[u].email = e
                               => <<TypeOf[e], u>> \in roleUser'
    BY DEF StaysMapped
  <2> QED BY <1>1, <1>2, <1>3 DEF AccountsFit, StaysMapped, Alike
<1>11. Rosters!RolesFollowTypeAlone'
  BY <1>1, <1>4 DEF AccountsFit, Rosters!RolesFollowTypeAlone, Alike
<1> QED BY <1>5, <1>6, <1>7, <1>8, <1>9, <1>10, <1>11 DEF AccountsFit

\* when a run writes an account,
LEMMA WritesKeep ==
    ASSUME RosterTyped, RosterTyped', AccountsFit, RunsFit,
           NEW r \in Run, NEW u \in Row, NEW e \in Rosters!Seeded, Writes(r, u, e)
    PROVE  AccountsFit'
<1>1. /\ seed[r].pc = "users" /\ seed'[r].pc \in {"users", "read"} /\ r \in Rosters!Running
      /\ WrittenBy(r)' = WrittenBy(r) \cup {e} /\ MappedBy(r)' = {}
      /\ seed'[r].agent = IF e = Agent THEN u ELSE seed[r].agent
  BY DEF Writes, Rosters!Running, MappedBy
<1>2. \A o \in Run \ {r} :
        seed'[o] = seed[o] /\ WrittenBy(o)' = WrittenBy(o) /\ MappedBy(o)' = MappedBy(o)
  BY DEF Writes, WrittenBy, MappedBy
<1>3. /\ \A v \in Row \ {u} : user'[v] = user[v]
      /\ user'[u].state = "live" /\ user'[u].email = e /\ user'[u].username = e
      /\ user'[u].type = TypeOf[e]
      /\ Rosters!IsClient(e) => user'[u].plan = PlanOf[e] /\ user'[u].agent = seed[r].agent
      /\ retyped \subseteq retyped'
      /\ Rosters!Exists(u) /\ user[u].type # TypeOf[e] => u \in retyped'
      /\ UNCHANGED <<roleUser, touched, moved, newcomer, together>>
  BY DEF Writes
<1>4. e \in Rosters!Address /\ e # Nobody /\ Nobody \notin Row /\ Nobody \notin Rosters!Seeded
  BY SeedAssumption DEF Rosters!Address
<1>5. \/ Rosters!Exists(u) /\ user[u].email = e
      \/ /\ ~Rosters!Exists(u) /\ user[u].state = "none"
         /\ user[u].email = Nobody /\ Rosters!Holders(e) = {}
  BY <1>4 DEF Writes, Rosters!Holders, Rosters!Exists, AccountsFit, RowsFit
<1>6. \A v \in Row \ {u} : user[v].email # e
  BY <1>4, <1>5 DEF Rosters!Holders, AccountsFit, RowsFit
<1>7. \A x : Rosters!Holders(x) # {} /\ x \in Rosters!Seeded
          => Rosters!Holders(x) \subseteq Rosters!Holders(x)'
  BY <1>3, <1>4, <1>5 DEF Rosters!Holders
<1>8. \A o \in Run : Rosters!Changed(o) \subseteq Rosters!Changed(o)'
  <2>1. together \subseteq Run
    BY DEF RosterTyped, Rosters!TypeOK
  <2> QED BY <1>3, <2>1, ChangedGrows
<1>9. roleUser \subseteq Rosters!Type \X Row
        /\ \A o \in Run : seed[o].users \in [Rosters!Seeded -> Row \cup {Nobody}]
  BY DEF RosterTyped, Rosters!TypeOK
<1>10. RowsFit'
  <2>1. \A v \in Row : IF Rosters!Exists(v)' THEN user'[v].email \in Rosters!Address
                      ELSE user'[v].email = Nobody /\ user'[v].username = Nobody
    BY <1>3, <1>4 DEF AccountsFit, RowsFit, Rosters!Exists
  <2>2. \A v, w \in Row : user'[v].email = user'[w].email => v = w \/ user'[v].email = Nobody
    BY <1>3, <1>6 DEF AccountsFit, RowsFit
  <2>3. \A v \in Row : user'[v].username # Nobody =>
                        user'[v].email = user'[v].username \/ moved' # {}
    BY <1>3 DEF AccountsFit, RowsFit
  <2>4. \A p \in roleUser' : Rosters!Exists(p[2])'
    <3> SUFFICES ASSUME NEW p \in roleUser PROVE user'[p[2]].state = "live"
      BY <1>3 DEF Rosters!Exists
    <3>1. p[2] \in Row /\ user[p[2]].state = "live"
      BY <1>9 DEF AccountsFit, RowsFit, Rosters!Exists
    <3> QED BY <1>3, <3>1
  <2>5. ASSUME NEW o \in Run, NEW x \in Rosters!Seeded, seed'[o].pc = "map",
               seed'[o].users[x] # Nobody
        PROVE  user'[seed'[o].users[x]].state # "none"
    <3>1. o # r /\ seed'[o] = seed[o]
      BY <1>1, <1>2, <2>5
    <3>2. seed[o].users[x] \in Row /\ user[seed[o].users[x]].state # "none"
      BY <1>9, <2>5, <3>1 DEF AccountsFit, RowsFit
    <3> QED BY <1>3, <3>1, <3>2
  <2> QED BY <2>1, <2>2, <2>3, <2>4, <2>5 DEF RowsFit
<1>11. TypesFollow'
  <2> SUFFICES ASSUME NEW o \in Rosters!Running', NEW x \in Rosters!Seeded, NEW v \in Row,
                      \/ x \in WrittenBy(o)' /\ user'[v].email = x
                      \/ seed'[o].pc = "map" /\ seed'[o].users[x] = v /\ Rosters!Exists(v)'
               PROVE  user'[v].type = TypeOf[x] \/ v \in retyped' \cup newcomer'
    BY DEF TypesFollow
  <2>1. o \in Run /\ o \in Rosters!Running
    BY <1>1, <1>2 DEF Rosters!Running
  <2>2. CASE x \in WrittenBy(o)' /\ user'[v].email = x
    <3>1. CASE v = u
      BY <1>3, <2>2, <3>1
    <3>2. CASE v # u
      <4>1. user[v].email = x /\ x # e
        BY <1>3, <1>6, <2>2, <3>2
      <4>2. x \in WrittenBy(o)
        BY <1>1, <1>2, <2>1, <2>2, <4>1
      <4> QED BY <1>3, <2>1, <3>2, <4>1, <4>2 DEF AccountsFit, TypesFollow
    <3> QED BY <3>1, <3>2
  <2>3. CASE seed'[o].pc = "map" /\ seed'[o].users[x] = v /\ Rosters!Exists(v)'
    <3>1. seed[o].pc = "map" /\ seed[o].users[x] = v
      BY <1>1, <1>2, <2>1, <2>3
    <3>2. user[v].state # "none"
      BY <1>4, <2>1, <3>1 DEF AccountsFit, RowsFit
    <3>3. CASE v = u
      <4>1. Rosters!Exists(v)
        BY <1>5, <3>2, <3>3
      <4>2. user[v].type = TypeOf[x] \/ v \in retyped \cup newcomer
        BY <2>1, <3>1, <4>1 DEF AccountsFit, TypesFollow
      <4> QED BY <1>3, <3>3, <4>1, <4>2
    <3>4. CASE v # u
      <4>1. Rosters!Exists(v)
        BY <1>3, <2>3, <3>4 DEF Rosters!Exists
      <4> QED BY <1>3, <2>1, <3>1, <3>4, <4>1 DEF AccountsFit, TypesFollow
    <3> QED BY <3>3, <3>4
  <2> QED BY <2>2, <2>3
<1>12. AtHome'
  <2> SUFFICES ASSUME moved' = {}, NEW o \in Run, NEW x \in Rosters!Seeded
               PROVE  /\ x \in WrittenBy(o)'
                          => \E v \in Row : user'[v].email = x /\ user'[v].username = x
                      /\ seed'[o].pc = "map" /\ seed'[o].users[x] # Nobody =>
                           /\ user'[seed'[o].users[x]].state = "live"
                           /\ user'[seed'[o].users[x]].username = x
    BY DEF AtHome, Rosters!Exists
  <2>1. ASSUME x \in WrittenBy(o)'
        PROVE  \E v \in Row : user'[v].email = x /\ user'[v].username = x
    <3>1. CASE x = e
      BY <1>3, <3>1
    <3>2. CASE x # e
      <4>1. x \in WrittenBy(o)
        BY <1>1, <1>2, <2>1, <3>2
      <4>2. PICK v \in Row : user[v].email = x /\ user[v].username = x
        BY <1>3, <4>1 DEF AccountsFit, AtHome
      <4>3. v # u
        BY <1>4, <1>5, <3>2, <4>2
      <4> QED BY <1>3, <4>2, <4>3
    <3> QED BY <3>1, <3>2
  <2>2. ASSUME seed'[o].pc = "map", seed'[o].users[x] # Nobody
        PROVE  /\ user'[seed'[o].users[x]].state = "live"
               /\ user'[seed'[o].users[x]].username = x
    <3>1. o # r /\ seed'[o] = seed[o]
      BY <1>1, <1>2, <2>2
    <3>2. PICK v \in Row : v = seed[o].users[x]
      BY <1>9, <2>2, <3>1
    <3>3. user[v].state = "live" /\ user[v].username = x
      BY <1>3, <2>2, <3>1, <3>2 DEF AccountsFit, AtHome, Rosters!Exists
    <3>4. v = u => x = e
      <4>1. moved = {} /\ x # Nobody
        BY <1>3, <1>4
      <4> QED BY <1>5, <3>3, <4>1 DEF AccountsFit, RowsFit, Rosters!Exists
    <3> QED BY <1>3, <3>1, <3>2, <3>3, <3>4
  <2> QED BY <2>1, <2>2
<1>13. AgentFits'
  <2> SUFFICES ASSUME NEW o \in Run, seed'[o].pc = "users", Agent \in WrittenBy(o)',
                      Agent \notin touched'[o]
               PROVE  seed'[o].agent \in Rosters!Holders(Agent)'
    BY DEF AgentFits
  <2>1. CASE o = r /\ e = Agent
    BY <1>1, <1>3, <2>1 DEF Rosters!Holders
  <2>2. CASE o # r \/ e # Agent
    <3>1. seed[o].pc = "users" /\ Agent \in WrittenBy(o) /\ seed'[o].agent = seed[o].agent
      BY <1>1, <1>2, <2>2
    <3>2. seed[o].agent \in Rosters!Holders(Agent)
      BY <1>3, <3>1 DEF AccountsFit, AgentFits
    <3> QED BY <1>7, <3>1, <3>2, SeedAssumption
  <2> QED BY <2>1, <2>2
<1>14. ASSUME NEW o \in Run, e \in WrittenBy(o)', Agent \notin Rosters!Changed(o)',
              Rosters!IsClient(e)
       PROVE  seed[r].agent \in Rosters!Holders(Agent)'
  <2>1. Agent \in WrittenBy(r) /\ e # Agent
    <3>1. PICK i \in DOMAIN Seeds : i = seed[r].step /\ Seeds[i] = e
      BY <1>1 DEF Writes, RosterTyped, StepsFit
    <3>2. PICK j \in 1..(i - 1) : Seeds[j] = Agent
      BY <1>14, <3>1, SeedAssumption
    <3>3. Agent \in WrittenBy(r)
      BY <1>1, <3>1, <3>2, SeedAssumption DEF WrittenBy
    <3>4. j \in DOMAIN Seeds /\ j # i
      BY <3>1, <3>2, ListFacts
    <3> QED BY <3>1, <3>2, <3>3, <3>4, SeedAssumption
  <2>2. Agent \notin touched[r]
    <3>1. Agent \notin Rosters!Changed(o) /\ together \subseteq Run
      BY <1>8, <1>14 DEF RosterTyped, Rosters!TypeOK
    <3>2. touched[o] \subseteq Rosters!Changed(o)
      BY <3>1, ChangedHolds
    <3>3. o = r \/ (o \in together /\ r \in together) \/ touched[r] \subseteq touched[o]
      <4>1. seed[o].pc # "idle"
        BY <1>1, <1>2, <1>14 DEF WrittenBy
      <4> QED BY <1>1, <4>1 DEF RunsFit
    <3>4. o \in together /\ r \in together => touched[r] \subseteq Rosters!Changed(o)
      BY ChangedHolds, <3>1
    <3> QED BY <3>1, <3>2, <3>3, <3>4
  <2>3. seed[r].agent \in Rosters!Holders(Agent)
    BY <1>1, <2>1, <2>2 DEF AccountsFit, AgentFits
  <2> QED BY <1>7, <2>3, SeedAssumption
<1>15. StaysWritten'
  <2> SUFFICES ASSUME NEW o \in Run, NEW x \in WrittenBy(o)', x \notin Rosters!Changed(o)'
               PROVE  \E v \in Row :
                          /\ AsWritten(x, v)'
                          /\ Agent \notin Rosters!Changed(o)' => HasAgent(x, v)'
    BY DEF StaysWritten
  <2>1. CASE x = e
    <3>1. AsWritten(e, u)'
      BY <1>3 DEF AsWritten
    <3>2. Agent \notin Rosters!Changed(o)' => HasAgent(e, u)'
      BY <1>3, <1>14, <2>1 DEF HasAgent
    <3> QED BY <2>1, <3>1, <3>2
  <2>2. CASE x # e
    <3>1. x \in WrittenBy(o) /\ x \notin Rosters!Changed(o) /\ x \in Rosters!Seeded
      BY <1>1, <1>2, <1>8, <2>2 DEF WrittenBy
    <3>2. PICK v \in Row :
              /\ AsWritten(x, v)
              /\ Agent \notin Rosters!Changed(o) => HasAgent(x, v)
      BY <3>1 DEF AccountsFit, StaysWritten
    <3>3. v # u
      BY <1>4, <1>5, <2>2, <3>1, <3>2 DEF AsWritten
    <3>4. AsWritten(x, v)'
      BY <1>3, <3>2, <3>3 DEF AsWritten
    <3>5. Agent \notin Rosters!Changed(o)' => HasAgent(x, v)'
      BY <1>3, <1>7, <1>8, <3>2, <3>3, SeedAssumption DEF HasAgent
    <3> QED BY <3>4, <3>5
  <2> QED BY <2>1, <2>2
<1>16. StaysMapped'
  <2> SUFFICES ASSUME NEW o \in Run
               PROVE  /\ seed'[o].pc = "map" =>
                           \A x \in Rosters!Seeded : x \notin Rosters!Changed(o)'
                               => seed'[o].users[x] \in Rosters!Holders(x)'
                      /\ \A x \in MappedBy(o)', v \in Row :
                           x \notin Rosters!Changed(o)' /\ user'[v].email = x
                               => <<TypeOf[x], v>> \in roleUser'
    BY DEF StaysMapped
  <2>1. CASE o = r
    BY <1>1, <2>1
  <2>2. CASE o # r
    <3>1. seed'[o] = seed[o] /\ MappedBy(o)' = MappedBy(o)
      BY <1>2, <2>2
    <3>2. ASSUME seed'[o].pc = "map", NEW x \in Rosters!Seeded, x \notin Rosters!Changed(o)'
          PROVE  seed'[o].users[x] \in Rosters!Holders(x)'
      <4>1. seed[o].users[x] \in Rosters!Holders(x)
        BY <1>8, <3>1, <3>2 DEF AccountsFit, StaysMapped
      <4> QED BY <1>7, <3>1, <4>1
    <3>3. ASSUME NEW x \in MappedBy(o), NEW v \in Row, x \notin Rosters!Changed(o)',
                 user'[v].email = x
          PROVE  <<TypeOf[x], v>> \in roleUser'
      <4>1. x \in Rosters!Seeded /\ x \in WrittenBy(o) /\ x \notin Rosters!Changed(o)
        BY <1>8, <3>3 DEF MappedBy, WrittenBy
      <4>2. PICK w \in Row : user[w].email = x
        BY <4>1 DEF AccountsFit, StaysWritten, AsWritten
      <4>3. user[v].email = x
        BY <1>3, <1>5, <1>6, <3>3, <4>2
      <4> QED BY <1>3, <3>3, <4>1, <4>3 DEF AccountsFit, StaysMapped
    <3> QED BY <3>1, <3>2, <3>3
  <2> QED BY <2>1, <2>2
<1>17. Rosters!RolesFollowTypeAlone'
  <2> SUFFICES ASSUME NEW p \in roleUser
               PROVE  user'[p[2]].type = p[1] \/ p[2] \in retyped' \cup newcomer'
    BY <1>3 DEF Rosters!RolesFollowTypeAlone
  <2>1. PICK v \in Row : v = p[2]
    BY <1>9
  <2>2. Rosters!Exists(v) /\ (user[v].type = p[1] \/ v \in retyped \cup newcomer)
    BY <2>1 DEF AccountsFit, RowsFit, Rosters!RolesFollowTypeAlone
  <2> QED BY <1>3, <2>1, <2>2
<1> QED BY <1>10, <1>11, <1>12, <1>13, <1>15, <1>16, <1>17 DEF AccountsFit

\* when it reads them,
LEMMA ReadsKeep ==
    ASSUME RosterTyped, RosterTyped', AccountsFit, NEW r \in Run, Reads(r)
    PROVE  AccountsFit'
<1>1. /\ seed[r].pc = "read" /\ seed'[r].pc = "map" /\ r \in Rosters!Running
      /\ WrittenBy(r) = Rosters!Seeded /\ WrittenBy(r)' = Rosters!Seeded
      /\ MappedBy(r)' = {}
      /\ \A e \in Rosters!Seeded : \/ Rosters!Holders(e) = {} /\ seed'[r].users[e] = Nobody
                                   \/ seed'[r].users[e] \in Rosters!Holders(e)
  BY DEF Reads, Rosters!Running, WrittenBy, MappedBy
<1>2. \A o \in Run \ {r} :
        seed'[o] = seed[o] /\ WrittenBy(o)' = WrittenBy(o) /\ MappedBy(o)' = MappedBy(o)
  BY DEF Reads, WrittenBy, MappedBy
<1>3. UNCHANGED <<user, roleUser, touched, moved, newcomer, retyped, together>>
  BY DEF Reads
<1>4. /\ \A e : Rosters!Holders(e)' = Rosters!Holders(e)
      /\ \A o \in Run : Rosters!Changed(o)' = Rosters!Changed(o)
      /\ Nobody \notin Rosters!Seeded
  BY <1>3, SeedAssumption DEF Rosters!Holders, Rosters!Changed, Rosters!Address
<1>5. roleUser \subseteq Rosters!Type \X Row
  BY DEF RosterTyped, Rosters!TypeOK
<1>6. RowsFit'
  <2>1. ASSUME NEW o \in Run, NEW x \in Rosters!Seeded, seed'[o].pc = "map",
               seed'[o].users[x] # Nobody
        PROVE  user'[seed'[o].users[x]].state # "none"
    <3>1. CASE o = r
      <4>1. seed'[r].users[x] \in Rosters!Holders(x)
        BY <1>1, <2>1, <3>1
      <4> QED BY <1>3, <1>4, <3>1, <4>1 DEF Rosters!Holders, AccountsFit, RowsFit,
                 Rosters!Exists
    <3>2. CASE o # r
      BY <1>2, <1>3, <2>1, <3>2 DEF AccountsFit, RowsFit
    <3> QED BY <3>1, <3>2
  <2> QED BY <1>3, <2>1 DEF AccountsFit, RowsFit, Rosters!Exists
<1>7. TypesFollow'
  <2> SUFFICES ASSUME NEW o \in Rosters!Running', NEW x \in Rosters!Seeded, NEW v \in Row,
                      \/ x \in WrittenBy(o)' /\ user'[v].email = x
                      \/ seed'[o].pc = "map" /\ seed'[o].users[x] = v /\ Rosters!Exists(v)'
               PROVE  user'[v].type = TypeOf[x] \/ v \in retyped' \cup newcomer'
    BY DEF TypesFollow
  <2>1. o \in Rosters!Running
    BY <1>1, <1>2 DEF Rosters!Running
  <2>2. CASE o = r
    <3>1. user[v].email = x
      BY <1>1, <1>3, <1>4, <2>2, SeedAssumption DEF Rosters!Holders
    <3> QED BY <1>1, <1>3, <2>1, <2>2, <3>1 DEF AccountsFit, TypesFollow
  <2>3. CASE o # r
    BY <1>2, <1>3, <2>1, <2>3 DEF AccountsFit, TypesFollow, Rosters!Exists, Rosters!Running
  <2> QED BY <2>2, <2>3
<1>8. AtHome'
  <2> SUFFICES ASSUME moved' = {}, NEW o \in Run, NEW x \in Rosters!Seeded
               PROVE  /\ x \in WrittenBy(o)'
                          => \E v \in Row : user'[v].email = x /\ user'[v].username = x
                      /\ seed'[o].pc = "map" /\ seed'[o].users[x] # Nobody =>
                           /\ user'[seed'[o].users[x]].state = "live"
                           /\ user'[seed'[o].users[x]].username = x
    BY DEF AtHome, Rosters!Exists
  <2>1. CASE o = r
    <3>1. PICK v \in Row : user[v].email = x /\ user[v].username = x
      BY <1>1, <1>3 DEF AccountsFit, AtHome
    <3>2. seed'[r].users[x] \in Rosters!Holders(x)
      BY <1>1, <3>1 DEF Rosters!Holders
    <3>3. seed'[r].users[x] = v /\ user[v].state = "live"
      BY <1>4, <3>1, <3>2 DEF Rosters!Holders, AccountsFit, RowsFit, Rosters!Exists
    <3> QED BY <1>3, <2>1, <3>1, <3>3
  <2>2. CASE o # r
    BY <1>2, <1>3, <2>2 DEF AccountsFit, AtHome, Rosters!Exists
  <2> QED BY <2>1, <2>2
<1>9. AgentFits'
  BY <1>1, <1>2, <1>3, <1>4 DEF AccountsFit, AgentFits
<1>10. StaysWritten'
  <2> SUFFICES ASSUME NEW o \in Run, NEW x \in WrittenBy(o)', x \notin Rosters!Changed(o)'
               PROVE  \E v \in Row :
                          /\ AsWritten(x, v)'
                          /\ Agent \notin Rosters!Changed(o)' => HasAgent(x, v)'
    BY DEF StaysWritten
  <2>1. PICK v \in Row : AsWritten(x, v) /\ (Agent \notin Rosters!Changed(o) => HasAgent(x, v))
    BY <1>1, <1>2, <1>4 DEF AccountsFit, StaysWritten
  <2> QED BY <1>3, <1>4, <2>1 DEF AsWritten, HasAgent
<1>11. StaysMapped'
  <2> SUFFICES ASSUME NEW o \in Run
               PROVE  /\ seed'[o].pc = "map" =>
                           \A x \in Rosters!Seeded : x \notin Rosters!Changed(o)'
                               => seed'[o].users[x] \in Rosters!Holders(x)'
                      /\ \A x \in MappedBy(o)', v \in Row :
                           x \notin Rosters!Changed(o)' /\ user'[v].email = x
                               => <<TypeOf[x], v>> \in roleUser'
    BY DEF StaysMapped
  <2>1. CASE o = r
    <3>1. ASSUME NEW x \in Rosters!Seeded, x \notin Rosters!Changed(r)'
          PROVE  seed'[r].users[x] \in Rosters!Holders(x)'
      <4>1. PICK v \in Row : user[v].email = x
        BY <1>1, <1>4, <3>1 DEF AccountsFit, StaysWritten, AsWritten
      <4>2. Rosters!Holders(x) # {}
        BY <4>1 DEF Rosters!Holders
      <4> QED BY <1>1, <1>4, <4>2
    <3> QED BY <1>1, <2>1, <3>1
  <2>2. CASE o # r
    BY <1>2, <1>3, <1>4, <2>2 DEF AccountsFit, StaysMapped
  <2> QED BY <2>1, <2>2
<1>12. Rosters!RolesFollowTypeAlone'
  BY <1>3 DEF AccountsFit, Rosters!RolesFollowTypeAlone
<1> QED BY <1>6, <1>7, <1>8, <1>9, <1>10, <1>11, <1>12 DEF AccountsFit

\* when it gives one its role,
LEMMA MapsKeep ==
    ASSUME RosterTyped, RosterTyped', AccountsFit, NEW r \in Run, NEW e \in Rosters!Seeded,
           Maps(r, e)
    PROVE  AccountsFit'
<1>1. /\ seed[r].pc = "map" /\ r \in Rosters!Running /\ seed'[r].pc \in {"map", "done"}
      /\ WrittenBy(r) = Rosters!Seeded /\ WrittenBy(r)' = Rosters!Seeded
      /\ MappedBy(r)' = MappedBy(r) \cup {e} /\ seed'[r].users = seed[r].users
  BY DEF Maps, Rosters!Running, WrittenBy
<1>2. \A o \in Run \ {r} :
        seed'[o] = seed[o] /\ WrittenBy(o)' = WrittenBy(o) /\ MappedBy(o)' = MappedBy(o)
  BY DEF Maps, WrittenBy, MappedBy
<1>3. UNCHANGED <<user, touched, moved, newcomer, retyped, together>>
  BY DEF Maps
<1>4. /\ \A x : Rosters!Holders(x)' = Rosters!Holders(x)
      /\ \A o \in Run : Rosters!Changed(o)' = Rosters!Changed(o)
  BY <1>3 DEF Rosters!Holders, Rosters!Changed
<1>5. PICK u : u = seed[r].users[e]
  OBVIOUS
<1>6. IF u = Nobody THEN roleUser' = roleUser
      ELSE u \in Row /\ Rosters!Exists(u) /\ roleUser' = roleUser \cup {<<TypeOf[e], u>>}
  <2>1. u \in Row \cup {Nobody}
    BY <1>5 DEF RosterTyped, Rosters!TypeOK
  <2> QED BY <1>5, <2>1 DEF Maps
<1>7. /\ \A o \in Run, x \in Rosters!Seeded :
           seed'[o].pc = "map" => seed[o].pc = "map" /\ seed'[o].users = seed[o].users
      /\ \A o \in Run : WrittenBy(o)' = WrittenBy(o)
      /\ \A o \in Rosters!Running' : o \in Rosters!Running
  BY <1>1, <1>2 DEF Rosters!Running
<1>8. RowsFit'
  <2>1. \A p \in roleUser' : user[p[2]].state = "live"
    BY <1>6 DEF AccountsFit, RowsFit, Rosters!Exists
  <2> QED BY <1>3, <1>7, <2>1 DEF AccountsFit, RowsFit, Rosters!Exists
<1>9. TypesFollow'
  <2> SUFFICES ASSUME NEW o \in Rosters!Running', NEW x \in Rosters!Seeded, NEW v \in Row,
                      \/ x \in WrittenBy(o)' /\ user'[v].email = x
                      \/ seed'[o].pc = "map" /\ seed'[o].users[x] = v /\ Rosters!Exists(v)'
               PROVE  user'[v].type = TypeOf[x] \/ v \in retyped' \cup newcomer'
    BY DEF TypesFollow
  <2>1. o \in Rosters!Running /\ o \in Run
    BY <1>7 DEF Rosters!Running
  <2>2. \/ x \in WrittenBy(o) /\ user[v].email = x
        \/ seed[o].pc = "map" /\ seed[o].users[x] = v /\ Rosters!Exists(v)
    BY <1>3, <1>7, <2>1 DEF Rosters!Exists
  <2> QED BY <1>3, <2>1, <2>2 DEF AccountsFit, TypesFollow
<1>10. AtHome'
  <2> SUFFICES ASSUME moved' = {}, NEW o \in Run, NEW x \in Rosters!Seeded
               PROVE  /\ x \in WrittenBy(o)'
                          => \E v \in Row : user'[v].email = x /\ user'[v].username = x
                      /\ seed'[o].pc = "map" /\ seed'[o].users[x] # Nobody =>
                           /\ user'[seed'[o].users[x]].state = "live"
                           /\ user'[seed'[o].users[x]].username = x
    BY DEF AtHome, Rosters!Exists
  <2> QED BY <1>3, <1>7 DEF AccountsFit, AtHome, Rosters!Exists
<1>11. AgentFits'
  BY <1>1, <1>2, <1>3, <1>4 DEF AccountsFit, AgentFits
<1>12. StaysWritten'
  <2> SUFFICES ASSUME NEW o \in Run, NEW x \in WrittenBy(o)', x \notin Rosters!Changed(o)'
               PROVE  \E v \in Row :
                          /\ AsWritten(x, v)'
                          /\ Agent \notin Rosters!Changed(o)' => HasAgent(x, v)'
    BY DEF StaysWritten
  <2>1. PICK v \in Row : AsWritten(x, v) /\ (Agent \notin Rosters!Changed(o) => HasAgent(x, v))
    BY <1>4, <1>7 DEF AccountsFit, StaysWritten
  <2> QED BY <1>3, <1>4, <2>1 DEF AsWritten, HasAgent
<1>13. StaysMapped'
  <2> SUFFICES ASSUME NEW o \in Run
               PROVE  /\ seed'[o].pc = "map" =>
                           \A x \in Rosters!Seeded : x \notin Rosters!Changed(o)'
                               => seed'[o].users[x] \in Rosters!Holders(x)'
                      /\ \A x \in MappedBy(o)', v \in Row :
                           x \notin Rosters!Changed(o)' /\ user'[v].email = x
                               => <<TypeOf[x], v>> \in roleUser'
    BY DEF StaysMapped
  <2>1. seed'[o].pc = "map" => \A x \in Rosters!Seeded : x \notin Rosters!Changed(o)'
            => seed'[o].users[x] \in Rosters!Holders(x)'
    BY <1>4, <1>7 DEF AccountsFit, StaysMapped
  <2>2. ASSUME NEW x \in MappedBy(o)', NEW v \in Row, x \notin Rosters!Changed(o)',
               user'[v].email = x
        PROVE  <<TypeOf[x], v>> \in roleUser'
    <3>1. CASE x \in MappedBy(o)
      BY <1>3, <1>4, <1>6, <2>2, <3>1 DEF AccountsFit, StaysMapped
    <3>2. CASE x \notin MappedBy(o)
      <4>1. o = r /\ x = e
        BY <1>1, <1>2, <3>2
      <4>2. u \in Rosters!Holders(e)
        BY <1>1, <1>4, <1>5, <2>2, <4>1 DEF AccountsFit, StaysMapped
      <4>3. u = v /\ u # Nobody
        BY <1>3, <2>2, <4>1, <4>2, SeedAssumption DEF Rosters!Holders, AccountsFit, RowsFit,
           Rosters!Address
      <4> QED BY <1>6, <4>1, <4>3
    <3> QED BY <3>1, <3>2
  <2> QED BY <2>1, <2>2
<1>14. Rosters!RolesFollowTypeAlone'
  <2>1. u # Nobody => user[u].type = TypeOf[e] \/ u \in retyped \cup newcomer
    BY <1>1, <1>5, <1>6 DEF AccountsFit, TypesFollow
  <2> QED BY <1>3, <1>6, <2>1 DEF AccountsFit, Rosters!RolesFollowTypeAlone
<1> QED BY <1>8, <1>9, <1>10, <1>11, <1>12, <1>13, <1>14 DEF AccountsFit

\* and when an account moves, changes or goes.
LEMMA MovesKeep ==
    ASSUME RosterTyped, RosterTyped', AccountsFit, NEW u \in Row, RowMoves(u)
    PROVE  AccountsFit'
<1>1. /\ \A v \in Row \ {u} : user'[v] = user[v]
      /\ roleUser' = {p \in roleUser : p[2] # u \/ user'[u].state = "live"}
      /\ user'[u].state # "none" /\ (user'[u].state # "live" => user[u].state = "live")
      /\ IF user'[u].state = "live"
         THEN /\ user'[u].email \in Rosters!Address
              /\ \A v \in Row : user[v].email = user'[u].email => v = u
              /\ user'[u].username = user[u].username
         ELSE user'[u].email = Nobody /\ user'[u].username = Nobody
      /\ moved \subseteq moved' /\ newcomer \subseteq newcomer' /\ retyped \subseteq retyped'
      /\ user[u].username # Nobody /\ user'[u].email # user[u].email => moved' # {}
      /\ user'[u].email \in Rosters!Seeded \ {user[u].email} /\ Rosters!Running # {}
           => u \in newcomer'
      /\ user[u].state = "live" /\ user'[u].state = "live" /\ user'[u].type # user[u].type
           => u \in retyped'
      /\ UNCHANGED <<seed, together>>
  BY DEF RowMoves, Rosters!Exists, Rosters!Holders
<1>2. \A r \in Run : touched'[r] = IF seed[r].pc # "idle"
                       THEN touched[r]
                              \cup ({user[u].username, user[u].email} \cap Rosters!Seeded)
                       ELSE touched[r]
  BY DEF RowMoves
<1>3. \A r \in Run : WrittenBy(r)' = WrittenBy(r) /\ MappedBy(r)' = MappedBy(r)
  BY <1>1 DEF WrittenBy, MappedBy
<1>4. \A r \in Run : Rosters!Changed(r) \subseteq Rosters!Changed(r)'
        /\ touched'[r] \subseteq Rosters!Changed(r)'
  <2>1. together \subseteq Run
    BY DEF RosterTyped, Rosters!TypeOK
  <2> QED BY <1>1, <1>2, <2>1, ChangedGrows
<1>5. Nobody \notin Rosters!Address /\ Nobody \notin Rosters!Seeded /\ Nobody \notin Row
        /\ Agent \in Rosters!Seeded
  BY SeedAssumption DEF Rosters!Address
<1>6. roleUser \subseteq Rosters!Type \X Row
        /\ \A r \in Run : seed[r].users \in [Rosters!Seeded -> Row \cup {Nobody}]
  BY DEF RosterTyped, Rosters!TypeOK
<1>7. ASSUME NEW r \in Run, NEW e \in WrittenBy(r), e \notin Rosters!Changed(r)'
      PROVE  user[u].email # e /\ user[u].username # e
  <2>1. seed[r].pc # "idle" /\ e \in Rosters!Seeded
    BY DEF WrittenBy
  <2> QED BY <1>2, <1>4, <1>7, <2>1
<1>8. ASSUME NEW r \in Run, WrittenBy(r) # {}, Agent \notin touched'[r]
      PROVE  Rosters!Holders(Agent) \subseteq Rosters!Holders(Agent)'
  <2>1. user[u].email # Agent
    BY <1>2, <1>5, <1>8 DEF WrittenBy
  <2> QED BY <1>1, <2>1 DEF Rosters!Holders
<1>9. RowsFit'
  <2>1. \A v \in Row : IF Rosters!Exists(v)' THEN user'[v].email \in Rosters!Address
                      ELSE user'[v].email = Nobody /\ user'[v].username = Nobody
    BY <1>1 DEF AccountsFit, RowsFit, Rosters!Exists
  <2>2. \A v, w \in Row : user'[v].email = user'[w].email => v = w \/ user'[v].email = Nobody
    BY <1>1 DEF AccountsFit, RowsFit
  <2>3. \A v \in Row : user'[v].username # Nobody =>
                        user'[v].email = user'[v].username \/ moved' # {}
    BY <1>1 DEF AccountsFit, RowsFit
  <2>4. \A p \in roleUser' : Rosters!Exists(p[2])'
    <3> SUFFICES ASSUME NEW p \in roleUser, p[2] # u \/ user'[u].state = "live"
                 PROVE  user'[p[2]].state = "live"
      BY <1>1 DEF Rosters!Exists
    <3>1. p[2] \in Row /\ user[p[2]].state = "live"
      BY <1>6 DEF AccountsFit, RowsFit, Rosters!Exists
    <3> QED BY <1>1, <3>1
  <2>5. ASSUME NEW r \in Run, NEW e \in Rosters!Seeded, seed[r].pc = "map",
               seed[r].users[e] # Nobody
        PROVE  user'[seed[r].users[e]].state # "none"
    <3>1. seed[r].users[e] \in Row /\ user[seed[r].users[e]].state # "none"
      BY <1>6, <2>5 DEF AccountsFit, RowsFit
    <3> QED BY <1>1, <3>1
  <2> QED BY <1>1, <2>1, <2>2, <2>3, <2>4, <2>5 DEF RowsFit
<1>10. TypesFollow'
  <2> SUFFICES ASSUME NEW r \in Rosters!Running', NEW e \in Rosters!Seeded, NEW v \in Row,
                      \/ e \in WrittenBy(r)' /\ user'[v].email = e
                      \/ seed'[r].pc = "map" /\ seed'[r].users[e] = v /\ Rosters!Exists(v)'
               PROVE  user'[v].type = TypeOf[e] \/ v \in retyped' \cup newcomer'
    BY DEF TypesFollow
  <2>1. r \in Rosters!Running /\ r \in Run
    BY <1>1 DEF Rosters!Running
  <2>2. CASE v # u
    <3>1. \/ e \in WrittenBy(r) /\ user[v].email = e
          \/ seed[r].pc = "map" /\ seed[r].users[e] = v /\ Rosters!Exists(v)
      BY <1>1, <1>3, <2>1, <2>2 DEF Rosters!Exists
    <3> QED BY <1>1, <2>1, <2>2, <3>1 DEF AccountsFit, TypesFollow
  <2>3. CASE v = u /\ e \in WrittenBy(r) /\ user'[u].email = e
    <3>1. CASE user[u].email = e
      <4>1. user[u].state = "live" /\ user'[u].state = "live"
        BY <1>1, <1>5, <2>3, <3>1 DEF AccountsFit, RowsFit, Rosters!Exists
      <4>2. user[u].type = TypeOf[e] \/ u \in retyped \cup newcomer
        BY <2>1, <2>3, <3>1 DEF AccountsFit, TypesFollow
      <4> QED BY <1>1, <2>3, <4>1, <4>2
    <3>2. CASE user[u].email # e
      BY <1>1, <2>1, <2>3, <3>2
    <3> QED BY <3>1, <3>2
  <2>4. CASE v = u /\ seed[r].pc = "map" /\ seed[r].users[e] = u /\ user'[u].state = "live"
    <3>1. user[u].state # "none"
      BY <1>5, <2>1, <2>4 DEF AccountsFit, RowsFit
    <3>2. user[u].state = "live" \/ user[u].state = "deleted"
      BY <3>1 DEF RosterTyped, Rosters!TypeOK
    <3>3. CASE user[u].state = "live"
      <4>1. user[u].type = TypeOf[e] \/ u \in retyped \cup newcomer
        BY <2>1, <2>4, <3>3 DEF AccountsFit, TypesFollow, Rosters!Exists
      <4> QED BY <1>1, <2>4, <3>3, <4>1
    <3>4. CASE user[u].state = "deleted"
      BY <2>4, <3>4 DEF RowMoves, Rosters!Exists
    <3> QED BY <3>2, <3>3, <3>4
  <2> QED BY <1>1, <1>3, <2>1, <2>2, <2>3, <2>4 DEF Rosters!Exists
<1>11. AtHome'
  <2> SUFFICES ASSUME moved' = {}, NEW r \in Run, NEW e \in Rosters!Seeded
               PROVE  /\ e \in WrittenBy(r)'
                          => \E v \in Row : user'[v].email = e /\ user'[v].username = e
                      /\ seed'[r].pc = "map" /\ seed'[r].users[e] # Nobody =>
                           /\ user'[seed'[r].users[e]].state = "live"
                           /\ user'[seed'[r].users[e]].username = e
    BY DEF AtHome, Rosters!Exists
  <2>1. moved = {} /\ (user[u].username # Nobody => user'[u].email = user[u].email)
    BY <1>1
  <2>2. user[u].username # Nobody
            => user'[u].state = "live" /\ user'[u].username = user[u].username
    <3>1. user[u].username # Nobody => user[u].email # Nobody
      BY <1>5 DEF AccountsFit, RowsFit
    <3> QED BY <1>1, <2>1, <3>1
  <2>3. ASSUME e \in WrittenBy(r)'
        PROVE  \E v \in Row : user'[v].email = e /\ user'[v].username = e
    <3>1. PICK v \in Row : user[v].email = e /\ user[v].username = e
      BY <1>3, <2>1, <2>3 DEF AccountsFit, AtHome
    <3> QED BY <1>1, <1>5, <2>1, <2>2, <3>1
  <2>4. ASSUME seed'[r].pc = "map", seed'[r].users[e] # Nobody
        PROVE  /\ user'[seed'[r].users[e]].state = "live"
               /\ user'[seed'[r].users[e]].username = e
    <3>1. PICK v \in Row : v = seed[r].users[e] /\ seed'[r].users[e] = v
      BY <1>1, <1>6, <2>4
    <3>2. user[v].state = "live" /\ user[v].username = e
      BY <1>1, <2>1, <2>4, <3>1 DEF AccountsFit, AtHome, Rosters!Exists
    <3> QED BY <1>1, <1>5, <2>2, <3>1, <3>2
  <2> QED BY <2>3, <2>4
<1>12. AgentFits'
  <2> SUFFICES ASSUME NEW r \in Run, seed[r].pc = "users", Agent \in WrittenBy(r),
                      Agent \notin touched'[r]
               PROVE  seed[r].agent \in Rosters!Holders(Agent)'
    BY <1>1, <1>3 DEF AgentFits
  <2>1. seed[r].agent \in Rosters!Holders(Agent)
    BY <1>2 DEF AccountsFit, AgentFits
  <2> QED BY <1>8, <2>1
<1>13. StaysWritten'
  <2> SUFFICES ASSUME NEW r \in Run, NEW e \in WrittenBy(r), e \notin Rosters!Changed(r)'
               PROVE  \E v \in Row :
                          /\ AsWritten(e, v)'
                          /\ Agent \notin Rosters!Changed(r)' => HasAgent(e, v)'
    BY <1>3 DEF StaysWritten
  <2>1. PICK v \in Row : AsWritten(e, v) /\ (Agent \notin Rosters!Changed(r) => HasAgent(e, v))
    BY <1>4 DEF AccountsFit, StaysWritten
  <2>2. v # u
    BY <1>7, <2>1 DEF AsWritten
  <2>3. Agent \notin Rosters!Changed(r)'
            => Rosters!Holders(Agent) \subseteq Rosters!Holders(Agent)'
    BY <1>4, <1>8
  <2> QED BY <1>1, <1>4, <2>1, <2>2, <2>3 DEF AsWritten, HasAgent
<1>14. StaysMapped'
  <2> SUFFICES ASSUME NEW r \in Run
               PROVE  /\ seed[r].pc = "map" =>
                           \A e \in Rosters!Seeded : e \notin Rosters!Changed(r)'
                               => seed[r].users[e] \in Rosters!Holders(e)'
                      /\ \A e \in MappedBy(r), v \in Row :
                           e \notin Rosters!Changed(r)' /\ user'[v].email = e
                               => <<TypeOf[e], v>> \in roleUser'
    BY <1>1, <1>3 DEF StaysMapped
  <2>1. ASSUME seed[r].pc = "map", NEW e \in Rosters!Seeded, e \notin Rosters!Changed(r)'
        PROVE  seed[r].users[e] \in Rosters!Holders(e)'
    <3>1. e \in WrittenBy(r)
      BY <2>1 DEF WrittenBy
    <3>2. seed[r].users[e] \in Rosters!Holders(e)
      BY <1>4, <2>1 DEF AccountsFit, StaysMapped
    <3>3. seed[r].users[e] # u
      BY <1>7, <2>1, <3>1, <3>2 DEF Rosters!Holders
    <3> QED BY <1>1, <3>2, <3>3 DEF Rosters!Holders
  <2>2. ASSUME NEW e \in MappedBy(r), NEW v \in Row, e \notin Rosters!Changed(r)',
               user'[v].email = e
        PROVE  <<TypeOf[e], v>> \in roleUser'
    <3>1. e \in WrittenBy(r) /\ e \in Rosters!Seeded
      BY DEF MappedBy, WrittenBy
    <3>2. PICK w \in Row : user[w].email = e
      BY <1>4, <2>2, <3>1 DEF AccountsFit, StaysWritten, AsWritten
    <3>3. v # u
      <4>1. w # u
        BY <1>7, <2>2, <3>1, <3>2
      <4> QED BY <1>1, <1>5, <2>2, <3>1, <3>2, <4>1
    <3>4. <<TypeOf[e], v>> \in roleUser
      BY <1>1, <1>4, <2>2, <3>3 DEF AccountsFit, StaysMapped
    <3> QED BY <1>1, <3>3, <3>4
  <2> QED BY <2>1, <2>2
<1>15. Rosters!RolesFollowTypeAlone'
  <2> SUFFICES ASSUME NEW p \in roleUser, p[2] # u \/ user'[u].state = "live"
               PROVE  user'[p[2]].type = p[1] \/ p[2] \in retyped' \cup newcomer'
    BY <1>1 DEF Rosters!RolesFollowTypeAlone
  <2>1. PICK v \in Row : v = p[2]
    BY <1>6
  <2>2. user[v].state = "live" /\ (user[v].type = p[1] \/ v \in retyped \cup newcomer)
    BY <2>1 DEF AccountsFit, RowsFit, Rosters!RolesFollowTypeAlone, Rosters!Exists
  <2> QED BY <1>1, <2>1, <2>2
<1> QED BY <1>9, <1>10, <1>11, <1>12, <1>13, <1>14, <1>15 DEF AccountsFit

\* What a run has put in the lists is there, and it alone was surprised by another.
LEMMA ListsKept ==
    ASSUME RosterTyped, RosterTyped', ListsFit, RunsFit, NEW r \in Run, Rosters!RunStep(r)
    PROVE  ListsFit'
<1>0. /\ seed \in [Run -> RunRow] /\ seed[r] \in RunRow
      /\ \A o \in Run \ {r} : seed'[o] = seed[o]
      /\ together \subseteq together'
  BY RunMoves DEF RosterTyped, Rosters!TypeOK, RunRow
<1>1. ASSUME plan \subseteq plan', role \subseteq role',
             plan' = plan \/ seed[r].pc = "plans", role' = role \/ seed[r].pc = "roles",
             seed'[r].pc = "plans" =>
               /\ \A j \in 1..(seed'[r].step - 1) : Plans[j] \in plan'
               /\ seed'[r].found = "no" /\ r \notin together' =>
                    Plans[seed'[r].step] \notin plan',
             seed'[r].pc \in {"roles", "look", "users", "read", "map",
             "done"} => Rosters!Plan \subseteq plan',
             seed'[r].pc = "roles" =>
               /\ \A j \in 1..(seed'[r].step - 1) : Roles[j] \in role'
               /\ seed'[r].found = "no" /\ r \notin together' =>
                    Roles[seed'[r].step] \notin role',
             seed'[r].pc \in {"look", "users", "read", "map", "done"}
                 => Rosters!Type \subseteq role'
      PROVE  ListsFit'
  <2>1. ASSUME NEW o \in Run, o # r, seed[o].pc \in {"plans", "roles"}, o \notin together'
        PROVE  plan' = plan /\ role' = role
    <3>1. o \in Rosters!Running /\ o \notin together /\ seed[o].pc # "idle"
      BY <1>0, <2>1 DEF Rosters!Running
    <3>2. r \notin Rosters!Running
      BY <2>1, <3>1 DEF RunsFit
    <3> QED BY <1>1, <3>2 DEF Rosters!Running
  <2> SUFFICES ASSUME NEW o \in Run
               PROVE  /\ seed'[o].pc = "plans" =>
                           /\ \A j \in 1..(seed'[o].step - 1) : Plans[j] \in plan'
                           /\ seed'[o].found = "no" /\ o \notin together'
                                  => Plans[seed'[o].step] \notin plan'
                      /\ seed'[o].pc \in {"roles", "look", "users", "read", "map", "done"}
                             => Rosters!Plan \subseteq plan'
                      /\ seed'[o].pc = "roles" =>
                           /\ \A j \in 1..(seed'[o].step - 1) : Roles[j] \in role'
                           /\ seed'[o].found = "no" /\ o \notin together'
                                  => Roles[seed'[o].step] \notin role'
                      /\ seed'[o].pc \in {"look", "users", "read", "map", "done"}
                             => Rosters!Type \subseteq role'
    BY DEF ListsFit
  <2>2. CASE o = r
    BY <1>1, <2>2
  <2>3. CASE o # r
    <3>1. seed'[o] = seed[o]
      BY <1>0, <2>3
    <3>2. seed[o].pc = "plans" =>
            /\ \A j \in 1..(seed[o].step - 1) : Plans[j] \in plan'
            /\ seed[o].found = "no" /\ o \notin together' => Plans[seed[o].step] \notin plan'
      BY <1>0, <1>1, <2>1, <2>3 DEF ListsFit
    <3>3. seed[o].pc = "roles" =>
            /\ \A j \in 1..(seed[o].step - 1) : Roles[j] \in role'
            /\ seed[o].found = "no" /\ o \notin together' => Roles[seed[o].step] \notin role'
      BY <1>0, <1>1, <2>1, <2>3 DEF ListsFit
    <3>4. /\ seed[o].pc \in {"roles", "look", "users", "read", "map", "done"}
              => Rosters!Plan \subseteq plan'
          /\ seed[o].pc \in {"look", "users", "read", "map", "done"}
                 => Rosters!Type \subseteq role'
      BY <1>1 DEF ListsFit
    <3> QED BY <3>1, <3>2, <3>3, <3>4
  <2> QED BY <2>2, <2>3
<1>2. CASE Rosters!Start(r)
  <2>1. seed'[r].pc = "plans" /\ seed'[r].step = 1 /\ seed'[r].found = "ask"
    BY <1>0, <1>2 DEF Rosters!Start, RosterTyped, StepsFit, RunRow
  <2>2. UNCHANGED <<plan, role>>
    BY <1>2 DEF Rosters!Start, Rosters!stores
  <2> QED BY <1>1, <2>1, <2>2
<1>3. CASE Rosters!FindPlan(r)
  <2>1. /\ seed[r].pc = "plans" /\ seed'[r].pc = "plans" /\ seed'[r].step = seed[r].step
        /\ seed'[r].found = "no" => Plans[seed[r].step] \notin plan
        /\ UNCHANGED <<plan, role>>
    BY <1>0, <1>3 DEF Rosters!FindPlan, Rosters!stores, RunRow
  <2>2. \A j \in 1..(seed[r].step - 1) : Plans[j] \in plan
    BY <2>1 DEF ListsFit
  <2> QED BY <1>1, <2>1, <2>2
<1>4. CASE Rosters!FindRole(r)
  <2>1. /\ seed[r].pc = "roles" /\ seed'[r].pc = "roles" /\ seed'[r].step = seed[r].step
        /\ seed'[r].found = "no" => Roles[seed[r].step] \notin role
        /\ UNCHANGED <<plan, role>>
    BY <1>0, <1>4 DEF Rosters!FindRole, Rosters!stores, RunRow
  <2>2. Rosters!Plan \subseteq plan /\ \A j \in 1..(seed[r].step - 1) : Roles[j] \in role
    BY <2>1 DEF ListsFit
  <2> QED BY <1>1, <2>1, <2>2
<1>5. CASE Rosters!WritePlan(r)
  <2>1. /\ seed[r].pc = "plans" /\ seed[r].step \in DOMAIN Plans /\ Plans \in Seq(Rosters!Plan)
        /\ plan' = plan \cup {Plans[seed[r].step]} /\ role' = role
    BY <1>5, SeedAssumption DEF Rosters!WritePlan, RosterTyped, StepsFit
  <2>2. CASE seed'[r] = [seed[r] EXCEPT !.pc = "failed"]
    BY <1>0, <1>1, <2>1, <2>2 DEF RunRow
  <2>3. CASE seed'[r] = Rosters!Step(seed[r], Plans, "roles")
    <3>1. \A j \in 1..(seed[r].step - 1) : Plans[j] \in plan
      BY <2>1 DEF ListsFit
    <3>2. /\ seed'[r].found = "ask"
          /\ \/ seed'[r].pc = "plans" /\ seed'[r].step = seed[r].step + 1
             \/ /\ seed'[r].pc = "roles" /\ seed'[r].step = 1
                /\ \A j \in DOMAIN Plans : j <= seed[r].step
      BY <1>0, <2>1, <2>3, StepOn
    <3>3. \A j \in DOMAIN Plans : j <= seed[r].step => Plans[j] \in plan'
      BY <2>1, <3>1, ListFacts
    <3>4. CASE seed'[r].pc = "plans" /\ seed'[r].step = seed[r].step + 1
      <4>1. \A j \in 1..(seed[r].step + 1 - 1) : Plans[j] \in plan'
        BY <2>1, <3>3, ListFacts
      <4> QED BY <1>1, <2>1, <3>2, <3>4, <4>1
    <3>5. CASE seed'[r].pc = "roles" /\ seed'[r].step = 1
                 /\ \A j \in DOMAIN Plans : j <= seed[r].step
      <4>1. Rosters!Plan \subseteq plan'
        BY <3>3, <3>5 DEF Rosters!Plan
      <4> QED BY <1>1, <2>1, <3>2, <3>5, <4>1
    <3> QED BY <3>2, <3>4, <3>5
  <2> QED BY <1>0, <1>5, <2>2, <2>3 DEF Rosters!WritePlan
<1>6. CASE Rosters!WriteRole(r)
  <2>1. /\ seed[r].pc = "roles" /\ seed[r].step \in DOMAIN Roles /\ Roles \in Seq(Rosters!Type)
        /\ role' = role \cup {Roles[seed[r].step]} /\ plan' = plan
    BY <1>6, SeedAssumption DEF Rosters!WriteRole, RosterTyped, StepsFit
  <2>2. CASE seed'[r] = [seed[r] EXCEPT !.pc = "failed"]
    BY <1>0, <1>1, <2>1, <2>2 DEF RunRow
  <2>3. CASE seed'[r] = Rosters!Step(seed[r], Roles, "look")
    <3>1. Rosters!Plan \subseteq plan /\ \A j \in 1..(seed[r].step - 1) : Roles[j] \in role
      BY <2>1 DEF ListsFit
    <3>2. /\ seed'[r].found = "ask"
          /\ \/ seed'[r].pc = "roles" /\ seed'[r].step = seed[r].step + 1
             \/ /\ seed'[r].pc = "look" /\ seed'[r].step = 1
                /\ \A j \in DOMAIN Roles : j <= seed[r].step
      BY <1>0, <2>1, <2>3, StepOn
    <3>3. \A j \in DOMAIN Roles : j <= seed[r].step => Roles[j] \in role'
      BY <2>1, <3>1, ListFacts
    <3>4. CASE seed'[r].pc = "roles" /\ seed'[r].step = seed[r].step + 1
      <4>1. \A j \in 1..(seed[r].step + 1 - 1) : Roles[j] \in role'
        BY <2>1, <3>3, ListFacts
      <4> QED BY <1>1, <2>1, <3>1, <3>2, <3>4, <4>1
    <3>5. CASE seed'[r].pc = "look" /\ seed'[r].step = 1
                 /\ \A j \in DOMAIN Roles : j <= seed[r].step
      <4>1. Rosters!Type \subseteq role'
        BY <3>3, <3>5 DEF Rosters!Type
      <4> QED BY <1>1, <2>1, <3>1, <3>2, <3>5, <4>1
    <3> QED BY <3>2, <3>4, <3>5
  <2> QED BY <1>0, <1>6, <2>2, <2>3 DEF Rosters!WriteRole
<1>7. CASE Rosters!LookUpPlans(r) \/ Rosters!UpsertUser(r) \/ Rosters!ReadUsers(r)
             \/ Rosters!MapRole(r)
  <2>1. /\ UNCHANGED <<plan, role>> /\ Rosters!Plan \subseteq plan
          /\ Rosters!Type \subseteq role
        /\ seed[r].pc \in {"look", "users", "read", "map"}
    BY <1>7 DEF Rosters!LookUpPlans, Rosters!UpsertUser, Rosters!ReadUsers, Rosters!MapRole,
       Rosters!stores, ListsFit
  <2>2. seed'[r].pc \notin {"plans", "roles"}
    <3>1. CASE Rosters!LookUpPlans(r) \/ Rosters!ReadUsers(r)
      BY <1>0, <3>1 DEF Rosters!LookUpPlans, Rosters!ReadUsers, RunRow
    <3>2. CASE Rosters!UpsertUser(r) \/ Rosters!MapRole(r)
      <4>1. seed[r].step \in DOMAIN Seeds /\ Seeds \in Seq(Rosters!Seeded)
            /\ seed[r].pc \in {"users", "map"}
        BY <3>2, SeedAssumption DEF Rosters!UpsertUser, Rosters!MapRole, RosterTyped, StepsFit
      <4> DEFINE t == Rosters!Step(seed[r], Seeds, "read")
                 d == Rosters!Step(seed[r], Seeds, "done")
      <4>2. t \in RunRow /\ t.pc \in {"users", "map", "read"}
              /\ d.pc \in {"users", "map", "done"}
        BY <1>0, <4>1, StepOn
      <4>3. \/ seed' = [seed EXCEPT ![r].pc = "failed"] \/ seed' = [seed EXCEPT ![r] = d]
            \/ \E a : seed' = [seed EXCEPT ![r] = [t EXCEPT !.agent = a]]
        <5>1. CASE Rosters!MapRole(r)
          BY <1>0, <5>1 DEF Rosters!MapRole
        <5>2. CASE Rosters!UpsertUser(r)
          <6>1. \/ seed' = [seed EXCEPT ![r].pc = "failed"]
                \/ \E u : seed' = [seed EXCEPT ![r] = [t EXCEPT
                                   !.agent = IF Seeds[seed[r].step] = Agent THEN u
                                             ELSE t.agent]]
            BY <5>2 DEF Rosters!UpsertUser
          <6> QED BY <6>1
        <5> QED BY <3>2, <5>1, <5>2
      <4> HIDE DEF t, d
      <4> QED BY <1>0, <4>2, <4>3 DEF RunRow
    <3> QED BY <1>7, <3>1, <3>2
  <2> QED BY <1>1, <2>1, <2>2
<1>8. CASE Rosters!CutOff(r)
  <2>1. seed'[r].pc = "failed" /\ UNCHANGED <<plan, role>>
    BY <1>0, <1>8 DEF Rosters!CutOff, Rosters!stores, RunRow
  <2> QED BY <1>1, <2>1
<1> QED BY <1>2, <1>3, <1>4, <1>5, <1>6, <1>7, <1>8 DEF Rosters!RunStep

\* Runs know of each other, and see alike what changes.
LEMMA RunsKept ==
    ASSUME RosterTyped, RunsFit, NEW r \in Run, Rosters!RunStep(r)
    PROVE  RunsFit'
<1>0. /\ seed \in [Run -> RunRow] /\ seed[r] \in RunRow
      /\ \A o \in Run \ {r} : seed'[o] = seed[o]
      /\ touched' = touched /\ together \subseteq together' /\ seed'[r].pc # "idle"
  BY RunMoves DEF RosterTyped, Rosters!TypeOK, RunRow
<1>1. CASE Rosters!Start(r)
  <2>1. /\ seed[r].pc = "idle" /\ seed'[r].pc = "plans" /\ touched[r] = {}
        /\ Rosters!Running # {} => Rosters!Running \cup {r} \subseteq together'
    BY <1>0, <1>1 DEF Rosters!Start, RosterTyped, StepsFit, RunRow
  <2>2. Rosters!Running' = Rosters!Running \cup {r} /\ r \notin Rosters!Running
    BY <1>0, <2>1 DEF Rosters!Running
  <2> SUFFICES ASSUME NEW o \in Run, NEW s \in Rosters!Running \cup {r}, o # s,
                      seed'[o].pc # "idle"
               PROVE  \/ o \in together' /\ s \in together'
                      \/ o \notin Rosters!Running' /\ touched[s] \subseteq touched[o]
    BY <1>0, <2>2 DEF RunsFit
  <2>3. CASE s = r
    <3>1. CASE o \in Rosters!Running
      BY <2>1, <2>3, <3>1
    <3>2. CASE o \notin Rosters!Running
      BY <2>1, <2>2, <2>3, <3>2
    <3> QED BY <3>1, <3>2
  <2>4. CASE s # r /\ o = r
    BY <2>1, <2>4
  <2>5. CASE s # r /\ o # r
    BY <1>0, <2>2, <2>5 DEF RunsFit
  <2> QED BY <2>3, <2>4, <2>5
<1>2. CASE seed[r].pc # "idle"
  <2>1. r \in Rosters!Running
    BY <1>2 DEF Rosters!RunStep, Rosters!Start, Rosters!FindPlan, Rosters!WritePlan,
       Rosters!FindRole, Rosters!WriteRole, Rosters!LookUpPlans, Rosters!UpsertUser,
             Rosters!ReadUsers, Rosters!MapRole, Rosters!CutOff, Rosters!Running
  <2>2. Rosters!Running' \subseteq Rosters!Running
          /\ \A o \in Run \ {r} : o \in Rosters!Running' <=> o \in Rosters!Running
    BY <1>0, <2>1 DEF Rosters!Running
  <2> SUFFICES ASSUME NEW o \in Run, NEW s \in Rosters!Running', o # s, seed'[o].pc # "idle"
               PROVE  \/ o \in together' /\ s \in together'
                      \/ o \notin Rosters!Running' /\ touched[s] \subseteq touched[o]
    BY <1>0 DEF RunsFit
  <2>3. seed[o].pc # "idle" /\ s \in Rosters!Running
    BY <1>0, <1>2, <2>2
  <2> QED BY <1>0, <2>1, <2>2, <2>3 DEF RunsFit
<1>3. Rosters!Start(r) \/ seed[r].pc # "idle"
  BY DEF Rosters!RunStep, Rosters!FindPlan, Rosters!WritePlan, Rosters!FindRole,
     Rosters!WriteRole, Rosters!LookUpPlans, Rosters!UpsertUser,
         Rosters!ReadUsers, Rosters!MapRole, Rosters!CutOff, Rosters!Running
<1> QED BY <1>1, <1>2, <1>3

\* A run fails only when it is cut off, is not alone, or an account has moved.
LEMMA RunsSucceed ==
    ASSUME RosterTyped, ListsFit, RowsFit, AtHome, Rosters!RerunSucceedsAlone, NEW r \in Run,
           Rosters!RunStep(r)
    PROVE  Rosters!RerunSucceedsAlone'
<1>0. /\ seed \in [Run -> RunRow] /\ seed[r] \in RunRow
      /\ \A o \in Run \ {r} : seed'[o] = seed[o]
      /\ together \subseteq together' /\ cut \subseteq cut' /\ moved' = moved
  BY RunMoves DEF RosterTyped, Rosters!TypeOK, RunRow
<1> SUFFICES ASSUME seed'[r].pc = "failed" PROVE r \in together \cup cut' \/ moved # {}
  BY <1>0 DEF Rosters!RerunSucceedsAlone
<1>1. CASE Rosters!Start(r) \/ Rosters!FindPlan(r) \/ Rosters!FindRole(r)
             \/ Rosters!ReadUsers(r)
  BY <1>0, <1>1 DEF Rosters!Start, Rosters!FindPlan, Rosters!FindRole, Rosters!ReadUsers, RunRow
<1>2. CASE Rosters!CutOff(r)
  BY <1>2 DEF Rosters!CutOff
<1>3. CASE Rosters!LookUpPlans(r)
  BY <1>0, <1>3 DEF Rosters!LookUpPlans, ListsFit, RunRow
<1>4. CASE Rosters!WritePlan(r)
  <2>1. seed[r].pc = "plans" /\ seed[r].step \in DOMAIN Plans /\ Plans \in Seq(Rosters!Plan)
    BY <1>4, SeedAssumption DEF Rosters!WritePlan, RosterTyped, StepsFit
  <2>2. Rosters!Step(seed[r], Plans, "roles").pc \in {"plans", "roles"}
    BY <1>0, <2>1, StepOn
  <2>3. seed[r].found = "no" /\ Plans[seed[r].step] \in plan
    BY <1>0, <1>4, <2>2 DEF Rosters!WritePlan, Rosters!Collides
  <2> QED BY <2>1, <2>3 DEF ListsFit
<1>5. CASE Rosters!WriteRole(r)
  <2>1. seed[r].pc = "roles" /\ seed[r].step \in DOMAIN Roles /\ Roles \in Seq(Rosters!Type)
    BY <1>5, SeedAssumption DEF Rosters!WriteRole, RosterTyped, StepsFit
  <2>2. Rosters!Step(seed[r], Roles, "look").pc \in {"roles", "look"}
    BY <1>0, <2>1, StepOn
  <2>3. seed[r].found = "no" /\ Roles[seed[r].step] \in role
    BY <1>0, <1>5, <2>2 DEF Rosters!WriteRole, Rosters!Collides
  <2> QED BY <2>1, <2>3 DEF ListsFit
<1>6. CASE Rosters!UpsertUser(r)
  <2> DEFINE t == Rosters!Step(seed[r], Seeds, "read")
  <2>1. seed[r].pc = "users" /\ seed[r].step \in DOMAIN Seeds /\ Seeds \in Seq(Rosters!Seeded)
    BY <1>6, SeedAssumption DEF Rosters!UpsertUser, RosterTyped, StepsFit
  <2>2. PICK e \in Rosters!Seeded : e = Seeds[seed[r].step]
    BY <2>1 DEF Rosters!Seeded
  <2>3. t \in RunRow /\ t.pc \in {"users", "read"}
    BY <1>0, <2>1, StepOn
  <2>4. \/ Rosters!Named(e) \ Rosters!Holders(e) # {}
        \/ \E u : seed' = [seed EXCEPT ![r] = [t EXCEPT !.agent = IF e = Agent THEN u ELSE @]]
    BY <1>6, <2>2 DEF Rosters!UpsertUser
  <2> HIDE DEF t
  <2>5. Rosters!Named(e) \ Rosters!Holders(e) # {}
    BY <1>0, <2>3, <2>4 DEF RunRow
  <2> QED BY <2>2, <2>5, SeedAssumption DEF Rosters!Named, Rosters!Holders, RowsFit,
             Rosters!Address
<1>7. CASE Rosters!MapRole(r)
  <2>1. seed[r].pc = "map" /\ seed[r].step \in DOMAIN Seeds /\ Seeds \in Seq(Rosters!Seeded)
    BY <1>7, SeedAssumption DEF Rosters!MapRole, RosterTyped, StepsFit
  <2>2. PICK e \in Rosters!Seeded : e = Seeds[seed[r].step]
    BY <2>1 DEF Rosters!Seeded
  <2>3. Rosters!Step(seed[r], Seeds, "done").pc \in {"map", "done"}
    BY <1>0, <2>1, StepOn
  <2>4. seed[r].users[e] # Nobody /\ ~Rosters!Exists(seed[r].users[e])
    BY <1>0, <1>7, <2>2, <2>3 DEF Rosters!MapRole
  <2> QED BY <2>1, <2>4 DEF AtHome
<1> QED BY <1>1, <1>2, <1>3, <1>4, <1>5, <1>6, <1>7 DEF Rosters!RunStep

\* Whatever moves, the lists, the runs and the accounts fit.
LEMMA RosterStays == RosterInv /\ [Rosters!Next]_Rosters!vars => RosterInv'
<1> SUFFICES ASSUME RosterInv, [Rosters!Next]_Rosters!vars PROVE RosterInv'
  OBVIOUS
<1>0. /\ RosterTyped /\ RosterTyped' /\ AccountsFit /\ ListsFit /\ RunsFit
        /\ Rosters!RerunSucceedsAlone
      /\ RowsFit /\ AtHome
  BY RosterStaysTyped DEF RosterInv, AccountsFit
<1>1. ASSUME NEW r \in Run, Rosters!RunStep(r) PROVE RosterInv'
  <2>1. AccountsFit'
    BY <1>0, <1>1, RunShapes, QuietKeeps, ReadsKeep, MapsKeep, WritesKeep
  <2>2. ListsFit' /\ RunsFit' /\ Rosters!RerunSucceedsAlone'
    BY <1>0, <1>1, ListsKept, RunsKept, RunsSucceed
  <2> QED BY <1>0, <2>1, <2>2 DEF RosterInv, AccountsFit
<1>2. ASSUME RowsStand \/ \E u \in Row : RowMoves(u) PROVE RosterInv'
  <2>1. UNCHANGED <<plan, role, seed, together, cut>> /\ moved \subseteq moved'
    BY <1>2 DEF RowsStand, RowMoves
  <2>2. AccountsFit'
    <3>1. RowsStand => Quiet
      BY DEF RowsStand, Quiet
    <3> QED BY <1>0, <1>2, <3>1, QuietKeeps, MovesKeep
  <2>3. ListsFit' /\ Rosters!RerunSucceedsAlone'
    BY <1>0, <2>1 DEF ListsFit, Rosters!RerunSucceedsAlone
  <2>4. RunsFit'
    <3>1. \A s \in Rosters!Running, r \in Run :
            seed[r].pc # "idle" /\ touched[s] \subseteq touched[r]
                => touched'[s] \subseteq touched'[r]
      BY <1>2 DEF RowsStand, RowMoves, Rosters!Running
    <3> QED BY <1>0, <2>1, <3>1 DEF RunsFit, Rosters!Running
  <2> QED BY <1>0, <2>2, <2>3, <2>4 DEF RosterInv, AccountsFit
<1>3. CASE UNCHANGED Rosters!vars
  <2>1. RowsStand
    BY <1>0, <1>3 DEF Rosters!vars, RowsStand, Alike, RosterTyped, Rosters!TypeOK, UserRow
  <2> QED BY <1>2, <2>1
<1>4. ASSUME Rosters!Next, ~\E r \in Run : Rosters!RunStep(r)
      PROVE  RowsStand \/ \E u \in Row : RowMoves(u)
  BY <1>0, <1>4, OthersMove DEF Rosters!Next, Rosters!RunsAndLeavers
<1> QED BY <1>1, <1>2, <1>3, <1>4

\* The invariant holds before any run.
LEMMA RosterStarts == Rosters!Init => RosterInv
<1> SUFFICES ASSUME Rosters!Init PROVE RosterInv
  OBVIOUS
<1>1. Rosters!NoRow \in UserRow /\ Rosters!IdleRun \in RunRow
        /\ Rosters!IdleRequest \in RequestRow
  BY DEF Rosters!NoRow, UserRow, Rosters!IdleRun, RunRow, Rosters!IdleRequest, RequestRow
<1>2. /\ \A u \in Row : user[u].state = "none" /\ user[u].email = Nobody
        /\ user[u].username = Nobody
      /\ \A r \in Run : seed[r].pc = "idle" /\ seed[r].step = 1 /\ seed[r].found = "ask"
      /\ \A q \in Request : admin[q].pc = "idle"
      /\ \A r \in Run : touched[r] = {}
      /\ roleUser = {}
  BY DEF Rosters!Init, Rosters!NoRow, Rosters!IdleRun, Rosters!IdleRequest
<1>3. Rosters!TypeOK
  BY <1>1 DEF Rosters!Init, Rosters!TypeOK, UserRow, RunRow, RequestRow
<1>4. RosterTyped
  BY <1>2, <1>3 DEF RosterTyped, StepsFit, AdminFits
<1>5. \A r \in Run : WrittenBy(r) = {} /\ MappedBy(r) = {}
  BY <1>2 DEF WrittenBy, MappedBy
<1>6. Rosters!Running = {}
  BY <1>2 DEF Rosters!Running
<1>7. RowsFit /\ ListsFit /\ RunsFit /\ TypesFollow
  BY <1>2, <1>6 DEF RowsFit, ListsFit, RunsFit, TypesFollow, Rosters!Exists
<1>8. AtHome /\ AgentFits /\ StaysWritten /\ StaysMapped
  BY <1>2, <1>5 DEF AtHome, AgentFits, StaysWritten, StaysMapped
<1>9. Rosters!RolesFollowTypeAlone /\ Rosters!RerunSucceedsAlone
  BY <1>2 DEF Rosters!RolesFollowTypeAlone, Rosters!RerunSucceedsAlone
<1> QED BY <1>4, <1>7, <1>8, <1>9 DEF RosterInv

\* The invariant says that the command is whole, can be repeated and leaves roles right.
LEMMA RosterIsWhole == RosterInv => Rosters!SeedIsSound
<1> SUFFICES ASSUME RosterInv, NEW r \in Run, NEW e \in Rosters!Seeded, seed[r].pc = "done",
                    e \notin Rosters!Changed(r), Agent \notin Rosters!Changed(r)
             PROVE  /\ Rosters!Plan \subseteq plan /\ Rosters!Type \subseteq role
                    /\ \E u \in Rosters!Holders(e) : Rosters!IsSeeded(e, u)
  BY DEF RosterInv, Rosters!SeedIsSound, Rosters!WholeWhenDone
<1>1. Rosters!Plan \subseteq plan /\ Rosters!Type \subseteq role
  BY DEF RosterInv, ListsFit
<1>2. e \in WrittenBy(r) /\ e \in MappedBy(r)
  BY DEF WrittenBy, MappedBy
<1>3. PICK u \in Row : AsWritten(e, u) /\ HasAgent(e, u)
  BY <1>2 DEF RosterInv, StaysWritten
<1>4. <<TypeOf[e], u>> \in roleUser
  BY <1>2, <1>3 DEF RosterInv, StaysMapped, AsWritten
<1> QED BY <1>1, <1>3, <1>4 DEF Rosters!IsSeeded, AsWritten, HasAgent, Rosters!Holders

\* The seed does its work on its own.
LEMMA RosterAlone == Rosters!Spec => []Rosters!TypeOK /\ []Rosters!SeedIsSound
<1>1. RosterInv => Rosters!TypeOK
  BY DEF RosterInv, RosterTyped
<1> QED BY <1>1, RosterStarts, RosterStays, RosterIsWhole, PTL DEF Rosters!Spec

\* A run that ends well leaves what it was to leave, none fails alone for what another
\* left, and roles follow types, each unless accounts were changed meanwhile.
THEOREM SeedHolds == AccountSpec => []SeedIsSound
BY PartsBehave, RosterAlone, PTL DEF SeedIsSound

\* Every part of an account keeps its shape, whichever moves.
THEOREM AccountTypeCorrect == AccountSpec => []AccountTypeOK
BY PartsBehave, TypeCorrect, SessionTypeCorrect, ProfilesAlone, RosterAlone, PTL
DEF AccountTypeOK
=============================================================================
