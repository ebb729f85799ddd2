------------------------------ MODULE Session ------------------------------
(***************************************************************************)
(* Signing in and out: LocalStrategy and AuthService.login, the one refresh *)
(* token per user that Redis holds, refreshing and revoking it, changing a *)
(* password, the second factor, and all other writes to the two columns    *)
(* that these go by: users.password and users.email.                       *)
(*                                                                         *)
(* Access tokens are not state: JwtStrategy ignores their expiry and looks *)
(* nothing up, so one that was signed is good for ever.  A login is named  *)
(* by the refresh token it signs, a change of a password by the password   *)
(* it sets, and the password of a registration by its account.  Passwords  *)
(* are compared and changed by address, so an account's address is part    *)
(* of this; whether a code stands behind it is Verification's matter.      *)
(***************************************************************************)
EXTENDS Naturals

CONSTANTS
    User,        \* accounts
    Login,       \* logins; each is the refresh token it signs
    Refresh,     \* slots of refresh requests
    Logout,      \* slots of logout requests
    Change,      \* writes of a password; each is the password it sets
    Address,     \* addresses
    Nobody       \* no user, no token, no address, no password that opens anything

VARIABLES
    account,     \* the rows of table users
    stored,      \* Redis: refresh_token:<id>
    login,       \* LocalStrategy.validate and AuthService.login
    refresh,     \* AuthService.refreshToken
    logout,      \* AuthService.revokeRefreshToken
    change       \* AuthService.changePassword, and other writes of a password

VARIABLES        \* history: never read by the system's actions
    ended,       \* tokens Redis held and holds no more
    stale,       \* refresh requests whose token had ended when they came
    lost,        \* users who lost a password nobody had to prove
    raced,       \* users who came to an address, or whose password was written,
                 \* while a change of a password was between compare and write
    switched,    \* logins during which the second factor was switched on
    parted,      \* logins whose account lost its address before the comparison
    mistaken     \* logins let in with another account's password

vars == <<account, stored, login, refresh, logout, change, ended, stale, lost,
          raced, switched, parted, mistaken>>

signing == <<login, ended, switched, parted, mistaken>>

Password == Change \cup User

NoAccount == [state |-> "none", email |-> Nobody, password |-> Nobody,
              secret |-> FALSE, twoFactor |-> FALSE]
IdleLogin == [pc |-> "idle", user |-> Nobody, address |-> Nobody, password |-> Nobody]
IdleRefresh == [pc |-> "idle", user |-> Nobody, token |-> Nobody]
IdleChange == [pc |-> "idle", address |-> Nobody, old |-> Nobody]

Init ==
    /\ account = [u \in User |-> NoAccount]
    /\ stored = [u \in User |-> Nobody]
    /\ login = [l \in Login |-> IdleLogin]
    /\ refresh = [r \in Refresh |-> IdleRefresh]
    /\ logout = [o \in Logout |-> Nobody]
    /\ change = [x \in Change |-> IdleChange]
    /\ ended = {} /\ stale = {} /\ lost = {} /\ raced = {} /\ switched = {}
    /\ parted = {} /\ mistaken = {}

Exists(u) == account[u].state = "active"

\* The account that has address a now; the unique index allows one.
Owner(a) == {u \in User : Exists(u) /\ account[u].email = a}
MayHave(u, a) == Owner(a) \subseteq {u}

\* Redis replaces or drops the token of u.
Store(u, t) ==
    /\ stored' = [stored EXCEPT ![u] = t]
    /\ ended' = ended \cup ({stored[u]} \ {t, Nobody})

-----------------------------------------------------------------------------
(* login.                                                                  *)

TwoFactorIgnored(u) == TRUE               \* mutant: the flag is not looked at
\* LocalStrategy passes no second factor, so an account that asks for one is
\* refused, whatever code its owner has.
PassesTwoFactor(u) == ~account[u].twoFactor

\* validateUser reads the row, and the second factor's switch with it ...
FindUser(l, u, p) ==
    /\ login[l].pc = "idle"
    /\ Exists(u)
    /\ login' = [login EXCEPT ![l] =
         [pc |-> IF PassesTwoFactor(u) THEN "found" ELSE "refused",
          user |-> u, address |-> account[u].email, password |-> p]]
    /\ UNCHANGED <<account, stored, refresh, logout, change, ended, stale, lost,
                   raced, switched, parted, mistaken>>

\* The password is that of whoever has the address.
Proves(a, p) == \E u \in Owner(a) : account[u].password = p

\* ... and validatePassword looks the address up again to compare the password.
CheckPassword(l) ==
    LET a == login[l].address
        opens == Proves(a, login[l].password)
    IN
    /\ login[l].pc = "found"
    /\ login' = [login EXCEPT ![l].pc = IF opens THEN "validated" ELSE "refused"]
    /\ mistaken' = IF opens /\ login[l].user \notin Owner(a)
                   THEN mistaken \cup {l} ELSE mistaken
    /\ UNCHANGED <<account, stored, refresh, logout, change, ended, stale, lost,
                   raced, switched, parted>>

SignAndStore(l) ==                        \* mutant: stored before the look-up
    /\ login[l].pc = "validated"
    /\ login' = [login EXCEPT ![l].pc = IF Exists(login[l].user) THEN "signed"
                                        ELSE "refused"]
    /\ Store(login[l].user, l)
    /\ UNCHANGED <<account, refresh, logout, change, stale, lost, raced, switched,
                   parted, mistaken>>

\* AuthService.login: the account is read twice more (the device token that
\* is written between is Notice's), the two tokens are signed; approved_at is
\* not looked at.
SignTokens(l) ==
    /\ login[l].pc = "validated"
    /\ login' = [login EXCEPT ![l].pc = IF Exists(login[l].user) THEN "signed"
                                        ELSE "refused"]
    /\ UNCHANGED <<account, stored, refresh, logout, change, ended, stale, lost,
                   raced, switched, parted, mistaken>>

StoreUserId(l) ==                         \* mutant: the id in place of the token
    /\ login[l].pc = "signed"
    /\ login' = [login EXCEPT ![l].pc = "answered"]
    /\ Store(login[l].user, login[l].user)
    /\ UNCHANGED <<account, refresh, logout, change, stale, lost, raced, switched,
                   parted, mistaken>>

StoreToken(l) ==
    /\ login[l].pc = "signed"
    /\ login' = [login EXCEPT ![l].pc = "answered"]
    /\ Store(login[l].user, l)
    /\ UNCHANGED <<account, refresh, logout, change, stale, lost, raced, switched,
                   parted, mistaken>>

-----------------------------------------------------------------------------
(* refreshToken and revokeRefreshToken.                                    *)

AnyStored(u, t) == stored[u] # Nobody     \* mutant: not the same token
MatchesStored(u, t) == stored[u] = t

\* The token is one a login signed for the user.
GetStored(r, u, t) ==
    /\ refresh[r].pc = "idle"
    /\ login[t].pc = "answered" /\ login[t].user = u
    /\ refresh' = [refresh EXCEPT ![r] =
         [pc |-> IF MatchesStored(u, t) THEN "matched" ELSE "refused",
          user |-> u, token |-> t]]
    /\ stale' = IF t \in ended THEN stale \cup {r} ELSE stale
    /\ UNCHANGED <<account, stored, login, logout, change, ended, lost, raced,
                   switched, parted, mistaken>>

\* A new access token is signed for an account that still exists.
SignAccess(r) ==
    /\ refresh[r].pc = "matched"
    /\ refresh' = [refresh EXCEPT ![r].pc = IF Exists(refresh[r].user) THEN "granted"
                                            ELSE "refused"]
    /\ UNCHANGED <<account, stored, login, logout, change, ended, stale, lost,
                   raced, switched, parted, mistaken>>

FinishRefresh(r) ==
    /\ refresh[r].pc \in {"granted", "refused"}
    /\ refresh' = [refresh EXCEPT ![r] = IdleRefresh]
    /\ stale' = stale \ {r}
    /\ UNCHANGED <<account, stored, login, logout, change, ended, lost, raced,
                   switched, parted, mistaken>>

StartLogout(o, u) ==
    /\ logout[o] = Nobody
    /\ stored[u] # Nobody
    /\ logout' = [logout EXCEPT ![o] = u]
    /\ UNCHANGED <<account, stored, login, refresh, change, ended, stale, lost,
                   raced, switched, parted, mistaken>>

\* del drops whatever token is there by now.
Revoke(o) ==
    /\ logout[o] # Nobody
    /\ logout' = [logout EXCEPT ![o] = Nobody]
    /\ Store(logout[o], Nobody)
    /\ UNCHANGED <<account, login, refresh, change, stale, lost, raced, switched,
                   parted, mistaken>>

\* Seven days pass.
ExpireToken(u) ==
    /\ stored[u] # Nobody
    /\ Store(u, Nobody)
    /\ UNCHANGED <<account, login, refresh, logout, change, stale, lost, raced,
                   switched, parted, mistaken>>

-----------------------------------------------------------------------------
(* changePassword: the account's address is read, the old password         *)
(* compared, the new one hashed (slow) and written without a condition.    *)

Writing(a) == {x \in Change : change[x].pc = "proven" /\ change[x].address = a}

ReadAddress(x, u) ==
    /\ change[x].pc = "idle"
    /\ Exists(u)
    /\ change' = [change EXCEPT ![x] = [pc |-> "asked", address |-> account[u].email,
                                       old |-> Nobody]]
    /\ UNCHANGED <<account, stored, refresh, logout, stale, lost, raced, signing>>

ProvesAnything(a, p) == TRUE              \* mutant: the result is not tested
Compares(a, p) == Proves(a, p)

\* The password that is compared is that of whoever has the address by now.
ProveOld(x, p) ==
    LET a == change[x].address IN
    /\ change[x].pc = "asked"
    /\ change' = [change EXCEPT ![x] =
         [pc |-> IF Compares(a, p) THEN "proven" ELSE "done", address |-> a, old |-> p]]
    /\ raced' = IF Compares(a, p) /\ Writing(a) # {} THEN raced \cup Owner(a) ELSE raced
    /\ UNCHANGED <<account, stored, refresh, logout, stale, lost, signing>>

\* The write goes by address as well, and throws when nobody has it any more.
\* Sessions and their tokens stay as they are.
WriteNew(x) ==
    LET owner == Owner(change[x].address) IN
    /\ change[x].pc = "proven"
    /\ change' = [change EXCEPT ![x].pc = "done"]
    /\ account' = [u \in User |-> IF u \in owner THEN [account[u] EXCEPT !.password = x]
                                  ELSE account[u]]
    /\ lost' = lost \cup {u \in owner : account[u].password # change[x].old}
    /\ UNCHANGED <<stored, refresh, logout, stale, raced, signing>>

-----------------------------------------------------------------------------
(* Accounts, and the other writes of their addresses and passwords.        *)

\* Logins that have found u and are about to compare its password.
Comparing(u) == {l \in Login : login[l].pc = "found" /\ login[l].user = u}

\* One update of users sets the address and the password of u, if a is free.
Rewrite(u, a, p) ==
    /\ Exists(u) /\ MayHave(u, a)
    /\ account' = [account EXCEPT ![u] = [@ EXCEPT !.email = a, !.password = p]]
    /\ raced' = IF Writing(a) # {} THEN raced \cup {u} ELSE raced
    /\ parted' = IF a # account[u].email THEN parted \cup Comparing(u) ELSE parted
    /\ UNCHANGED <<stored, login, refresh, logout, ended, stale, lost, switched,
                   mistaken>>

\* updateUser writes the address and the password its owner sends, the password
\* without a hash: it opens nothing, since compare fails on it.  changeEmail and
\* an administrator's update without a password write an address alone.
UpdateUser(u, a, p) ==
    /\ p \in {account[u].password, Nobody}
    /\ a # account[u].email \/ p # account[u].password
    /\ Rewrite(u, a, p)
    /\ UNCHANGED change

SetBy(x, u, a) ==
    /\ change[x].pc = "idle"
    /\ change' = [change EXCEPT ![x] = [pc |-> "done", address |-> a, old |-> Nobody]]
    /\ Rewrite(u, a, x)

\* UserRepository.updateUser with a password: nothing has to be proven.
AdminUpdate(x, u, a) == SetBy(x, u, a)

\* resetPassword writes for whoever has the address; its code is Verification's.
ResetPassword(x, a) == \E u \in Owner(a) : SetBy(x, u, a)

\* A registration, by the owner or by an administrator.
AddUser(u, a) ==
    /\ account[u].state = "none"
    /\ Owner(a) = {}
    /\ account' = [account EXCEPT ![u] = [NoAccount EXCEPT !.state = "active",
                                         !.email = a, !.password = u]]
    /\ raced' = IF Writing(a) # {} THEN raced \cup {u} ELSE raced
    /\ UNCHANGED <<stored, refresh, logout, change, stale, lost, signing>>

\* The row goes; the token in Redis stays.
RemoveUser(u) ==
    /\ Exists(u)
    /\ account' = [account EXCEPT ![u].state = "removed"]
    /\ parted' = parted \cup Comparing(u)
    /\ UNCHANGED <<stored, login, refresh, logout, change, ended, stale, lost,
                   raced, switched, mistaken>>

-----------------------------------------------------------------------------
(* The second factor.                                                      *)

GenerateSecret(u) ==
    /\ Exists(u)
    /\ account' = [account EXCEPT ![u].secret = TRUE]
    /\ UNCHANGED <<stored, login, refresh, logout, change, ended, stale, lost,
                   raced, switched, parted, mistaken>>

InFlight(u) == {l \in Login : login[l].user = u
                              /\ login[l].pc \in {"found", "validated", "signed"}}

\* Neither a secret nor a code that proves it is asked for.
EnableTwoFactor(u) ==
    /\ Exists(u)
    /\ account' = [account EXCEPT ![u].twoFactor = TRUE]
    /\ switched' = switched \cup InFlight(u)
    /\ UNCHANGED <<stored, login, refresh, logout, change, ended, stale, lost,
                   raced, parted, mistaken>>

DisableTwoFactor(u) ==
    /\ Exists(u)
    /\ account' = [account EXCEPT ![u].twoFactor = FALSE, ![u].secret = FALSE]
    /\ UNCHANGED <<stored, login, refresh, logout, change, ended, stale, lost,
                   raced, switched, parted, mistaken>>

-----------------------------------------------------------------------------
Next ==
    \/ \E l \in Login :
         \/ \E u \in User, p \in Password : FindUser(l, u, p)
         \/ CheckPassword(l) \/ SignTokens(l) \/ StoreToken(l)
    \/ \E r \in Refresh :
         \/ \E u \in User, t \in Login : GetStored(r, u, t)
         \/ SignAccess(r) \/ FinishRefresh(r)
    \/ \E o \in Logout : Revoke(o) \/ \E u \in User : StartLogout(o, u)
    \/ \E x \in Change :
         \/ \E u \in User : ReadAddress(x, u)
         \/ \E p \in Password : ProveOld(x, p)
         \/ WriteNew(x)
         \/ \E u \in User, a \in Address : AdminUpdate(x, u, a)
         \/ \E a \in Address : ResetPassword(x, a)
    \/ \E u \in User, a \in Address :
         \/ AddUser(u, a)
         \/ \E p \in Password \cup {Nobody} : UpdateUser(u, a, p)
    \/ \E u \in User :
         \/ ExpireToken(u) \/ RemoveUser(u)
         \/ GenerateSecret(u) \/ EnableTwoFactor(u) \/ DisableTwoFactor(u)

Spec == Init /\ [][Next]_vars
-----------------------------------------------------------------------------
(* Properties.                                                             *)

\* The shape of the state.
TypeOK ==
    /\ account \in [User -> [state : {"none", "active", "removed"},
                             email : Address \cup {Nobody},
                             password : Password \cup {Nobody},
                             secret : BOOLEAN, twoFactor : BOOLEAN]]
    /\ stored \in [User -> Login \cup {Nobody}]
    /\ login \in [Login ->
         [pc : {"idle", "found", "validated", "signed", "answered", "refused"},
          user : User \cup {Nobody}, address : Address \cup {Nobody},
          password : Password \cup {Nobody}]]
    /\ refresh \in [Refresh -> [pc : {"idle", "matched", "granted", "refused"},
                                user : User \cup {Nobody},
                                token : Login \cup {Nobody}]]
    /\ logout \in [Logout -> User \cup {Nobody}]
    /\ change \in [Change -> [pc : {"idle", "asked", "proven", "done"},
                              address : Address \cup {Nobody},
                              old : Password \cup {Nobody}]]
    /\ ended \subseteq Login /\ stale \subseteq Refresh
    /\ lost \subseteq User /\ raced \subseteq User
    /\ switched \subseteq Login /\ parted \subseteq Login /\ mistaken \subseteq Login

\* A refresh token that was replaced by another login, revoked or has expired
\* opens nothing to a request that comes afterwards; only a request that was
\* under way gets its access token.  One login ends the session of the other.
EndedTokenIsDead ==
    \A r \in Refresh : refresh[r].pc \in {"matched", "granted"} => r \notin stale

\* The token Redis holds for a user was signed by a login of that user which
\* proved a password, and no token comes back once it has ended.
StoredIsLive ==
    \A u \in User : stored[u] # Nobody =>
        /\ login[stored[u]].user = u /\ login[stored[u]].pc = "answered"
        /\ stored[u] \notin ended

\* changePassword replaces the password its caller proved, although it compares
\* and writes by address; unless the address came to another account, or its
\* password was written by another change, a reset or an update, between the two.
ProvenIsReplacedAlone == lost \subseteq raced

\* Nobody signs in to an account whose second factor is on, except by a login
\* that was under way when it was switched on: the flag is read once, before
\* the password is compared.
NoLoginPastSecondFactor ==
    \A l \in Login :
        login[l].pc \in {"found", "validated", "signed"}
            /\ account[login[l].user].twoFactor => l \in switched

\* A login is let in with the password of the account it opens, although this is
\* looked up by address once more, unless the account lost its address between.
OpensItsOwn == mistaken \subseteq parted

\* What a password, a refresh token and a second factor open is what their
\* owner last allowed, through overlapping logins, logouts and changes.
SessionsAreSound ==
    /\ EndedTokenIsDead
    /\ StoredIsLive
    /\ ProvenIsReplacedAlone
    /\ NoLoginPastSecondFactor
    /\ OpensItsOwn
=============================================================================
