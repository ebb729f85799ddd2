------------------------------- MODULE Roster -------------------------------
(***************************************************************************)
(* The first accounts and who administers them: the command `seed`, which  *)
(* writes plans, roles, an administrator, an agent and clients one         *)
(* statement at a time and is run again after a failure, beside            *)
(* administrators who create, change, approve and remove accounts and      *)
(* owners who move to another address.                                     *)
(*                                                                         *)
(* A seeded account is named by its address, which stands for its unique   *)
(* username too, and a role by the type of account that has it.  The other *)
(* columns the seed writes are the same in every run and left out.         *)
(***************************************************************************)
EXTENDS Naturals, Sequences, FiniteSets

CONSTANTS
    Plans, Roles, \* what is seeded, in the order of the command's lists
    Accounts,     \* the seeded addresses: administrator, agent, clients
    TypeOf,       \* the type of each seeded address
    PlanOf,       \* the plan of each seeded address, or Nothing
    Agent,        \* the agent's address, which comes before the clients'
    Run,          \* runs of the command
    Id,           \* rows of table users
    Other,        \* addresses that are not seeded
    Request,      \* administrators' requests
    Nothing,      \* no row, no address, no plan
    MaxFaults     \* bound on runs that are cut off

Seeded == {Accounts[i] : i \in DOMAIN Accounts}
Plan == {Plans[i] : i \in DOMAIN Plans}
Type == {Roles[i] : i \in DOMAIN Roles}
Address == Seeded \cup Other

VARIABLES
    plan, role,   \* the plans and roles that exist
    user,         \* the rows of table users
    roleUser,     \* table role_users: pairs of a role and a user
    seed,         \* progress of the runs
    admin         \* progress of the administrators' requests

VARIABLES         \* history: never read by the system's actions
    touched,      \* addresses whose account was changed since a run began
    moved,        \* seeded accounts that have left their address or are gone
    newcomer,     \* users who came to a seeded address during a run
    retyped,      \* users whose type they, an administrator or a run has changed
    together,     \* runs that overlapped
    cut           \* runs that were cut off

vars == <<plan, role, user, roleUser, seed, admin, touched, moved, newcomer,
          retyped, together, cut>>
stores == <<plan, role, user, roleUser>>
changes == <<touched, moved, newcomer, retyped>>

NoRow == [state |-> "none", email |-> Nothing, username |-> Nothing,
          type |-> Nothing, plan |-> Nothing, agent |-> Nothing, approved |-> FALSE]
IdleRun == [pc |-> "idle", step |-> 1, found |-> "ask", agent |-> Nothing,
            users |-> [e \in Seeded |-> Nothing]]
IdleRequest == [pc |-> "idle", id |-> Nothing, email |-> Nothing, type |-> Nothing]

Init ==
    /\ plan = {} /\ role = {} /\ roleUser = {}
    /\ user = [u \in Id |-> NoRow]
    /\ seed = [r \in Run |-> IdleRun]
    /\ admin = [q \in Request |-> IdleRequest]
    /\ touched = [r \in Run |-> {}]
    /\ moved = {} /\ newcomer = {} /\ retyped = {} /\ together = {} /\ cut = {}

Exists(u) == user[u].state = "live"
Holders(e) == {u \in Id : user[u].email = e}       \* none or one: unique index
Named(e) == {u \in Id : user[u].username = e}
\* The id a new row gets; an id is never used again.
Unused == {u \in Id : user[u].state = "none"}
Fresh == IF Unused = {} THEN {} ELSE {CHOOSE u \in Unused : TRUE}
Running == {r \in Run : seed[r].pc \notin {"idle", "done", "failed"}}

-----------------------------------------------------------------------------
(* seed.                                                                   *)

Start(r) ==
    /\ seed[r].pc = "idle"
    /\ seed' = [seed EXCEPT ![r].pc = "plans"]
    /\ together' = IF Running = {} THEN together ELSE together \cup Running \cup {r}
    /\ UNCHANGED <<stores, admin, changes, cut>>

\* The next entry of a list, or the next phase.
Step(s, list, next) ==
    IF s.step < Len(list) THEN [s EXCEPT !.step = @ + 1, !.found = "ask"]
    ELSE [s EXCEPT !.pc = next, !.step = 1, !.found = "ask"]

\* planSeed and roleSeed: findUnique ...
FindPlan(r) ==
    /\ seed[r].pc = "plans" /\ seed[r].found = "ask"
    /\ seed' = [seed EXCEPT ![r].found =
                  IF Plans[seed[r].step] \in plan THEN "yes" ELSE "no"]
    /\ UNCHANGED <<stores, admin, changes, together, cut>>

CreateAgain(found, exists) == exists      \* mutant: create whatever was found
\* A create of what is there by now meets the primary key.
Collides(found, exists) == found = "no" /\ exists

\* ... then update or create.
WritePlan(r) ==
    LET p == Plans[seed[r].step] IN
    /\ seed[r].pc = "plans" /\ seed[r].found # "ask"
    /\ seed' = [seed EXCEPT ![r] = IF Collides(@.found, p \in plan)
                                   THEN [@ EXCEPT !.pc = "failed"]
                                   ELSE Step(@, Plans, "roles")]
    /\ plan' = plan \cup {p}
    /\ UNCHANGED <<role, user, roleUser, admin, changes, together, cut>>

FindRole(r) ==
    /\ seed[r].pc = "roles" /\ seed[r].found = "ask"
    /\ seed' = [seed EXCEPT ![r].found =
                  IF Roles[seed[r].step] \in role THEN "yes" ELSE "no"]
    /\ UNCHANGED <<stores, admin, changes, together, cut>>

WriteRole(r) ==
    LET t == Roles[seed[r].step] IN
    /\ seed[r].pc = "roles" /\ seed[r].found # "ask"
    /\ seed' = [seed EXCEPT ![r] = IF Collides(@.found, t \in role)
                                   THEN [@ EXCEPT !.pc = "failed"]
                                   ELSE Step(@, Roles, "look")]
    /\ role' = role \cup {t}
    /\ UNCHANGED <<plan, user, roleUser, admin, changes, together, cut>>

\* userSeed looks its plans up by name.
LookUpPlans(r) ==
    /\ seed[r].pc = "look"
    /\ seed' = [seed EXCEPT ![r].pc = IF Plan \subseteq plan THEN "users" ELSE "failed"]
    /\ UNCHANGED <<stores, admin, changes, together, cut>>

IsClient(e) == TypeOf[e] = "CLIENT"

\* What the upsert of address e writes to a row; a is the agent's row.
Written(row, e, a) ==
    [row EXCEPT !.state = "live", !.email = e, !.username = e, !.type = TypeOf[e],
                !.plan = IF IsClient(e) THEN PlanOf[e] ELSE @,
                !.agent = IF IsClient(e) THEN a ELSE @]

KeepFound(row, e, a) == row               \* mutant: update: {}
Updated(row, e, a) == Written(row, e, a)

Created(u, e, a) == IF Exists(u) THEN Updated(user[u], e, a) ELSE Written(NoRow, e, a)

\* INSERT ... ON CONFLICT (email) DO UPDATE: the index on the username is
\* not part of it and refuses a name that an account elsewhere holds.
UpsertUser(r) ==
    LET e == Accounts[seed[r].step]
        refused == Named(e) \ Holders(e) # {}
    IN  /\ seed[r].pc = "users"
        /\ \E u \in IF Holders(e) # {} THEN Holders(e) ELSE Fresh :
             IF refused
             THEN /\ seed' = [seed EXCEPT ![r].pc = "failed"]
                  /\ UNCHANGED <<user, retyped>>
             ELSE /\ user' = [user EXCEPT ![u] = Created(u, e, seed[r].agent)]
                  /\ seed' = [seed EXCEPT ![r] =
                              [Step(seed[r], Accounts, "read") EXCEPT
                                 !.agent = IF e = Agent THEN u ELSE @]]
                  /\ retyped' = IF Exists(u) /\ user[u].type # TypeOf[e]
                                THEN retyped \cup {u} ELSE retyped
        /\ UNCHANGED <<plan, role, roleUser, admin, touched, moved, newcomer, together,
                       cut>>

\* findMany by address, after all of them are written.
ReadUsers(r) ==
    /\ seed[r].pc = "read"
    /\ seed' = [seed EXCEPT ![r].pc = "map",
                  ![r].users = [e \in Seeded |->
                     IF Holders(e) = {} THEN Nothing ELSE CHOOSE u \in Holders(e) : TRUE]]
    /\ UNCHANGED <<stores, admin, changes, together, cut>>

RoleOfAgent(e) == "AGENT"                 \* mutant: the role of the entry before
RoleOf(e) == TypeOf[e]

\* An address nobody holds is passed over; a user removed since is refused by
\* the foreign key.
MapRole(r) ==
    LET e == Accounts[seed[r].step]
        u == seed[r].users[e]
    IN  /\ seed[r].pc = "map"
        /\ IF u # Nothing /\ ~Exists(u)
           THEN /\ seed' = [seed EXCEPT ![r].pc = "failed"]
                /\ UNCHANGED roleUser
           ELSE /\ seed' = [seed EXCEPT ![r] = Step(@, Accounts, "done")]
                /\ roleUser' = IF u = Nothing THEN roleUser
                               ELSE roleUser \cup {<<RoleOf(e), u>>}
        /\ UNCHANGED <<plan, role, user, admin, changes, together, cut>>

\* A statement fails, or the process is stopped: what is written stays.
CutOff(r) ==
    /\ r \in Running
    /\ Cardinality(cut) < MaxFaults
    /\ seed' = [seed EXCEPT ![r].pc = "failed"]
    /\ cut' = cut \cup {r}
    /\ UNCHANGED <<stores, admin, changes, together>>

-----------------------------------------------------------------------------
(* The accounts under the runs.                                            *)

\* History of a change of u, whose row still has its seeded name; arrives is
\* the address it comes to, left whether it leaves a seeded one.
Touch(u, arrives, left) ==
    /\ touched' = [r \in Run |-> IF seed[r].pc # "idle"
                     THEN touched[r] \cup ({user[u].username, user[u].email} \cap Seeded)
                     ELSE touched[r]]
    /\ moved' = IF left /\ user[u].username # Nothing
                THEN moved \cup {user[u].username} ELSE moved
    /\ newcomer' = IF arrives \in Seeded /\ Running # {} THEN newcomer \cup {u}
                   ELSE newcomer

\* The owner moves to another address: a proven one (AuthService.changeEmail), or
\* whichever updateUser is sent.
ChangeEmail(u, e) ==
    /\ Exists(u) /\ e # user[u].email /\ Holders(e) = {}
    /\ user' = [user EXCEPT ![u].email = e]
    /\ Touch(u, e, TRUE)
    /\ UNCHANGED <<plan, role, roleUser, seed, admin, retyped, together, cut>>

\* AuthService.updateUser writes the type its owner sends, too.
Retype(u, t) ==
    /\ Exists(u) /\ t # user[u].type
    /\ user' = [user EXCEPT ![u].type = t]
    /\ Touch(u, Nothing, FALSE)
    /\ retyped' = retyped \cup {u}
    /\ UNCHANGED <<plan, role, roleUser, seed, admin, together, cut>>

\* UserRepository's createUser and updateUser look for the address first ...
CheckEmail(q, kind, u, e, t) ==
    /\ admin[q].pc = "idle"
    /\ kind = "create" <=> u = Nothing
    /\ kind = "create" => e # Nothing
    /\ e = Nothing \/ Holders(e) = {}
    /\ admin' = [admin EXCEPT ![q] = [pc |-> kind, id |-> u, email |-> e, type |-> t]]
    /\ UNCHANGED <<stores, seed, changes, together, cut>>

\* ... and hash a password (slow) before they write; the unique index has the
\* last word.  The endpoint passes no role, so none is attached.
CreateUser(q) ==
    LET e == admin[q].email IN
    /\ admin[q].pc = "create"
    /\ admin' = [admin EXCEPT ![q].pc = "done"]
    /\ \E u \in Fresh :
         IF Holders(e) # {} THEN UNCHANGED <<user, changes>>
         ELSE /\ user' = [user EXCEPT ![u] = [NoRow EXCEPT !.state = "live", !.email = e,
                                                           !.type = admin[q].type]]
              /\ Touch(u, e, FALSE)
              /\ UNCHANGED retyped
    /\ UNCHANGED <<plan, role, roleUser, seed, together, cut>>

\* The type is written whether it was to change or not, and role_users is not.
UpdateUser(q) ==
    LET u == admin[q].id
        e == IF admin[q].email = Nothing THEN user[u].email ELSE admin[q].email
    IN  /\ admin[q].pc = "update"
        /\ admin' = [admin EXCEPT ![q].pc = "done"]
        /\ IF ~Exists(u) \/ Holders(e) \ {u} # {} THEN UNCHANGED <<user, changes>>
           ELSE /\ user' = [user EXCEPT ![u].email = e, ![u].type = admin[q].type]
                /\ Touch(u, e, e # user[u].email)
                /\ retyped' = IF user[u].type # admin[q].type THEN retyped \cup {u}
                              ELSE retyped
        /\ UNCHANGED <<plan, role, roleUser, seed, together, cut>>

\* The row and, by cascade, its roles; a client keeps the id of its agent.
DeleteUser(u) ==
    /\ Exists(u)
    /\ user' = [user EXCEPT ![u] = [NoRow EXCEPT !.state = "deleted"]]
    /\ roleUser' = {p \in roleUser : p[2] # u}
    /\ Touch(u, Nothing, TRUE)
    /\ UNCHANGED <<plan, role, seed, admin, retyped, together, cut>>

\* approve and reject look for the row ...
CheckApproval(q, kind, u) ==
    /\ admin[q].pc = "idle"
    /\ Exists(u)
    /\ admin' = [admin EXCEPT ![q] = [IdleRequest EXCEPT !.pc = kind, !.id = u]]
    /\ UNCHANGED <<stores, seed, changes, together, cut>>

\* ... and write it, or fail when it has gone.  Nothing in the program asks
\* whether an account is approved but the administrators' list.
WriteApproval(q) ==
    LET u == admin[q].id IN
    /\ admin[q].pc \in {"approve", "reject"}
    /\ admin' = [admin EXCEPT ![q].pc = "done"]
    /\ user' = [user EXCEPT ![u].approved = IF Exists(u) THEN admin[q].pc = "approve"
                                            ELSE @]
    /\ UNCHANGED <<plan, role, roleUser, seed, changes, together, cut>>

-----------------------------------------------------------------------------
RunStep(r) ==
    \/ Start(r) \/ FindPlan(r) \/ WritePlan(r) \/ FindRole(r) \/ WriteRole(r)
    \/ LookUpPlans(r) \/ UpsertUser(r) \/ ReadUsers(r) \/ MapRole(r) \/ CutOff(r)

RequestStep(q) ==
    \/ \E kind \in {"create", "update"}, u \in Id \cup {Nothing},
          e \in Address \cup {Nothing}, t \in Type : CheckEmail(q, kind, u, e, t)
    \/ CreateUser(q) \/ UpdateUser(q)
    \/ \E kind \in {"approve", "reject"}, u \in Id : CheckApproval(q, kind, u)
    \/ WriteApproval(q)

Leave(u) == DeleteUser(u) \/ \E e \in Address : ChangeEmail(u, e)

RunsAndLeavers == (\E r \in Run : RunStep(r)) \/ (\E u \in Id : Leave(u))

Next ==
    \/ RunsAndLeavers
    \/ \E q \in Request : RequestStep(q)
    \/ \E u \in Id, t \in Type : Retype(u, t)

Spec == Init /\ [][Next]_vars
-----------------------------------------------------------------------------
(* Properties.                                                             *)

\* The shape of the state.
TypeOK ==
    /\ plan \subseteq Plan /\ role \subseteq Type
    /\ user \in [Id -> [state : {"none", "live", "deleted"},
                        email : Address \cup {Nothing}, username : Seeded \cup {Nothing},
                        type : Type \cup {Nothing}, plan : Plan \cup {Nothing},
                        agent : Id \cup {Nothing}, approved : BOOLEAN]]
    /\ roleUser \subseteq Type \X Id
    /\ seed \in [Run -> [pc : {"idle", "plans", "roles", "look", "users", "read", "map",
                               "done", "failed"},
                         step : Nat, found : {"ask", "yes", "no"},
                         agent : Id \cup {Nothing},
                         users : [Seeded -> Id \cup {Nothing}]]]
    /\ admin \in [Request -> [pc : {"idle", "create", "update", "approve", "reject",
                                    "done"},
                              id : Id \cup {Nothing}, email : Address \cup {Nothing},
                              type : Type \cup {Nothing}]]
    /\ touched \in [Run -> SUBSET Seeded] /\ moved \subseteq Seeded
    /\ newcomer \subseteq Id /\ retyped \subseteq Id
    /\ together \subseteq Run /\ cut \subseteq Run

\* The account of a seeded address as the command wants it.
IsSeeded(e, u) ==
    /\ user[u].username = e /\ user[u].type = TypeOf[e]
    /\ <<TypeOf[e], u>> \in roleUser
    /\ IsClient(e) => user[u].plan = PlanOf[e] /\ user[u].agent \in Holders(Agent)

Changed(r) == UNION {touched[o] : o \in {r} \cup IF r \in together THEN together ELSE {}}

\* A run that ends well leaves every plan, role and account with its type, its
\* plan, its agent and its role, whatever earlier or other runs, finished or
\* cut off, had left.  Accounts that somebody changed since it, or a run beside
\* it, began, and the clients of such an agent, are excepted: a run keeps the
\* agent's id that it was told and may write one that is gone.
WholeWhenDone ==
    \A r \in Run, e \in Seeded :
        seed[r].pc = "done" /\ {e, Agent} \cap Changed(r) = {} =>
            /\ Plan \subseteq plan /\ Type \subseteq role
            /\ \E u \in Holders(e) : IsSeeded(e, u)

\* The command can be run again: what an earlier run left, finished or cut
\* off, makes no later one fail.  A run fails when it is cut off, collides
\* with another that runs at the same time, or when a seeded account has left
\* its address (it keeps its username) or was removed.
RerunSucceedsAlone ==
    \A r \in Run : seed[r].pc = "failed" => r \in together \cup cut \/ moved # {}

\* The role of an account is that of its type, unless its type was changed
\* afterwards (which leaves role_users as it is), or the account came to a
\* seeded address between the run's writing and its reading by address.
RolesFollowTypeAlone ==
    \A p \in roleUser : user[p[2]].type = p[1] \/ p[2] \in retyped \cup newcomer

\* The seed command does its work, can be run again, and leaves roles that
\* follow the types.
SeedIsSound ==
    /\ RolesFollowTypeAlone
    /\ WholeWhenDone
    /\ RerunSucceedsAlone
=============================================================================
