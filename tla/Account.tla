------------------------------ MODULE Account -------------------------------
(***************************************************************************)
(* The account's components, composed: the codes that are mailed to it,    *)
(* its sessions and passwords, its profile and the files beside it, and    *)
(* the first accounts with the administrators of all, for any number of    *)
(* accounts, requests and runs.  Each has accounts of its own, of which it *)
(* holds the columns it reads and writes.  A write that reaches columns of *)
(* several of them, updateUser's above all, is an action in each, free to  *)
(* come at any time; so a step of the whole is a step of one of them.      *)
(* Verification is extended, the others are instantiated.                  *)
(***************************************************************************)
EXTENDS Verification, Sequences

CONSTANTS
    Holder, Login, Refresh, Logout, Change, Inbox,        \* sessions
    Person, Update, Register, Phone, Mailbox, Name,       \* profiles
    Plans, Roles, Seeds, TypeOf, PlanOf, Agent,           \* what is seeded
    Run, Row, Other, Request                              \* and who is about it

VARIABLES
    account, stored, login, refresh, logout, change, ended, stale, lost, raced,
    switched, parted, mistaken,
    phone, avatar, files, joined, update, register, overlap, claimed, named, clash,
    profileFaults, hit,
    plan, role, user, roleUser, seed, admin, touched, moved, newcomer, retyped,
    together, cut

sessions == <<account, stored, login, refresh, logout, change, ended, stale, lost,
              raced, switched, parted, mistaken>>
profiles == <<phone, avatar, files, joined, update, register, overlap, claimed, named,
              clash, profileFaults, hit>>

rosters == <<plan, role, user, roleUser, seed, admin, touched, moved, newcomer, retyped,
             together, cut>>

Sessions == INSTANCE Session WITH User <- Holder, Address <- Inbox
Profiles == INSTANCE Profile WITH
    User <- Person, Address <- Mailbox, Nothing <- Nobody, faults <- profileFaults
Rosters == INSTANCE Roster WITH Accounts <- Seeds, Id <- Row, Nothing <- Nobody

\* What the proofs assume of the profiles: Nobody is not the name of a file.
ASSUME AccountAssumption == Nobody \notin Name

\* What they assume of the seeded accounts, as the lists of the command have it: Nobody is
\* no row and no address, each list holds something, no address is in it twice, and the
\* agent comes before the clients, who are given its row.
ASSUME SeedAssumption ==
    /\ Nobody \notin Row \cup Rosters!Address
    /\ Plans \in Seq(Rosters!Plan) /\ Roles \in Seq(Rosters!Type)
    /\ Seeds \in Seq(Rosters!Seeded)
    /\ Plans # <<>> /\ Roles # <<>> /\ Seeds # <<>>
    /\ \A i, j \in DOMAIN Seeds : Seeds[i] = Seeds[j] => i = j
    /\ TypeOf \in [Rosters!Seeded -> Rosters!Type]
    /\ PlanOf \in [Rosters!Seeded -> Rosters!Plan \cup {Nobody}]
    /\ Agent \in Rosters!Seeded
    /\ \A i \in DOMAIN Seeds :
         Rosters!IsClient(Seeds[i]) => \E j \in 1..(i - 1) : Seeds[j] = Agent

AccountInit == Init /\ Sessions!Init /\ Profiles!Init /\ Rosters!Init

\* One component moves and the others stand still.
MoveCodes == Next /\ UNCHANGED <<sessions, profiles, rosters>>
MoveSessions == Sessions!Next /\ UNCHANGED <<vars, profiles, rosters>>
MoveProfiles == Profiles!Next /\ UNCHANGED <<vars, sessions, rosters>>
MoveRosters == Rosters!Next /\ UNCHANGED <<vars, sessions, profiles>>

AccountNext == MoveCodes \/ MoveSessions \/ MoveProfiles \/ MoveRosters

parts == <<vars, sessions, profiles, rosters>>

AccountSpec == AccountInit /\ [][AccountNext]_parts
-----------------------------------------------------------------------------
(* Properties, besides CodesAreSound, which is Verification's own.         *)

\* The state of every component keeps its shape.
AccountTypeOK == TypeOK /\ Sessions!TypeOK /\ Profiles!TypeOK /\ Rosters!TypeOK

\* Sessions: what a password, a token and a second factor open.
SessionsAreSound == Sessions!SessionsAreSound

\* Profiles: rows and files agree.
ProfilesAreSound == Profiles!ProfilesAreSound

\* Seeded accounts: the command is whole, can be repeated, roles follow types.
SeedIsSound == Rosters!SeedIsSound
=============================================================================
