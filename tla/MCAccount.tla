----------------------------- MODULE MCAccount -----------------------------
(***************************************************************************)
(* The account's components on small instances.  They have no variable in  *)
(* common, so one run explores them side by side: the initial state        *)
(* chooses the part that moves, the others stand still.  Three components  *)
(* have two parts.  Codes: without and with addresses updated without one. *)
(* Sessions: two logins of one account; two accounts and their passwords.  *)
(* Seeded accounts: two runs of the command and owners who move, with two  *)
(* rows; one run, owners and an administrator, with three.                 *)
(***************************************************************************)
EXTENDS Account, TLC

CONSTANTS u1, u2, e1, e2, l1, l2,    \* codes and logins
          s1, s2, d1, w1, w2,        \* accounts, an address, changes of a password
          x1, x2, r1, r2, n1,        \* updates, registrations, the name of a file
          y1, y2, b1, z1, z2         \* seeded addresses, their plan, the runs

VARIABLE part                        \* the part that moves

MCHome == [u \in User |-> IF u = u1 THEN e1 ELSE e2]

Swap(a, b) == (a :> b @@ b :> a)

\* The requests that issue codes are interchangeable, so are logins, and the two
\* accounts together with their addresses.  Others that are interchangeable are
\* used in an order, by the bounds of the parts they move in.
Interchangeable ==
    Permutations(Issue) \cup Permutations({l1, l2})
    \cup {Swap(u1, u2) @@ Swap(e1, e2)}

MCPlans == <<b1>>
MCRoles == <<"AGENT", "CLIENT">>
MCSeeds == <<y1, y2>>
MCTypeOf == (y1 :> "AGENT" @@ y2 :> "CLIENT")
MCPlanOf == (y1 :> Nobody @@ y2 :> b1)

\* Addresses are updated without a code in a part of their own, which has one code.
CodesMove == MoveCodes /\ unproven' = {}
AddressesMove == MoveCodes /\ \E i \in Issue : issue'[i].pc = "idle"

\* One account signs in and out at one address and has its password set once; in the
\* other part two accounts move and have theirs set, or one has, while a login is under
\* way, up to its comparison.
InOrder ==
    /\ change'[w1].pc = "idle" => change'[w2].pc = "idle"
    /\ account'[s1].state = "none" => account'[s2].state = "none"
    /\ account[s1].state = "none" => account'[s1].email \in {d1, Nobody}
SessionsMove ==
    /\ MoveSessions /\ InOrder
    /\ account'[s2].state = "none" /\ change'[w2].pc = "idle"
    /\ \A s \in Holder : account[s].state = "active" => account'[s].email = account[s].email
PasswordsMove ==
    /\ MoveSessions /\ InOrder /\ UNCHANGED <<stored, refresh, logout>>
    /\ \E l \in Login : login'[l].pc = "idle"
    /\ \A l \in Login : login'[l].pc # "signed"
    /\ change'[w2].pc = "idle" \/ \A l \in Login : login'[l].pc = "idle"
    /\ \A s \in Holder : ~account'[s].secret /\ ~account'[s].twoFactor

\* Updates, registrations and the names of files are used in an order.
ProfilesMove ==
    /\ MoveProfiles
    /\ update'[x1].pc = "idle" => update'[x2].pc = "idle"
    /\ register'[r1].pc = "idle" => register'[r2].pc = "idle"
    /\ named' # {} => \E f \in {"avatar", "body_certificates"} : <<f, n1>> \in named'

\* The part with two runs has no administrator, and a row stays unused.
Reseeds ==
    /\ Rosters!RunsAndLeavers /\ UNCHANGED <<vars, sessions, profiles>>
    /\ \E w \in Row : user'[w].state = "none"
\* The part with an administrator has one run, and once an owner may send a type in
\* place of the administrator's request.
Retypes == \E w \in Row, s \in Rosters!Type : Rosters!Retype(w, s)
Administers ==
    /\ MoveRosters
    /\ seed'[z2] = seed[z2]
    /\ Retypes => retyped = {} /\ \A q \in Request : admin[q].pc = "idle"
    /\ \A q \in Request : admin[q].pc = "idle" /\ retyped # {} => admin'[q] = admin[q]

MCInit ==
    /\ part \in {"codes", "addresses", "sessions", "passwords",
                 "profiles", "reseeded", "administered"}
    /\ AccountInit

MCNext ==
    /\ UNCHANGED part
    /\ \/ part = "codes" /\ CodesMove
       \/ part = "addresses" /\ AddressesMove
       \/ part = "sessions" /\ SessionsMove
       \/ part = "passwords" /\ PasswordsMove
       \/ part = "profiles" /\ ProfilesMove
       \/ part = "reseeded" /\ Reseeds
       \/ part = "administered" /\ Administers

mcVars == <<part, parts>>

MCSpec == MCInit /\ [][MCNext]_mcVars
=============================================================================
