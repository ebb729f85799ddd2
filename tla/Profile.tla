------------------------------ MODULE Profile ------------------------------
(***************************************************************************)
(* Profiles and the files behind them: AuthService.updateUser (telephone   *)
(* number and avatar), the requests that create an account (registerClient *)
(* and registerAgent, with a certificate, and an administrator's           *)
(* createUser), and the local disk of TajulStorage.  Rows and files are    *)
(* two stores that are written one after the other.  The name of a file is *)
(* the millisecond and the name the client gave it                         *)
(* (StringHelper.randomString has no room left for a random part), so two  *)
(* requests can draw the same name.                                        *)
(*                                                                         *)
(* updateUser writes whatever columns the request names.  Those that other *)
(* modules go by are written there: the address in Verification, address   *)
(* and password in Session, address and type in Roster.                    *)
(***************************************************************************)
EXTENDS Naturals

CONSTANTS
    User,        \* accounts that exist from the start
    Update,      \* requests to updateUser
    Register,    \* requests that create an account; each is that account
    Phone,       \* telephone numbers
    Address,     \* addresses that accounts are created with
    Name,        \* names a file can get
    Nothing,     \* no number, no file, no account
    MaxFaults    \* bound on failures of the disk, the database or the process

VARIABLES
    phone,       \* users.phone_number, without a unique index
    avatar,      \* users.avatar
    files,       \* the files on the disk: pairs of a folder and a name
    joined,      \* rows that were created: address and certificate
    update,      \* progress of updateUser
    register     \* progress of registerAgent, registerClient and createUser

VARIABLES        \* history: never read by the system's actions
    overlap,     \* users two of whose updates ran at the same time
    claimed,     \* numbers two requests gave to accounts that neither saw the other
                 \* have: found free by both, or not looked for by a registration
    named,       \* folders and names that files were given
    clash,       \* names that two files of one folder were given
    faults, hit  \* number of faults; accounts a fault hit

vars == <<phone, avatar, files, joined, update, register, overlap, claimed, named,
          clash, faults, hit>>

IdleUpdate == [pc |-> "idle", user |-> Nothing, old |-> Nothing, phone |-> Nothing,
               image |-> FALSE, name |-> Nothing]
IdleRegister == [pc |-> "idle", address |-> Nothing, phone |-> Nothing, name |-> Nothing]
NotJoined == [address |-> Nothing, certificate |-> Nothing]

Account == User \cup Register

Init ==
    /\ phone = [u \in Account |-> Nothing]
    /\ avatar = [u \in Account |-> Nothing]
    /\ files = {}
    /\ joined = [r \in Register |-> NotJoined]
    /\ update = [x \in Update |-> IdleUpdate]
    /\ register = [r \in Register |-> IdleRegister]
    /\ overlap = {} /\ claimed = {} /\ named = {} /\ clash = {} /\ hit = {}
    /\ faults = 0

Exists(u) == u \in Register => joined[u].address # Nothing
Running(x) == update[x].pc \notin {"idle", "done"}

Fault(a) ==
    /\ faults < MaxFaults
    /\ faults' = faults + 1
    /\ hit' = hit \cup {a}

-----------------------------------------------------------------------------
(* The disk.                                                               *)

\* The name a file gets: drawn again while its millisecond lasts, it clashes.
Draw(folder, n) ==
    /\ named' = named \cup {<<folder, n>>}
    /\ clash' = IF <<folder, n>> \in named THEN clash \cup {n} ELSE clash

\* writeFile, over whatever has the name.  An error is logged, not thrown.
Put(folder, n) ==
    /\ files' = files \cup {<<folder, n>>}
    /\ Draw(folder, n)

\* isExists, then unlink: a file that is not there is no error.
Delete(folder, n) == files' = files \ {<<folder, n>>}

-----------------------------------------------------------------------------
(* updateUser.                                                             *)

\* The row is read; the avatar found there is the one deleted later.
Read(x, u, p, image) ==
    /\ update[x].pc = "idle"
    /\ Exists(u)
    /\ update' = [update EXCEPT ![x] =
         [pc |-> IF p # Nothing /\ p # phone[u] THEN "number" ELSE "checked",
          user |-> u, old |-> avatar[u], phone |-> p, image |-> image,
          name |-> Nothing]]
    /\ overlap' = IF \E y \in Update : Running(y) /\ update[y].user = u
                  THEN overlap \cup {u} ELSE overlap
    /\ UNCHANGED <<phone, avatar, files, joined, register, claimed, named, clash, faults,
                   hit>>

AnyNumber(p) == TRUE                      \* mutant: the number may be taken
Free(p) == \A u \in Account : phone[u] # p

\* Updates that will write number p, and do not look for it any more.
Writers(p) == {y \in Update : update[y].phone = p
                              /\ update[y].pc \in {"checked", "deleted", "put"}}

\* findFirst by number; no index backs the check.
CheckNumber(x) ==
    LET p == update[x].phone IN
    /\ update[x].pc = "number"
    /\ update' = [update EXCEPT ![x].pc = IF Free(p) THEN "checked" ELSE "done"]
    /\ claimed' = IF Free(p) /\ Writers(p) # {} THEN claimed \cup {p} ELSE claimed
    /\ UNCHANGED <<phone, avatar, files, joined, register, overlap, named, clash, faults,
                   hit>>

KeepOld(x) ==                             \* mutant: the old file stays
    /\ update[x].pc = "checked" /\ update[x].image
    /\ update' = [update EXCEPT ![x].pc = "deleted"]
    /\ UNCHANGED <<phone, avatar, files, joined, register, overlap, claimed, named, clash,
                   faults, hit>>

DeleteOld(x) ==
    /\ update[x].pc = "checked" /\ update[x].image
    /\ update' = [update EXCEPT ![x].pc = "deleted"]
    /\ Delete("avatar", update[x].old)
    /\ UNCHANGED <<phone, avatar, joined, register, overlap, claimed, named, clash, faults,
                   hit>>

PutNew(x, n) ==
    /\ update[x].pc = "deleted"
    /\ update' = [update EXCEPT ![x].pc = "put", ![x].name = n]
    /\ Put("avatar", n)
    /\ UNCHANGED <<phone, avatar, joined, register, overlap, claimed, faults, hit>>

\* The disk refuses the file; the request does not notice.
PutFails(x, n) ==
    /\ update[x].pc = "deleted"
    /\ Fault(update[x].user)
    /\ update' = [update EXCEPT ![x].pc = "put", ![x].name = n]
    /\ Draw("avatar", n)
    /\ UNCHANGED <<phone, avatar, files, joined, register, overlap, claimed>>

WriteNumber(x) ==                         \* mutant: the avatar is not written
    /\ phone' = [phone EXCEPT ![update[x].user] =
                   IF update[x].phone = Nothing THEN @ ELSE update[x].phone]
    /\ avatar' = avatar

\* Without an image the avatar that was read is written back.
WriteRow(x) ==
    /\ phone' = [phone EXCEPT ![update[x].user] =
                   IF update[x].phone = Nothing THEN @ ELSE update[x].phone]
    /\ avatar' = [avatar EXCEPT ![update[x].user] =
                    IF update[x].image THEN update[x].name ELSE update[x].old]

Write(x) ==
    /\ update[x].pc = IF update[x].image THEN "put" ELSE "checked"
    /\ update' = [update EXCEPT ![x].pc = "done"]
    /\ WriteRow(x)
    /\ UNCHANGED <<files, joined, register, overlap, claimed, named, clash, faults, hit>>

\* A statement fails or the process dies: the request is over as it stands.
UpdateFails(x) ==
    /\ Running(x)
    /\ Fault(update[x].user)
    /\ update' = [update EXCEPT ![x].pc = "done"]
    /\ UNCHANGED <<phone, avatar, files, joined, register, overlap, claimed, named, clash>>

-----------------------------------------------------------------------------
(* registerAgent, registerClient and createUser.                           *)

Taken(a) == \E r \in Register : joined[r].address = a

\* The address is looked for; the number that comes with it is not.
CheckAddress(r, a, p) ==
    /\ register[r].pc = "idle"
    /\ ~Taken(a)
    /\ register' = [register EXCEPT ![r] = [pc |-> "unique", address |-> a, phone |-> p,
                                            name |-> Nothing]]
    /\ UNCHANGED <<phone, avatar, files, joined, update, overlap, claimed, named, clash,
                   faults, hit>>

SharedFolder(r, n) ==                     \* mutant: in the folder of avatars
    /\ register[r].pc = "unique"
    /\ register' = [register EXCEPT ![r].pc = "put", ![r].name = n]
    /\ Put("avatar", n)
    /\ UNCHANGED <<phone, avatar, joined, update, overlap, claimed, faults, hit>>

\* An agent's certificate; the others have none.
PutCertificate(r, n) ==
    /\ register[r].pc = "unique"
    /\ register' = [register EXCEPT ![r].pc = "put", ![r].name = n]
    /\ Put("body_certificates", n)
    /\ UNCHANGED <<phone, avatar, joined, update, overlap, claimed, faults, hit>>

CertificateFails(r, n) ==
    /\ register[r].pc = "unique"
    /\ Fault(r)
    /\ register' = [register EXCEPT ![r].pc = "put", ![r].name = n]
    /\ Draw("body_certificates", n)
    /\ UNCHANGED <<phone, avatar, files, joined, update, overlap, claimed>>

\* Address, number and certificate are written together.
CreateRow(r) ==
    LET p == register[r].phone IN
    /\ joined' = [joined EXCEPT ![r] = [address |-> register[r].address,
                                        certificate |-> register[r].name]]
    /\ phone' = [phone EXCEPT ![r] = p]
    /\ claimed' = IF p # Nothing /\ (~Free(p) \/ Writers(p) # {})
                  THEN claimed \cup {p} ELSE claimed

\* The unique index on the address decides; the certificate of the loser stays on
\* the disk.
CreateAccount(r) ==
    /\ register[r].pc \in {"unique", "put"}
    /\ register' = [register EXCEPT ![r].pc = "done"]
    /\ IF Taken(register[r].address) THEN UNCHANGED <<joined, phone, claimed>>
       ELSE CreateRow(r)
    /\ UNCHANGED <<avatar, files, update, overlap, named, clash, faults, hit>>

-----------------------------------------------------------------------------
Next ==
    \/ \E x \in Update :
         \/ \E u \in Account, p \in Phone \cup {Nothing}, image \in BOOLEAN :
              Read(x, u, p, image)
         \/ CheckNumber(x) \/ DeleteOld(x) \/ Write(x) \/ UpdateFails(x)
         \/ \E n \in Name : PutNew(x, n) \/ PutFails(x, n)
    \/ \E r \in Register :
         \/ \E a \in Address, p \in Phone \cup {Nothing} : CheckAddress(r, a, p)
         \/ \E n \in Name : PutCertificate(r, n) \/ CertificateFails(r, n)
         \/ CreateAccount(r)

Spec == Init /\ [][Next]_vars
-----------------------------------------------------------------------------
(* Properties.                                                             *)

\* The shape of the state.
TypeOK ==
    /\ phone \in [Account -> Phone \cup {Nothing}]
    /\ avatar \in [Account -> Name \cup {Nothing}]
    /\ files \subseteq {"avatar", "body_certificates"} \X Name
    /\ joined \in [Register -> [address : Address \cup {Nothing},
                               certificate : Name \cup {Nothing}]]
    /\ update \in [Update ->
         [pc : {"idle", "number", "checked", "deleted", "put", "done"},
          user : Account \cup {Nothing}, old : Name \cup {Nothing},
          phone : Phone \cup {Nothing}, image : BOOLEAN,
          name : Name \cup {Nothing}]]
    /\ register \in [Register -> [pc : {"idle", "unique", "put", "done"},
                                  address : Address \cup {Nothing},
                                  phone : Phone \cup {Nothing},
                                  name : Name \cup {Nothing}]]
    /\ named \subseteq {"avatar", "body_certificates"} \X Name
    /\ overlap \subseteq Account /\ claimed \subseteq Phone /\ clash \subseteq Name
    /\ faults \in Nat /\ hit \subseteq Account

\* The avatar a row names is on the disk.  updateUser deletes the old file
\* before it writes the row, so this fails while an update is at work, after
\* two overlapping updates, a failure, or two files of one name.
AvatarIsStoredAlone ==
    \A u \in Account \ (overlap \cup hit) :
        \/ avatar[u] = Nothing
        \/ <<"avatar", avatar[u]>> \in files
        \/ \E x \in Update : update[x].pc \in {"deleted", "put"} /\ update[x].user = u
        \/ avatar[u] \in clash

\* No avatar is left on the disk that no row names: the old one goes with
\* every change, under the same conditions.
NoAvatarIsLeftAlone ==
    \A n \in Name \ clash :
        \/ <<"avatar", n>> \notin files
        \/ \E u \in Account : avatar[u] = n \/ u \in overlap \cup hit
        \/ \E x \in Update : update[x].pc = "put" /\ update[x].name = n

\* Two accounts have the same telephone number only when two updates looked for
\* it before either had written it, or a registration, which looks for none, came
\* with it while another account had it or was about to: no index is behind the
\* check.  An account that writes its own number again, and skips the check, adds
\* no other.
NumberIsUniqueAlone ==
    \A u, w \in Account :
        u # w /\ phone[u] = phone[w] => phone[u] = Nothing \/ phone[u] \in claimed

\* An agent's certificate is on the disk, whatever others register,
\* unless the disk refused it: nothing deletes a certificate, and of two
\* registrations with one address one row is created.
CertificateIsStored ==
    \A r \in Register \ hit :
        joined[r].certificate # Nothing =>
            <<"body_certificates", joined[r].certificate>> \in files

\* The rows of the accounts and the files beside them agree.
ProfilesAreSound ==
    /\ AvatarIsStoredAlone
    /\ NoAvatarIsLeftAlone
    /\ NumberIsUniqueAlone
    /\ CertificateIsStored
=============================================================================
