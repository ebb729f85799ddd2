-------------------------------- MODULE Will --------------------------------
(***************************************************************************)
(* One will and its child tables under concurrent requests: creation, the  *)
(* drop-and-replace update, and removal with its cascade.                  *)
(*                                                                         *)
(* The database runs at READ COMMITTED, Prisma's default here: a statement *)
(* sees what was committed when the statement began, waits for rows that   *)
(* another transaction has locked, and skips those that are gone when it   *)
(* gets to them.  A request writes the children of a table in one batch    *)
(* and always deletes whole batches, so a batch is named by its request.   *)
(***************************************************************************)
EXTENDS Integers, Sequences, Sums

CONSTANTS
    Update,      \* PUT requests: updateWillTransaction
    Removal,     \* DELETE requests: removeWillTransaction
    Original,    \* the POST request that created the will
    Tables,      \* the child tables, in the order the update clears them
    Shared,      \* the table whose rows carry a share of the estate
    Total,       \* totals of sharePercentage a request can ask for
    None         \* the row of wills is not locked

Table == {Tables[n] : n \in 1..Len(Tables)}
Batch == Update \cup {Original}

ASSUME WillAssumption ==
    /\ Tables \in Seq(STRING) /\ Len(Tables) > 0
    /\ \A m, n \in 1..Len(Tables) : Tables[m] = Tables[n] => m = n
    /\ Shared \in Table
    /\ Total \subseteq Nat
    /\ Update \cap Removal = {} /\ Original \notin Update \cup Removal
    /\ None \notin Update \cup Removal

VARIABLES
    gives,       \* the tables for which each request brings children
    total,       \* what the shares of each request add up to
    will,        \* the row of wills: "absent", "live" or "removed"
    children,    \* the committed batches of each child table
    pc,          \* progress of each update
    next,        \* the table an update clears next or is clearing
    snapshot,    \* the batches its running DELETE statement sees
    gone,        \* the batches it has deleted and not committed
    lock,        \* the transaction holding the row of wills
    removalPc    \* progress of each removal

VARIABLES        \* history: never read by the system's actions
    overlap,     \* two update transactions were open at the same time
    last         \* the request whose children were committed last

inputs == <<gives, total>>
vars == <<inputs, will, children, pc, next, snapshot, gone, lock, removalPc,
          overlap, last>>

Untouched == [t \in Table |-> {}]

Written(r) == [t \in Table |-> IF t \in gives[r] THEN {r} ELSE {}]

AtMostWhole(r) == Shared \in gives[r] => total[r] <= 100       \* mutant

\* "Estate allocation shares must equal exactly 100%": checked if the request
\* brings any beneficiaries.
SharesValid(r) == Shared \in gives[r] => total[r] = 100

\* The update's transaction is open.
Active(u) == pc[u] \in {"delete", "scan", "update", "write"}

Init ==
    /\ gives \in [Batch -> SUBSET Table]
    /\ total \in [Batch -> Total]
    /\ will = "absent"
    /\ children = Untouched
    /\ pc = [u \in Update |-> "idle"]
    /\ next = [u \in Update |-> 1]
    /\ snapshot = [u \in Update |-> {}]
    /\ gone = [u \in Update |-> Untouched]
    /\ lock = None
    /\ removalPc = [r \in Removal |-> "idle"]
    /\ overlap = FALSE
    /\ last = Original

\* createWillTransaction: one transaction that inserts the will and its children.
Create ==
    /\ will = "absent" /\ SharesValid(Original)
    /\ will' = "live"
    /\ children' = Written(Original)
    /\ UNCHANGED <<inputs, pc, next, snapshot, gone, lock, removalPc, overlap,
                   last>>

-----------------------------------------------------------------------------
(* updateWillTransaction.                                                  *)

\* The will exists, the caller is its agent, and the shares add up.
Validate(u) ==
    /\ pc[u] = "idle" /\ will = "live" /\ SharesValid(u)
    /\ pc' = [pc EXCEPT ![u] = "validated"]
    /\ UNCHANGED <<inputs, will, children, next, snapshot, gone, lock,
                   removalPc, overlap, last>>

\* deleteMany on the next table begins; the first one opens the transaction.
StartDelete(u) ==
    /\ pc[u] \in {"validated", "delete"}
    /\ pc' = [pc EXCEPT ![u] = "scan"]
    /\ snapshot' = [snapshot EXCEPT ![u] = children[Tables[next[u]]]]
    /\ overlap' = (overlap \/ \E v \in Update : v # u /\ Active(v))
    /\ UNCHANGED <<inputs, will, children, next, gone, lock, removalPc, last>>

MoreThanAll(u) == next[u] <= Len(Tables)       \* mutant: one too many
AllButLast(u) == next[u] < Len(Tables) - 1     \* mutant: one too few
MoreTables(u) == next[u] < Len(Tables)

\* It ends when none of the rows it sees is held by another transaction, and
\* has deleted those that are still there.
FinishDelete(u) ==
    LET t == Tables[next[u]] IN
    /\ pc[u] = "scan"
    /\ \A v \in Update \ {u} : gone[v][t] \cap snapshot[u] = {}
    /\ gone' = [gone EXCEPT ![u][t] = snapshot[u] \cap children[t]]
    /\ snapshot' = [snapshot EXCEPT ![u] = {}]
    /\ IF MoreTables(u)
       THEN /\ pc' = [pc EXCEPT ![u] = "delete"]
            /\ next' = [next EXCEPT ![u] = @ + 1]
       ELSE /\ pc' = [pc EXCEPT ![u] = "update"]
            /\ next' = next
    /\ UNCHANGED <<inputs, will, children, lock, removalPc, overlap, last>>

NotLocked(u) == pc[u] = "update" /\ lock = None              \* mutant
NotRemoved(u) == pc[u] = "update" /\ will = "live"           \* mutant
CanLockWill(u) == pc[u] = "update" /\ lock = None /\ will = "live"

\* UPDATE of the row of wills, which stays locked until the commit.
LockWill(u) ==
    /\ CanLockWill(u)
    /\ lock' = u
    /\ pc' = [pc EXCEPT ![u] = "write"]
    /\ UNCHANGED <<inputs, will, children, next, snapshot, gone, removalPc,
                   overlap, last>>

\* The new children are inserted and the transaction commits.
Commit(u) ==
    /\ pc[u] = "write"
    /\ children' = [t \in Table |->
                      (children[t] \ gone[u][t]) \cup Written(u)[t]]
    /\ gone' = [gone EXCEPT ![u] = Untouched]
    /\ lock' = None
    /\ pc' = [pc EXCEPT ![u] = "done"]
    /\ last' = u
    /\ UNCHANGED <<inputs, will, next, snapshot, removalPc, overlap>>

StillHeld(x) == lock                           \* mutant: never released
Released(x) == IF lock = x THEN None ELSE lock

\* The transaction is rolled back and the request answers with an error.
RollBack(u) ==
    /\ pc' = [pc EXCEPT ![u] = "failed"]
    /\ snapshot' = [snapshot EXCEPT ![u] = {}]
    /\ gone' = [gone EXCEPT ![u] = Untouched]
    /\ lock' = Released(u)
    /\ UNCHANGED <<inputs, will, children, next, removalPc, overlap, last>>

\* The update finds no row of wills: it has been removed meanwhile.
WillMissing(u) ==
    /\ pc[u] = "update" /\ lock = None /\ will = "removed"
    /\ RollBack(u)

\* A statement fails, the transaction times out, or the process dies.
UpdateFails(u) == Active(u) /\ RollBack(u)

-----------------------------------------------------------------------------
(* removeWillTransaction: a check, then one DELETE that cascades.          *)

ValidateRemoval(r) ==
    /\ removalPc[r] = "idle" /\ will = "live"
    /\ removalPc' = [removalPc EXCEPT ![r] = "validated"]
    /\ UNCHANGED <<inputs, will, children, pc, next, snapshot, gone, lock,
                   overlap, last>>

LockForRemoval(r) ==
    /\ removalPc[r] = "validated" /\ lock = None /\ will = "live"
    /\ lock' = r
    /\ removalPc' = [removalPc EXCEPT ![r] = "cascade"]
    /\ UNCHANGED <<inputs, will, children, pc, next, snapshot, gone, overlap,
                   last>>

\* The cascade needs every child row, and waits for those an update holds.
HeldFrom(u, r) ==
    removalPc[r] = "cascade" /\ \E t \in Table : gone[u][t] \cap children[t] # {}

Cascade(r) ==
    /\ removalPc[r] = "cascade"
    /\ \A u \in Update : ~HeldFrom(u, r)
    /\ will' = "removed"
    /\ children' = Untouched
    /\ lock' = None
    /\ removalPc' = [removalPc EXCEPT ![r] = "done"]
    /\ UNCHANGED <<inputs, pc, next, snapshot, gone, overlap, last>>

RollBackRemoval(r) ==
    /\ removalPc' = [removalPc EXCEPT ![r] = "failed"]
    /\ lock' = Released(r)
    /\ UNCHANGED <<inputs, will, children, pc, next, snapshot, gone, overlap,
                   last>>

RemovalMissing(r) ==
    /\ removalPc[r] = "validated" /\ lock = None /\ will = "removed"
    /\ RollBackRemoval(r)

RemovalFails(r) == removalPc[r] = "cascade" /\ RollBackRemoval(r)

\* The removal holds the will and waits for children; the update holds those
\* children and waits for the will.  PostgreSQL rolls one of the two back.
BreakDeadlock(u, r) ==
    /\ HeldFrom(u, r) /\ pc[u] = "update" /\ lock = r
    /\ RollBack(u) \/ RollBackRemoval(r)

-----------------------------------------------------------------------------
UpdateStep(u) ==
    StartDelete(u) \/ FinishDelete(u) \/ LockWill(u) \/ Commit(u) \/ WillMissing(u)

RemovalStep(r) == LockForRemoval(r) \/ Cascade(r) \/ RemovalMissing(r)

Next ==
    \/ Create
    \/ \E u \in Update : Validate(u) \/ UpdateStep(u) \/ UpdateFails(u)
    \/ \E r \in Removal : ValidateRemoval(r) \/ RemovalStep(r) \/ RemovalFails(r)
    \/ \E u \in Update, r \in Removal : BreakDeadlock(u, r)

Spec == Init /\ [][Next]_vars

\* Handlers run on and the database grants locks and breaks deadlocks; nothing
\* is assumed of timeouts and other failures.
Fairness ==
    /\ \A u \in Update : WF_vars(UpdateStep(u))
    /\ \A r \in Removal : WF_vars(RemovalStep(r))
    /\ \A u \in Update, r \in Removal : WF_vars(BreakDeadlock(u, r))

FairSpec == Spec /\ Fairness

-----------------------------------------------------------------------------
(* Properties.                                                             *)

\* The shape of the state.
TypeOK ==
    /\ gives \in [Batch -> SUBSET Table]
    /\ total \in [Batch -> Total]
    /\ will \in {"absent", "live", "removed"}
    /\ children \in [Table -> SUBSET Batch]
    /\ pc \in [Update -> {"idle", "validated", "delete", "scan", "update",
                          "write", "done", "failed"}]
    /\ next \in [Update -> 1..Len(Tables)]
    /\ snapshot \in [Update -> SUBSET Batch]
    /\ gone \in [Update -> [Table -> SUBSET Batch]]
    /\ lock \in Update \cup Removal \cup {None}
    /\ removalPc \in [Removal -> {"idle", "validated", "cascade", "done", "failed"}]
    /\ overlap \in BOOLEAN
    /\ last \in Batch

\* The update replaces the will's children as a whole: while no two updates
\* have been open together, a live will has exactly the children of the last
\* request that committed, whatever rolled back or was removed meanwhile.
ReplacedWhole == will = "live" /\ ~overlap => children = Written(last)

Allocated == SumOver(total, children[Shared])

\* So the shares of the estate then add up to nothing or to exactly 100%.
AllocatedAlone == ~overlap => Allocated \in {0, 100}

\* Removing the will takes its children along for good: no update that was
\* under way leaves any behind, and none inserts one afterwards.
RemovedIsEmpty == will # "live" => children = Untouched

\* At most one transaction holds the row of wills, and it holds it as long as
\* it needs it: a writing update and a cascading removal exclude each other.
WillIsLocked ==
    /\ \A u \in Update : pc[u] = "write" <=> lock = u
    /\ \A r \in Removal : removalPc[r] = "cascade" <=> lock = r

\* Every update and every removal that has started ends, though the two take
\* their locks in opposite orders.
RequestsEnd ==
    /\ \A u \in Update : Active(u) ~> pc[u] \in {"done", "failed"}
    /\ \A r \in Removal : removalPc[r] = "cascade" ~> removalPc[r] \in {"done", "failed"}

-----------------------------------------------------------------------------
(* Claims of the repository that the code does not keep.                   *)

\* will.service.ts:175 "Estate allocation shares must equal exactly 100%".
FullyAllocated == children[Shared] # {} => Allocated = 100
=============================================================================
