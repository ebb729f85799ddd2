------------------------------ MODULE WillProofs ------------------------------
(***************************************************************************)
(* Proofs about module Will, for any number of update and removal requests *)
(* and any sequence of child tables.                                       *)
(***************************************************************************)
EXTENDS Will, FiniteSetTheorems, TLAPS

USE WillAssumption DEF WillAssumption

-----------------------------------------------------------------------------
(* Types.                                                                  *)

LEMMA TablesAreTables ==
    /\ Len(Tables) \in Nat \ {0}
    /\ \A n \in 1..Len(Tables) : Tables[n] \in Table
BY DEF Table

LEMMA WrittenType ==
  ASSUME TypeOK
  PROVE  /\ \A b \in Batch : Written(b) \in [Table -> SUBSET Batch]
         /\ Untouched \in [Table -> SUBSET Batch]
BY DEF Written, Untouched, TypeOK

LEMMA TypeStep ==
  ASSUME TypeOK, [Next]_vars
  PROVE  TypeOK'
<1>0. Update \subseteq Batch /\ Original \in Batch
  BY DEF Batch
<1> USE DEF TypeOK, inputs
<1>1. CASE Create
  BY <1>1, <1>0, WrittenType DEF Create
<1>2. ASSUME NEW u \in Update, Validate(u)
      PROVE  TypeOK'
  BY <1>2 DEF Validate
<1>3. ASSUME NEW u \in Update, StartDelete(u)
      PROVE  TypeOK'
  <2>1. children[Tables[next[u]]] \in SUBSET Batch
    BY TablesAreTables
  <2>2. snapshot' \in [Update -> SUBSET Batch]
    BY <1>3, <2>1 DEF StartDelete
  <2> QED BY <1>3, <2>2 DEF StartDelete
<1>4. ASSUME NEW u \in Update, FinishDelete(u)
      PROVE  TypeOK'
  <2>1. Tables[next[u]] \in Table
    BY TablesAreTables
  <2>2. gone' \in [Update -> [Table -> SUBSET Batch]]
    BY <1>4, <2>1 DEF FinishDelete
  <2>3. next' \in [Update -> 1..Len(Tables)]
    <3>1. Len(Tables) \in Nat /\ next[u] \in 1..Len(Tables)
      BY TablesAreTables
    <3>2. CASE MoreTables(u)
      <4>1. next[u] + 1 \in 1..Len(Tables)
        BY <3>1, <3>2 DEF MoreTables
      <4> QED BY <1>4, <3>2, <4>1 DEF FinishDelete
    <3>3. CASE ~MoreTables(u)
      BY <1>4, <3>3 DEF FinishDelete
    <3> QED BY <3>2, <3>3
  <2>4. snapshot' \in [Update -> SUBSET Batch]
    BY <1>4 DEF FinishDelete
  <2>5. pc' \in [Update -> {"idle", "validated", "delete", "scan", "update",
                            "write", "done", "failed"}]
    BY <1>4 DEF FinishDelete
  <2> QED BY <1>4, <2>2, <2>3, <2>4, <2>5 DEF FinishDelete
<1>5. ASSUME NEW u \in Update, LockWill(u)
      PROVE  TypeOK'
  BY <1>5 DEF LockWill, CanLockWill
<1>6. ASSUME NEW u \in Update, Commit(u)
      PROVE  TypeOK'
  <2>1. Written(u) \in [Table -> SUBSET Batch]
    BY <1>0, WrittenType
  <2>2. children' \in [Table -> SUBSET Batch]
    BY <1>6, <2>1 DEF Commit
  <2>3. gone' \in [Update -> [Table -> SUBSET Batch]]
    BY <1>6, WrittenType DEF Commit
  <2> QED BY <1>6, <1>0, <2>2, <2>3 DEF Commit
<1>7. ASSUME NEW u \in Update, RollBack(u)
      PROVE  TypeOK'
  BY <1>7, WrittenType DEF RollBack, Released
<1>8. ASSUME NEW r \in Removal, ValidateRemoval(r) \/ LockForRemoval(r)
      PROVE  TypeOK'
  BY <1>8 DEF ValidateRemoval, LockForRemoval
<1>9. ASSUME NEW r \in Removal, Cascade(r)
      PROVE  TypeOK'
  BY <1>9, WrittenType DEF Cascade
<1>10. ASSUME NEW r \in Removal, RollBackRemoval(r)
       PROVE  TypeOK'
  BY <1>10 DEF RollBackRemoval, Released
<1>11. CASE UNCHANGED vars
  BY <1>11 DEF vars
<1> QED
  BY <1>1, <1>2, <1>3, <1>4, <1>5, <1>6, <1>7, <1>8, <1>9, <1>10, <1>11
  DEF Next, UpdateStep, WillMissing, UpdateFails, RemovalStep, RemovalMissing,
      RemovalFails, BreakDeadlock

\* Every state is well-formed; in particular an update never looks for a table
\* beyond the last one.
THEOREM TypeCorrect == Spec => []TypeOK
<1>1. Init => TypeOK
  <2> SUFFICES ASSUME Init PROVE TypeOK
    OBVIOUS
  <2>1. 1 \in 1..Len(Tables)
    BY TablesAreTables
  <2>2. Untouched \in [Table -> SUBSET Batch]
    BY DEF Untouched
  <2>3. Original \in Batch
    BY DEF Batch
  <2> QED BY <2>1, <2>2, <2>3 DEF Init, TypeOK
<1>2. TypeOK /\ [Next]_vars => TypeOK'
  BY TypeStep
<1> QED
  BY <1>1, <1>2, PTL DEF Spec

-----------------------------------------------------------------------------
(* The lock on the row of wills.                                           *)

\* A transaction writes children exactly while it holds the row of wills, and
\* a removal deletes them exactly while it does: the two exclude each other.
THEOREM WritersHoldTheWill == Spec => []WillIsLocked
<1>1. Init => WillIsLocked
  BY DEF Init, WillIsLocked
<1>2. TypeOK /\ WillIsLocked /\ [Next]_vars => WillIsLocked'
  <2> SUFFICES ASSUME TypeOK, WillIsLocked, [Next]_vars PROVE WillIsLocked'
    OBVIOUS
  <2> USE DEF TypeOK, WillIsLocked
  <2>1. CASE Create
    BY <2>1 DEF Create
  <2>2. ASSUME NEW u \in Update, Validate(u) \/ StartDelete(u) \/ FinishDelete(u)
        PROVE  WillIsLocked'
    BY <2>2 DEF Validate, StartDelete, FinishDelete
  <2>3. ASSUME NEW u \in Update, LockWill(u)
        PROVE  WillIsLocked'
    BY <2>3 DEF LockWill, CanLockWill
  <2>4. ASSUME NEW u \in Update, Commit(u)
        PROVE  WillIsLocked'
    BY <2>4 DEF Commit
  <2>5. ASSUME NEW u \in Update, RollBack(u)
        PROVE  WillIsLocked'
    BY <2>5 DEF RollBack, Released
  <2>6. ASSUME NEW r \in Removal, ValidateRemoval(r) \/ LockForRemoval(r)
        PROVE  WillIsLocked'
    BY <2>6 DEF ValidateRemoval, LockForRemoval
  <2>7. ASSUME NEW r \in Removal, Cascade(r) \/ RollBackRemoval(r)
        PROVE  WillIsLocked'
    BY <2>7 DEF Cascade, RollBackRemoval, Released
  <2>8. CASE UNCHANGED vars
    BY <2>8 DEF vars
  <2> QED
    BY <2>1, <2>2, <2>3, <2>4, <2>5, <2>6, <2>7, <2>8
    DEF Next, UpdateStep, WillMissing, UpdateFails, RemovalStep, RemovalMissing,
        RemovalFails, BreakDeadlock
<1> QED
  BY <1>1, <1>2, TypeCorrect, PTL DEF Spec

-----------------------------------------------------------------------------
(* Removal.                                                                *)

\* Only a live will is written to, and only a live one has children.
Emptied ==
    /\ RemovedIsEmpty
    /\ \A u \in Update : pc[u] = "write" => will = "live"

\* Updates need a live will, which they lock before they write.
LEMMA AlwaysEmptied == Spec => []Emptied
<1>1. Init => Emptied
  BY DEF Init, Emptied, RemovedIsEmpty
<1>2. TypeOK /\ WillIsLocked /\ Emptied /\ [Next]_vars => Emptied'
  <2> SUFFICES ASSUME TypeOK, WillIsLocked, Emptied, [Next]_vars PROVE Emptied'
    OBVIOUS
  <2> USE DEF TypeOK, Emptied, RemovedIsEmpty
  <2>1. CASE Create
    BY <2>1 DEF Create
  <2>2. ASSUME NEW u \in Update, Validate(u) \/ StartDelete(u) \/ FinishDelete(u)
        PROVE  Emptied'
    BY <2>2 DEF Validate, StartDelete, FinishDelete
  <2>3. ASSUME NEW u \in Update, LockWill(u)
        PROVE  Emptied'
    BY <2>3 DEF LockWill, CanLockWill
  <2>4. ASSUME NEW u \in Update, Commit(u)
        PROVE  Emptied'
    BY <2>4 DEF Commit
  <2>5. ASSUME NEW u \in Update, RollBack(u)
        PROVE  Emptied'
    BY <2>5 DEF RollBack
  <2>6. ASSUME NEW r \in Removal,
               ValidateRemoval(r) \/ LockForRemoval(r) \/ RollBackRemoval(r)
        PROVE  Emptied'
    BY <2>6 DEF ValidateRemoval, LockForRemoval, RollBackRemoval
  <2>7. ASSUME NEW r \in Removal, Cascade(r)
        PROVE  Emptied'
    BY <2>7 DEF Cascade, WillIsLocked
  <2>8. CASE UNCHANGED vars
    BY <2>8 DEF vars
  <2> QED
    BY <2>1, <2>2, <2>3, <2>4, <2>5, <2>6, <2>7, <2>8
    DEF Next, UpdateStep, WillMissing, UpdateFails, RemovalStep, RemovalMissing,
        RemovalFails, BreakDeadlock
<1> QED
  BY <1>1, <1>2, TypeCorrect, WritersHoldTheWill, PTL DEF Spec

\* The cascade is complete and final: an update that validated the will before
\* the removal cannot put children back after it.
THEOREM RemovalIsFinal == Spec => []RemovedIsEmpty
<1>1. Emptied => RemovedIsEmpty
  BY DEF Emptied
<1> QED
  BY <1>1, AlwaysEmptied, PTL

-----------------------------------------------------------------------------
(* The update.                                                             *)

\* What an update has deleted of a live will so far, if it has the will to
\* itself: all of the tables before the one it is at.
Cleared(u) ==
    /\ \A n \in 1..Len(Tables) :
         n < next[u] => gone[u][Tables[n]] = children[Tables[n]]
    /\ pc[u] = "scan" => snapshot[u] = children[Tables[next[u]]]
    /\ pc[u] \in {"update", "write"} =>
         \A t \in Table : gone[u][t] = children[t]

\* While no two update transactions have been open together, a live will has
\* the children of the last request, and an open update clears them all.
Replacing ==
    /\ will = "absent" => last = Original /\ \A u \in Update : pc[u] = "idle"
    /\ ~overlap =>
         /\ \A u, v \in Update : Active(u) /\ Active(v) => u = v
         /\ will = "live" => children = Written(last)
         /\ will = "live" => \A u \in Update : Active(u) => Cleared(u)
    /\ \A u \in Update :
         /\ ~Active(u) => gone[u] = Untouched
         /\ pc[u] \in {"idle", "validated"} => next[u] = 1

LEMMA ReplacingByOthers ==
  ASSUME Replacing,
         UNCHANGED <<gives, will, children, pc, next, snapshot, gone, overlap, last>>
  PROVE  Replacing'
BY DEF Replacing, Cleared, Active, Written, Untouched

LEMMA FinishKeepsReplacing ==
  ASSUME TypeOK, Replacing, NEW u \in Update, FinishDelete(u)
  PROVE  Replacing'
<1> USE DEF TypeOK
<1>1. /\ Tables[next[u]] \in Table /\ Len(Tables) \in Nat
      /\ next[u] \in 1..Len(Tables)
  BY TablesAreTables
<1>2. /\ \A v \in Update : Active(v)' <=> Active(v)
      /\ \A v \in Update \ {u} : pc'[v] = pc[v] /\ gone'[v] = gone[v]
      /\ Active(u) /\ pc'[u] \in {"delete", "update"}
  BY <1>1 DEF FinishDelete, Active
<1>3. ASSUME ~overlap, will = "live"
      PROVE  Cleared(u)'
  <2>1. Cleared(u) /\ snapshot[u] = children[Tables[next[u]]]
    BY <1>2, <1>3 DEF FinishDelete, Replacing, Cleared
  <2>2. gone'[u] = [gone[u] EXCEPT ![Tables[next[u]]] = children[Tables[next[u]]]]
    BY <2>1 DEF FinishDelete
  <2>3. \A n \in 1..Len(Tables) :
          n <= next[u] => gone'[u][Tables[n]] = children[Tables[n]]
    <3> SUFFICES ASSUME NEW n \in 1..Len(Tables), n <= next[u]
                 PROVE  gone'[u][Tables[n]] = children[Tables[n]]
      OBVIOUS
    <3>1. Tables[n] \in Table /\ gone[u] \in [Table -> SUBSET Batch]
      BY TablesAreTables
    <3>2. CASE n = next[u]
      BY <2>2, <3>1, <3>2
    <3>3. CASE n < next[u]
      <4>1. gone[u][Tables[n]] = children[Tables[n]]
        BY <2>1, <3>3 DEF Cleared
      <4> QED BY <2>2, <3>1, <4>1
    <3> QED BY <1>1, <3>2, <3>3
  <2>4. CASE MoreTables(u)
    <3>1. next'[u] = next[u] + 1 /\ pc'[u] = "delete" /\ children' = children
      BY <2>4 DEF FinishDelete
    <3> QED BY <1>1, <2>3, <3>1 DEF Cleared
  <2>5. CASE ~MoreTables(u)
    <3>1. next'[u] = next[u] /\ pc'[u] = "update" /\ children' = children
      BY <2>5 DEF FinishDelete
    <3>2. next[u] = Len(Tables)
      BY <1>1, <2>5 DEF MoreTables
    <3>3. \A t \in Table : gone'[u][t] = children[t]
      BY <1>1, <2>3, <3>2 DEF Table
    <3> QED BY <1>1, <2>3, <3>1, <3>3 DEF Cleared
  <2> QED BY <2>4, <2>5
<1>4. UNCHANGED <<will, children, overlap, last, inputs>>
  BY DEF FinishDelete
<1>5. \A v \in Update \ {u} : ~Active(v)' => gone'[v] = Untouched'
  BY <1>2 DEF Replacing, Untouched
<1>6. \A v \in Update : pc'[v] \in {"idle", "validated"} => next'[v] = 1
  BY <1>1, <1>2 DEF Replacing, FinishDelete
<1>7. Written(last)' = Written(last)
  BY <1>4 DEF inputs, Written
<1>8. will # "absent"
  BY <1>2 DEF Replacing, Active
<1> QED
  <2>1. ASSUME ~overlap, will = "live", NEW v \in Update, Active(v)
        PROVE  v = u
    BY <2>1, <1>2 DEF Replacing
  <2> QED BY <1>2, <1>3, <1>4, <1>5, <1>6, <1>7, <1>8, <2>1 DEF Replacing

LEMMA ReplacingStep ==
  ASSUME TypeOK, WillIsLocked, Emptied, Replacing, [Next]_vars
  PROVE  Replacing'
<1> USE DEF TypeOK
<1>0. Len(Tables) \in Nat
  BY TablesAreTables
<1>1. CASE Create
  BY <1>1 DEF Create, Replacing, Active, inputs, Written, Untouched
<1>2. ASSUME NEW u \in Update, Validate(u)
      PROVE  Replacing'
  BY <1>2 DEF Validate, Replacing, Active, Cleared, inputs, Written, Untouched
<1>3. ASSUME NEW u \in Update, StartDelete(u)
      PROVE  Replacing'
  <2>1. /\ Active(u)' /\ \A v \in Update \ {u} : Active(v)' <=> Active(v)
        /\ overlap' = (overlap \/ \E v \in Update : v # u /\ Active(v))
    BY <1>3 DEF StartDelete, Active
  <2>2. ASSUME ~overlap', will = "live"
        PROVE  Cleared(u)'
    <3>1. CASE pc[u] = "delete"
      BY <1>0, <1>3, <2>1, <2>2, <3>1 DEF StartDelete, Replacing, Cleared, Active
    <3>2. CASE pc[u] = "validated"
      <4>1. next[u] = 1
        BY <3>2 DEF Replacing
      <4> QED BY <1>0, <1>3, <3>2, <4>1 DEF StartDelete, Cleared
    <3> QED BY <1>3, <3>1, <3>2 DEF StartDelete
  <2>3. /\ UNCHANGED <<will, children, last, next, gone>>
        /\ Written(last)' = Written(last)
    BY <1>3 DEF StartDelete, inputs, Written
  <2>4. pc[u] # "idle" /\ pc'[u] = "scan"
        /\ \A v \in Update \ {u} : pc'[v] = pc[v]
    BY <1>3 DEF StartDelete
  <2>5. ASSUME ~overlap', NEW v \in Update, v # u
        PROVE  ~Active(v) /\ ~Active(v)'
    BY <2>1, <2>5
  <2> QED BY <2>1, <2>2, <2>3, <2>4, <2>5 DEF Replacing, Untouched
<1>4. ASSUME NEW u \in Update, FinishDelete(u)
      PROVE  Replacing'
  BY <1>4, FinishKeepsReplacing
<1>5. ASSUME NEW u \in Update, LockWill(u)
      PROVE  Replacing'
  BY <1>5 DEF LockWill, CanLockWill, Replacing, Cleared, Active, inputs, Written,
              Untouched
<1>6. ASSUME NEW u \in Update, Commit(u)
      PROVE  Replacing'
  <2>1. Active(u) /\ ~Active(u)' /\ \A v \in Update \ {u} : Active(v)' <=> Active(v)
    BY <1>6 DEF Commit, Active
  <2>2. /\ will = "live" /\ will' = "live" /\ overlap' = overlap /\ last' = u
        /\ gone'[u] = Untouched' /\ next' = next /\ pc'[u] = "done"
        /\ \A v \in Update \ {u} : gone'[v] = gone[v] /\ pc'[v] = pc[v]
    BY <1>6 DEF Commit, Emptied, Untouched
  <2>3. ASSUME ~overlap
        PROVE  children' = Written(u)
    <3>1. \A t \in Table : gone[u][t] = children[t]
      BY <1>6, <2>1, <2>2, <2>3 DEF Replacing, Cleared, Commit
    <3> QED BY <1>6, <3>1 DEF Commit, Written
  <2>4. Written(last)' = Written(u)
    BY <1>6, <2>2 DEF Commit, inputs, Written
  <2>5. ASSUME ~overlap, NEW v \in Update
        PROVE  ~Active(v)'
    BY <2>1, <2>5 DEF Replacing
  <2> QED BY <2>1, <2>2, <2>3, <2>4, <2>5 DEF Replacing, Untouched
<1>7. ASSUME NEW u \in Update, RollBack(u), Active(u)
      PROVE  Replacing'
  BY <1>7 DEF RollBack, Replacing, Cleared, Active, inputs, Written, Untouched
<1>8. ASSUME NEW r \in Removal,
             ValidateRemoval(r) \/ LockForRemoval(r) \/ RollBackRemoval(r)
      PROVE  Replacing'
  BY <1>8, ReplacingByOthers
  DEF ValidateRemoval, LockForRemoval, RollBackRemoval, inputs
<1>9. ASSUME NEW r \in Removal, Cascade(r)
      PROVE  Replacing'
  BY <1>9 DEF Cascade, Replacing, Active, Untouched
<1>10. CASE UNCHANGED vars
  BY <1>10, ReplacingByOthers DEF vars, inputs
<1>11. ASSUME NEW u \in Update, pc[u] = "update"
       PROVE  Active(u)
  BY <1>11 DEF Active
<1> QED
  BY <1>1, <1>2, <1>3, <1>4, <1>5, <1>6, <1>7, <1>8, <1>9, <1>10, <1>11
  DEF Next, UpdateStep, WillMissing, UpdateFails, RemovalStep, RemovalMissing,
      RemovalFails, BreakDeadlock

\* The drop-and-replace update is all or nothing: as long as no two update
\* transactions have been open together, a live will has exactly the children
\* of the last request that committed.
THEOREM UpdateReplacesWhole == Spec => []ReplacedWhole
<1>1. Init => Replacing /\ Emptied
  BY DEF Init, Replacing, Emptied, RemovedIsEmpty, Active, Untouched
<1>2. Replacing => ReplacedWhole
  BY DEF Replacing, ReplacedWhole
<1>3. TypeOK /\ WillIsLocked /\ Emptied /\ Replacing /\ [Next]_vars => Replacing'
  BY ReplacingStep
<1> QED
  BY <1>1, <1>2, <1>3, TypeCorrect, WritersHoldTheWill, AlwaysEmptied, PTL
  DEF Spec

-----------------------------------------------------------------------------
(* The shares of the estate.                                               *)

\* A table has nothing, or the children of one request: what they add up to.
LEMMA SharesOfOne ==
    ASSUME NEW b \in Batch, total[b] \in Nat
    PROVE  SumOver(total, {}) = 0 /\ SumOver(total, {b}) = total[b]
<1>1. Units(total, {}) = {}
  BY DEF Units
<1>2. Units(total, {b}) = {b} \X (1..total[b])
  BY DEF Units
<1>3. IsFiniteSet({b}) /\ Cardinality({b}) = 1
  BY FS_Singleton
<1>4. IsFiniteSet(1..total[b]) /\ Cardinality(1..total[b]) = total[b]
  <2>1. 1 \in Int /\ total[b] \in Int
    OBVIOUS
  <2>2. /\ IsFiniteSet(1..total[b])
        /\ Cardinality(1..total[b]) = IF 1 > total[b] THEN 0 ELSE total[b] - 1 + 1
    BY <2>1, FS_Interval, Zenon
  <2> QED BY <2>2
<1>5. Cardinality({b} \X (1..total[b])) = Cardinality({b}) * Cardinality(1..total[b])
  BY <1>3, <1>4, FS_Product
<1>6. Cardinality({b} \X (1..total[b])) = total[b]
  BY <1>3, <1>4, <1>5
<1> QED BY <1>1, <1>2, <1>6, FS_EmptySet DEF SumOver

\* Every request that has begun was validated against a will that existed, and
\* so was the one that wrote last.
Validated ==
    /\ \A u \in Update : pc[u] # "idle" => SharesValid(u)
    /\ \A r \in Removal : removalPc[r] # "idle" => will # "absent"
    /\ will # "absent" => SharesValid(last)

LEMMA ValidatedStep ==
    ASSUME TypeOK, Emptied, Replacing, Validated, [Next]_vars
    PROVE  Validated'
<1> USE DEF TypeOK, Validated
<1>1. CASE Create
  BY <1>1 DEF Create, Replacing, inputs, SharesValid
<1>2. ASSUME NEW u \in Update, Validate(u)
      PROVE  Validated'
  BY <1>2 DEF Validate, inputs, SharesValid
<1>3. ASSUME NEW u \in Update, StartDelete(u) \/ FinishDelete(u) \/ LockWill(u)
      PROVE  Validated'
  <2>1. /\ pc[u] # "idle" /\ UNCHANGED <<gives, total, will, removalPc, last>>
        /\ \A v \in Update \ {u} : pc'[v] = pc[v]
    BY <1>3 DEF StartDelete, FinishDelete, LockWill, CanLockWill, inputs
  <2> QED BY <2>1 DEF SharesValid
<1>4. ASSUME NEW u \in Update, Commit(u)
      PROVE  Validated'
  <2>1. /\ pc[u] # "idle" /\ will = "live" /\ last' = u
        /\ UNCHANGED <<gives, total, will, removalPc>>
        /\ \A v \in Update \ {u} : pc'[v] = pc[v]
    BY <1>4 DEF Commit, Emptied, inputs
  <2> QED BY <2>1 DEF SharesValid
<1>5. ASSUME NEW u \in Update, RollBack(u), pc[u] # "idle"
      PROVE  Validated'
  BY <1>5 DEF RollBack, inputs, SharesValid
<1>6. ASSUME NEW u \in Update, pc[u] = "update" \/ Active(u)
      PROVE  pc[u] # "idle"
  BY <1>6 DEF Active
<1>7. ASSUME NEW r \in Removal,
             \/ ValidateRemoval(r) \/ LockForRemoval(r)
             \/ RollBackRemoval(r) /\ removalPc[r] \in {"validated", "cascade"}
      PROVE  Validated'
  <2>1. /\ will # "absent" /\ UNCHANGED <<gives, total, will, pc, last>>
        /\ \A q \in Removal \ {r} : removalPc'[q] = removalPc[q]
    BY <1>7 DEF ValidateRemoval, LockForRemoval, RollBackRemoval, inputs
  <2> QED BY <2>1 DEF SharesValid
<1>8. ASSUME NEW r \in Removal, Cascade(r)
      PROVE  Validated'
  <2>1. /\ will # "absent" /\ will' = "removed" /\ UNCHANGED <<gives, total, pc, last>>
        /\ \A q \in Removal \ {r} : removalPc'[q] = removalPc[q]
    BY <1>8 DEF Cascade, inputs
  <2> QED BY <2>1 DEF SharesValid
<1>9. CASE UNCHANGED vars
  BY <1>9 DEF vars, inputs, SharesValid
<1> QED
  BY <1>1, <1>2, <1>3, <1>4, <1>5, <1>6, <1>7, <1>8, <1>9
  DEF Next, UpdateStep, WillMissing, UpdateFails, RemovalStep, RemovalMissing,
      RemovalFails, BreakDeadlock, HeldFrom

\* Without overlapping updates the shares of the estate add up to nothing, or
\* to the 100% that the request whose children are there was checked for.
THEOREM AloneAllocatesAll == Spec => []AllocatedAlone
<1>1. Init => Replacing /\ Validated
  BY DEF Init, Replacing, Validated, Active, Untouched
<1>2. TypeOK /\ WillIsLocked /\ Emptied /\ Replacing /\ Validated /\ [Next]_vars
        => Replacing' /\ Validated'
  BY ReplacingStep, ValidatedStep
<1>3. TypeOK /\ Emptied /\ Replacing /\ Validated => AllocatedAlone
  <2> SUFFICES ASSUME TypeOK, Emptied, Replacing, Validated, ~overlap
               PROVE  SumOver(total, children[Shared]) \in {0, 100}
    BY DEF AllocatedAlone, Allocated
  <2>1. last \in Batch /\ total[last] \in Nat /\ gives[last] \subseteq Table
    BY DEF TypeOK
  <2>2. CASE will = "live"
    <3>1. children[Shared] = IF Shared \in gives[last] THEN {last} ELSE {}
      BY <2>1, <2>2 DEF Replacing, ReplacedWhole, Written
    <3>2. Shared \in gives[last] => total[last] = 100
      BY <2>2 DEF Validated, SharesValid
    <3> QED BY <2>1, <3>1, <3>2, SharesOfOne
  <2>3. CASE will # "live"
    <3>1. children[Shared] = {}
      BY <2>3 DEF Emptied, RemovedIsEmpty, Untouched
    <3> QED BY <2>1, <3>1, SharesOfOne
  <2> QED BY <2>2, <2>3
<1> QED
  BY <1>1, <1>2, <1>3, TypeCorrect, WritersHoldTheWill, AlwaysEmptied, PTL
  DEF Spec
=============================================================================
