------------------------ MODULE CandidateChangeProofs ------------------------
(***************************************************************************)
(* Proofs about CandidateChange, for every checkout and candidate and any   *)
(* number of steps of the user, actions and crashes.                        *)
(*                                                                         *)
(* The properties speak of what an action leaves behind; the invariant says  *)
(* what its local variables know half-way: which files are still as they     *)
(* were when it compared them (unless the user changed them since), which of  *)
(* them it has dealt with, and what the commit it carries contains.          *)
(***************************************************************************)
EXTENDS CandidateChange, TLAPS

\* The lease is there before the worktree and goes after it, and the reaper is
\* past its owner check only for a lease whose owner is gone.
LeaseInv ==
  /\ pc = "new" => lease = "none" /\ ~worktree /\ reap = "idle"
  /\ pc = "lease" => lease = "empty" /\ ~worktree
  /\ pc = "snapshot" => lease \in {"live", "empty"} /\ ~worktree
  /\ pc = "add" => lease \in {"live", "empty"}
  /\ pc = "release" => ~worktree
  /\ reap = "remove" => lease \in {"gone", "none"}
  /\ worktree => lease # "none"

\* The commit an action carries, and the index entries it may advance.
CommitInv ==
  /\ pc \in {"publish", "hook", "reconcile"} =>
       op.built.tree = [p \in Paths |-> IF p \in Changed THEN "post" ELSE op.parent.tree[p]]
  /\ pc \in {"publish", "hook", "reconcile"} =>
       \A p \in op.owned : op.before[p] = op.parent.tree[p]

\* The bytes an import or an undo goes back to.
BytesInv ==
  /\ pc \in {"check", "read", "apply", "rollback", "verify", "record"} => AllHold(op.pre, base)
  /\ pc \in {"check", "read", "apply", "rollback"} => AllHold(start, base)
  /\ pc \in {"apply", "rollback"} => \A p \in Paths \ late : op.bytes[p] = start[p]
  /\ applied = "applied" => AllHold(rec.blob, base)
  /\ pc = "undo" => applied = "applied"
  /\ pc \in {"new", "lease", "snapshot"} => applied = "none"

\* Steps at which the running action has written to no file.
Untouched ==
  \/ pc \in {"new", "check", "read", "apply", "parent", "entries", "stage", "publish", "hook",
             "reconcile", "mark"}
  \/ pc \in {"close", "release", "forget"} /\ op.purpose = "discarded"

\* What the files hold while an action is under way, where the user has not
\* changed them since it began.
FilesInv ==
  \A p \in Paths \ late :
    /\ Untouched => file[p] = start[p]
    /\ pc = "rollback" =>
         \/ p \in op.todo \cup op.unresolved
         \/ file[p] = start[p]
    /\ pc = "record" /\ p \in Changed => file[p] = "post"
    /\ pc \in {"close", "release", "forget"} /\ op.purpose = "applied" /\ p \in Changed =>
         file[p] = "post"
    /\ pc = "undo" /\ p \in op.todo => file[p] = "post"
    /\ pc = "undo" /\ p \in Changed => p \in op.todo \cup op.unresolved \/ file[p] = base[p]

\* Nothing is reported before an action ends, and what a closing action is going
\* to report.
PendingInv ==
  /\ pc # "idle" => outcome = "none"
  /\ pc \in {"check", "read", "apply", "rollback", "verify", "record"} => op.purpose = "applied"
  /\ pc \in {"close", "release", "forget"} => op.purpose \in {"nothing", "applied", "discarded"}

IInv ==
  /\ TypeOK /\ LeaseInv /\ CommitInv /\ BytesInv /\ FilesInv /\ PendingInv
  /\ ReportsAreTrue

USE ConstantsAssumption

\* An action begins with well-formed local variables.
LEMMA NoOpType == NoOp \in Ops
BY DEF NoOp, Ops, Old, Root, Trees, Commits, Contents, UserContents, Branches, Outcomes

\* Changing one local variable keeps the record well-formed.
LEMMA OpUpdates ==
  ASSUME NEW o \in Ops
  PROVE  /\ \A t \in Trees : [o EXCEPT !.bytes = t] \in Ops
         /\ \A t \in Trees : [o EXCEPT !.before = t] \in Ops
         /\ \A c \in Commits : [o EXCEPT !.parent = c] \in Ops
         /\ \A b \in Branches : [o EXCEPT !.branch = b] \in Ops
         /\ \A x \in SUBSET Changed : [o EXCEPT !.left = x] \in Ops
         /\ \A r \in Outcomes : [o EXCEPT !.purpose = r] \in Ops
BY DEF Ops

\* The types of the local variables.
LEMMA OpFields ==
  ASSUME NEW o \in Ops
  PROVE  /\ o.pre \in Trees /\ o.bytes \in Trees /\ o.before \in Trees
         /\ o.branch \in Branches /\ o.parent \in Commits /\ o.built \in Commits
         /\ o.owned \in SUBSET Changed /\ o.todo \in SUBSET Changed
         /\ o.unresolved \in SUBSET Changed /\ o.left \in SUBSET Changed
         /\ o.purpose \in Outcomes
BY DEF Ops

\* Every step keeps the types.
LEMMA TypeStep ==
  ASSUME TypeOK, [Next]_vars
  PROVE  TypeOK'
<1> USE NoOpType DEF TypeOK
<1>1. CASE CreateLease
  BY <1>1 DEF CreateLease, Continue, Finish, git, candidate, record, hub, history, bounds,
     Trees, Commits, Contents, UserContents, Old, Root, Steps, Outcomes, Branches
<1>2. CASE WriteLease
  BY <1>2 DEF WriteLease, Continue, Finish, git, candidate, record, hub, history, bounds,
     Trees, Commits, Contents, UserContents, Old, Root, Steps, Outcomes, Branches
<1>3. CASE Snapshot
  BY <1>3 DEF Snapshot, Continue, Finish, git, candidate, record, hub, history, bounds,
     Trees, Commits, Contents, UserContents, Old, Root, Steps, Outcomes, Branches
<1>4. CASE AddWorktree
  <2>1. worktree' \in BOOLEAN
    BY <1>4, Zenon DEF AddWorktree
  <2>2. locked' \in BOOLEAN /\ retained' \in BOOLEAN
    BY <1>4, Zenon DEF AddWorktree, git, candidate
  <2> QED
    BY <1>4, <2>1, <2>2 DEF AddWorktree, Continue, git, candidate, record, hub, history,
       bounds, Trees, Commits, Contents, UserContents, Old, Root, Steps, Outcomes,
       Branches
<1>5. CASE Abandon
  <2>1. worktree' \in BOOLEAN
    BY <1>5, Zenon DEF Abandon, RemoveWorktree
  <2>2. locked' \in BOOLEAN /\ retained' \in BOOLEAN
    BY <1>5, Zenon DEF Abandon, git, candidate
  <2> QED
    BY <1>5, <2>1, <2>2 DEF Abandon, RemoveWorktree, Finish, git, candidate, record, hub,
       history, bounds, Trees, Commits, Contents, UserContents, Old, Root, Steps,
       Outcomes, Branches
<1>6. CASE Settle
  BY <1>6 DEF Settle, Finish, git, candidate, record, hub, history, bounds, Trees,
     Commits, Contents, UserContents, Old, Root, Steps, Outcomes, Branches
<1>7. CASE GiveUp
  <2>1. op' \in Ops
    BY <1>7, OpUpdates DEF GiveUp, git, candidate, record, hub, history, bounds, Outcomes
  <2> QED
    BY <1>7, <2>1 DEF GiveUp, git, candidate, record, hub, history, bounds, Steps
<1>8. CASE Close
  <2>1. worktree' \in BOOLEAN
    BY <1>8, Zenon DEF Close, RemoveWorktree
  <2>2. locked' \in BOOLEAN /\ retained' \in BOOLEAN
    BY <1>8, Zenon DEF Close, git, candidate
  <2> QED
    BY <1>8, <2>1, <2>2, OpFields DEF Close, RemoveWorktree, Continue, Finish, git,
       candidate, record, hub, history, bounds, Trees, Commits, Contents, UserContents,
       Old, Root, Steps, Outcomes, Branches
<1>9. CASE ReleaseLease
  BY <1>9 DEF ReleaseLease, Continue, git, candidate, record, hub, history, bounds, Trees,
     Commits, Contents, UserContents, Old, Root, Steps, Outcomes, Branches
<1>10. CASE ForgetCandidate
  BY <1>10, OpFields, ZenonT(40) DEF ForgetCandidate, Finish, git, candidate, record, hub, history,
     bounds, Trees, Commits, Contents, UserContents, Old, Root, Steps, Outcomes, Branches
<1>11. CASE BeginApply
  <2>1. [NoOp EXCEPT !.pre = file, !.purpose = "applied"] \in Ops
    BY DEF Ops, Outcomes
  <2> QED
    BY <1>11, <2>1 DEF BeginApply, Begin, Proceed, Finish, git, candidate, record,
       history, Steps, Outcomes
<1>12. CASE CheckApply
  BY <1>12 DEF CheckApply, Continue, Finish, git, candidate, record, hub, history, bounds,
     Trees, Commits, Contents, UserContents, Old, Root, Steps, Outcomes, Branches
<1>13. CASE ReadBytes
  <2>1. op' \in Ops
    BY <1>13, OpUpdates DEF ReadBytes, git, candidate, record, hub, history, bounds,
       Outcomes
  <2> QED
    BY <1>13, <2>1 DEF ReadBytes, git, candidate, record, hub, history, bounds, Steps
<1>14. CASE GitApply
  <2>1. op' \in Ops
    BY <1>14 DEF GitApply, Continue, Ops
  <2>2. \A p \in Paths : Patched(p) \in Contents
    BY DEF Patched, Contents
  <2>3. file' \in Trees
    BY <1>14, <2>2 DEF GitApply, Trees, Contents
  <2> QED
    BY <1>14, <2>1, <2>3 DEF GitApply, Continue, git, candidate, record, hub, history,
       bounds, Steps
<1>15. ASSUME NEW p \in Changed, RollbackPath(p) PROVE TypeOK'
  <2>1. op.todo \ {p} \in SUBSET Changed /\ op.unresolved \cup {p} \in SUBSET Changed
    BY OpFields
  <2>2. op' \in Ops
    BY <1>15, <2>1, OpFields, ZenonT(40) DEF RollbackPath, Ops
  <2>3. op.bytes[p] \in Contents /\ "torn" \in Contents /\ p \in Paths
    BY OpFields DEF Trees, Contents
  <2>4. file' \in Trees
    BY <1>15, <2>3 DEF RollbackPath, FailedWrite, Trees
  <2>5. UNCHANGED <<pc, outcome, git, candidate, record, reap, history, bounds, made>>
    BY <1>15 DEF RollbackPath
  <2> QED
    BY <2>2, <2>4, <2>5 DEF git, candidate, record, history, bounds
<1>16. ASSUME NEW p \in Changed, UndoPath(p) PROVE TypeOK'
  <2>1. op.todo \ {p} \in SUBSET Changed /\ op.unresolved \cup {p} \in SUBSET Changed
    BY OpFields
  <2>2. op' \in Ops
    BY <1>16, <2>1, OpFields, ZenonT(40) DEF UndoPath, Ops
  <2>3. rec.pre[p] \in Contents /\ "torn" \in Contents /\ p \in Paths
    BY OpFields DEF Trees, Contents
  <2>4. file' \in Trees
    BY <1>16, <2>3 DEF UndoPath, FailedWrite, Trees
  <2>5. UNCHANGED <<pc, outcome, git, candidate, record, reap, history, bounds, made>>
    BY <1>16 DEF UndoPath
  <2> QED
    BY <2>2, <2>4, <2>5 DEF git, candidate, record, history, bounds
<1>17. CASE RolledBack
  BY <1>17 DEF RolledBack, Finish, git, candidate, record, hub, history, bounds, Trees,
     Commits, Contents, UserContents, Old, Root, Steps, Outcomes, Branches
<1>18. CASE Verify
  BY <1>18 DEF Verify, Continue, Finish, AllHold, git, candidate, record, hub, history,
     bounds, Trees, Commits, Contents, UserContents, Old, Root, Steps, Outcomes, Branches
<1>19. CASE RecordApplied
  <2>1. rec' \in [pre : Trees, blob : Trees] /\ applied' \in {"none", "applied", "committed"}
    BY <1>19, OpFields DEF RecordApplied, record
  <2> QED
    BY <1>19, <2>1 DEF RecordApplied, Continue, git, candidate, hub, history, bounds, Steps
<1>20. CASE BeginDiscard
  <2>1. op' \in Ops
    BY <1>20, OpUpdates DEF BeginDiscard, Begin, Proceed, Finish, git, candidate, record,
       hub, history, bounds, Outcomes
  <2> QED
    BY <1>20, <2>1 DEF BeginDiscard, Begin, Proceed, Finish, git, candidate, record, hub,
       history, bounds, Steps, Outcomes
<1>21. CASE BeginUndo
  <2>1. [NoOp EXCEPT !.todo = Changed] \in Ops
    BY DEF Ops
  <2> QED
    BY <1>21, <2>1 DEF BeginUndo, Begin, Proceed, Finish, git, candidate, record, history,
       Steps, Outcomes
<1>22. CASE Undone
  BY <1>22 DEF Undone, Finish, git, candidate, record, hub, history, bounds, Trees,
     Commits, Contents, UserContents, Old, Root, Steps, Outcomes, Branches
<1>23. CASE BeginCommit
  <2>1. op' \in Ops
    BY <1>23, OpUpdates, ZenonT(40) DEF BeginCommit, Begin, Proceed, Finish, AllHold, git, candidate,
       record, hub, history, bounds, Outcomes
  <2> QED
    BY <1>23, <2>1 DEF BeginCommit, Begin, Proceed, Finish, AllHold, git, candidate,
       record, hub, history, bounds, Steps, Outcomes
<1>24. CASE ReadParent
  <2>1. HeadCommit \in Commits
    BY DEF HeadCommit, Branches
  <2>2. op' \in Ops
    BY <1>24, <2>1, OpUpdates DEF ReadParent, Finish
  <2> QED
    BY <1>24, <2>2 DEF ReadParent, Finish, git, candidate, record, history, bounds, Steps,
       Outcomes
<1>25. CASE ReadIndex
  <2>1. op' \in Ops
    BY <1>25, OpUpdates DEF ReadIndex, git, candidate, record, hub, history, bounds,
       Outcomes
  <2> QED
    BY <1>25, <2>1 DEF ReadIndex, git, candidate, record, hub, history, bounds, Steps
<1>26. CASE StagePrivate
  <2>1. PrivateTree \in Trees
    BY OpFields DEF PrivateTree, Trees, Commits
  <2>2. Built \in Commits /\ Owned \in SUBSET Changed
    BY <2>1 DEF Built, Owned, Commits
  <2>3. op' \in Ops
    BY <1>26, <2>2 DEF StagePrivate, Finish, Ops
  <2> QED
    BY <1>26, <2>3 DEF StagePrivate, Finish, git, candidate, record, history, bounds,
       Steps, Outcomes
<1>27. CASE Publish
  <2>1. tip' \in [Branches -> Commits]
    BY <1>27, OpFields DEF Publish
  <2> QED
    BY <1>27, <2>1 DEF Publish, Finish, Continue, candidate, record, history, bounds,
       Steps, Outcomes
<1>28. CASE HookReconcile
  <2>1. index' \in Trees
    BY <1>28, OpFields DEF HookReconcile, Reconcile, Advance, Trees, Commits
  <2> QED
    BY <1>28, <2>1 DEF HookReconcile, Continue, candidate, record, history, bounds, Steps
<1>29. CASE ControllerReconcile
  <2>1. index' \in Trees
    BY <1>29, OpFields DEF ControllerReconcile, Reconcile, Advance, Trees, Commits
  <2>2. op' \in Ops
    <3>1. PICK left \in {op.owned, {p \in op.owned : index'[p] = op.before[p]}} :
            op' = [op EXCEPT !.left = left]
      BY <1>29 DEF ControllerReconcile
    <3>2. left \in SUBSET Changed
      BY <3>1, OpFields
    <3> QED
      BY <3>1, <3>2, OpUpdates
  <2> QED
    BY <1>29, <2>1, <2>2 DEF ControllerReconcile, candidate, record, history, bounds, Steps
<1>30. CASE MarkCommitted
  BY <1>30 DEF MarkCommitted, Finish, git, candidate, record, hub, history, bounds, Trees,
     Commits, Contents, UserContents, Old, Root, Steps, Outcomes, Branches
<1>31. CASE GitFails
  BY <1>31 DEF GitFails, Finish, git, candidate, record, hub, history, bounds, Trees,
     Commits, Contents, UserContents, Old, Root, Steps, Outcomes, Branches
<1>32. CASE ReapLook
  BY <1>32 DEF ReapLook, git, candidate, record, hub, history, bounds, Trees, Commits,
     Contents, UserContents, Old, Root, Steps, Outcomes, Branches
<1>33. CASE ReapOwner
  BY <1>33 DEF ReapOwner, OwnerGone, git, candidate, record, hub, history, bounds, Trees,
     Commits, Contents, UserContents, Old, Root, Steps, Outcomes, Branches
<1>34. CASE ReapRemove
  <2>1. worktree' \in BOOLEAN
    BY <1>34, Zenon DEF ReapRemove
  <2>2. locked' \in BOOLEAN /\ retained' \in BOOLEAN
    BY <1>34, Zenon DEF ReapRemove, git, candidate
  <2>3. lease' \in {"none", "empty", "live", "gone"} /\ reap' = "idle"
    BY <1>34, Zenon DEF ReapRemove
  <2>4. UNCHANGED <<base, file, index, head, at, tip, applied, rec, pc, op, outcome,
                     start, late, edits, ops, crashes, made>>
    BY <1>34, Zenon DEF ReapRemove, git, record, hub, history, bounds
  <2> QED
    BY <2>1, <2>2, <2>3, <2>4
<1>35. CASE Crash
  BY <1>35 DEF Crash, git, candidate, record, hub, history, bounds, Trees, Commits,
     Contents, UserContents, Old, Root, Steps, Outcomes, Branches
<1>36. CASE Restart
  BY <1>36 DEF Restart, git, candidate, record, hub, history, bounds, Trees, Commits,
     Contents, UserContents, Old, Root, Steps, Outcomes, Branches
<1>37. ASSUME NEW p \in Paths, NEW c \in UserContents, EditFile(p, c) PROVE TypeOK'
  BY <1>37 DEF EditFile, UserStep, git, candidate, record, hub, history, bounds, Trees,
     Commits, Contents, UserContents, Old, Root, Steps, Outcomes, Branches
<1>38. ASSUME NEW p \in Paths, StageFile(p) PROVE TypeOK'
  BY <1>38 DEF StageFile, UserStep, git, candidate, record, hub, history, bounds, Trees,
     Commits, Contents, UserContents, Old, Root, Steps, Outcomes, Branches
<1>39. CASE UserCommit
  BY <1>39 DEF UserCommit, UserStep, HeadCommit, git, candidate, record, hub, history,
     bounds, Trees, Commits, Contents, UserContents, Old, Root, Steps, Outcomes, Branches
<1>40. ASSUME NEW b \in Branches \cup {"detached"}, Switch(b) PROVE TypeOK'
  BY <1>40 DEF Switch, UserStep, HeadCommit, git, candidate, record, hub, history, bounds,
     Trees, Commits, Contents, UserContents, Old, Root, Steps, Outcomes, Branches
<1>41. CASE LockIndex
  <2>1. locked' \in BOOLEAN /\ worktree' \in BOOLEAN /\ retained' \in BOOLEAN
    BY <1>41, Zenon DEF LockIndex, candidate, UserStep
  <2> QED
    BY <1>41, <2>1 DEF LockIndex, UserStep, git, candidate, record, hub, history, bounds
<1>42. CASE UnlockIndex
  <2>1. locked' \in BOOLEAN /\ worktree' \in BOOLEAN /\ retained' \in BOOLEAN
    BY <1>42, Zenon DEF UnlockIndex, candidate
  <2> QED
    BY <1>42, <2>1 DEF UnlockIndex, git, candidate, record, hub, history, bounds
<1>43. CASE UNCHANGED vars
  BY <1>43 DEF vars, git, candidate, record, hub, history, bounds
<1> QED
  BY <1>1, <1>2, <1>3, <1>4, <1>5, <1>6, <1>7, <1>8, <1>9, <1>10, <1>11, <1>12, <1>13,
     <1>14, <1>15, <1>16, <1>17, <1>18, <1>19, <1>20, <1>21, <1>22, <1>23, <1>24, <1>25,
     <1>26, <1>27, <1>28, <1>29, <1>30, <1>31, <1>32, <1>33, <1>34, <1>35, <1>36, <1>37,
     <1>38, <1>39, <1>40, <1>41, <1>42, <1>43 DEF Next, HubStep, Reaper, User

\* Every step keeps the lease ahead of the worktree.
LEMMA LeaseStep ==
  ASSUME TypeOK, LeaseInv, [Next]_vars
  PROVE  LeaseInv'
<1> USE DEF TypeOK, LeaseInv
<1>1. CASE CreateLease
  BY <1>1 DEF CreateLease, Continue, Finish, git, candidate, record, hub, history, bounds
<1>2. CASE WriteLease
  BY <1>2 DEF WriteLease, Continue, Finish, git, candidate, record, hub, history, bounds
<1>3. CASE Snapshot
  BY <1>3 DEF Snapshot, Continue, Finish, git, candidate, record, hub, history, bounds
<1>4. CASE AddWorktree
  BY <1>4 DEF AddWorktree, Continue, git, candidate, record, hub, history, bounds
<1>5. CASE Abandon
  BY <1>5 DEF Abandon, RemoveWorktree, Finish, git, candidate, record, hub, history, bounds
<1>6. CASE Settle
  BY <1>6 DEF Settle, Finish, git, candidate, record, hub, history, bounds
<1>7. CASE GiveUp
  BY <1>7 DEF GiveUp, git, candidate, record, hub, history, bounds
<1>8. CASE Close
  BY <1>8 DEF Close, RemoveWorktree, Continue, Finish, git, candidate, record, hub,
     history, bounds
<1>9. CASE ReleaseLease
  BY <1>9 DEF ReleaseLease, Continue, git, candidate, record, hub, history, bounds
<1>10. CASE ForgetCandidate
  BY <1>10 DEF ForgetCandidate, Finish, git, candidate, record, hub, history, bounds
<1>11. CASE BeginApply
  BY <1>11 DEF BeginApply, Begin, Proceed, Finish, AllHold, git, candidate, record, hub,
     history, bounds
<1>12. CASE CheckApply
  BY <1>12 DEF CheckApply, Continue, Finish, git, candidate, record, hub, history, bounds
<1>13. CASE ReadBytes
  BY <1>13 DEF ReadBytes, git, candidate, record, hub, history, bounds
<1>14. CASE GitApply
  BY <1>14 DEF GitApply, Continue, Patched, git, candidate, record, hub, history, bounds
<1>15. ASSUME NEW p \in Changed, RollbackPath(p) PROVE LeaseInv'
  BY <1>15 DEF RollbackPath, FailedWrite, git, candidate, record, hub, history, bounds
<1>16. ASSUME NEW p \in Changed, UndoPath(p) PROVE LeaseInv'
  BY <1>16 DEF UndoPath, FailedWrite, git, candidate, record, hub, history, bounds
<1>17. CASE RolledBack
  BY <1>17 DEF RolledBack, Finish, git, candidate, record, hub, history, bounds
<1>18. CASE Verify
  BY <1>18 DEF Verify, Continue, Finish, AllHold, git, candidate, record, hub, history,
     bounds
<1>19. CASE RecordApplied
  BY <1>19 DEF RecordApplied, Continue, git, candidate, record, hub, history, bounds
<1>20. CASE BeginDiscard
  BY <1>20 DEF BeginDiscard, Begin, Proceed, Finish, git, candidate, record, hub, history,
     bounds
<1>21. CASE BeginUndo
  BY <1>21 DEF BeginUndo, Begin, Proceed, Finish, AllHold, git, candidate, record, hub,
     history, bounds
<1>22. CASE Undone
  BY <1>22 DEF Undone, Finish, git, candidate, record, hub, history, bounds
<1>23. CASE BeginCommit
  BY <1>23 DEF BeginCommit, Begin, Proceed, Finish, AllHold, git, candidate, record, hub,
     history, bounds
<1>24. CASE ReadParent
  BY <1>24 DEF ReadParent, Finish, AllHold, HeadCommit, git, candidate, record, hub,
     history, bounds
<1>25. CASE ReadIndex
  BY <1>25 DEF ReadIndex, git, candidate, record, hub, history, bounds
<1>26. CASE StagePrivate
  BY <1>26 DEF StagePrivate, Finish, Exactly, Owned, Built, PrivateTree, AllHold, git,
     candidate, record, hub, history, bounds
<1>27. CASE Publish
  BY <1>27 DEF Publish, Finish, Continue, BoundToHead, git, candidate, record, hub,
     history, bounds
<1>28. CASE HookReconcile
  BY <1>28 DEF HookReconcile, Continue, Reconcile, Advance, HeadCommit, git, candidate,
     record, hub, history, bounds
<1>29. CASE ControllerReconcile
  BY <1>29 DEF ControllerReconcile, Reconcile, Advance, HeadCommit, git, candidate,
     record, hub, history, bounds
<1>30. CASE MarkCommitted
  BY <1>30 DEF MarkCommitted, Finish, git, candidate, record, hub, history, bounds
<1>31. CASE GitFails
  BY <1>31 DEF GitFails, Finish, git, candidate, record, hub, history, bounds
<1>32. CASE ReapLook
  BY <1>32 DEF ReapLook, git, candidate, record, hub, history, bounds
<1>33. CASE ReapOwner
  BY <1>33 DEF ReapOwner, OwnerGone, git, candidate, record, hub, history, bounds
<1>34. CASE ReapRemove
  <2>1. worktree' => worktree
    BY <1>34, Zenon DEF ReapRemove
  <2>2. lease' = lease \/ (lease' = "none" /\ ~worktree')
    <3>1. (worktree' = FALSE /\ lease' = "none") \/ lease' = lease
      BY <1>34, Zenon DEF ReapRemove
    <3>2. (worktree' = FALSE) => ~worktree'
      OBVIOUS
    <3> QED
      BY <3>1, <3>2, Zenon
  <2>3. pc' = pc /\ reap' = "idle"
    BY <1>34, Zenon DEF ReapRemove, hub
  <2>4. pc # "new"
    BY <1>34 DEF ReapRemove
  <2>5. pc \in {"lease", "snapshot", "add"} => lease' = lease
    BY <1>34, <2>2 DEF ReapRemove
  <2> QED
    BY <2>1, <2>2, <2>3, <2>4, <2>5
<1>35. CASE Crash
  BY <1>35 DEF Crash, git, candidate, record, hub, history, bounds
<1>36. CASE Restart
  BY <1>36 DEF Restart, git, candidate, record, hub, history, bounds
<1>37. ASSUME NEW p \in Paths, NEW c \in UserContents, EditFile(p, c) PROVE LeaseInv'
  BY <1>37 DEF EditFile, UserStep, git, candidate, record, hub, history, bounds
<1>38. ASSUME NEW p \in Paths, StageFile(p) PROVE LeaseInv'
  BY <1>38 DEF StageFile, UserStep, git, candidate, record, hub, history, bounds
<1>39. CASE UserCommit
  BY <1>39 DEF UserCommit, UserStep, HeadCommit, git, candidate, record, hub, history,
     bounds
<1>40. ASSUME NEW b \in Branches \cup {"detached"}, Switch(b) PROVE LeaseInv'
  BY <1>40 DEF Switch, UserStep, HeadCommit, git, candidate, record, hub, history, bounds
<1>41. CASE LockIndex
  BY <1>41 DEF LockIndex, UserStep, git, candidate, record, hub, history, bounds
<1>42. CASE UnlockIndex
  BY <1>42 DEF UnlockIndex, git, candidate, record, hub, history, bounds
<1>43. CASE UNCHANGED vars
  BY <1>43 DEF vars, git, candidate, record, hub, history, bounds
<1> QED
  BY <1>1, <1>2, <1>3, <1>4, <1>5, <1>6, <1>7, <1>8, <1>9, <1>10, <1>11, <1>12, <1>13,
     <1>14, <1>15, <1>16, <1>17, <1>18, <1>19, <1>20, <1>21, <1>22, <1>23, <1>24, <1>25,
     <1>26, <1>27, <1>28, <1>29, <1>30, <1>31, <1>32, <1>33, <1>34, <1>35, <1>36, <1>37,
     <1>38, <1>39, <1>40, <1>41, <1>42, <1>43 DEF Next, HubStep, Reaper, User

\* Every step keeps what is known of the commit being made.
LEMMA CommitStep ==
  ASSUME TypeOK, CommitInv, [Next]_vars
  PROVE  CommitInv'
<1> USE DEF CommitInv
<1>1. CASE CreateLease
  BY <1>1 DEF CreateLease, Continue, Finish, git, candidate, record, hub, history, bounds
<1>2. CASE WriteLease
  BY <1>2 DEF WriteLease, Continue, Finish, git, candidate, record, hub, history, bounds
<1>3. CASE Snapshot
  BY <1>3 DEF Snapshot, Continue, Finish, git, candidate, record, hub, history, bounds
<1>4. CASE AddWorktree
  BY <1>4 DEF AddWorktree, Continue, git, candidate, record, hub, history, bounds
<1>5. CASE Abandon
  BY <1>5 DEF Abandon, RemoveWorktree, Finish, git, candidate, record, hub, history, bounds
<1>6. CASE Settle
  BY <1>6 DEF Settle, Finish, git, candidate, record, hub, history, bounds
<1>7. CASE GiveUp
  BY <1>7 DEF GiveUp, git, candidate, record, hub, history, bounds
<1>8. CASE Close
  BY <1>8 DEF Close, RemoveWorktree, Continue, Finish, git, candidate, record, hub,
     history, bounds
<1>9. CASE ReleaseLease
  BY <1>9 DEF ReleaseLease, Continue, git, candidate, record, hub, history, bounds
<1>10. CASE ForgetCandidate
  BY <1>10 DEF ForgetCandidate, Finish, git, candidate, record, hub, history, bounds
<1>11. CASE BeginApply
  BY <1>11 DEF BeginApply, Begin, Proceed, Finish, AllHold, git, candidate, record, hub,
     history, bounds
<1>12. CASE CheckApply
  BY <1>12 DEF CheckApply, Continue, Finish, git, candidate, record, hub, history, bounds
<1>13. CASE ReadBytes
  BY <1>13 DEF ReadBytes, git, candidate, record, hub, history, bounds
<1>14. CASE GitApply
  BY <1>14 DEF GitApply, Continue, Patched, git, candidate, record, hub, history, bounds
<1>15. ASSUME NEW p \in Changed, RollbackPath(p) PROVE CommitInv'
  BY <1>15 DEF RollbackPath, FailedWrite, git, candidate, record, hub, history, bounds
<1>16. ASSUME NEW p \in Changed, UndoPath(p) PROVE CommitInv'
  BY <1>16 DEF UndoPath, FailedWrite, git, candidate, record, hub, history, bounds
<1>17. CASE RolledBack
  BY <1>17 DEF RolledBack, Finish, git, candidate, record, hub, history, bounds
<1>18. CASE Verify
  BY <1>18 DEF Verify, Continue, Finish, AllHold, git, candidate, record, hub, history,
     bounds
<1>19. CASE RecordApplied
  BY <1>19 DEF RecordApplied, Continue, git, candidate, record, hub, history, bounds
<1>20. CASE BeginDiscard
  BY <1>20 DEF BeginDiscard, Begin, Proceed, Finish, git, candidate, record, hub, history,
     bounds
<1>21. CASE BeginUndo
  BY <1>21 DEF BeginUndo, Begin, Proceed, Finish, AllHold, git, candidate, record, hub,
     history, bounds
<1>22. CASE Undone
  BY <1>22 DEF Undone, Finish, git, candidate, record, hub, history, bounds
<1>23. CASE BeginCommit
  BY <1>23 DEF BeginCommit, Begin, Proceed, Finish, AllHold, git, candidate, record, hub,
     history, bounds
<1>24. CASE ReadParent
  BY <1>24 DEF ReadParent, Finish, AllHold, HeadCommit, git, candidate, record, hub,
     history, bounds
<1>25. CASE ReadIndex
  BY <1>25 DEF ReadIndex, git, candidate, record, hub, history, bounds
<1>26. CASE StagePrivate
  <2>1. CASE pc' = "idle"
    BY <2>1
  <2>2. CASE pc' # "idle"
    <3>1. /\ Exactly
          /\ op' = [op EXCEPT !.built = Built, !.owned = Owned]
          /\ pc' = "publish"
      BY <1>26, <2>2 DEF StagePrivate, Finish
    <3>2. op \in Ops
      BY DEF TypeOK
    <3>3. /\ op'.built = Built /\ op'.owned = Owned
          /\ op'.parent = op.parent /\ op'.before = op.before
      BY <3>1, <3>2 DEF Ops
    <3>4. PrivateTree = [p \in Paths |-> IF p \in Changed THEN "post" ELSE op.parent.tree[p]]
      BY <3>1 DEF Exactly, PrivateTree, AllHold, Post
    <3>5. op'.built.tree = PrivateTree
      BY <3>3 DEF Built
    <3>6. \A p \in op'.owned : op'.before[p] = op'.parent.tree[p]
      BY <3>3 DEF Owned
    <3> QED
      BY <3>1, <3>3, <3>4, <3>5, <3>6
  <2> QED
    BY <2>1, <2>2
<1>27. CASE Publish
  BY <1>27 DEF Publish, Finish, Continue, BoundToHead, git, candidate, record, hub,
     history, bounds
<1>28. CASE HookReconcile
  BY <1>28 DEF HookReconcile, Continue, Reconcile, Advance, HeadCommit, git, candidate,
     record, hub, history, bounds
<1>29. CASE ControllerReconcile
  BY <1>29 DEF ControllerReconcile, Reconcile, Advance, HeadCommit, git, candidate,
     record, hub, history, bounds
<1>30. CASE MarkCommitted
  BY <1>30 DEF MarkCommitted, Finish, git, candidate, record, hub, history, bounds
<1>31. CASE GitFails
  BY <1>31 DEF GitFails, Finish, git, candidate, record, hub, history, bounds
<1>32. CASE ReapLook
  BY <1>32 DEF ReapLook, git, candidate, record, hub, history, bounds
<1>33. CASE ReapOwner
  BY <1>33 DEF ReapOwner, OwnerGone, git, candidate, record, hub, history, bounds
<1>34. CASE ReapRemove
  BY <1>34 DEF ReapRemove, git, candidate, record, hub, history, bounds
<1>35. CASE Crash
  BY <1>35 DEF Crash, git, candidate, record, hub, history, bounds
<1>36. CASE Restart
  BY <1>36 DEF Restart, git, candidate, record, hub, history, bounds
<1>37. ASSUME NEW p \in Paths, NEW c \in UserContents, EditFile(p, c) PROVE CommitInv'
  BY <1>37 DEF EditFile, UserStep, git, candidate, record, hub, history, bounds
<1>38. ASSUME NEW p \in Paths, StageFile(p) PROVE CommitInv'
  BY <1>38 DEF StageFile, UserStep, git, candidate, record, hub, history, bounds
<1>39. CASE UserCommit
  BY <1>39 DEF UserCommit, UserStep, HeadCommit, git, candidate, record, hub, history,
     bounds
<1>40. ASSUME NEW b \in Branches \cup {"detached"}, Switch(b) PROVE CommitInv'
  BY <1>40 DEF Switch, UserStep, HeadCommit, git, candidate, record, hub, history, bounds
<1>41. CASE LockIndex
  BY <1>41 DEF LockIndex, UserStep, git, candidate, record, hub, history, bounds
<1>42. CASE UnlockIndex
  BY <1>42 DEF UnlockIndex, git, candidate, record, hub, history, bounds
<1>43. CASE UNCHANGED vars
  BY <1>43 DEF vars, git, candidate, record, hub, history, bounds
<1> QED
  BY <1>1, <1>2, <1>3, <1>4, <1>5, <1>6, <1>7, <1>8, <1>9, <1>10, <1>11, <1>12, <1>13,
     <1>14, <1>15, <1>16, <1>17, <1>18, <1>19, <1>20, <1>21, <1>22, <1>23, <1>24, <1>25,
     <1>26, <1>27, <1>28, <1>29, <1>30, <1>31, <1>32, <1>33, <1>34, <1>35, <1>36, <1>37,
     <1>38, <1>39, <1>40, <1>41, <1>42, <1>43 DEF Next, HubStep, Reaper, User

\* Every step keeps its report for the end.
LEMMA PendingStep ==
  ASSUME TypeOK, PendingInv, [Next]_vars
  PROVE  PendingInv'
<1> USE DEF TypeOK, Ops, NoOp, PendingInv
<1>1. CASE CreateLease
  BY <1>1 DEF CreateLease, Continue, Finish, git, candidate, record, hub, history, bounds
<1>2. CASE WriteLease
  BY <1>2 DEF WriteLease, Continue, Finish, git, candidate, record, hub, history, bounds
<1>3. CASE Snapshot
  BY <1>3 DEF Snapshot, Continue, Finish, git, candidate, record, hub, history, bounds
<1>4. CASE AddWorktree
  BY <1>4 DEF AddWorktree, Continue, git, candidate, record, hub, history, bounds
<1>5. CASE Abandon
  BY <1>5 DEF Abandon, RemoveWorktree, Finish, git, candidate, record, hub, history, bounds
<1>6. CASE Settle
  BY <1>6 DEF Settle, Finish, git, candidate, record, hub, history, bounds
<1>7. CASE GiveUp
  BY <1>7 DEF GiveUp, git, candidate, record, hub, history, bounds
<1>8. CASE Close
  BY <1>8 DEF Close, RemoveWorktree, Continue, Finish, git, candidate, record, hub,
     history, bounds
<1>9. CASE ReleaseLease
  BY <1>9 DEF ReleaseLease, Continue, git, candidate, record, hub, history, bounds
<1>10. CASE ForgetCandidate
  BY <1>10 DEF ForgetCandidate, Finish, git, candidate, record, hub, history, bounds
<1>11. CASE BeginApply
  BY <1>11 DEF BeginApply, Begin, Proceed, Finish, AllHold, git, candidate, record, hub,
     history, bounds
<1>12. CASE CheckApply
  BY <1>12 DEF CheckApply, Continue, Finish, git, candidate, record, hub, history, bounds
<1>13. CASE ReadBytes
  BY <1>13 DEF ReadBytes, git, candidate, record, hub, history, bounds
<1>14. CASE GitApply
  BY <1>14 DEF GitApply, Continue, Patched, git, candidate, record, hub, history, bounds
<1>15. ASSUME NEW p \in Changed, RollbackPath(p) PROVE PendingInv'
  BY <1>15 DEF RollbackPath, FailedWrite, git, candidate, record, hub, history, bounds
<1>16. ASSUME NEW p \in Changed, UndoPath(p) PROVE PendingInv'
  BY <1>16 DEF UndoPath, FailedWrite, git, candidate, record, hub, history, bounds
<1>17. CASE RolledBack
  BY <1>17 DEF RolledBack, Finish, git, candidate, record, hub, history, bounds
<1>18. CASE Verify
  BY <1>18 DEF Verify, Continue, Finish, AllHold, git, candidate, record, hub, history,
     bounds
<1>19. CASE RecordApplied
  BY <1>19 DEF RecordApplied, Continue, git, candidate, record, hub, history, bounds
<1>20. CASE BeginDiscard
  BY <1>20 DEF BeginDiscard, Begin, Proceed, Finish, git, candidate, record, hub, history,
     bounds
<1>21. CASE BeginUndo
  BY <1>21 DEF BeginUndo, Begin, Proceed, Finish, AllHold, git, candidate, record, hub,
     history, bounds
<1>22. CASE Undone
  BY <1>22 DEF Undone, Finish, git, candidate, record, hub, history, bounds
<1>23. CASE BeginCommit
  BY <1>23 DEF BeginCommit, Begin, Proceed, Finish, AllHold, git, candidate, record, hub,
     history, bounds
<1>24. CASE ReadParent
  BY <1>24 DEF ReadParent, Finish, AllHold, HeadCommit, git, candidate, record, hub,
     history, bounds
<1>25. CASE ReadIndex
  BY <1>25 DEF ReadIndex, git, candidate, record, hub, history, bounds
<1>26. CASE StagePrivate
  BY <1>26 DEF StagePrivate, Finish, Exactly, Owned, Built, PrivateTree, AllHold, git,
     candidate, record, hub, history, bounds
<1>27. CASE Publish
  BY <1>27 DEF Publish, Finish, Continue, BoundToHead, git, candidate, record, hub,
     history, bounds
<1>28. CASE HookReconcile
  BY <1>28 DEF HookReconcile, Continue, Reconcile, Advance, HeadCommit, git, candidate,
     record, hub, history, bounds
<1>29. CASE ControllerReconcile
  BY <1>29 DEF ControllerReconcile, Reconcile, Advance, HeadCommit, git, candidate,
     record, hub, history, bounds
<1>30. CASE MarkCommitted
  BY <1>30 DEF MarkCommitted, Finish, git, candidate, record, hub, history, bounds
<1>31. CASE GitFails
  BY <1>31 DEF GitFails, Finish, git, candidate, record, hub, history, bounds
<1>32. CASE ReapLook
  BY <1>32 DEF ReapLook, git, candidate, record, hub, history, bounds
<1>33. CASE ReapOwner
  BY <1>33 DEF ReapOwner, OwnerGone, git, candidate, record, hub, history, bounds
<1>34. CASE ReapRemove
  BY <1>34 DEF ReapRemove, git, candidate, record, hub, history, bounds
<1>35. CASE Crash
  BY <1>35 DEF Crash, git, candidate, record, hub, history, bounds
<1>36. CASE Restart
  BY <1>36 DEF Restart, git, candidate, record, hub, history, bounds
<1>37. ASSUME NEW p \in Paths, NEW c \in UserContents, EditFile(p, c) PROVE PendingInv'
  BY <1>37 DEF EditFile, UserStep, git, candidate, record, hub, history, bounds
<1>38. ASSUME NEW p \in Paths, StageFile(p) PROVE PendingInv'
  BY <1>38 DEF StageFile, UserStep, git, candidate, record, hub, history, bounds
<1>39. CASE UserCommit
  BY <1>39 DEF UserCommit, UserStep, HeadCommit, git, candidate, record, hub, history,
     bounds
<1>40. ASSUME NEW b \in Branches \cup {"detached"}, Switch(b) PROVE PendingInv'
  BY <1>40 DEF Switch, UserStep, HeadCommit, git, candidate, record, hub, history, bounds
<1>41. CASE LockIndex
  BY <1>41 DEF LockIndex, UserStep, git, candidate, record, hub, history, bounds
<1>42. CASE UnlockIndex
  BY <1>42 DEF UnlockIndex, git, candidate, record, hub, history, bounds
<1>43. CASE UNCHANGED vars
  BY <1>43 DEF vars, git, candidate, record, hub, history, bounds
<1> QED
  BY <1>1, <1>2, <1>3, <1>4, <1>5, <1>6, <1>7, <1>8, <1>9, <1>10, <1>11, <1>12, <1>13,
     <1>14, <1>15, <1>16, <1>17, <1>18, <1>19, <1>20, <1>21, <1>22, <1>23, <1>24, <1>25,
     <1>26, <1>27, <1>28, <1>29, <1>30, <1>31, <1>32, <1>33, <1>34, <1>35, <1>36, <1>37,
     <1>38, <1>39, <1>40, <1>41, <1>42, <1>43 DEF Next, HubStep, Reaper, User

\* Every step keeps what is known of the bytes to go back to.
LEMMA BytesStep ==
  ASSUME TypeOK, BytesInv, FilesInv, [Next]_vars
  PROVE  BytesInv'
<1> USE DEF BytesInv, AllHold
<1>1. CASE CreateLease
  BY <1>1 DEF CreateLease, Continue, Finish, git, candidate, record, hub, history, bounds
<1>2. CASE WriteLease
  BY <1>2 DEF WriteLease, Continue, Finish, git, candidate, record, hub, history, bounds
<1>3. CASE Snapshot
  BY <1>3 DEF Snapshot, Continue, Finish, git, candidate, record, hub, history, bounds
<1>4. CASE AddWorktree
  BY <1>4 DEF AddWorktree, Continue, git, candidate, record, hub, history, bounds
<1>5. CASE Abandon
  BY <1>5 DEF Abandon, RemoveWorktree, Finish, git, candidate, record, hub, history, bounds
<1>6. CASE Settle
  BY <1>6 DEF Settle, Finish, git, candidate, record, hub, history, bounds
<1>7. CASE GiveUp
  BY <1>7 DEF GiveUp, git, candidate, record, hub, history, bounds
<1>8. CASE Close
  BY <1>8 DEF Close, RemoveWorktree, Continue, Finish, git, candidate, record, hub,
     history, bounds
<1>9. CASE ReleaseLease
  BY <1>9 DEF ReleaseLease, Continue, git, candidate, record, hub, history, bounds
<1>10. CASE ForgetCandidate
  BY <1>10 DEF ForgetCandidate, Finish, git, candidate, record, hub, history, bounds
<1>11. CASE BeginApply
  <2>1. CASE pc' = "idle"
    BY <1>11, <2>1 DEF BeginApply, Begin, Proceed, Finish, record, candidate
  <2>2. CASE pc' # "idle"
    <3>1. /\ pc' = "check" /\ start' = file /\ base' = base
          /\ \A p \in Changed : file[p] = base[p]
          /\ op' = [NoOp EXCEPT !.pre = file, !.purpose = "applied"]
          /\ applied' = applied /\ rec' = rec
      BY <1>11, <2>2 DEF BeginApply, Begin, Proceed, Finish, record, candidate
    <3>2. op'.pre = file
      BY <3>1, NoOpType DEF Ops
    <3> QED
      BY <3>1, <3>2
  <2> QED
    BY <2>1, <2>2
<1>12. CASE CheckApply
  BY <1>12 DEF CheckApply, Continue, Finish, git, candidate, record, hub, history, bounds
<1>13. CASE ReadBytes
  <2>1. op'.pre = op.pre /\ op'.bytes = file
    BY <1>13 DEF ReadBytes, TypeOK, Ops
  <2>2. \A p \in Paths \ late : file[p] = start[p]
    BY <1>13 DEF ReadBytes, FilesInv, Untouched
  <2> QED
    BY <1>13, <2>1, <2>2 DEF ReadBytes, candidate, record, history
<1>14. CASE GitApply
  <2>1. op'.pre = op.pre /\ op'.bytes = op.bytes
    BY <1>14 DEF GitApply, Continue, TypeOK, Ops
  <2> QED
    BY <1>14, <2>1 DEF GitApply, Continue, candidate, record, history
<1>15. ASSUME NEW p \in Changed, RollbackPath(p) PROVE BytesInv'
  <2>1. op'.pre = op.pre /\ op'.bytes = op.bytes
    BY <1>15 DEF RollbackPath, TypeOK, Ops
  <2> QED
    BY <1>15, <2>1 DEF RollbackPath, candidate, record, history
<1>16. ASSUME NEW p \in Changed, UndoPath(p) PROVE BytesInv'
  BY <1>16 DEF UndoPath, FailedWrite, git, candidate, record, hub, history, bounds
<1>17. CASE RolledBack
  BY <1>17 DEF RolledBack, Finish, git, candidate, record, hub, history, bounds
<1>18. CASE Verify
  BY <1>18 DEF Verify, Continue, Finish, AllHold, git, candidate, record, hub, history,
     bounds
<1>19. CASE RecordApplied
  BY <1>19 DEF RecordApplied, Continue, git, candidate, record, hub, history, bounds
<1>20. CASE BeginDiscard
  BY <1>20 DEF BeginDiscard, Begin, Proceed, Finish, git, candidate, record, hub, history,
     bounds
<1>21. CASE BeginUndo
  BY <1>21 DEF BeginUndo, Begin, Proceed, Finish, AllHold, git, candidate, record, hub,
     history, bounds
<1>22. CASE Undone
  BY <1>22 DEF Undone, Finish, git, candidate, record, hub, history, bounds
<1>23. CASE BeginCommit
  BY <1>23 DEF BeginCommit, Begin, Proceed, Finish, AllHold, git, candidate, record, hub,
     history, bounds
<1>24. CASE ReadParent
  BY <1>24 DEF ReadParent, Finish, AllHold, HeadCommit, git, candidate, record, hub,
     history, bounds
<1>25. CASE ReadIndex
  BY <1>25 DEF ReadIndex, git, candidate, record, hub, history, bounds
<1>26. CASE StagePrivate
  BY <1>26 DEF StagePrivate, Finish, Exactly, Owned, Built, PrivateTree, AllHold, git,
     candidate, record, hub, history, bounds
<1>27. CASE Publish
  BY <1>27 DEF Publish, Finish, Continue, BoundToHead, git, candidate, record, hub,
     history, bounds
<1>28. CASE HookReconcile
  BY <1>28 DEF HookReconcile, Continue, Reconcile, Advance, HeadCommit, git, candidate,
     record, hub, history, bounds
<1>29. CASE ControllerReconcile
  BY <1>29 DEF ControllerReconcile, Reconcile, Advance, HeadCommit, git, candidate,
     record, hub, history, bounds
<1>30. CASE MarkCommitted
  BY <1>30 DEF MarkCommitted, Finish, git, candidate, record, hub, history, bounds
<1>31. CASE GitFails
  BY <1>31 DEF GitFails, Finish, git, candidate, record, hub, history, bounds
<1>32. CASE ReapLook
  BY <1>32 DEF ReapLook, git, candidate, record, hub, history, bounds
<1>33. CASE ReapOwner
  BY <1>33 DEF ReapOwner, OwnerGone, git, candidate, record, hub, history, bounds
<1>34. CASE ReapRemove
  BY <1>34 DEF ReapRemove, git, candidate, record, hub, history, bounds
<1>35. CASE Crash
  BY <1>35 DEF Crash, git, candidate, record, hub, history, bounds
<1>36. CASE Restart
  BY <1>36 DEF Restart, git, candidate, record, hub, history, bounds
<1>37. ASSUME NEW p \in Paths, NEW c \in UserContents, EditFile(p, c) PROVE BytesInv'
  BY <1>37 DEF EditFile, UserStep, git, candidate, record, hub, history, bounds
<1>38. ASSUME NEW p \in Paths, StageFile(p) PROVE BytesInv'
  BY <1>38 DEF StageFile, UserStep, git, candidate, record, hub, history, bounds
<1>39. CASE UserCommit
  BY <1>39 DEF UserCommit, UserStep, HeadCommit, git, candidate, record, hub, history,
     bounds
<1>40. ASSUME NEW b \in Branches \cup {"detached"}, Switch(b) PROVE BytesInv'
  BY <1>40 DEF Switch, UserStep, HeadCommit, git, candidate, record, hub, history, bounds
<1>41. CASE LockIndex
  BY <1>41 DEF LockIndex, UserStep, git, candidate, record, hub, history, bounds
<1>42. CASE UnlockIndex
  BY <1>42 DEF UnlockIndex, git, candidate, record, hub, history, bounds
<1>43. CASE UNCHANGED vars
  BY <1>43 DEF vars, git, candidate, record, hub, history, bounds
<1> QED
  BY <1>1, <1>2, <1>3, <1>4, <1>5, <1>6, <1>7, <1>8, <1>9, <1>10, <1>11, <1>12, <1>13,
     <1>14, <1>15, <1>16, <1>17, <1>18, <1>19, <1>20, <1>21, <1>22, <1>23, <1>24, <1>25,
     <1>26, <1>27, <1>28, <1>29, <1>30, <1>31, <1>32, <1>33, <1>34, <1>35, <1>36, <1>37,
     <1>38, <1>39, <1>40, <1>41, <1>42, <1>43 DEF Next, HubStep, Reaper, User

\* Every step keeps what is known of the files.
LEMMA FilesStep ==
  ASSUME TypeOK, BytesInv, FilesInv, PendingInv, [Next]_vars
  PROVE  FilesInv'
<1> USE DEF FilesInv, Untouched
<1>1. CASE CreateLease
  BY <1>1 DEF CreateLease, Continue, Finish, git, candidate, record, hub, history, bounds
<1>2. CASE WriteLease
  BY <1>2 DEF WriteLease, Continue, Finish, git, candidate, record, hub, history, bounds
<1>3. CASE Snapshot
  BY <1>3 DEF Snapshot, Continue, Finish, git, candidate, record, hub, history, bounds
<1>4. CASE AddWorktree
  BY <1>4 DEF AddWorktree, Continue, git, candidate, record, hub, history, bounds
<1>5. CASE Abandon
  BY <1>5 DEF Abandon, RemoveWorktree, Finish, git, candidate, record, hub, history, bounds
<1>6. CASE Settle
  BY <1>6 DEF Settle, Finish, git, candidate, record, hub, history, bounds
<1>7. CASE GiveUp
  BY <1>7 DEF GiveUp, git, candidate, record, hub, history, bounds
<1>8. CASE Close
  BY <1>8 DEF Close, RemoveWorktree, Continue, Finish, git, candidate, record, hub,
     history, bounds
<1>9. CASE ReleaseLease
  BY <1>9 DEF ReleaseLease, Continue, git, candidate, record, hub, history, bounds
<1>10. CASE ForgetCandidate
  BY <1>10 DEF ForgetCandidate, Finish, git, candidate, record, hub, history, bounds
<1>11. CASE BeginApply
  BY <1>11 DEF BeginApply, Begin, Proceed, Finish, AllHold, git, candidate, record, hub,
     history, bounds
<1>12. CASE CheckApply
  BY <1>12 DEF CheckApply, Continue, Finish, git, candidate, record, hub, history, bounds
<1>13. CASE ReadBytes
  BY <1>13 DEF ReadBytes, git, candidate, record, hub, history, bounds
<1>14. CASE GitApply
  <2>1. CASE pc' = "verify"
    BY <2>1
  <2>2. CASE pc' # "verify"
    <3>1. pc' = "rollback" /\ late' = late /\ start' = start
      BY <1>14, <2>2 DEF GitApply, Continue, history
    <3>2. op'.todo = Changed /\ op'.purpose = op.purpose
      BY <1>14, <2>2 DEF GitApply, Continue, TypeOK, Ops
    <3>3. \A p \in Paths \ Changed : file'[p] = file[p]
      BY <1>14, <2>2 DEF GitApply, Continue
    <3>4. \A p \in Paths \ late : file[p] = start[p]
      BY <1>14 DEF GitApply
    <3> QED
      BY <3>1, <3>2, <3>3, <3>4
  <2> QED
    BY <2>1, <2>2
<1>15. ASSUME NEW p \in Changed, RollbackPath(p) PROVE FilesInv'
  <2>1. /\ pc = "rollback" /\ pc' = "rollback" /\ late' = late /\ start' = start /\ p \in op.todo
        /\ file \in [Paths -> Contents] /\ op \in Ops
    BY <1>15 DEF RollbackPath, history, TypeOK, Trees
  <2>2. \A q \in Paths \ {p} : file'[q] = file[q]
    BY <1>15, <2>1 DEF RollbackPath, FailedWrite
  <2>3. /\ op'.todo = op.todo \ {p}
        /\ \/ op'.unresolved = op.unresolved /\ file'[p] = op.bytes[p]
           \/ op'.unresolved = op.unresolved \cup {p}
    BY <1>15, <2>1 DEF RollbackPath, Ops
  <2>4. p \notin late => op.bytes[p] = start[p]
    BY <2>1 DEF BytesInv
  <2> QED
    BY <2>1, <2>2, <2>3, <2>4
<1>16. ASSUME NEW p \in Changed, UndoPath(p) PROVE FilesInv'
  <2>1. /\ pc = "undo" /\ pc' = "undo" /\ late' = late /\ start' = start /\ p \in op.todo
        /\ file \in [Paths -> Contents] /\ op \in Ops /\ base' = base
    BY <1>16 DEF UndoPath, history, candidate, TypeOK, Trees
  <2>2. \A q \in Paths \ {p} : file'[q] = file[q]
    BY <1>16, <2>1 DEF UndoPath, FailedWrite
  <2>3. /\ op'.todo = op.todo \ {p}
        /\ \/ op'.unresolved = op.unresolved /\ rec.pre[p] = rec.blob[p] /\ file'[p] = rec.pre[p]
           \/ op'.unresolved = op.unresolved \cup {p}
    BY <1>16, <2>1 DEF UndoPath, Ops
  <2>4. rec.blob[p] = base[p]
    BY <2>1 DEF BytesInv, AllHold
  <2> QED
    BY <2>1, <2>2, <2>3, <2>4
<1>17. CASE RolledBack
  BY <1>17 DEF RolledBack, Finish, git, candidate, record, hub, history, bounds
<1>18. CASE Verify
  <2>1. CASE pc' = "idle"
    BY <2>1
  <2>2. CASE pc' # "idle"
    <3>1. pc' = "record" /\ file' = file /\ \A p \in Changed : file[p] = "post"
      BY <1>18, <2>2 DEF Verify, Continue, Finish, AllHold, Post
    <3> QED
      BY <3>1
  <2> QED
    BY <2>1, <2>2
<1>19. CASE RecordApplied
  <2>1. pc = "record" /\ pc' = "close" /\ op' = op /\ file' = file /\ late' = late
    BY <1>19 DEF RecordApplied, Continue, history
  <2>2. op.purpose = "applied"
    BY <2>1 DEF PendingInv
  <2> QED
    BY <2>1, <2>2
<1>20. CASE BeginDiscard
  <2>1. CASE pc' = "idle"
    BY <2>1
  <2>2. CASE pc' # "idle"
    <3>1. /\ pc' = "close" /\ start' = file /\ file' = file
          /\ op' = [NoOp EXCEPT !.purpose = "discarded"]
      BY <1>20, <2>2 DEF BeginDiscard, Begin, Proceed, Finish
    <3>2. op'.purpose = "discarded"
      BY <3>1, NoOpType DEF Ops
    <3> QED
      BY <3>1, <3>2
  <2> QED
    BY <2>1, <2>2
<1>21. CASE BeginUndo
  <2>1. CASE pc' = "idle"
    BY <2>1
  <2>2. CASE pc' # "idle"
    <3>1. /\ pc' = "undo" /\ file' = file /\ \A p \in Changed : file[p] = "post"
          /\ op' = [NoOp EXCEPT !.todo = Changed]
      BY <1>21, <2>2 DEF BeginUndo, Begin, Proceed, Finish, AllHold, Post
    <3>2. op'.todo = Changed
      BY <3>1, NoOpType DEF Ops
    <3> QED
      BY <3>1, <3>2
  <2> QED
    BY <2>1, <2>2
<1>22. CASE Undone
  BY <1>22 DEF Undone, Finish, git, candidate, record, hub, history, bounds
<1>23. CASE BeginCommit
  BY <1>23 DEF BeginCommit, Begin, Proceed, Finish, AllHold, git, candidate, record, hub,
     history, bounds
<1>24. CASE ReadParent
  BY <1>24 DEF ReadParent, Finish, AllHold, HeadCommit, git, candidate, record, hub,
     history, bounds
<1>25. CASE ReadIndex
  BY <1>25 DEF ReadIndex, git, candidate, record, hub, history, bounds
<1>26. CASE StagePrivate
  BY <1>26 DEF StagePrivate, Finish, Exactly, Owned, Built, PrivateTree, AllHold, git,
     candidate, record, hub, history, bounds
<1>27. CASE Publish
  BY <1>27 DEF Publish, Finish, Continue, BoundToHead, git, candidate, record, hub,
     history, bounds
<1>28. CASE HookReconcile
  BY <1>28 DEF HookReconcile, Continue, Reconcile, Advance, HeadCommit, git, candidate,
     record, hub, history, bounds
<1>29. CASE ControllerReconcile
  BY <1>29 DEF ControllerReconcile, Reconcile, Advance, HeadCommit, git, candidate,
     record, hub, history, bounds
<1>30. CASE MarkCommitted
  BY <1>30 DEF MarkCommitted, Finish, git, candidate, record, hub, history, bounds
<1>31. CASE GitFails
  BY <1>31 DEF GitFails, Finish, git, candidate, record, hub, history, bounds
<1>32. CASE ReapLook
  BY <1>32 DEF ReapLook, git, candidate, record, hub, history, bounds
<1>33. CASE ReapOwner
  BY <1>33 DEF ReapOwner, OwnerGone, git, candidate, record, hub, history, bounds
<1>34. CASE ReapRemove
  BY <1>34 DEF ReapRemove, git, candidate, record, hub, history, bounds
<1>35. CASE Crash
  BY <1>35 DEF Crash, git, candidate, record, hub, history, bounds
<1>36. CASE Restart
  BY <1>36 DEF Restart, git, candidate, record, hub, history, bounds
<1>37. ASSUME NEW p \in Paths, NEW c \in UserContents, EditFile(p, c) PROVE FilesInv'
  BY <1>37 DEF EditFile, UserStep, git, candidate, record, hub, history, bounds
<1>38. ASSUME NEW p \in Paths, StageFile(p) PROVE FilesInv'
  BY <1>38 DEF StageFile, UserStep, git, candidate, record, hub, history, bounds
<1>39. CASE UserCommit
  BY <1>39 DEF UserCommit, UserStep, HeadCommit, git, candidate, record, hub, history,
     bounds
<1>40. ASSUME NEW b \in Branches \cup {"detached"}, Switch(b) PROVE FilesInv'
  BY <1>40 DEF Switch, UserStep, HeadCommit, git, candidate, record, hub, history, bounds
<1>41. CASE LockIndex
  BY <1>41 DEF LockIndex, UserStep, git, candidate, record, hub, history, bounds
<1>42. CASE UnlockIndex
  BY <1>42 DEF UnlockIndex, git, candidate, record, hub, history, bounds
<1>43. CASE UNCHANGED vars
  BY <1>43 DEF vars, git, candidate, record, hub, history, bounds
<1> QED
  BY <1>1, <1>2, <1>3, <1>4, <1>5, <1>6, <1>7, <1>8, <1>9, <1>10, <1>11, <1>12, <1>13,
     <1>14, <1>15, <1>16, <1>17, <1>18, <1>19, <1>20, <1>21, <1>22, <1>23, <1>24, <1>25,
     <1>26, <1>27, <1>28, <1>29, <1>30, <1>31, <1>32, <1>33, <1>34, <1>35, <1>36, <1>37,
     <1>38, <1>39, <1>40, <1>41, <1>42, <1>43 DEF Next, HubStep, Reaper, User

\* Every step leaves the last report true.
LEMMA ReportsStep ==
  ASSUME IInv, [Next]_vars
  PROVE  ReportsAreTrue'
<1> USE DEF IInv, ReportsAreTrue
<1>1. CASE CreateLease
  <2>1. /\ outcome' \in {"none", "refused"}
        /\ file' = file /\ late' = late /\ start' = start
    BY <1>1 DEF CreateLease, Continue, Finish, history, PendingInv
  <2>2. pc = "new"
    BY <1>1 DEF CreateLease
  <2>3. \A p \in Paths \ late : file[p] = start[p]
    BY <2>2 DEF FilesInv, Untouched
  <2> QED
    BY <2>1, <2>3
<1>2. CASE WriteLease
  BY <1>2 DEF WriteLease, Continue, Finish, git, candidate, record, hub, history, bounds
<1>3. CASE Snapshot
  BY <1>3 DEF Snapshot, Continue, Finish, git, candidate, record, hub, history, bounds
<1>4. CASE AddWorktree
  BY <1>4 DEF AddWorktree, Continue, git, candidate, record, hub, history, bounds
<1>5. CASE Abandon
  BY <1>5 DEF Abandon, RemoveWorktree, Finish, git, candidate, record, hub, history, bounds
<1>6. CASE Settle
  BY <1>6 DEF Settle, Finish, git, candidate, record, hub, history, bounds
<1>7. CASE GiveUp
  BY <1>7 DEF GiveUp, git, candidate, record, hub, history, bounds
<1>8. CASE Close
  <2>1. /\ outcome' \in {outcome, "error", op.purpose}
        /\ file' = file /\ late' = late /\ start' = start
    BY <1>8 DEF Close, Continue, Finish, history
  <2>2. outcome = "none" /\ op.purpose \in {"nothing", "applied", "discarded"}
    BY <1>8 DEF Close, PendingInv
  <2>3. \A p \in Paths \ late :
          /\ op.purpose = "discarded" => file[p] = start[p]
          /\ op.purpose = "applied" /\ p \in Changed => file[p] = "post"
    BY <1>8 DEF Close, FilesInv, Untouched
  <2> QED
    BY <2>1, <2>2, <2>3
<1>9. CASE ReleaseLease
  BY <1>9 DEF ReleaseLease, Continue, git, candidate, record, hub, history, bounds
<1>10. CASE ForgetCandidate
  <2>1. /\ outcome' \in {outcome, "error", op.purpose}
        /\ file' = file /\ late' = late /\ start' = start
    BY <1>10 DEF ForgetCandidate, Continue, Finish, history
  <2>2. outcome = "none" /\ op.purpose \in {"nothing", "applied", "discarded"}
    BY <1>10 DEF ForgetCandidate, PendingInv
  <2>3. \A p \in Paths \ late :
          /\ op.purpose = "discarded" => file[p] = start[p]
          /\ op.purpose = "applied" /\ p \in Changed => file[p] = "post"
    BY <1>10 DEF ForgetCandidate, FilesInv, Untouched
  <2> QED
    BY <2>1, <2>2, <2>3
<1>11. CASE BeginApply
  BY <1>11 DEF BeginApply, Begin, Proceed, Finish, AllHold, git, candidate, record, hub,
     history, bounds
<1>12. CASE CheckApply
  <2>1. /\ outcome' \in {"none", "refused"}
        /\ file' = file /\ late' = late /\ start' = start
    BY <1>12 DEF CheckApply, Continue, Finish, history, PendingInv
  <2>2. \A p \in Paths \ late : file[p] = start[p]
    BY <1>12 DEF CheckApply, FilesInv, Untouched
  <2> QED
    BY <2>1, <2>2
<1>13. CASE ReadBytes
  BY <1>13 DEF ReadBytes, git, candidate, record, hub, history, bounds
<1>14. CASE GitApply
  <2>1. outcome' = "none"
    BY <1>14 DEF GitApply, Continue, PendingInv
  <2> QED
    BY <2>1
<1>15. ASSUME NEW p \in Changed, RollbackPath(p) PROVE ReportsAreTrue'
  <2>1. outcome' = "none"
    BY <1>15 DEF RollbackPath, Continue, PendingInv
  <2> QED
    BY <2>1
<1>16. ASSUME NEW p \in Changed, UndoPath(p) PROVE ReportsAreTrue'
  <2>1. outcome' = "none"
    BY <1>16 DEF UndoPath, Continue, PendingInv
  <2> QED
    BY <2>1
<1>17. CASE RolledBack
  <2>1. /\ outcome' \in {"rolled_back", "unresolved"}
        /\ file' = file /\ late' = late /\ start' = start
    BY <1>17 DEF RolledBack, Finish, history
  <2>2. outcome' = "rolled_back" => \A p \in Paths \ late : file[p] = start[p]
    BY <1>17 DEF RolledBack, Finish, FilesInv
  <2> QED
    BY <2>1, <2>2
<1>18. CASE Verify
  BY <1>18 DEF Verify, Continue, Finish, AllHold, git, candidate, record, hub, history,
     bounds
<1>19. CASE RecordApplied
  BY <1>19 DEF RecordApplied, Continue, git, candidate, record, hub, history, bounds
<1>20. CASE BeginDiscard
  BY <1>20 DEF BeginDiscard, Begin, Proceed, Finish, git, candidate, record, hub, history,
     bounds
<1>21. CASE BeginUndo
  BY <1>21 DEF BeginUndo, Begin, Proceed, Finish, AllHold, git, candidate, record, hub,
     history, bounds
<1>22. CASE Undone
  <2>1. /\ outcome' \in {"undone", "undo_unresolved"}
        /\ file' = file /\ late' = late /\ base' = base
    BY <1>22 DEF Undone, Finish, history, candidate
  <2>2. outcome' = "undone" => \A p \in Changed \ late : file[p] = base[p]
    BY <1>22 DEF Undone, Finish, FilesInv
  <2> QED
    BY <2>1, <2>2
<1>23. CASE BeginCommit
  BY <1>23 DEF BeginCommit, Begin, Proceed, Finish, AllHold, git, candidate, record, hub,
     history, bounds
<1>24. CASE ReadParent
  <2>1. /\ outcome' \in {"none", "refused"}
        /\ file' = file /\ late' = late /\ start' = start
    BY <1>24 DEF ReadParent, Continue, Finish, history, PendingInv
  <2>2. \A p \in Paths \ late : file[p] = start[p]
    BY <1>24 DEF ReadParent, FilesInv, Untouched
  <2> QED
    BY <2>1, <2>2
<1>25. CASE ReadIndex
  BY <1>25 DEF ReadIndex, git, candidate, record, hub, history, bounds
<1>26. CASE StagePrivate
  <2>1. /\ outcome' \in {"none", "refused"}
        /\ file' = file /\ late' = late /\ start' = start
    BY <1>26 DEF StagePrivate, Continue, Finish, history, PendingInv
  <2>2. \A p \in Paths \ late : file[p] = start[p]
    BY <1>26 DEF StagePrivate, FilesInv, Untouched
  <2> QED
    BY <2>1, <2>2
<1>27. CASE Publish
  <2>1. /\ outcome' \in {"none", "refused"}
        /\ file' = file /\ late' = late /\ start' = start
    BY <1>27 DEF Publish, Continue, Finish, history, PendingInv
  <2>2. \A p \in Paths \ late : file[p] = start[p]
    BY <1>27 DEF Publish, FilesInv, Untouched
  <2> QED
    BY <2>1, <2>2
<1>28. CASE HookReconcile
  BY <1>28 DEF HookReconcile, Continue, Reconcile, Advance, HeadCommit, git, candidate,
     record, hub, history, bounds
<1>29. CASE ControllerReconcile
  BY <1>29 DEF ControllerReconcile, Reconcile, Advance, HeadCommit, git, candidate,
     record, hub, history, bounds
<1>30. CASE MarkCommitted
  <2>1. /\ outcome' \in {"committed", "commit_partial", "error"}
        /\ file' = file /\ late' = late /\ start' = start
    BY <1>30 DEF MarkCommitted, Continue, Finish, history, PendingInv
  <2>2. \A p \in Paths \ late : file[p] = start[p]
    BY <1>30 DEF MarkCommitted, FilesInv, Untouched
  <2> QED
    BY <2>1, <2>2
<1>31. CASE GitFails
  BY <1>31 DEF GitFails, Finish, git, candidate, record, hub, history, bounds
<1>32. CASE ReapLook
  BY <1>32 DEF ReapLook, git, candidate, record, hub, history, bounds
<1>33. CASE ReapOwner
  BY <1>33 DEF ReapOwner, OwnerGone, git, candidate, record, hub, history, bounds
<1>34. CASE ReapRemove
  BY <1>34 DEF ReapRemove, git, candidate, record, hub, history, bounds
<1>35. CASE Crash
  BY <1>35 DEF Crash, git, candidate, record, hub, history, bounds
<1>36. CASE Restart
  BY <1>36 DEF Restart, git, candidate, record, hub, history, bounds
<1>37. ASSUME NEW p \in Paths, NEW c \in UserContents, EditFile(p, c) PROVE ReportsAreTrue'
  BY <1>37 DEF EditFile, UserStep, git, candidate, record, hub, history, bounds
<1>38. ASSUME NEW p \in Paths, StageFile(p) PROVE ReportsAreTrue'
  BY <1>38 DEF StageFile, UserStep, git, candidate, record, hub, history, bounds
<1>39. CASE UserCommit
  BY <1>39 DEF UserCommit, UserStep, HeadCommit, git, candidate, record, hub, history,
     bounds
<1>40. ASSUME NEW b \in Branches \cup {"detached"}, Switch(b) PROVE ReportsAreTrue'
  BY <1>40 DEF Switch, UserStep, HeadCommit, git, candidate, record, hub, history, bounds
<1>41. CASE LockIndex
  BY <1>41 DEF LockIndex, UserStep, git, candidate, record, hub, history, bounds
<1>42. CASE UnlockIndex
  BY <1>42 DEF UnlockIndex, git, candidate, record, hub, history, bounds
<1>43. CASE UNCHANGED vars
  BY <1>43 DEF vars, git, candidate, record, hub, history, bounds
<1> QED
  BY <1>1, <1>2, <1>3, <1>4, <1>5, <1>6, <1>7, <1>8, <1>9, <1>10, <1>11, <1>12, <1>13,
     <1>14, <1>15, <1>16, <1>17, <1>18, <1>19, <1>20, <1>21, <1>22, <1>23, <1>24, <1>25,
     <1>26, <1>27, <1>28, <1>29, <1>30, <1>31, <1>32, <1>33, <1>34, <1>35, <1>36, <1>37,
     <1>38, <1>39, <1>40, <1>41, <1>42, <1>43 DEF Next, HubStep, Reaper, User

-----------------------------------------------------------------------------
\* The invariant holds at the start.
LEMMA IInvInit == Init => IInv
<1> SUFFICES ASSUME Init PROVE IInv
  OBVIOUS
<1> USE DEF Init
<1>1. TypeOK
  BY NoOpType DEF TypeOK, Old, Root, Trees, Commits, Contents, UserContents, Branches,
     Steps, Outcomes
<1>2. LeaseInv /\ CommitInv /\ PendingInv
  BY DEF LeaseInv, CommitInv, PendingInv
<1>3. BytesInv /\ FilesInv /\ ReportsAreTrue
  BY DEF BytesInv, FilesInv, Untouched, ReportsAreTrue
<1> QED
  BY <1>1, <1>2, <1>3 DEF IInv

\* Every step keeps the invariant.
LEMMA IInvNext == IInv /\ [Next]_vars => IInv'
BY TypeStep, LeaseStep, CommitStep, PendingStep, BytesStep, FilesStep, ReportsStep DEF IInv

\* The invariant holds in every reachable state.
THEOREM Invariant == Spec => []IInv
<1>1. Init => IInv
  BY IInvInit
<1>2. IInv /\ [Next]_vars => IInv'
  BY IInvNext
<1> QED
  BY <1>1, <1>2, PTL DEF Spec

\* Type correctness of the candidate's life: every action hands on well-formed
\* files, index, refs and records.
THEOREM TypeCorrect == Spec => []TypeOK
<1>1. IInv => TypeOK
  BY DEF IInv
<1> QED
  BY <1>1, Invariant, PTL

\* What /apply, /undo, /discard and /commit report is true of every file the user
\* left alone, for any number of files, edits, actions and crashes.
THEOREM TrueReports == Spec => []ReportsAreTrue
<1>1. IInv => ReportsAreTrue
  BY DEF IInv
<1> QED
  BY <1>1, Invariant, PTL

\* No candidate worktree outlives its lease: creation, abandonment, close and
\* orphan cleanup never release one that is still needed.
THEOREM LeaseOutlivesWorktree == Spec => []LeaseCoversWorktree
<1>1. IInv => LeaseCoversWorktree
  BY DEF IInv, LeaseInv, LeaseCoversWorktree
<1> QED
  BY <1>1, Invariant, PTL

\* The three actions that write files write only what is theirs.
LEMMA FileWrites ==
  ASSUME IInv, HubStep
  PROVE  \A r \in Paths : file'[r] # file[r] =>
               r \in Changed /\ (file[r] \in {base[r], "post"} \/ r \in late)
<1> USE DEF IInv
<1>1. CASE GitApply
  <2>1. \A p \in Changed \ late : file[p] = base[p]
    BY <1>1 DEF GitApply, FilesInv, Untouched, BytesInv, AllHold
  <2>2. \A p \in Paths \ Changed : file'[p] = file[p]
    BY <1>1 DEF GitApply
  <2> QED
    BY <2>1, <2>2
<1>2. ASSUME NEW p \in Changed, RollbackPath(p)
      PROVE  \A r \in Paths : file'[r] # file[r] =>
               r \in Changed /\ (file[r] \in {base[r], "post"} \/ r \in late)
  <2>1. file \in [Paths -> Contents]
    BY DEF TypeOK, Trees
  <2>2. \A q \in Paths : file'[q] # file[q] => q = p /\ file[p] = "post"
    BY <1>2, <2>1 DEF RollbackPath, FailedWrite
  <2> QED
    BY <2>2
<1>3. ASSUME NEW p \in Changed, UndoPath(p)
      PROVE  \A r \in Paths : file'[r] # file[r] =>
               r \in Changed /\ (file[r] \in {base[r], "post"} \/ r \in late)
  <2>1. file \in [Paths -> Contents]
    BY DEF TypeOK, Trees
  <2>2. \A q \in Paths : file'[q] # file[q] => q = p
    BY <1>3, <2>1 DEF UndoPath, FailedWrite
  <2>3. p \in late \/ file[p] = "post"
    BY <1>3 DEF UndoPath, FilesInv
  <2> QED
    BY <2>2, <2>3
<1>4. CASE
       \/ CreateLease \/ WriteLease \/ Snapshot \/ AddWorktree \/ Abandon
       \/ Settle \/ GiveUp \/ Close \/ ReleaseLease \/ ForgetCandidate
       \/ BeginApply \/ CheckApply \/ ReadBytes \/ RolledBack \/ Verify
       \/ RecordApplied \/ BeginDiscard \/ BeginUndo \/ Undone \/ BeginCommit
       \/ ReadParent \/ ReadIndex \/ StagePrivate \/ Publish \/ HookReconcile
       \/ ControllerReconcile \/ MarkCommitted \/ GitFails
  <2>1. file' = file
    BY <1>4 DEF CreateLease, WriteLease, Snapshot, AddWorktree, Abandon, Settle, GiveUp,
       Close, ReleaseLease, ForgetCandidate, BeginApply, CheckApply, ReadBytes,
       RolledBack, Verify, RecordApplied, BeginDiscard, BeginUndo, Undone, BeginCommit,
       ReadParent, ReadIndex, StagePrivate, Publish, HookReconcile, ControllerReconcile,
       MarkCommitted, GitFails, git
  <2> QED
    BY <2>1
<1> QED
  BY <1>1, <1>2, <1>3, <1>4 DEF HubStep

\* Apply, rollback and undo never write over work of the user that was there
\* when they compared the files.
THEOREM UserWorkKept == Spec => KeepsUserWork
<1>1. IInv /\ [Next]_vars => [HubStep =>
         \A p \in Paths : file'[p] # file[p] =>
           p \in Changed /\ (file[p] \in {base[p], "post"} \/ p \in late)]_vars
  BY FileWrites
<1> QED
  BY <1>1, Invariant, PTL DEF Spec, KeepsUserWork

\* Only publication moves a branch, and only the one HEAD names.
LEMMA RefUpdates ==
  ASSUME IInv, HubStep
  PROVE  \A b \in Branches : tip'[b] # tip[b] =>
           /\ head = b
           /\ tip'[b].tree = [p \in Paths |-> IF p \in Changed THEN "post" ELSE tip[b].tree[p]]
<1> USE DEF IInv
<1>1. CASE Publish
  <2>1. CASE tip' = tip
    BY <2>1
  <2>2. CASE tip' # tip
    <3>1. BoundToHead /\ tip' = [tip EXCEPT ![op.branch] = op.built] /\ pc = "publish"
      BY <1>1, <2>2 DEF Publish
    <3>2. op.built.tree = [p \in Paths |-> IF p \in Changed THEN "post" ELSE op.parent.tree[p]]
      BY <3>1 DEF CommitInv
    <3>3. tip \in [Branches -> Commits]
      BY DEF TypeOK
    <3> QED
      BY <3>1, <3>2, <3>3 DEF BoundToHead
  <2> QED
    BY <2>1, <2>2
<1>2. CASE
       \/ CreateLease \/ WriteLease \/ Snapshot \/ AddWorktree \/ Abandon
       \/ Settle \/ GiveUp \/ Close \/ ReleaseLease \/ ForgetCandidate
       \/ BeginApply \/ CheckApply \/ ReadBytes \/ GitApply \/ RolledBack
       \/ Verify \/ RecordApplied \/ BeginDiscard \/ BeginUndo \/ Undone
       \/ BeginCommit \/ ReadParent \/ ReadIndex \/ StagePrivate \/ HookReconcile
       \/ ControllerReconcile \/ MarkCommitted \/ GitFails
       \/ \E p \in Changed : RollbackPath(p)
       \/ \E p \in Changed : UndoPath(p)
  <2>1. tip' = tip
    BY <1>2 DEF CreateLease, WriteLease, Snapshot, AddWorktree, Abandon, Settle, GiveUp,
       Close, ReleaseLease, ForgetCandidate, BeginApply, CheckApply, ReadBytes, GitApply,
       RollbackPath, UndoPath, RolledBack, Verify, RecordApplied, BeginDiscard, BeginUndo,
       Undone, BeginCommit, ReadParent, ReadIndex, StagePrivate, HookReconcile,
       ControllerReconcile, MarkCommitted, GitFails, git
  <2> QED
    BY <2>1
<1> QED
  BY <1>1, <1>2 DEF HubStep

\* A published commit is on the branch HEAD names and is exactly the applied change
\* on top of the old tip.
THEOREM ExactPublication == Spec => PublishedExactly
<1>1. IInv /\ [Next]_vars => [HubStep =>
         \A b \in Branches : tip'[b] # tip[b] =>
           /\ head = b
           /\ tip'[b].tree = [p \in Paths |-> IF p \in Changed THEN "post" ELSE tip[b].tree[p]]]_vars
  BY RefUpdates
<1> QED
  BY <1>1, Invariant, PTL DEF Spec, PublishedExactly

\* Only the two reconciliations write the user's index.
LEMMA IndexUpdates ==
  ASSUME IInv, HubStep
  PROVE  \A p \in Paths : index'[p] # index[p] =>
           /\ index[p] = op.parent.tree[p]
           /\ index'[p] = HeadCommit.tree[p]
           /\ ~locked
<1> USE DEF IInv
<1>1. CASE HookReconcile
  <2>1. CASE index' = index
    BY <2>1
  <2>2. CASE index' # index
    <3>1. Reconcile /\ pc \in {"hook", "reconcile"}
      BY <1>1, <2>2 DEF HookReconcile
    <3>2. ~locked
      BY <3>1, Zenon DEF Reconcile
    <3>3. HeadCommit = op.built /\ Advance
      BY <3>1 DEF Reconcile
    <3>4. \A p \in op.owned : op.before[p] = op.parent.tree[p]
      BY <3>1 DEF CommitInv
    <3> HIDE DEF HeadCommit
    <3> QED
      BY <3>2, <3>3, <3>4 DEF Advance
  <2> QED
    BY <2>1, <2>2
<1>2. CASE ControllerReconcile
  <2>1. CASE index' = index
    BY <2>1
  <2>2. CASE index' # index
    <3>1. Reconcile /\ pc \in {"hook", "reconcile"}
      BY <1>2, <2>2 DEF ControllerReconcile
    <3>2. ~locked
      BY <3>1, Zenon DEF Reconcile
    <3>3. HeadCommit = op.built /\ Advance
      BY <3>1 DEF Reconcile
    <3>4. \A p \in op.owned : op.before[p] = op.parent.tree[p]
      BY <3>1 DEF CommitInv
    <3> HIDE DEF HeadCommit
    <3> QED
      BY <3>2, <3>3, <3>4 DEF Advance
  <2> QED
    BY <2>1, <2>2
<1>3. CASE
       \/ CreateLease \/ WriteLease \/ Snapshot \/ AddWorktree \/ Abandon
       \/ Settle \/ GiveUp \/ Close \/ ReleaseLease \/ ForgetCandidate
       \/ BeginApply \/ CheckApply \/ ReadBytes \/ GitApply \/ RolledBack
       \/ Verify \/ RecordApplied \/ BeginDiscard \/ BeginUndo \/ Undone
       \/ BeginCommit \/ ReadParent \/ ReadIndex \/ StagePrivate \/ Publish
       \/ MarkCommitted \/ GitFails
       \/ \E p \in Changed : RollbackPath(p)
       \/ \E p \in Changed : UndoPath(p)
  <2>1. index' = index
    BY <1>3 DEF CreateLease, WriteLease, Snapshot, AddWorktree, Abandon, Settle, GiveUp,
       Close, ReleaseLease, ForgetCandidate, BeginApply, CheckApply, ReadBytes, GitApply,
       RollbackPath, UndoPath, RolledBack, Verify, RecordApplied, BeginDiscard, BeginUndo,
       Undone, BeginCommit, ReadParent, ReadIndex, StagePrivate, Publish, MarkCommitted,
       GitFails, git
  <2> QED
    BY <2>1
<1> QED
  BY <1>1, <1>2, <1>3 DEF HubStep

\* The commit advances only index entries the user had not staged, under the index
\* lock and while HEAD is the published commit.
THEOREM UserStagingKept == Spec => StagedEntriesKept
<1>1. IInv /\ [Next]_vars => [HubStep =>
         \A p \in Paths : index'[p] # index[p] =>
           /\ index[p] = op.parent.tree[p]
           /\ index'[p] = HeadCommit.tree[p]
           /\ ~locked]_vars
  BY IndexUpdates
<1> QED
  BY <1>1, Invariant, PTL DEF Spec, StagedEntriesKept

\* Orphan cleanup never touches the lease or the worktree of a live owner.
THEOREM ReapOnlyTheDead == Spec => ReapSparesTheLiving
<1>1. ASSUME IInv, [Next]_vars
      PROVE  [Reaper => (lease = "live" => UNCHANGED <<lease, worktree>>)]_vars
  BY <1>1 DEF IInv, LeaseInv, Reaper, ReapLook, ReapOwner, ReapRemove, candidate
<1> QED
  BY <1>1, Invariant, PTL DEF Spec, ReapSparesTheLiving

\* Import, undo and commit keep the user's files, branches and staged entries,
\* for every set of paths and branches (import_candidate, undo_applied, _publish).
THEOREM UserStateIsKept == Spec => UserStateKept
BY UserWorkKept, ExactPublication, UserStagingKept, PTL DEF UserStateKept

\* Every worktree has an owner, and the reaper spares the living
\* (create, _close, reap_orphans).
THEOREM WorktreesHaveOwners == Spec => WorktreesOwned
BY LeaseOutlivesWorktree, ReapOnlyTheDead, PTL DEF WorktreesOwned

=============================================================================
