--------------------------- MODULE CandidateChange ---------------------------
(***************************************************************************)
(* The life of one candidate change: session/workspaces.py (worktree,      *)
(* import, undo, commit, discard, orphan cleanup), candidate_change.py (the *)
(* controller actions that call it) and commit_index_hook.py (publication   *)
(* of the commit and the user's index).                                    *)
(*                                                                         *)
(* The user edits, stages, commits and switches branches in the same        *)
(* checkout at any moment, the hub may die between any two steps, and        *)
(* another hub may be cleaning up.  A file's content is a token: what a      *)
(* path held at the candidate's base, what the candidate makes of it         *)
(* ("post"), what the user writes, the result of git apply on a file the      *)
(* user edited in the meantime ("merged"), or a half-written file ("torn").   *)
(* Reading all candidate paths is one step; files are written one by one.    *)
(* File modes, filters and attributes only add refusals, which every check    *)
(* may give for no visible reason.                                          *)
(***************************************************************************)
EXTENDS Naturals, FiniteSets

CONSTANTS
  Paths,        \* files of the checkout
  Changed,      \* the files the candidate changes
  MaxEdits,     \* bound: steps of the user
  MaxOps,       \* bound: controller actions
  MaxCrashes    \* bound: crashes of the hub

ASSUME ConstantsAssumption ==
  /\ Changed \subseteq Paths
  /\ Changed # {}
  /\ MaxEdits \in Nat /\ MaxOps \in Nat /\ MaxCrashes \in Nat

Branches == {"main", "side"}
UserContents == {"old", "user"}
Contents == UserContents \cup {"post", "merged", "torn"}
Trees == [Paths -> Contents]
Commits == [id : Nat, tree : Trees]

VARIABLES
  file,       \* the working tree of the user's checkout
  index,      \* the user's live index
  head,       \* the branch HEAD names, or "detached"
  at,         \* the commit of a detached HEAD
  tip,        \* refs/heads
  locked,     \* another process holds index.lock
  lease,      \* <task>.lease: none, empty (names no owner), live or gone owner
  worktree,   \* the directory of the candidate worktree exists
  retained,   \* <task>.candidate.json
  base,       \* the candidate's base commit
  applied,    \* <task>.applied.json: none, applied or committed
  rec,        \* what that record says of the files before the import
  pc,         \* the step of the hub's running action
  op,         \* local variables of that action
  outcome,    \* what the last action reported
  reap,       \* the step of reap_orphans
  start,      \* history: the files when the running action began
  late,       \* history: files the user changed since
  edits, ops, crashes, made

git == <<index, head, at, tip, locked>>
candidate == <<lease, worktree, retained, base>>
record == <<applied, rec>>
hub == <<pc, op, outcome>>
history == <<start, late>>
bounds == <<edits, ops, crashes>>
vars == <<file, git, candidate, record, hub, reap, history, bounds, made>>

Steps ==
  {"new", "idle", "down", "lease", "snapshot", "add", "abandon", "work", "close",
   "release", "forget", "check", "read", "apply", "rollback", "verify", "record",
   "undo", "parent", "entries", "stage", "publish", "hook", "reconcile", "mark"}

Outcomes ==
  {"none", "prepared", "nothing", "refused", "already", "rolled_back", "unresolved",
   "unverified", "applied", "undone", "undo_unresolved", "committed",
   "commit_partial", "discarded", "error"}

Old == [p \in Paths |-> "old"]
Root == [id |-> 0, tree |-> Old]
HeadCommit == IF head = "detached" THEN at ELSE tip[head]

NoOp ==
  [pre |-> Old, bytes |-> Old, branch |-> "main", parent |-> Root, before |-> Old,
   built |-> Root, owned |-> {}, todo |-> {}, unresolved |-> {}, left |-> {},
   purpose |-> "none"]

Ops ==
  [pre : Trees, bytes : Trees, branch : Branches, parent : Commits, before : Trees,
   built : Commits, owned : SUBSET Changed, todo : SUBSET Changed,
   unresolved : SUBSET Changed, left : SUBSET Changed, purpose : Outcomes]

TypeOK ==
  /\ file \in Trees
  /\ index \in Trees
  /\ head \in Branches \cup {"detached"}
  /\ at \in Commits
  /\ tip \in [Branches -> Commits]
  /\ locked \in BOOLEAN
  /\ lease \in {"none", "empty", "live", "gone"}
  /\ worktree \in BOOLEAN
  /\ retained \in BOOLEAN
  /\ base \in Trees
  /\ applied \in {"none", "applied", "committed"}
  /\ rec \in [pre : Trees, blob : Trees]
  /\ pc \in Steps
  /\ op \in Ops
  /\ outcome \in Outcomes
  /\ reap \in {"idle", "looked", "remove"}
  /\ start \in Trees
  /\ late \subseteq Paths
  /\ edits \in Nat /\ ops \in Nat /\ crashes \in Nat /\ made \in Nat

Init ==
  /\ file = Old /\ index = Old
  /\ head = "main" /\ at = Root
  /\ tip = [b \in Branches |-> Root]
  /\ locked = FALSE
  /\ lease = "none" /\ worktree = FALSE /\ retained = FALSE /\ base = Old
  /\ applied = "none" /\ rec = [pre |-> Old, blob |-> Old]
  /\ pc = "new" /\ op = NoOp /\ outcome = "none"
  /\ reap = "idle"
  /\ start = Old /\ late = {}
  /\ edits = 0 /\ ops = 0 /\ crashes = 0 /\ made = 0

\* The candidate's files hold in tree what they hold in other.
AllHold(tree, other) == \A p \in Changed : tree[p] = other[p]
\* candidate_patch: the post-image, as post_blobs name it.
Post == [p \in Paths |-> "post"]

\* An action ends with a report, or goes on.
Finish(how) == pc' = "idle" /\ op' = NoOp /\ outcome' = how
Continue(step) == pc' = step /\ UNCHANGED <<op, outcome>>

-----------------------------------------------------------------------------
(* Creation and settlement of the candidate.                               *)

\* create: os.open(O_EXCL) before anything else exists.
CreateLease ==
  /\ pc = "new"
  /\ \/ lease' = "empty" /\ Continue("lease")
     \/ UNCHANGED lease /\ Finish("refused")
  /\ UNCHANGED <<file, git, worktree, retained, base, record, reap, history, bounds, made>>

\* The owner and the target are written into the lease.  A failed write, or an
\* owner that could not be named, leaves a lease reap_orphans keeps for a human.
WriteLease ==
  /\ pc = "lease"
  /\ \/ lease' \in {"live", "empty"} /\ Continue("snapshot")
     \/ UNCHANGED lease /\ Finish("error")
  /\ UNCHANGED <<file, git, worktree, retained, base, record, reap, history, bounds, made>>

\* _snapshot: the base commit holds the user's files as they are.
Snapshot ==
  /\ pc = "snapshot"
  /\ \/ base' = file /\ UNCHANGED lease /\ Continue("add")
     \/ lease' = "none" /\ UNCHANGED base /\ Finish("error")
  /\ UNCHANGED <<file, git, worktree, retained, record, reap, history, bounds, made>>

\* git worktree add; a failed or stopped one may leave something behind.
AddWorktree ==
  /\ pc = "add"
  /\ \/ worktree' = TRUE /\ Continue("work")
     \/ worktree' \in BOOLEAN /\ Continue("abandon")
  /\ UNCHANGED <<file, git, lease, retained, base, record, reap, history, bounds, made>>

\* _remove_worktree: TRUE only when it is shown gone.
RemoveWorktree(shown) ==
  worktree' \in IF shown THEN {FALSE} ELSE {worktree, FALSE}

\* _abandon_creation: the lease goes only when nothing is left.
Abandon ==
  /\ pc = "abandon"
  /\ \E shown \in BOOLEAN :
       /\ RemoveWorktree(shown)
       /\ lease' = IF shown THEN "none" ELSE lease
  /\ Finish("error")
  /\ UNCHANGED <<file, git, retained, base, record, reap, history, bounds, made>>

\* settle_candidate: a candidate with changes is retained.
Settle ==
  /\ pc = "work"
  /\ retained' = TRUE
  /\ Finish("prepared")
  /\ UNCHANGED <<file, git, lease, worktree, base, record, reap, history, bounds, made>>

\* An empty or refused candidate, a stopped and a failed task: discard.
GiveUp ==
  /\ pc = "work"
  /\ pc' = "close"
  /\ op' = [op EXCEPT !.purpose = "nothing"]
  /\ UNCHANGED <<outcome, file, git, candidate, record, reap, history, bounds, made>>

\* close, for settlement, /apply and /discard.  A removal that is not shown
\* raises: settlement fails with it, the other two suppress the error.
Close ==
  /\ pc = "close"
  /\ \E shown \in BOOLEAN :
       /\ RemoveWorktree(shown)
       /\ IF shown THEN Continue("release")
          ELSE Finish(IF op.purpose = "nothing" THEN "error" ELSE op.purpose)
  /\ UNCHANGED <<file, git, lease, retained, base, record, reap, history, bounds, made>>

ReleaseLease ==
  /\ pc = "release"
  /\ lease' = "none"
  /\ Continue("forget")
  /\ UNCHANGED <<file, git, worktree, retained, base, record, reap, history, bounds, made>>

ForgetCandidate ==
  /\ pc = "forget"
  /\ retained' = FALSE
  /\ Finish(op.purpose)
  /\ UNCHANGED <<file, git, lease, worktree, base, record, reap, history, bounds, made>>

-----------------------------------------------------------------------------
(* The controller actions.                                                 *)

\* A controller action begins; its refusals before the first check are those of
\* the actions below.
Begin ==
  /\ pc = "idle"
  /\ ops < MaxOps
  /\ ops' = ops + 1
  /\ start' = file
  /\ late' = {}
  /\ UNCHANGED <<edits, crashes>>

Proceed(step, locals) == pc' = step /\ op' = locals /\ outcome' = "none"

\* apply_candidate and import_patch up to the comparison with the base.
BeginApply ==
  /\ Begin
  /\ \/ Finish("refused")
     \/ /\ retained /\ AllHold(file, base)
        /\ Proceed("check", [NoOp EXCEPT !.pre = file, !.purpose = "applied"])
     \/ /\ retained /\ AllHold(file, Post)
        /\ Finish("already")
  /\ UNCHANGED <<file, git, candidate, record, reap, made>>

\* git apply --check.
CheckApply ==
  /\ pc = "check"
  /\ Continue("read") \/ Finish("refused")
  /\ UNCHANGED <<file, git, candidate, record, reap, history, bounds, made>>

\* pre_contents: the bytes a rollback or an undo puts back.
ReadBytes ==
  /\ pc = "read"
  /\ op' = [op EXCEPT !.bytes = file]
  /\ pc' = "apply"
  /\ UNCHANGED <<outcome, file, git, candidate, record, reap, history, bounds, made>>

\* What git apply makes of one file: the user's edit may lie beside the hunks.
Patched(p) == IF file[p] = base[p] THEN "post" ELSE "merged"

\* git apply writes everything, or stops having written some files and perhaps
\* half of one more.  It refuses before writing what does not fit.
GitApply ==
  /\ pc = "apply"
  /\ \/ /\ file' = [p \in Paths |-> IF p \in Changed THEN Patched(p) ELSE file[p]]
        /\ Continue("verify")
     \/ \E written, half \in SUBSET Changed :
          /\ Cardinality(half) <= 1 /\ written # Changed
          /\ file' = [p \in Paths |-> IF p \in half THEN "torn"
                                      ELSE IF p \in written THEN Patched(p)
                                      ELSE file[p]]
          /\ pc' = "rollback"
          /\ op' = [op EXCEPT !.todo = Changed]
          /\ UNCHANGED outcome
  /\ UNCHANGED <<git, candidate, record, reap, history, bounds, made>>

\* Mutant: a file that is not the candidate's is passed over in silence.
RollbackOverlooks(p) ==
  /\ pc = "rollback" /\ p \in op.todo
  /\ file' = IF file[p] = "post" THEN [file EXCEPT ![p] = op.bytes[p]] ELSE file
  /\ op' = [op EXCEPT !.todo = @ \ {p}]
  /\ UNCHANGED <<pc, outcome, git, candidate, record, reap, history, bounds, made>>

\* A write to one file that fails, before it or half-way.
FailedWrite(p) == file' \in {file, [file EXCEPT ![p] = "torn"]}

\* _rollback_owned, one path: a file that holds its old bytes is left, one that
\* holds the candidate's is restored; anything else, a file that cannot be read
\* and a restore that fails are reported.
RollbackPath(p) ==
  /\ pc = "rollback" /\ p \in op.todo
  /\ \/ /\ file[p] = op.bytes[p]
        /\ op' = [op EXCEPT !.todo = @ \ {p}]
        /\ UNCHANGED file
     \/ /\ file[p] # op.bytes[p] /\ file[p] = "post"
        /\ op' = [op EXCEPT !.todo = @ \ {p}]
        /\ file' = [file EXCEPT ![p] = op.bytes[p]]
     \/ /\ op' = [op EXCEPT !.todo = @ \ {p}, !.unresolved = @ \cup {p}]
        /\ IF file[p] # op.bytes[p] /\ file[p] = "post" THEN FailedWrite(p) ELSE UNCHANGED file
  /\ UNCHANGED <<pc, outcome, git, candidate, record, reap, history, bounds, made>>

RolledBack ==
  /\ pc = "rollback" /\ op.todo = {}
  /\ Finish(IF op.unresolved = {} THEN "rolled_back" ELSE "unresolved")
  /\ UNCHANGED <<file, git, candidate, record, reap, history, bounds, made>>

\* The files are read back: an import that is not exactly the reviewed change
\* is neither recorded nor discarded.
Verify ==
  /\ pc = "verify"
  /\ IF AllHold(file, Post) THEN Continue("record") ELSE Finish("unverified")
  /\ UNCHANGED <<file, git, candidate, record, reap, history, bounds, made>>

\* record_applied; without it the change stands and cannot be undone.
RecordApplied ==
  /\ pc = "record"
  /\ \/ applied' = "applied" /\ rec' = [pre |-> op.bytes, blob |-> op.pre]
     \/ UNCHANGED record
  /\ Continue("close")
  /\ UNCHANGED <<file, git, candidate, reap, history, bounds, made>>

BeginDiscard ==
  /\ Begin
  /\ \/ Finish("refused")
     \/ retained /\ Proceed("close", [NoOp EXCEPT !.purpose = "discarded"])
  /\ UNCHANGED <<file, git, candidate, record, reap, made>>

\* undo_applied: every file still holds what the import wrote, or nothing is
\* undone.
BeginUndo ==
  /\ Begin
  /\ \/ Finish("refused")
     \/ /\ applied = "applied" /\ AllHold(file, Post)
        /\ Proceed("undo", [NoOp EXCEPT !.todo = Changed])
  /\ UNCHANGED <<file, git, candidate, record, reap, made>>

\* One path of undo: the write, which may fail, and the comparison after it.
UndoPath(p) ==
  /\ pc = "undo" /\ p \in op.todo
  /\ \/ /\ file' = [file EXCEPT ![p] = rec.pre[p]]
        /\ op' = [op EXCEPT !.todo = @ \ {p},
                            !.unresolved = IF rec.pre[p] = rec.blob[p] THEN @ ELSE @ \cup {p}]
     \/ /\ op' = [op EXCEPT !.todo = @ \ {p}, !.unresolved = @ \cup {p}]
        /\ FailedWrite(p)
  /\ UNCHANGED <<pc, outcome, git, candidate, record, reap, history, bounds, made>>

\* A complete undo uses up its record.
Undone ==
  /\ pc = "undo" /\ op.todo = {}
  /\ IF op.unresolved = {}
     THEN applied' = "none" /\ Finish("undone")
     ELSE UNCHANGED applied /\ Finish("undo_unresolved")
  /\ UNCHANGED <<rec, file, git, candidate, reap, history, bounds, made>>

-----------------------------------------------------------------------------
(* /commit.                                                                *)

\* commit_applied up to the drift check: HEAD is on a branch, and the files
\* hold the applied change.
BeginCommit ==
  /\ Begin
  /\ \/ Finish("refused")
     \/ /\ applied = "applied" /\ head \in Branches /\ AllHold(file, Post)
        /\ Proceed("parent", [NoOp EXCEPT !.branch = head])
  /\ UNCHANGED <<file, git, candidate, record, reap, made>>

\* rev-parse HEAD.
ReadParent ==
  /\ pc = "parent"
  /\ IF AllHold(HeadCommit.tree, Post)
     THEN Finish("refused")
     ELSE /\ op' = [op EXCEPT !.parent = HeadCommit]
          /\ pc' = "entries" /\ UNCHANGED outcome
  /\ UNCHANGED <<file, git, candidate, record, reap, history, bounds, made>>

\* index_before: the live index entries of the candidate's paths.
ReadIndex ==
  /\ pc = "entries"
  /\ op' = [op EXCEPT !.before = index]
  /\ pc' = "stage"
  /\ UNCHANGED <<outcome, file, git, candidate, record, reap, history, bounds, made>>

\* The private index: the parent with the candidate's paths as they are now.
PrivateTree == [p \in Paths |-> IF p \in Changed THEN file[p] ELSE op.parent.tree[p]]

\* _unexact_commit, _commit_is_exactly.
Exactly ==
  /\ AllHold(PrivateTree, Post)
  /\ {p \in Paths : PrivateTree[p] # op.parent.tree[p]} = Changed

\* The entries LCA may advance: those the user had not staged.
Owned == {p \in Changed : op.before[p] = op.parent.tree[p]}

\* _commit_object: a commit no ref names yet.
Built == [id |-> made + 1, tree |-> PrivateTree]

\* _stage_private, _commit_object, the checks of the built commit and
\* prepare_transaction.
StagePrivate ==
  /\ pc = "stage"
  /\ \/ Finish("refused") /\ UNCHANGED made
     \/ /\ Exactly
        /\ made' = made + 1
        /\ op' = [op EXCEPT !.built = Built,
                            !.owned = Owned]
        /\ pc' = "publish" /\ UNCHANGED outcome
  /\ UNCHANGED <<file, git, candidate, record, reap, history, bounds>>

\* Mutant: the branch is moved by its name, whatever HEAD is.
BoundByName == tip[op.branch] = op.parent

\* _bound_to_head: the update of HEAD resolved to the captured branch, at the
\* captured parent.
BoundToHead == head = op.branch /\ tip[op.branch] = op.parent

\* _publish: update-ref HEAD, with the hook deciding while the refs are locked.
Publish ==
  /\ pc = "publish"
  /\ \/ Finish("refused") /\ UNCHANGED tip
     \/ /\ BoundToHead
        /\ tip' = [tip EXCEPT ![op.branch] = op.built]
        /\ Continue("hook")
  /\ UNCHANGED <<file, index, head, at, locked, candidate, record, reap, history, bounds, made>>

\* reconcile: under the index lock, an entry is advanced only if it is still
\* the one of before the commit.
Advance ==
  index' = [p \in Paths |-> IF p \in op.owned /\ index[p] = op.before[p]
                            THEN op.built.tree[p] ELSE index[p]]

Reconcile == ~locked /\ HeadCommit = op.built /\ Advance

\* The hook after the update: it reconciles or leaves the index alone.
HookReconcile ==
  /\ pc = "hook"
  /\ Reconcile \/ UNCHANGED index
  /\ Continue("reconcile")
  /\ UNCHANGED <<file, head, at, tip, locked, candidate, record, reap, history, bounds, made>>

\* reconcile_and_report: the controller's pass, which waits for the lock and
\* gives up, and the paths it found not advanced: all of them if it cannot tell.
ControllerReconcile ==
  /\ pc = "reconcile"
  /\ Reconcile \/ UNCHANGED index
  /\ \E left \in {op.owned, {p \in op.owned : index'[p] = op.before[p]}} :
       op' = [op EXCEPT !.left = left]
  /\ pc' = "mark"
  /\ UNCHANGED <<outcome, file, head, at, tip, locked, candidate, record, reap, history,
                 bounds, made>>

\* The record is marked, so that /undo and a second /commit are refused.
MarkCommitted ==
  /\ pc = "mark"
  /\ \/ /\ applied' = "committed"
        /\ Finish(IF op.left = {} THEN "committed" ELSE "commit_partial")
     \/ UNCHANGED applied /\ Finish("error")
  /\ UNCHANGED <<rec, file, git, candidate, reap, history, bounds, made>>

\* A Git step that times out, is cut off or leaves processes behind raises, and
\* the action ends where it is: a rollback is not begun or not finished, and a
\* ref may have moved although update-ref is taken for failed.
GitFails ==
  /\ pc \in {"check", "read", "apply", "rollback", "verify", "undo", "parent", "entries",
             "stage", "publish", "hook", "reconcile"}
  /\ Finish("error")
  /\ UNCHANGED <<file, git, candidate, record, reap, history, bounds, made>>

-----------------------------------------------------------------------------
(* reap_orphans, at the start of this or of another hub.                   *)

\* A lease that names its owner, and no retained candidate.
ReapLook ==
  /\ reap = "idle"
  /\ lease \in {"live", "gone"} /\ ~retained
  /\ reap' = "looked"
  /\ UNCHANGED <<file, git, candidate, record, hub, history, bounds, made>>

\* A plausible bug: an owner that cannot be told is taken for gone.
OwnerAssumedGone == lease \in {"gone", "live"}

\* _owner_state: only an owner shown gone counts.
OwnerGone == lease = "gone"

ReapOwner ==
  /\ reap = "looked"
  /\ reap' = IF OwnerGone THEN "remove" ELSE "idle"
  /\ UNCHANGED <<file, git, candidate, record, hub, history, bounds, made>>

ReapRemove ==
  /\ reap = "remove"
  /\ reap' = "idle"
  /\ \/ worktree' = FALSE /\ lease' = "none"
     \/ worktree' \in {worktree, FALSE} /\ UNCHANGED lease
  /\ UNCHANGED <<retained, base, file, git, record, hub, history, bounds, made>>

-----------------------------------------------------------------------------
(* The hub's process and the user.                                         *)

Crash ==
  /\ pc # "down"
  /\ crashes < MaxCrashes
  /\ crashes' = crashes + 1
  /\ pc' = "down" /\ op' = NoOp /\ outcome' = "none"
  /\ lease' = IF lease = "live" THEN "gone" ELSE lease
  /\ UNCHANGED <<edits, ops, file, git, worktree, retained, base, record, reap, history, made>>

Restart ==
  /\ pc = "down"
  /\ pc' = "idle"
  /\ UNCHANGED <<op, outcome, file, git, candidate, record, reap, history, bounds, made>>

UserStep ==
  /\ edits < MaxEdits
  /\ edits' = edits + 1
  /\ UNCHANGED <<ops, crashes, start, candidate, record, hub, reap>>

EditFile(p, c) ==
  /\ UserStep
  /\ c # file[p]
  /\ file' = [file EXCEPT ![p] = c]
  /\ late' = late \cup {p}
  /\ UNCHANGED <<git, made>>

StageFile(p) ==
  /\ UserStep
  /\ ~locked /\ index[p] # file[p]
  /\ index' = [index EXCEPT ![p] = file[p]]
  /\ UNCHANGED <<file, late, head, at, tip, locked, made>>

UserCommit ==
  /\ UserStep
  /\ ~locked /\ index # HeadCommit.tree
  /\ made' = made + 1
  /\ LET new == [id |-> made', tree |-> index]
     IN  IF head = "detached" THEN at' = new /\ UNCHANGED tip
         ELSE tip' = [tip EXCEPT ![head] = new] /\ UNCHANGED at
  /\ UNCHANGED <<file, late, index, head, locked>>

\* git switch: refused if it would lose local changes.
Switch(b) ==
  LET target == IF b = "detached" THEN HeadCommit ELSE tip[b]
      moved == {p \in Paths : target.tree[p] # HeadCommit.tree[p]}
      Take(tree) == [p \in Paths |-> IF p \in moved THEN target.tree[p] ELSE tree[p]]
  IN  /\ UserStep
      /\ ~locked /\ b # head
      /\ \A p \in moved : file[p] = index[p] /\ index[p] = HeadCommit.tree[p]
      /\ head' = b
      /\ at' = IF b = "detached" THEN target ELSE at
      /\ file' = Take(file) /\ index' = Take(index)
      /\ late' = late \cup moved
      /\ UNCHANGED <<tip, locked, made>>

LockIndex ==
  /\ UserStep
  /\ ~locked /\ locked' = TRUE
  /\ UNCHANGED <<file, late, index, head, at, tip, made>>

UnlockIndex ==
  /\ locked /\ locked' = FALSE
  /\ UNCHANGED <<file, index, head, at, tip, candidate, record, hub, reap, history, bounds, made>>

-----------------------------------------------------------------------------
HubStep ==
  \/ CreateLease \/ WriteLease \/ Snapshot \/ AddWorktree \/ Abandon \/ Settle \/ GiveUp
  \/ Close \/ ReleaseLease \/ ForgetCandidate
  \/ BeginApply \/ CheckApply \/ ReadBytes \/ GitApply
  \/ \E p \in Changed : RollbackPath(p) \/ UndoPath(p)
  \/ RolledBack \/ Verify \/ RecordApplied \/ BeginDiscard
  \/ BeginUndo \/ Undone
  \/ BeginCommit \/ ReadParent \/ ReadIndex \/ StagePrivate \/ Publish \/ HookReconcile
  \/ ControllerReconcile \/ MarkCommitted \/ GitFails

Reaper == ReapLook \/ ReapOwner \/ ReapRemove

User ==
  \/ \E p \in Paths : StageFile(p) \/ \E c \in UserContents : EditFile(p, c)
  \/ UserCommit
  \/ \E b \in Branches \cup {"detached"} : Switch(b)
  \/ LockIndex \/ UnlockIndex

Next == HubStep \/ Reaper \/ Crash \/ Restart \/ User

Spec == Init /\ [][Next]_vars

-----------------------------------------------------------------------------
(* Properties.                                                             *)

\* No operation writes over work of the user that was there when it compared
\* the files: it overwrites what the base or the candidate put there, or what
\* the user changed after the comparison (undo_applied: "later work on those
\* files is the user's"; _rollback_owned).
KeepsUserWork ==
  [][HubStep =>
       \A p \in Paths : file'[p] # file[p] =>
         p \in Changed /\ (file[p] \in {base[p], "post"} \/ p \in late)]_vars

\* What an action reports is true of every file the user left alone during and
\* after it: nothing changed, the change is there, or what was there before is
\* back (apply_candidate: "Your checkout is back exactly as it was").
ReportsAreTrue ==
  \A p \in Paths \ late :
    /\ outcome \in {"refused", "already", "rolled_back", "discarded", "committed",
                    "commit_partial"} => file[p] = start[p]
    /\ outcome = "applied" /\ p \in Changed => file[p] = "post"
    /\ outcome = "undone" /\ p \in Changed => file[p] = base[p]

\* A published commit is on the branch HEAD names, has the old tip as its parent
\* and differs from it in exactly the applied change, whatever the user did to
\* the files, the index and the branches since the first check (_publish,
\* _commit_is_exactly).
PublishedExactly ==
  [][HubStep =>
       \A b \in Branches : tip'[b] # tip[b] =>
         /\ head = b
         /\ tip'[b].tree = [p \in Paths |-> IF p \in Changed THEN "post" ELSE tip[b].tree[p]]]_vars

\* The user's index is only advanced where it was clean, and only while HEAD is
\* the published commit (commit_index_hook: "User-staged entries on candidate
\* paths are never replaced").
StagedEntriesKept ==
  [][HubStep =>
       \A p \in Paths : index'[p] # index[p] =>
         /\ index[p] = op.parent.tree[p]
         /\ index'[p] = HeadCommit.tree[p]
         /\ ~locked]_vars

\* A worktree never outlives its lease, so that orphan cleanup finds it after a
\* crash at any step (create, _abandon_creation, _close).
LeaseCoversWorktree == worktree => lease # "none"

\* Orphan cleanup takes the worktree of no live hub (reap_orphans: "Leases held
\* by a live process, including another Session Hub, are never touched").
ReapSparesTheLiving ==
  [][Reaper => (lease = "live" => UNCHANGED <<lease, worktree>>)]_vars

\* No operation of the hub takes anything from the user: not the content of a
\* file (import, undo), not a branch (commit), not a staged entry (index hook).
UserStateKept ==
  /\ KeepsUserWork
  /\ PublishedExactly
  /\ StagedEntriesKept

\* Every worktree has an owner on record, and the reaper only takes the
\* worktrees of dead owners (create, _close, reap_orphans).
WorktreesOwned == []LeaseCoversWorktree /\ ReapSparesTheLiving

\* candidate_change.py:507: "discard always removes the retained record, so
\* /apply is impossible afterwards".
DiscardIsFinal == outcome = "discarded" => ~retained
=============================================================================
