--------------------------- MODULE RepositoryTools ---------------------------
(***************************************************************************)
(* The tools a worker changes and proves a repository with: proposals and   *)
(* applied patches (tools/patch.py), the configured build (tools/build.py)  *)
(* and the configured tests (tools/testing_tools.py), over one source tree  *)
(* and one build directory.  A build and a test are several steps: the      *)
(* source hashes are taken before and after the command, and anybody may    *)
(* edit the tree in between.                                                *)
(*                                                                         *)
(* A file's text is a number; 0 stands for a file that is not there.        *)
(* Somebody else's edit always produces a text never seen before: the code  *)
(* compares two snapshots and does not claim to see a change that is undone *)
(* between them.  The worker's own patches may restore an earlier text.     *)
(***************************************************************************)
EXTENDS Integers, Sequences, FiniteSets

CONSTANTS
    Files,        \* the source files
    NewFiles,     \* those that do not exist at first
    Texts,        \* the texts a worker's patch may write, 1 being the original
    Profiles,     \* the build profiles of .local-agent.toml
    MaxOutside    \* bound: edits by somebody else

ASSUME ToolsAssumption ==
    /\ NewFiles \subseteq Files
    /\ Texts \subseteq Nat \ {0} /\ 1 \in Texts
    /\ \E t \in Texts : \A u \in Texts : u <= t
    /\ MaxOutside \in Nat

VARIABLES
    tree,      \* file |-> text
    outside,   \* how often somebody else edited
    dir,       \* the build directory
    patches,   \* PatchStore: ids issued and pending proposals
    journal,   \* MutationJournal.entries
    op         \* the tool handler in progress

toolVars == <<tree, outside, dir, patches, journal, op>>

Missing == 0
NoTree == [f \in Files |-> -1]
Largest == CHOOSE t \in Texts : \A u \in Texts : u <= t
AllTexts == Texts \cup {Missing} \cup (Largest + 1)..(Largest + MaxOutside)
NoProfile == "no profile"

\* What the binaries in the build directory were compiled from: a whole tree
\* under one profile, or no single tree at all.
NoBinaries == [kind |-> "none", profile |-> NoProfile, tree |-> NoTree]
Mixed == [kind |-> "mixed", profile |-> NoProfile, tree |-> NoTree]
Built(p, t) == [kind |-> "whole", profile |-> p, tree |-> t]

\* BuildRecord: the stamp a successful full build leaves.
NoStamp == [profile |-> NoProfile, tree |-> NoTree]

\* owner: "none" no directory, "lca" the owner marker is there, "user" a
\* directory that was there before, "unclaimed" one a targeted build made
\* without the marker.  The code cannot tell the last two apart.
NoDir == [owner |-> "none", cache |-> FALSE, marker |-> NoProfile,
          stamp |-> NoStamp, bin |-> NoBinaries]
UserDir == [NoDir EXCEPT !.owner = "user", !.cache = TRUE, !.bin = Mixed]

Result(ok, exec, domain, reason) ==
    [ok |-> ok, exec |-> exec, domain |-> domain, reason |-> reason]
Passed == Result(TRUE, "ok", "pass", "none")
Failed == Result(FALSE, "ok", "fail", "none")
Unproven(reason) == Result(FALSE, "ok", "unknown", reason)
Errored(reason) == Result(FALSE, "error", "unknown", reason)
BlockedBy(reason) == Result(FALSE, "blocked", "unknown", reason)

NoOp == [tool |-> "none", all |-> TRUE, profile |-> NoProfile, step |-> "none",
         before |-> NoTree, unproven |-> "none", result |-> Passed]

ToolsInit ==
    /\ tree = [f \in Files |-> IF f \in NewFiles THEN Missing ELSE 1]
    /\ outside = 0
    /\ dir \in {NoDir, UserDir}
    /\ patches = [used |-> 0, pending |-> {}]
    /\ journal = <<>>
    /\ op = NoOp

Finish(result) == op' = [op EXCEPT !.step = "done", !.result = result]

\* Somebody else (the user, an editor, another program) writes a file.
OutsideEdit(f) ==
    /\ outside < MaxOutside
    /\ outside' = outside + 1
    /\ tree' = [tree EXCEPT ![f] = Largest + outside + 1]
    /\ UNCHANGED <<dir, patches, journal, op>>

-----------------------------------------------------------------------------
(* Patches *)

PendingFor(f) == {p \in patches.pending : p.file = f}

\* PatchStore.put: one pending proposal per file, a new one replaces it.
Put(f, original, updated) ==
    patches' = [used |-> patches.used + 1,
                pending |-> (patches.pending \ PendingFor(f)) \cup
                    {[id |-> patches.used + 1, file |-> f,
                      original |-> original, updated |-> updated]}]

\* _replace_once: one find text, found once (exactly, without read_file's line
\* numbers, or up to white space), becomes another; a replacement that changes
\* no bytes is an error.
Replaced(text) == Texts \ {text}

\* propose_patch: the text may be found in the file on disk or, when the
\* pending proposal is of the same original, in its result.  Either way the
\* proposal is of the file as it is now and must change it.
Stackable(f) == {p \in PendingFor(f) : p.original = tree[f]}
Edited(f) == (Replaced(tree[f]) \cup UNION {Replaced(p.updated) : p \in Stackable(f)})
             \ {tree[f]}

ProposePatch(f, updated) ==
    /\ tree[f] # Missing
    /\ updated \in Edited(f)
    /\ Put(f, tree[f], updated)
    /\ UNCHANGED <<tree, outside, dir, journal, op>>

\* propose_file: refused when the file exists.
ProposeFile(f, updated) ==
    /\ tree[f] = Missing
    /\ updated \in Texts
    /\ Put(f, Missing, updated)
    /\ UNCHANGED <<tree, outside, dir, journal, op>>

\* apply_patch: the patch is taken out of the store before the file is
\* compared with the text it was proposed for.
Applies(p) == tree[p.file] = p.original

ApplyPatch(p) ==
    /\ p \in patches.pending
    /\ patches' = [patches EXCEPT !.pending = @ \ {p}]
    /\ IF Applies(p)
       THEN /\ tree' = [tree EXCEPT ![p.file] = p.updated]
            /\ journal' = Append(journal, [file |-> p.file, before |-> p.original,
                                           after |-> p.updated])
       ELSE UNCHANGED <<tree, journal>>
    /\ UNCHANGED <<outside, dir, op>>

\* Mutant: the entry is written back over whatever is there.
RevertEntryBlindly(t, e) == [t EXCEPT ![e.file] = e.before]

\* MutationJournal.revert, one entry: newest first, only when the file still
\* is what this entry wrote.  Returns the tree after it.
RevertEntry(t, e) == IF t[e.file] = e.after THEN [t EXCEPT ![e.file] = e.before] ELSE t
SkippedEntry(t, e) == t[e.file] # e.after

\* MutationJournal.revert: reading and writing the files back is quick next to
\* everything else, and is one step here.  Reverts[n]: the tree after the n newest
\* entries.
Newest(n) == journal[Len(journal) + 1 - n]
Reverts ==
    LET t[n \in 0 .. Len(journal)] ==
          IF n = 0 THEN tree ELSE RevertEntry(t[n - 1], Newest(n))
    IN  t
RevertedTree == Reverts[Len(journal)]
RevertSkips == \E n \in 1 .. Len(journal) : SkippedEntry(Reverts[n - 1], Newest(n))

RevertJournal ==
    /\ tree' = RevertedTree
    /\ journal' = IF RevertSkips THEN journal ELSE <<>>
    /\ UNCHANGED <<outside, dir, patches, op>>

-----------------------------------------------------------------------------
(* Configure and build *)

\* set_configured_profile: the marker moves and the build stamp is dropped.
Configured(d, p) ==
    [d EXCEPT !.marker = p, !.stamp = NoStamp, !.cache = TRUE,
              !.owner = IF @ = "none" THEN "unclaimed" ELSE @]

\* _claim_or_require_build_root refuses a directory without the owner marker.
Refused == dir.owner \in {"user", "unclaimed"}

\* configure_project claims the directory and runs the configure command; a
\* failed or killed one moves nothing that the tools read.
ConfigureProject(outcome) ==
    /\ op.tool = "configure_project" /\ op.step = "start"
    /\ IF Refused
       THEN Finish(Errored("arguments")) /\ UNCHANGED dir
       ELSE LET claimed == [dir EXCEPT !.owner = "lca"]
            IN  IF outcome = "ok"
                THEN dir' = Configured(claimed, op.profile) /\ Finish(Passed)
                ELSE dir' = claimed /\ Finish(Failed)
    /\ UNCHANGED <<tree, outside, patches, journal>>

\* build_target up to the first snapshot: a full build starts from an empty
\* directory that Local Code Agent owns, a targeted one from what is there.
BuildStart ==
    /\ op.tool = "build_target" /\ op.step = "start"
    /\ IF op.all /\ Refused
       THEN Finish(Errored("arguments")) /\ UNCHANGED dir
       ELSE /\ dir' = IF op.all THEN [NoDir EXCEPT !.owner = "lca"] ELSE dir
            /\ op' = [op EXCEPT !.step = "configure", !.before = tree]
    /\ UNCHANGED <<tree, outside, patches, journal>>

NeedsConfigure == ~dir.cache \/ dir.marker = NoProfile \/ dir.marker # op.profile

\* The configure step of a build.  Any way it does not succeed, a killed one
\* included, is reported as a failed build.
BuildConfigure(outcome) ==
    /\ op.tool = "build_target" /\ op.step = "configure"
    /\ IF ~NeedsConfigure
       THEN outcome = "ok" /\ op' = [op EXCEPT !.step = "compile"] /\ UNCHANGED dir
       ELSE IF outcome = "ok"
            THEN dir' = Configured(dir, op.profile) /\ op' = [op EXCEPT !.step = "compile"]
            ELSE dir' = [dir EXCEPT !.owner = IF @ = "none" THEN "unclaimed" ELSE @]
                 /\ Finish(Failed)
    /\ UNCHANGED <<tree, outside, patches, journal>>

\* An incremental build rebuilds nothing that is up to date.
Touched(bin) == IF bin = Built(op.profile, tree) THEN bin ELSE Mixed

\* The build command itself.  A full build compiles everything; a targeted one
\* (or one that does not finish) leaves binaries of no single tree, unless the
\* directory already held this very tree under this profile.
BuildCompile(outcome) ==
    /\ op.tool = "build_target" /\ op.step = "compile"
    /\ dir' = [dir EXCEPT !.bin =
                 IF op.all /\ outcome = "ok" THEN Built(op.profile, tree) ELSE Touched(@)]
    /\ op' = [op EXCEPT !.step = "compiled", !.unproven = outcome]
    /\ UNCHANGED <<tree, outside, patches, journal>>

\* touch_build_stamp: the record of a full build, of the profile and the sources
\* it compiled.  One that cannot be written is not reported.
Stamped(d, p, sources) == {d, [d EXCEPT !.stamp = [profile |-> p, tree |-> sources]]}

\* build_target after the command: the second snapshot, the stamp of a full
\* build whose inputs did not move, and the typed result.
BuildEnd ==
    /\ op.tool = "build_target" /\ op.step = "compiled"
    /\ LET ok == op.unproven = "ok"
           moved == ok /\ tree # op.before
       IN  /\ dir' \in IF ok /\ op.all /\ ~moved THEN Stamped(dir, op.profile, tree) ELSE {dir}
           /\ Finish(IF op.unproven = "timeout" THEN Errored("timeout")
                     ELSE IF moved THEN Unproven("stale")
                     ELSE IF ok THEN Passed ELSE Failed)
    /\ UNCHANGED <<tree, outside, patches, journal>>

-----------------------------------------------------------------------------
(* Tests *)

\* _stale_from_identity: the files whose text differs from the build's record.
StaleFromIdentity(record) == {f \in Files : record.tree[f] # tree[f]}

\* start_test_input_observation and the profile questions of run_test.
TestStart ==
    /\ op.tool = "run_test" /\ op.step = "start"
    /\ LET wrong == dir.marker # NoProfile /\ dir.marker # op.profile
           reason == IF dir.stamp = NoStamp THEN "no_build_record"
                     ELSE IF wrong \/ dir.stamp.profile # op.profile THEN "profile"
                     ELSE IF StaleFromIdentity(dir.stamp) # {} THEN "stale" ELSE "none"
       IN op' = [op EXCEPT !.step = "tests", !.before = tree, !.unproven = reason]
    /\ UNCHANGED <<tree, outside, dir, patches, journal>>

\* finish_input_observation and the typed result of the test command, which
\* ran whatever binaries the directory holds.
TestEnd(outcome) ==
    /\ op.tool = "run_test" /\ op.step = "tests"
    /\ LET reason == IF op.unproven # "none" THEN op.unproven
                     ELSE IF tree # op.before THEN "stale" ELSE "none"
       IN Finish(IF outcome = "timeout" THEN Errored("timeout")
                 ELSE IF outcome = "nothing" \/ reason # "none" THEN Unproven(reason)
                 ELSE IF outcome = "ok" THEN Passed ELSE Failed)
    /\ UNCHANGED <<tree, outside, dir, patches, journal>>

-----------------------------------------------------------------------------
(* Stop, and commands whose end is not known *)

\* The steps at which run_configured is about to run, or is running, a command.
AtCommand ==
    \/ op.tool = "configure_project" /\ op.step = "start" /\ ~Refused
    \/ op.tool = "build_target" /\ op.step = "configure" /\ NeedsConfigure
    \/ op.tool = "build_target" /\ op.step = "compile"
    \/ op.tool = "run_test" /\ op.step = "tests"

\* ToolContext.run_configured does not return an outcome: Stop was seen before
\* the command started (nothing ran), Stop ended it, its process tree could not
\* be shown ended, or its program is missing.
CommandRaises(reason) ==
    /\ AtCommand
    /\ reason \in {"command_cancelled", "cleanup_unknown", "missing_executable"}
    /\ dir' = IF reason # "missing_executable" /\ op.step = "compile"
              THEN [dir EXCEPT !.bin = Touched(@)] ELSE dir
    /\ Finish(IF reason = "missing_executable" THEN BlockedBy(reason) ELSE Errored(reason))
    /\ UNCHANGED <<tree, outside, patches, journal>>

\* refuse_if_cancelled before the build root or the command is touched.
CommandRefused ==
    /\ \/ AtCommand
       \/ op.tool = "build_target" /\ op.step = "start" /\ op.all
       \/ op.tool = "configure_project" /\ op.step = "start"
    /\ Finish(BlockedBy("command_cancelled"))
    /\ UNCHANGED <<tree, outside, dir, patches, journal>>

Snapshot == [Files -> AllTexts \cup {-1}]
ToolName ==
    {"none", "read", "propose_patch", "apply_patch", "git_commit", "configure_project",
     "build_target", "run_test"}
ToolStep == {"none", "start", "configure", "compile", "compiled", "tests", "done"}
ExitKinds == {"none", "ok", "fail", "timeout"}
Doubts == {"none", "no_build_record", "profile", "stale"}
Reasons == Doubts \cup {"arguments", "timeout", "command_cancelled", "cleanup_unknown",
                       "missing_executable", "policy_denied", "approval_declined"}
ToolResult ==
    [ok : BOOLEAN, exec : {"ok", "error", "blocked"}, domain : {"pass", "fail", "unknown"},
     reason : Reasons]
Proposal == [id : Nat, file : Files, original : AllTexts, updated : Texts]
ToolsTypeOK ==
    /\ tree \in [Files -> AllTexts]
    /\ outside \in 0..MaxOutside
    /\ dir \in [owner : {"none", "lca", "user", "unclaimed"}, cache : BOOLEAN,
                marker : Profiles \cup {NoProfile},
                stamp : [profile : Profiles \cup {NoProfile}, tree : Snapshot],
                bin : [kind : {"none", "mixed", "whole"}, profile : Profiles \cup {NoProfile},
                       tree : Snapshot]]
    /\ patches \in [used : Nat, pending : SUBSET Proposal]
    /\ \A p, q \in patches.pending : p.file = q.file => p = q
    /\ journal \in Seq([file : Files, before : AllTexts, after : Texts])
    /\ op \in [tool : ToolName, all : BOOLEAN, profile : Profiles \cup {NoProfile},
               step : ToolStep, before : Snapshot, unproven : ExitKinds \cup Doubts,
               result : ToolResult]
=============================================================================
