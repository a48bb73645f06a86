---------------------------- MODULE WorkerProofs ----------------------------
(***************************************************************************)
(* Proofs about the worker loop with its tools, and about the managed      *)
(* runtime its model calls are served by.                                  *)
(*                                                                         *)
(* WorkerLoop, for trees, texts, budgets and repeat limits of any size.    *)
(* The build directory is followed from the command to the stamp to the    *)
(* test that reads it: what a stamp names covers what was compiled, so a   *)
(* call that ends in a proof covers the tree; an edit of the worker takes  *)
(* the mark away, and somebody else's edit is a text no snapshot knows.    *)
(* For the escalation, the journal's entries of a file are linked: each    *)
(* found what the one before it wrote, or a text of somebody else.         *)
(*                                                                         *)
(* ManagedRuntime, for any callers, launch plans and process ids, with     *)
(* pids given again, callers killed at any step and servers that end, hang *)
(* or refuse to die.  The record changes only under the lock or when       *)
(* nobody holds it, and a creation time never comes back: so what          *)
(* process.json names is the process it was written for, or nothing.       *)
(***************************************************************************)
EXTENDS WorkerLoop, ManagedRuntime, SequenceTheorems, WellFoundedInduction, TLAPS

-----------------------------------------------------------------------------
(* The worker loop: the inductive invariant.                               *)

\* What binaries are of the tree t, as far as the tools can know.
Covers(t, u) == u = NoTree \/ SameButOutside(t, u)

\* A call is under way only in its handler, and may still be counted.
OpInv ==
    /\ pc # "tool" => op = NoOp
    /\ pc = "tool" /\ Counted(op) => st.repeats[Signature(op)] < MaxRepeats

\* What the build directory holds is what its stamp and the call in progress say.
BuildInv ==
    /\ op.tool = "build_target" /\ op.all /\ op.step \in {"configure", "compile", "compiled"}
         => dir.stamp = NoStamp
    /\ op.tool = "build_target" /\ op.all /\ op.step = "compiled" /\ op.unproven = "ok"
         => SameButOutside(tree, dir.bin.tree)
    /\ dir.stamp # NoStamp => Covers(dir.stamp.tree, dir.bin.tree)
    /\ op.tool = "run_test" /\ op.step = "tests" => op.unproven \in Doubts
    /\ op.tool = "run_test" /\ op.step = "tests" /\ op.unproven = "none"
         => Covers(tree, dir.bin.tree)
    /\ op.step = "done" /\ ClassifyProof(op) \in CurrentTreeProofs
         => Covers(tree, dir.bin.tree)

\* A mark stands for a full proof, and a result for a mark.
MarkInv ==
    /\ VerifiedIsCurrent
    /\ st.verified => st.full \in CurrentTreeProofs
    /\ pc \notin {"settle", "done"} => result = NoResult
    /\ ~worker.verified
    /\ result.verified =>
         /\ st.verified /\ result.scope = st.full
         /\ mode \in {"fix-test", "change"} => st.tests
         /\ Candidate => result.tree = tree

\* Nobody else writes in a candidate.
CandidateInv == Candidate => \A f \in Files : ~OutsideText(tree[f])

\* The text of f after the first n entries of the journal is what the last of them
\* wrote, or what somebody else wrote since.
Left(f, n, text) ==
    \/ OutsideText(text)
    \/ \E i \in 1 .. n : /\ journal[i].file = f /\ journal[i].after = text
                         /\ \A k \in i + 1 .. n : journal[k].file # f
    \/ text = Original(f) /\ \A k \in 1 .. n : journal[k].file # f
JournalInv ==
    phase = "first" =>
        /\ \A i \in 1 .. Len(journal) : Left(journal[i].file, i - 1, journal[i].before)
        /\ \A f \in Files : Left(f, Len(journal), tree[f])

LoopInv == LoopTypeOK /\ OpInv /\ BuildInv /\ MarkInv /\ CandidateInv /\ JournalInv
-----------------------------------------------------------------------------
(* Facts about the parts.                                                  *)

LEMMA LargestText ==
    /\ Largest \in Texts /\ Largest \in Nat /\ \A u \in Texts : u <= Largest
    /\ MaxOutside \in Nat
<1>1. \E t \in Texts : \A u \in Texts : u <= t
  BY ToolsAssumption
<1>2. Largest \in Texts /\ \A u \in Texts : u <= Largest
  BY <1>1 DEF Largest
<1> QED
  BY <1>2, ToolsAssumption

\* A worker's text is nobody else's.
LEMMA WorkersTexts ==
    /\ \A t \in Texts : t \in AllTexts /\ ~OutsideText(t)
    /\ Missing \in AllTexts /\ ~OutsideText(Missing) /\ Missing \notin Texts
    /\ AllTexts \subseteq Nat
  BY LargestText, ToolsAssumption DEF AllTexts, OutsideText, Missing

LEMMA Snapshots ==
    /\ NoTree \in Snapshot
    /\ \A t \in [Files -> AllTexts] : t \in Snapshot
  BY DEF Snapshot, NoTree

LEMMA NoToolResults ==
    /\ Passed \in ToolResult /\ Failed \in ToolResult
    /\ \A reason \in Reasons :
         /\ Unproven(reason) \in ToolResult /\ Errored(reason) \in ToolResult
         /\ BlockedBy(reason) \in ToolResult
  BY DEF Passed, Failed, Unproven, Errored, BlockedBy, Result, ToolResult, Reasons, Doubts

LEMMA ProofKinds ==
  ASSUME NEW o, o.all \in BOOLEAN
  PROVE  /\ ClassifyProof(o) \in Proofs
         /\ ClassifyProof(o) \in Contradicts => ClassifyProof(o) \notin CurrentTreeProofs
         /\ "none" \notin CurrentTreeProofs \cup Contradicts
         /\ ClassifyProof(o) \in CurrentTreeProofs =>
              /\ o.tool \in {"build_target", "run_test"} /\ o.all
              /\ o.result.exec = "ok" /\ o.result.domain \notin {"unknown", "fail"}
<1>1. CASE o.tool \notin {"build_target", "run_test"} \/ o.result.exec # "ok"
           \/ o.result.domain \in {"unknown", "fail"} \/ ~o.all
  BY <1>1 DEF ClassifyProof, Contradicts, CurrentTreeProofs, Proofs
<1>2. CASE o.tool \in {"build_target", "run_test"} /\ o.result.exec = "ok"
           /\ o.result.domain \notin {"unknown", "fail"} /\ o.all
  BY <1>2 DEF ClassifyProof, Contradicts, CurrentTreeProofs, Proofs
<1> QED
  BY <1>1, <1>2

\* state.record, field by field.
LEMMA RecordedEffect ==
  ASSUME NEW s \in AgentState, NEW o, o.all \in BOOLEAN, o.tool \in ToolName,
         o.result \in ToolResult,
         Counted(o) => s.repeats[Signature(o)] < MaxRepeats
  PROVE  LET r == Recorded(s, o)  p == ClassifyProof(o) IN
         /\ r \in AgentState
         /\ r.verified = s.verified /\ r.epoch = s.epoch /\ r.attempted = s.attempted
         /\ r.full = IF p \in CurrentTreeProofs THEN p ELSE s.full
         /\ r.tests <=> p \notin Contradicts /\ (s.tests \/ p = "full_test_pass")
<1> DEFINE p == ClassifyProof(o)
           calls == s.calls + 1
           repeats == Repeats(s, o)
           blocked == s.blocked \/ o.result.exec = "blocked"
           cleanup == s.cleanup \/ o.result.reason = "cleanup_unknown"
           last == IF p = "none" THEN s.last ELSE p
           full == IF p \in CurrentTreeProofs THEN p ELSE s.full
           tests == ~(p \in Contradicts) /\ (s.tests \/ p = "full_test_pass")
           builds == ~(p \in Contradicts) /\ (s.builds \/ p \in CurrentTreeProofs)
           steps == IF Planned THEN s.steps + 1 ELSE s.steps
           passed == s.passed /\ (Planned => o.result.exec = "ok" /\ o.result.domain = "pass")
<1>1. repeats \in [Signatures -> 0..MaxRepeats]
  <2>1. s.repeats \in [Signatures -> 0..MaxRepeats] /\ MaxRepeats \in Nat
    BY LoopAssumption DEF AgentState
  <2>2. Signature(o) \in Signatures
    BY DEF Signature, Signatures
  <2>3. CASE Counted(o)
    <3>1. s.repeats[Signature(o)] + 1 \in 0..MaxRepeats
      BY <2>1, <2>2, <2>3
    <3> QED
      BY <2>1, <2>3, <3>1 DEF Repeats
  <2> QED
    BY <2>1, <2>3 DEF Repeats
<1>2. full \in {"none"} \cup CurrentTreeProofs
  BY DEF AgentState
<1>3. last \in Proofs
  BY ProofKinds DEF AgentState
<1>4. steps \in Nat /\ calls \in Nat
  BY DEF AgentState
<1>5. /\ blocked \in BOOLEAN /\ cleanup \in BOOLEAN /\ tests \in BOOLEAN /\ builds \in BOOLEAN
      /\ passed \in BOOLEAN
  BY DEF AgentState
<1>6. Recorded(s, o) = [s EXCEPT
        !.calls = calls, !.repeats = repeats, !.blocked = blocked, !.cleanup = cleanup,
        !.last = last, !.full = full, !.tests = tests, !.builds = builds, !.steps = steps,
        !.passed = passed]
  BY DEF Recorded
<1>7. tests <=> p \notin Contradicts /\ (s.tests \/ p = "full_test_pass")
  OBVIOUS
<1> HIDE DEF calls, repeats, blocked, cleanup, last, full, tests, builds, steps, passed, p
<1>8. /\ Recorded(s, o).verified = s.verified /\ Recorded(s, o).epoch = s.epoch
      /\ Recorded(s, o).attempted = s.attempted
      /\ Recorded(s, o).full = full /\ Recorded(s, o).tests = tests
  BY <1>5, <1>6 DEF AgentState
<1>9. Recorded(s, o) =
        [calls |-> calls, unknown |-> s.unknown, epoch |-> s.epoch,
         verified |-> s.verified, attempted |-> s.attempted, claim |-> s.claim,
         answered |-> s.answered, halt |-> s.halt, nudged |-> s.nudged,
         reminded |-> s.reminded, proposal |-> s.proposal, blocked |-> blocked,
         cleanup |-> cleanup, repeats |-> repeats, last |-> last, full |-> full,
         tests |-> tests, builds |-> builds, steps |-> steps, passed |-> passed]
  BY <1>6 DEF AgentState
<1>10. Recorded(s, o) \in AgentState
  BY <1>1, <1>2, <1>3, <1>4, <1>5, <1>9 DEF AgentState
<1> QED
  BY <1>7, <1>8, <1>10 DEF full, tests, p
\* The tail of _execute, field by field.
LEMMA JudgedEffect ==
  ASSUME NEW s \in AgentState, NEW o, o.result \in ToolResult
  PROVE  LET j == Judged(s, o)
             p == ClassifyProof(o)
             mutated == o.result.ok /\ o.tool \in {"apply_patch", "git_commit"} IN
         /\ j \in AgentState
         /\ j.verified <=> ~mutated /\ p \notin Contradicts
                             /\ (s.verified \/ p \in CurrentTreeProofs)
         /\ ~mutated => j.full = s.full
<1> DEFINE p == ClassifyProof(o)
           mutated == o.result.ok /\ o.tool \in {"apply_patch", "git_commit"}
           attempted == s.attempted \/ ((o.result.exec = "ok" /\ o.result.domain # "unknown")
                                         /\ o.tool \in {"build_target", "run_test"})
           verified == IF p \in Contradicts THEN FALSE
                       ELSE s.verified \/ p \in CurrentTreeProofs
           none == [g \in Signatures |-> 0]
           t == [s EXCEPT !.attempted = attempted, !.verified = verified]
<1>1. attempted \in BOOLEAN /\ verified \in BOOLEAN
  BY DEF AgentState
<1>2. none \in [Signatures -> 0..MaxRepeats]
  BY LoopAssumption
<1>3. Judged(s, o) =
        IF mutated
        THEN [t EXCEPT !.epoch = 1, !.verified = FALSE, !.last = "none", !.full = "none",
                       !.tests = FALSE, !.builds = FALSE, !.repeats = none]
        ELSE t
  BY DEF Judged
<1>4. verified <=> p \notin Contradicts /\ (s.verified \/ p \in CurrentTreeProofs)
  BY DEF AgentState
<1>5. "none" \in Proofs
  BY DEF Proofs
<1> HIDE DEF attempted, verified, none, mutated
<1>6. CASE mutated
  <2>1. Judged(s, o) =
          [calls |-> s.calls, unknown |-> s.unknown, epoch |-> 1,
           verified |-> FALSE, attempted |-> attempted, claim |-> s.claim,
           answered |-> s.answered, halt |-> s.halt, nudged |-> s.nudged,
           reminded |-> s.reminded, proposal |-> s.proposal, blocked |-> s.blocked,
           cleanup |-> s.cleanup, repeats |-> none, last |-> "none", full |-> "none",
           tests |-> FALSE, builds |-> FALSE, steps |-> s.steps, passed |-> s.passed]
    BY <1>3, <1>6, ZenonT(40) DEF AgentState
  <2>2. Judged(s, o) \in AgentState
    BY <1>1, <1>2, <1>5, <2>1 DEF AgentState
  <2>3. ~Judged(s, o).verified
    BY <2>1
  <2> QED
    BY <1>6, <2>2, <2>3 DEF mutated
<1>7. CASE ~mutated
  <2>1. Judged(s, o) = t
    BY <1>3, <1>7
  <2>2. Judged(s, o) =
          [calls |-> s.calls, unknown |-> s.unknown, epoch |-> s.epoch,
           verified |-> verified, attempted |-> attempted, claim |-> s.claim,
           answered |-> s.answered, halt |-> s.halt, nudged |-> s.nudged,
           reminded |-> s.reminded, proposal |-> s.proposal, blocked |-> s.blocked,
           cleanup |-> s.cleanup, repeats |-> s.repeats, last |-> s.last, full |-> s.full,
           tests |-> s.tests, builds |-> s.builds, steps |-> s.steps, passed |-> s.passed]
    BY <2>1 DEF AgentState
  <2> HIDE DEF t
  <2>3. Judged(s, o) \in AgentState
    BY <1>1, <2>2 DEF AgentState
  <2>4. Judged(s, o).verified = verified /\ Judged(s, o).full = s.full
    BY <2>2
  <2> QED
    BY <1>4, <1>7, <2>3, <2>4 DEF mutated, p
<1> QED
  BY <1>6, <1>7

\* What a finished call leaves: a mark that was there and is not contradicted, or
\* the one of its own proof.
LEMMA AfterEffect ==
  ASSUME NEW s \in AgentState, NEW o, o.all \in BOOLEAN, o.tool \in ToolName,
         o.result \in ToolResult,
         Counted(o) => s.repeats[Signature(o)] < MaxRepeats
  PROVE  LET r == Judged(Recorded(s, o), o)
             p == ClassifyProof(o) IN
         /\ r \in AgentState
         /\ r.verified =>
              /\ IF p \in CurrentTreeProofs THEN r.full = p
                 ELSE s.verified /\ r.full = s.full
              /\ ~(o.result.ok /\ o.tool \in {"apply_patch", "git_commit"})
<1> DEFINE q == Recorded(s, o)  p == ClassifyProof(o)
<1>1. /\ q \in AgentState /\ q.verified = s.verified
      /\ q.full = IF p \in CurrentTreeProofs THEN p ELSE s.full
  BY RecordedEffect
<1> HIDE DEF q, p
<1>2. /\ Judged(q, o) \in AgentState
      /\ Judged(q, o).verified =>
           /\ ~(o.result.ok /\ o.tool \in {"apply_patch", "git_commit"})
           /\ q.verified \/ p \in CurrentTreeProofs
           /\ Judged(q, o).full = q.full
  BY <1>1, JudgedEffect DEF p
<1> QED
  BY <1>1, <1>2 DEF q, p

LEMMA ContinueEffect ==
  ASSUME NEW s \in AgentState, Continue(s)
  PROVE  /\ st' \in AgentState /\ st'.verified = s.verified /\ st'.full = s.full
         /\ pc' \in {"call", "turn", "ended"}
<1>1. CASE st' = s /\ pc' \in {"call", "turn"}
  BY <1>1
<1>2. CASE st' = [s EXCEPT !.answered = TRUE] /\ pc' = "ended"
  BY <1>2 DEF AgentState
<1> QED
  BY <1>1, <1>2 DEF Continue-----------------------------------------------------------------------------
(* Steps that change nothing but the run itself.                           *)

OpType ==
    [tool : ToolName, all : BOOLEAN, profile : Profiles \cup {NoProfile}, step : ToolStep,
     before : Snapshot, unproven : ExitKinds \cup Doubts, result : ToolResult]

LEMMA CallToolTypes ==
  /\ NoOp \in OpType
  /\ \A o \in CallTools :
       /\ o \in OpType /\ o.step = "start"
       /\ o.tool \in {"read", "propose_patch", "apply_patch", "git_commit",
                      "configure_project", "build_target", "run_test"}
<1>1. NoOp \in OpType
  BY NoToolResults, Snapshots DEF NoOp, OpType, ToolName, ToolStep, ExitKinds, Doubts
<1>2. ASSUME NEW o \in CallTools
      PROVE  /\ o \in OpType /\ o.step = "start"
             /\ o.tool \in {"read", "propose_patch", "apply_patch", "git_commit",
                            "configure_project", "build_target", "run_test"}
  <2> DEFINE Simple == {[NoOp EXCEPT !.tool = t, !.step = "start"] :
                          t \in {"read", "propose_patch", "apply_patch", "git_commit"}}
             Configures == {[NoOp EXCEPT !.tool = "configure_project", !.profile = p,
                                         !.step = "start"] : p \in Profiles}
             Checks == {[NoOp EXCEPT !.tool = c[1], !.all = c[2], !.profile = c[3],
                                        !.step = "start"] :
                            c \in {"build_target", "run_test"} \X BOOLEAN \X Profiles}
  <2>1. CASE o \in Simple
    BY <1>1, <2>1, ZenonT(40) DEF OpType, ToolName, ToolStep
  <2>2. CASE o \in Configures
    BY <1>1, <2>2, ZenonT(40) DEF OpType, ToolName, ToolStep
  <2>3. CASE o \in Checks
    <3>1. PICK c \in {"build_target", "run_test"} \X BOOLEAN \X Profiles :
            o = [NoOp EXCEPT !.tool = c[1], !.all = c[2], !.profile = c[3], !.step = "start"]
      BY <2>3
    <3>2. c[1] \in {"build_target", "run_test"} /\ c[2] \in BOOLEAN /\ c[3] \in Profiles
      OBVIOUS
    <3> QED
      BY <1>1, <3>1, <3>2 DEF OpType, ToolName, ToolStep
  <2>4. o \in (Simple \cup Configures) \cup Checks
    BY DEF CallTools
  <2> HIDE DEF Simple, Configures, Checks
  <2> QED
    BY <2>1, <2>2, <2>3, <2>4
<1> QED
  BY <1>1, <1>2

\* A call with its result is still the same call.
LEMMA CallWithResult ==
  ASSUME NEW o \in OpType, NEW res \in ToolResult
  PROVE  LET done == [o EXCEPT !.result = res] IN
         /\ done.tool = o.tool /\ done.all = o.all /\ done.result = res
         /\ done.all \in BOOLEAN /\ done.tool \in ToolName
         /\ Counted(done) = Counted(o) /\ Signature(done) = Signature(o)
<1> DEFINE done == [o EXCEPT !.result = res]
<1>1. /\ done.tool = o.tool /\ done.all = o.all /\ done.result = res
      /\ done.all \in BOOLEAN /\ done.tool \in ToolName
  BY DEF OpType
<1> HIDE DEF done
<1>2. Counted(done) = Counted(o) /\ Signature(done) = Signature(o)
  BY <1>1 DEF Counted, Signature
<1> QED
  BY <1>1, <1>2 DEF done

\* A handler that is one step earns no mark; a patch that applies loses it.
LEMMA QuickAfter ==
  ASSUME LoopTypeOK, NEW o \in CallTools, Allowed(o), NEW res \in ToolResult,
         o.tool \notin {"build_target", "run_test"}
  PROVE  /\ After(o, res) \in AgentState
         /\ After(o, res).verified =>
              /\ st.verified /\ After(o, res).full = st.full
              /\ ~(res.ok /\ o.tool = "apply_patch")
<1>0. st \in AgentState
  BY DEF LoopTypeOK
<1>1. o \in OpType
  BY CallToolTypes
<1> DEFINE d == [o EXCEPT !.result = res]
<1>2. /\ d.all \in BOOLEAN /\ d.tool \in ToolName /\ d.result = res /\ d.tool = o.tool
      /\ Counted(d) = Counted(o) /\ Signature(d) = Signature(o)
  BY <1>1, CallWithResult
<1> HIDE DEF d
<1>3. ClassifyProof(d) \notin CurrentTreeProofs
  BY <1>2, ProofKinds
<1>4. Counted(d) => st.repeats[Signature(d)] < MaxRepeats
  BY <1>2 DEF Allowed
<1>5. /\ Judged(Recorded(st, d), d) \in AgentState
      /\ Judged(Recorded(st, d), d).verified =>
           /\ st.verified /\ Judged(Recorded(st, d), d).full = st.full
           /\ ~(d.result.ok /\ d.tool \in {"apply_patch", "git_commit"})
  BY <1>0, <1>2, <1>3, <1>4, AfterEffect
<1> QED
  BY <1>2, <1>5 DEF After, d

\* The run moves on and holds no mark it did not hold.
Quiet ==
    /\ UNCHANGED <<toolVars, stop, mode, phase, worker, proof, result>>
    /\ pc \in {"turn", "call"} /\ pc' \in {"turn", "call", "ended"}
    /\ st' \in AgentState /\ (st'.verified => st.verified /\ st'.full = st.full)

QuietAction ==
    \/ Turn
    \/ \E claim \in Claims, lastCall \in BOOLEAN : CallSubmit(claim, lastCall)
    \/ CallUnknown
    \/ \E o \in CallTools :
          \/ CallRepeated(o)
          \/ \E verdict \in {"deny", "decline"} : CallRefused(o, verdict)
          \/ \E res \in {Passed, Errored("arguments")} : CallQuick(o, res)

LEMMA QuietActions == LoopTypeOK /\ QuietAction => Quiet
<1> SUFFICES ASSUME LoopTypeOK, QuietAction PROVE Quiet
  OBVIOUS
<1> USE DEF LoopUnchanged
<1>0. st \in AgentState
  BY DEF LoopTypeOK
<1>1. CASE TurnBudget
  BY <1>0, <1>1 DEF TurnBudget, Halt, Quiet, AgentState, Halts
<1>2. ASSUME NEW cause \in Outages, TurnFails(cause) PROVE Quiet
  BY <1>0, <1>2 DEF TurnFails, Halt, Quiet, AgentState, Halts
<1>3. ASSUME NEW shaped \in BOOLEAN, TurnProse(shaped) PROVE Quiet
  <2>1. \/ st' = [st EXCEPT !.nudged = TRUE] /\ pc' = "turn"
        \/ st' = [st EXCEPT !.reminded = TRUE] /\ pc' = "turn"
        \/ (\E empty \in BOOLEAN : st' = [st EXCEPT !.answered = ~empty]) /\ pc' = "ended"
    BY <1>3 DEF TurnProse
  <2>2. st' \in AgentState /\ st'.verified = st.verified /\ st'.full = st.full
    BY <1>0, <2>1, ZenonT(40) DEF AgentState
  <2> QED
    BY <1>3, <2>1, <2>2 DEF TurnProse, Quiet
<1>4. ASSUME NEW claim \in Claims, NEW lastCall \in BOOLEAN, CallSubmit(claim, lastCall)
      PROVE  Quiet
  <2> DEFINE a == AcceptAnswer(st, claim)
  <2>1. a \in AgentState /\ a.verified = st.verified /\ a.full = st.full
    BY <1>0 DEF AcceptAnswer, AgentState
  <2>2. /\ \/ st' = [a EXCEPT !.reminded = TRUE]
           \/ st' = [a EXCEPT !.answered = TRUE]
        /\ pc' \in {"turn", "ended"}
    BY <1>4 DEF CallSubmit
  <2> HIDE DEF a
  <2>3. st' \in AgentState /\ st'.verified = st.verified /\ st'.full = st.full
    BY <2>1, <2>2, ZenonT(40) DEF AgentState
  <2> QED
    BY <1>4, <2>2, <2>3 DEF CallSubmit, Calling, Quiet
<1>5. CASE CallUnknown
  <2> DEFINE s == [st EXCEPT !.calls = @ + 1, !.unknown = @ + 1]
  <2>0. st.calls + 1 \in Nat /\ st.unknown + 1 \in Nat
    BY <1>0 DEF AgentState
  <2>1. s \in AgentState
    BY <1>0, <2>0 DEF AgentState
  <2>9. s.verified = st.verified /\ s.full = st.full
    BY <1>0 DEF AgentState
  <2>2. \/ st' = [s EXCEPT !.halt = "unknown_tools"] /\ pc' = "ended"
        \/ Continue(s)
    BY <1>5 DEF CallUnknown
  <2> HIDE DEF s
  <2>3. /\ st' \in AgentState /\ st'.verified = st.verified /\ st'.full = st.full
        /\ pc' \in {"turn", "call", "ended"}
    <3>1. CASE Continue(s)
      BY <2>1, <2>9, <3>1, ContinueEffect
    <3>2. CASE st' = [s EXCEPT !.halt = "unknown_tools"] /\ pc' = "ended"
      BY <2>1, <2>9, <3>2 DEF AgentState, Halts
    <3> QED
      BY <2>2, <3>1, <3>2
  <2> QED
    BY <1>5, <2>3 DEF CallUnknown, Calling, Quiet
<1>6. ASSUME NEW o \in CallTools, CallRepeated(o) PROVE Quiet
  <2>1. st.calls + 1 \in Nat /\ st' = [st EXCEPT !.calls = @ + 1, !.halt = "repeat_loop"]
    BY <1>0, <1>6 DEF CallRepeated, AgentState
  <2>2. st' \in AgentState
    BY <1>0, <2>1 DEF AgentState, Halts
  <2>3. st'.verified = st.verified /\ st'.full = st.full
    BY <1>0, <2>1 DEF AgentState
  <2> QED
    BY <1>6, <2>2, <2>3 DEF CallRepeated, Calling, Quiet
<1>7. ASSUME NEW o \in CallTools, NEW verdict \in {"deny", "decline"}, CallRefused(o, verdict)
      PROVE  Quiet
  <2>1. PICK reason \in {"policy_denied", "approval_declined"} :
          Continue(Recorded(st, [o EXCEPT !.result = BlockedBy(reason)]))
    BY <1>7 DEF CallRefused
  <2> DEFINE d == [o EXCEPT !.result = BlockedBy(reason)]
  <2>2. o \in OpType /\ BlockedBy(reason) \in ToolResult
    BY CallToolTypes, NoToolResults DEF Reasons
  <2>3. /\ d.all \in BOOLEAN /\ d.tool \in ToolName /\ d.result = BlockedBy(reason)
        /\ Counted(d) = Counted(o) /\ Signature(d) = Signature(o)
    BY <2>2, CallWithResult
  <2>4. ClassifyProof(d) \notin CurrentTreeProofs
    <3>1. d.result.exec # "ok"
      BY <2>3 DEF BlockedBy, Result
    <3> HIDE DEF d
    <3> QED
      BY <2>3, <3>1, ProofKinds
  <2>5. Counted(o) => st.repeats[Signature(o)] < MaxRepeats
    BY <1>7 DEF CallRefused
  <2> HIDE DEF d
  <2>6. /\ Recorded(st, d) \in AgentState /\ Recorded(st, d).verified = st.verified
        /\ Recorded(st, d).full = st.full
    BY <1>0, <2>2, <2>3, <2>4, <2>5, RecordedEffect
  <2>7. Continue(Recorded(st, d))
    BY <2>1 DEF d
  <2>8. /\ st' \in AgentState /\ st'.verified = st.verified /\ st'.full = st.full
        /\ pc' \in {"turn", "call", "ended"}
    BY <2>6, <2>7, ContinueEffect
  <2> QED
    BY <1>7, <2>8 DEF CallRefused, Calling, Quiet
<1>8. ASSUME NEW o \in CallTools, NEW res \in {Passed, Errored("arguments")}, CallQuick(o, res)
      PROVE  Quiet
  <2>1. o \in OpType /\ res \in ToolResult
    BY CallToolTypes, NoToolResults DEF Reasons
  <2>2. o.tool \notin {"build_target", "run_test"}
    BY <1>8 DEF CallQuick
  <2>3. /\ After(o, res) \in AgentState
        /\ After(o, res).verified => st.verified /\ After(o, res).full = st.full
    BY <1>8, <2>1, <2>2, QuickAfter DEF CallQuick
  <2>4. Continue(After(o, res))
    BY <1>8 DEF CallQuick
  <2>5. /\ st' \in AgentState /\ (st'.verified => st.verified /\ st'.full = st.full)
        /\ pc' \in {"turn", "call", "ended"}
    BY <2>3, <2>4, ContinueEffect
  <2> QED
    BY <1>8, <2>5 DEF CallQuick, Allowed, Calling, Quiet
<1> QED
  BY <1>1, <1>2, <1>3, <1>4, <1>5, <1>6, <1>7, <1>8 DEF QuietAction, Turn-----------------------------------------------------------------------------
(* What a step leaves alone keeps its part of the invariant.               *)

LEMMA ToolsSame == ToolsTypeOK /\ UNCHANGED toolVars => ToolsTypeOK'
  BY DEF ToolsTypeOK, toolVars

LEMMA BuildSame == BuildInv /\ UNCHANGED <<tree, dir, op>> => BuildInv'
  BY DEF BuildInv, Covers, SameButOutside

LEMMA CandidateSame == CandidateInv /\ UNCHANGED <<tree, mode>> => CandidateInv'
  BY DEF CandidateInv, Candidate

LEMMA JournalSame ==
  JournalInv /\ UNCHANGED <<tree, journal>> /\ (phase' = "first" => phase = "first")
    => JournalInv'
  BY DEF JournalInv, Left

\* The run's mark may be lost or stay while nothing is concluded yet.
LEMMA MarkSame ==
  ASSUME MarkInv, UNCHANGED <<tree, proof, worker, result>>,
         st'.verified => st.verified /\ st'.full = st.full,
         pc \notin {"settle", "done"}
  PROVE  MarkInv'
<1>1. result = NoResult /\ ~result.verified
  BY DEF MarkInv, NoResult
<1>2. VerifiedIsCurrent'
  BY DEF MarkInv, VerifiedIsCurrent, SameButOutside
<1> QED
  BY <1>1, <1>2 DEF MarkInv, NoResult, NoTree

LEMMA QuietKeeps == LoopInv /\ Quiet => LoopInv'
<1> SUFFICES ASSUME LoopInv, Quiet PROVE LoopInv'
  OBVIOUS
<1> USE DEF LoopInv
<1>0. UNCHANGED <<tree, outside, dir, patches, journal, op>>
  BY DEF Quiet, toolVars
<1>1. LoopTypeOK'
  <2>1. ToolsTypeOK'
    BY ToolsSame DEF LoopTypeOK, Quiet
  <2> QED
    BY <2>1 DEF LoopTypeOK, Quiet
<1>2. OpInv'
  BY <1>0 DEF OpInv, Quiet
<1>3. BuildInv' /\ CandidateInv' /\ JournalInv'
  BY <1>0, BuildSame, CandidateSame, JournalSame DEF Quiet
<1>4. MarkInv'
  BY <1>0, MarkSame DEF Quiet
<1> QED
  BY <1>1, <1>2, <1>3, <1>4-----------------------------------------------------------------------------
(* Calls that change patches, the tree or the handler in progress.         *)

LEMMA PutKeeps ==
  ASSUME ToolsTypeOK, NEW f \in Files, NEW original \in AllTexts, NEW updated \in Texts,
         Put(f, original, updated)
  PROVE  /\ patches' \in [used : Nat, pending : SUBSET Proposal]
         /\ \A p, q \in patches'.pending : p.file = q.file => p = q
<1> DEFINE n == [id |-> patches.used + 1, file |-> f, original |-> original,
                 updated |-> updated]
           kept == patches.pending \ PendingFor(f)
<1>1. /\ patches.used \in Nat /\ patches.pending \subseteq Proposal
      /\ \A p, q \in patches.pending : p.file = q.file => p = q
  BY DEF ToolsTypeOK
<1>2. n \in Proposal /\ n.file = f
  BY <1>1 DEF Proposal
<1>3. kept \subseteq patches.pending /\ \A p \in kept : p.file # f
  BY DEF PendingFor
<1>4. patches' = [used |-> patches.used + 1, pending |-> kept \cup {n}]
  BY DEF Put
<1> HIDE DEF n, kept
<1> QED
  BY <1>1, <1>2, <1>3, <1>4

LEMMA ProposeKeeps ==
  ASSUME LoopInv, NEW o \in CallTools, NEW f \in Files, NEW text \in Texts,
         CallProposes(o, f, text)
  PROVE  LoopInv'
<1> USE DEF LoopInv
<1> DEFINE s == After(o, Passed)
<1>1. s \in AgentState /\ (s.verified => st.verified /\ s.full = st.full)
  BY QuickAfter, NoToolResults DEF CallProposes
<1>2. patches.used + 1 \in Nat
  BY DEF LoopTypeOK, ToolsTypeOK
<1> DEFINE t == [s EXCEPT !.proposal = patches.used + 1]
<1>3. t \in AgentState /\ (t.verified => st.verified /\ t.full = st.full)
  <2> HIDE DEF s
  <2> QED
    BY <1>1, <1>2 DEF AgentState
<1>4. Continue(t)
  BY DEF CallProposes
<1> HIDE DEF s, t
<1>5. /\ st' \in AgentState /\ (st'.verified => st.verified /\ st'.full = st.full)
      /\ pc' \in {"call", "turn", "ended"}
  BY <1>3, <1>4, ContinueEffect
<1>6. /\ UNCHANGED <<tree, outside, dir, journal, op, stop, mode, phase, worker, proof, result>>
      /\ pc \in {"turn", "call"}
  BY DEF CallProposes, Allowed, Calling, ProposePatch, ProposeFile, LoopUnchanged
<1>7. /\ patches' \in [used : Nat, pending : SUBSET Proposal]
      /\ \A p, q \in patches'.pending : p.file = q.file => p = q
  <2>1. Missing \in AllTexts /\ tree[f] \in AllTexts
    BY WorkersTexts DEF LoopTypeOK, ToolsTypeOK
  <2> QED
    BY <2>1, PutKeeps DEF CallProposes, ProposePatch, ProposeFile, LoopTypeOK
<1>8. LoopTypeOK'
  <2>1. ToolsTypeOK'
    BY <1>6, <1>7 DEF LoopTypeOK, ToolsTypeOK
  <2> QED
    BY <1>5, <1>6, <2>1 DEF LoopTypeOK
<1>9. OpInv'
  BY <1>5, <1>6 DEF OpInv
<1>10. BuildInv' /\ CandidateInv' /\ JournalInv'
  BY <1>6, BuildSame, CandidateSame, JournalSame
<1>11. MarkInv'
  BY <1>5, <1>6, MarkSame
<1> QED
  BY <1>8, <1>9, <1>10, <1>11

LEMMA StartKeeps ==
  ASSUME LoopInv, NEW o \in CallTools, CallStarts(o)
  PROVE  LoopInv'
<1> USE DEF LoopInv
<1>1. /\ UNCHANGED <<tree, outside, dir, patches, journal, stop, st, mode, phase, worker, proof,
                     result>>
      /\ op' = o /\ pc' = "tool" /\ pc \in {"turn", "call"}
  BY DEF CallStarts, Allowed, Calling, LoopUnchanged
<1>2. o \in OpType /\ o.step = "start"
  BY CallToolTypes
<1>3. LoopTypeOK'
  <2>1. ToolsTypeOK'
    BY <1>1, <1>2 DEF LoopTypeOK, ToolsTypeOK, OpType
  <2> QED
    BY <1>1, <2>1 DEF LoopTypeOK
<1>4. OpInv'
  BY <1>1 DEF OpInv, CallStarts, Allowed
<1>5. BuildInv'
  BY <1>1, <1>2 DEF BuildInv, Covers, SameButOutside
<1>6. CandidateInv' /\ JournalInv'
  BY <1>1, CandidateSame, JournalSame
<1>7. MarkInv'
  BY <1>1, MarkSame
<1> QED
  BY <1>3, <1>4, <1>5, <1>6, <1>7
\* One more entry in the journal: what the files hold is what the last entries wrote.
LEMMA JournalGrows ==
  ASSUME LoopTypeOK, JournalInv, NEW p \in Proposal, Applies(p),
         tree' = [tree EXCEPT ![p.file] = p.updated],
         journal' = Append(journal, [file |-> p.file, before |-> p.original,
                                     after |-> p.updated]),
         phase' = phase
  PROVE  JournalInv'
<1> DEFINE e == [file |-> p.file, before |-> p.original, after |-> p.updated]
           L == Len(journal)
<1>1. /\ journal \in Seq([file : Files, before : AllTexts, after : Texts])
      /\ tree \in [Files -> AllTexts]
  BY DEF LoopTypeOK, ToolsTypeOK
<1>2. /\ p.file \in Files /\ p.original = tree[p.file] /\ p.updated \in Texts
  BY DEF Proposal, Applies
<1>3. e \in [file : Files, before : AllTexts, after : Texts]
  BY <1>1, <1>2
<1>4. /\ L \in Nat /\ Len(journal') = L + 1 /\ journal'[L + 1] = e
      /\ \A i \in 1 .. L : journal'[i] = journal[i]
  BY <1>1, <1>3
<1>5. ASSUME NEW f, NEW n \in 0 .. L, NEW text, Left(f, n, text)
      PROVE  Left(f, n, text)'
  BY <1>4, <1>5 DEF Left
<1>6. SUFFICES ASSUME phase = "first"
               PROVE  /\ \A i \in 1 .. Len(journal') :
                           Left(journal[i].file, i - 1, journal[i].before)'
                      /\ \A f \in Files : Left(f, Len(journal), tree[f])'
  BY DEF JournalInv
<1>7. /\ \A i \in 1 .. L : Left(journal[i].file, i - 1, journal[i].before)
      /\ \A f \in Files : Left(f, L, tree[f])
  BY <1>6 DEF JournalInv
<1>8. ASSUME NEW i \in 1 .. L + 1
      PROVE  Left(journal[i].file, i - 1, journal[i].before)'
  <2>1. CASE i \in 1 .. L
    <3>1. Left(journal[i].file, i - 1, journal[i].before)
      BY <1>7, <2>1
    <3> QED
      BY <1>4, <2>1, <3>1 DEF Left
  <2>2. CASE i = L + 1
    <3>1. Left(p.file, L, p.original)
      BY <1>2, <1>7
    <3> QED
      BY <1>4, <2>2, <3>1 DEF Left
  <2> QED
    BY <1>4, <2>1, <2>2
<1>9. ASSUME NEW f \in Files
      PROVE  Left(f, Len(journal), tree[f])'
  <2>1. CASE f = p.file
    <3>1. tree'[f] = p.updated /\ journal'[L + 1].file = f /\ journal'[L + 1].after = p.updated
      BY <1>1, <1>4, <2>1
    <3> QED
      BY <1>4, <3>1 DEF Left
  <2>2. CASE f # p.file
    <3>1. tree'[f] = tree[f] /\ journal'[L + 1].file # f
      BY <1>1, <1>4, <2>2
    <3>2. Left(f, L, tree[f])
      BY <1>7
    <3> QED
      BY <1>4, <3>1, <3>2 DEF Left
  <2> QED
    BY <2>1, <2>2
<1> QED
  BY <1>4, <1>8, <1>9

LEMMA ApplyKeeps ==
  ASSUME LoopInv, NEW o \in CallTools, NEW p \in patches.pending, CallApplies(o, p)
  PROVE  LoopInv'
<1> USE DEF LoopInv
<1>0. /\ p \in Proposal /\ patches \in [used : Nat, pending : SUBSET Proposal]
      /\ \A q, r \in patches.pending : q.file = r.file => q = r
  BY DEF LoopTypeOK, ToolsTypeOK
<1>1. /\ UNCHANGED <<outside, dir, op, stop, mode, phase, worker, proof, result>>
      /\ pc \in {"turn", "call"}
      /\ patches' = [patches EXCEPT !.pending = @ \ {p}]
  BY DEF CallApplies, ApplyPatch, Allowed, Calling, LoopUnchanged
<1> DEFINE s == IF Applies(p)
                THEN [After(o, Passed) EXCEPT !.proposal = IF @ = p.id THEN 0 ELSE @]
                ELSE After(o, Errored("arguments"))
<1>2. s \in AgentState /\ (s.verified => st.verified /\ s.full = st.full /\ ~Applies(p))
  <2>1. Passed \in ToolResult /\ Errored("arguments") \in ToolResult /\ Passed.ok
    BY NoToolResults DEF Reasons, Passed, Result
  <2>2. CASE Applies(p)
    <3> DEFINE a == After(o, Passed)
               proposal == IF a.proposal = p.id THEN 0 ELSE a.proposal
    <3>1. a \in AgentState /\ ~a.verified
      BY <2>1, QuickAfter DEF CallApplies
    <3>2. proposal \in Nat
      BY <3>1 DEF AgentState
    <3>3. s = [a EXCEPT !.proposal = proposal]
      BY <2>2
    <3> HIDE DEF a, proposal, s
    <3> QED
      BY <3>1, <3>2, <3>3 DEF AgentState
  <2>3. CASE ~Applies(p)
    BY <2>1, <2>3, QuickAfter DEF CallApplies
  <2> QED
    BY <2>2, <2>3
<1>3. Continue(s)
  BY DEF CallApplies
<1> HIDE DEF s
<1>4. /\ st' \in AgentState /\ (st'.verified => st.verified /\ st'.full = st.full /\ ~Applies(p))
      /\ pc' \in {"call", "turn", "ended"}
  BY <1>2, <1>3, ContinueEffect
<1>5. patches' \in [used : Nat, pending : SUBSET Proposal]
      /\ \A q, r \in patches'.pending : q.file = r.file => q = r
  BY <1>0, <1>1
<1>6. OpInv'
  BY <1>1, <1>4 DEF OpInv
<1>7. BuildInv'
  <2>1. op = NoOp
    BY <1>1 DEF OpInv
  <2>2. dir.stamp # NoStamp => Covers(dir.stamp.tree, dir.bin.tree)
    BY DEF BuildInv
  <2>3. op'.tool = "none" /\ op'.step = "none"
    BY <1>1, <2>1 DEF NoOp
  <2> QED
    BY <1>1, <2>2, <2>3 DEF BuildInv, Covers, SameButOutside
<1>8. CASE ~Applies(p)
  <2>1. UNCHANGED <<tree, journal>>
    BY <1>8 DEF CallApplies, ApplyPatch
  <2>2. ToolsTypeOK'
    BY <1>1, <1>5, <2>1 DEF LoopTypeOK, ToolsTypeOK
  <2>3. LoopTypeOK'
    BY <1>1, <1>4, <2>2 DEF LoopTypeOK
  <2>4. MarkInv'
    BY <1>1, <1>4, <2>1, MarkSame
  <2>5. CandidateInv' /\ JournalInv'
    BY <1>1, <2>1, CandidateSame, JournalSame
  <2> QED
    BY <1>6, <1>7, <2>3, <2>4, <2>5
<1>9. CASE Applies(p)
  <2>1. /\ tree' = [tree EXCEPT ![p.file] = p.updated]
        /\ journal' = Append(journal, [file |-> p.file, before |-> p.original,
                                       after |-> p.updated])
    BY <1>9 DEF CallApplies, ApplyPatch
  <2>2. p.file \in Files /\ p.original \in AllTexts /\ p.updated \in Texts
    BY <1>0 DEF Proposal
  <2>3. tree' \in [Files -> AllTexts]
    BY <2>1, <2>2, WorkersTexts DEF LoopTypeOK, ToolsTypeOK
  <2>4. journal' \in Seq([file : Files, before : AllTexts, after : Texts])
    <3>1. journal \in Seq([file : Files, before : AllTexts, after : Texts])
      BY DEF LoopTypeOK, ToolsTypeOK
    <3> QED
      BY <2>1, <2>2, <3>1
  <2>5. ToolsTypeOK'
    BY <1>1, <1>5, <2>3, <2>4 DEF LoopTypeOK, ToolsTypeOK
  <2>6. LoopTypeOK'
    BY <1>1, <1>4, <2>5 DEF LoopTypeOK
  <2>7. MarkInv'
    <3>1. ~st'.verified
      BY <1>4, <1>9
    <3>2. result = NoResult /\ result' = NoResult /\ ~result'.verified /\ ~worker'.verified
      BY <1>1 DEF MarkInv, NoResult
    <3> QED
      BY <3>1, <3>2 DEF MarkInv, VerifiedIsCurrent, NoResult, NoTree
  <2>8. CandidateInv'
    BY <1>1, <2>1, <2>2, WorkersTexts DEF CandidateInv, Candidate, LoopTypeOK, ToolsTypeOK
  <2>9. JournalInv'
    BY <1>0, <1>1, <1>9, <2>1, JournalGrows
  <2> QED
    BY <1>6, <1>7, <2>6, <2>7, <2>8, <2>9
<1> QED
  BY <1>8, <1>9-----------------------------------------------------------------------------
(* The steps of a configured command.                                      *)

DirType ==
    [owner : {"none", "lca", "user", "unclaimed"}, cache : BOOLEAN,
     marker : Profiles \cup {NoProfile},
     stamp : [profile : Profiles \cup {NoProfile}, tree : Snapshot],
     bin : [kind : {"none", "mixed", "whole"}, profile : Profiles \cup {NoProfile},
            tree : Snapshot]]

LEMMA TypesOfTools ==
  ASSUME ToolsTypeOK
  PROVE  /\ op \in OpType /\ dir \in DirType /\ tree \in [Files -> AllTexts] /\ tree \in Snapshot
  BY Snapshots DEF ToolsTypeOK, OpType, DirType

\* The handler stays the same call, and owns the directory and itself only.
LEMMA ToolKeeps ==
  ASSUME LoopInv, pc = "tool",
         UNCHANGED <<tree, outside, patches, journal, pc, st, stop, mode, phase, worker, proof,
                     result>>,
         dir' \in DirType, op' \in OpType, op'.tool = op.tool, op'.all = op.all,
         BuildInv'
  PROVE  LoopInv'
<1> USE DEF LoopInv
<1>1. LoopTypeOK'
  <2>1. ToolsTypeOK'
    BY DEF LoopTypeOK, ToolsTypeOK, DirType, OpType
  <2> QED
    BY <2>1 DEF LoopTypeOK
<1>2. OpInv'
  BY DEF OpInv, Counted, Signature
<1>3. CandidateInv' /\ JournalInv'
  BY CandidateSame, JournalSame
<1>4. MarkInv'
  BY MarkSame
<1> QED
  BY <1>1, <1>2, <1>3, <1>4

LEMMA Finishes ==
  ASSUME op \in OpType, NEW res \in ToolResult, Finish(res)
  PROVE  /\ op' \in OpType /\ op'.tool = op.tool /\ op'.all = op.all /\ op'.step = "done"
         /\ op'.result = res
         /\ res.exec # "ok" \/ res.domain \in {"unknown", "fail"}
              => ClassifyProof(op') \notin CurrentTreeProofs
<1>1. /\ op' \in OpType /\ op'.tool = op.tool /\ op'.all = op.all /\ op'.step = "done"
      /\ op'.result = res
  BY DEF Finish, OpType, ToolStep
<1>2. op'.all \in BOOLEAN
  BY <1>1 DEF OpType
<1> QED
  BY <1>1, <1>2, ProofKinds

\* A handler that returns without a pass has proved nothing.
LEMMA FinishesWithout ==
  ASSUME LoopInv, pc = "tool",
         UNCHANGED <<tree, outside, patches, journal, pc, st, stop, mode, phase, worker, proof,
                     result>>,
         NEW res \in ToolResult, Finish(res),
         \/ res.exec # "ok" \/ res.domain \in {"unknown", "fail"}
         \/ op.tool \notin {"build_target", "run_test"},
         dir' \in DirType,
         dir'.stamp # NoStamp => dir'.stamp = dir.stamp /\ dir'.bin.tree \in {dir.bin.tree, NoTree}
  PROVE  LoopInv'
<1> USE DEF LoopInv
<1>1. op \in OpType
  BY TypesOfTools DEF LoopTypeOK
<1>2. /\ op' \in OpType /\ op'.tool = op.tool /\ op'.all = op.all /\ op'.step = "done"
      /\ op'.result = res
      /\ res.exec # "ok" \/ res.domain \in {"unknown", "fail"}
           => ClassifyProof(op') \notin CurrentTreeProofs
  BY <1>1, Finishes
<1>3. ClassifyProof(op') \notin CurrentTreeProofs
  <2>1. op'.all \in BOOLEAN
    BY <1>2 DEF OpType
  <2> QED
    BY <1>2, <2>1, ProofKinds
<1>4. dir.stamp # NoStamp => Covers(dir.stamp.tree, dir.bin.tree)
  BY DEF BuildInv
<1>5. dir'.stamp # NoStamp => Covers(dir'.stamp.tree, dir'.bin.tree)
  BY <1>4 DEF Covers
<1>6. BuildInv'
  BY <1>2, <1>3, <1>5 DEF BuildInv, Covers, SameButOutside
<1> QED
  BY <1>2, <1>6, ToolKeeps
LEMMA ConfigureKeeps ==
  ASSUME LoopInv, pc = "tool", NEW outcome \in CommandOutcomes, ConfigureProject(outcome),
         UNCHANGED <<pc, st, stop, mode, phase, worker, proof, result>>
  PROVE  LoopInv'
<1>1. dir \in DirType /\ op \in OpType
  BY TypesOfTools DEF LoopInv, LoopTypeOK
<1>2. /\ UNCHANGED <<tree, outside, patches, journal>>
      /\ op.tool \notin {"build_target", "run_test"}
  BY DEF ConfigureProject
<1>3. /\ Passed \in ToolResult /\ Failed \in ToolResult /\ Errored("arguments") \in ToolResult
  BY NoToolResults DEF Reasons
<1>4. CASE UNCHANGED dir /\ Finish(Errored("arguments"))
  BY <1>1, <1>2, <1>3, <1>4, FinishesWithout
<1> DEFINE claimed == [dir EXCEPT !.owner = "lca"]
<1>5. claimed \in DirType /\ claimed.stamp = dir.stamp /\ claimed.bin = dir.bin
  BY <1>1 DEF DirType
<1>6. CASE dir' = claimed /\ Finish(Failed)
  <2> HIDE DEF claimed
  <2> QED
    BY <1>1, <1>2, <1>3, <1>5, <1>6, FinishesWithout
<1>7. CASE dir' = Configured(claimed, op.profile) /\ Finish(Passed)
  <2>1. NoStamp \in [profile : Profiles \cup {NoProfile}, tree : Snapshot]
    BY Snapshots DEF NoStamp
  <2> HIDE DEF claimed
  <2>2. dir' \in DirType /\ dir'.stamp = NoStamp
    BY <1>1, <1>5, <1>7, <2>1 DEF Configured, DirType, OpType
  <2> QED
    BY <1>2, <1>3, <1>7, <2>2, FinishesWithout
<1> QED
  BY <1>4, <1>6, <1>7 DEF ConfigureProject

LEMMA BuildStartKeeps ==
  ASSUME LoopInv, pc = "tool", BuildStart,
         UNCHANGED <<pc, st, stop, mode, phase, worker, proof, result>>
  PROVE  LoopInv'
<1>1. dir \in DirType /\ op \in OpType /\ tree \in Snapshot
  BY TypesOfTools DEF LoopInv, LoopTypeOK
<1>2. UNCHANGED <<tree, outside, patches, journal>> /\ op.tool = "build_target"
  BY DEF BuildStart
<1>3. CASE UNCHANGED dir /\ Finish(Errored("arguments"))
  <2>1. Errored("arguments") \in ToolResult /\ Errored("arguments").exec # "ok"
    BY NoToolResults DEF Reasons, Errored, Result
  <2> QED
    BY <1>1, <1>2, <1>3, <2>1, FinishesWithout
<1>4. CASE /\ dir' = IF op.all THEN [NoDir EXCEPT !.owner = "lca"] ELSE dir
           /\ op' = [op EXCEPT !.step = "configure", !.before = tree]
  <2>1. NoStamp \in [profile : Profiles \cup {NoProfile}, tree : Snapshot]
    BY Snapshots DEF NoStamp
  <2>2. NoBinaries \in [kind : {"none", "mixed", "whole"}, profile : Profiles \cup {NoProfile},
                        tree : Snapshot]
    BY Snapshots DEF NoBinaries
  <2>3. /\ [NoDir EXCEPT !.owner = "lca"] \in DirType
        /\ [NoDir EXCEPT !.owner = "lca"].stamp = NoStamp
    BY <2>1, <2>2 DEF NoDir, DirType
  <2>4. dir' \in DirType /\ (op.all => dir'.stamp = NoStamp) /\ (~op.all => dir' = dir)
    BY <1>1, <1>4, <2>3
  <2>5. /\ op' \in OpType /\ op'.tool = "build_target" /\ op'.all = op.all
        /\ op'.step = "configure"
    BY <1>1, <1>2, <1>4 DEF OpType, ToolStep
  <2>6. dir'.stamp # NoStamp => Covers(dir'.stamp.tree, dir'.bin.tree)
    BY <2>4 DEF LoopInv, BuildInv
  <2>7. BuildInv'
    BY <1>2, <2>4, <2>5, <2>6 DEF BuildInv, Covers, SameButOutside
  <2> QED
    BY <1>2, <2>4, <2>5, <2>7, ToolKeeps
<1> QED
  BY <1>3, <1>4 DEF BuildStart

LEMMA BuildConfigureKeeps ==
  ASSUME LoopInv, pc = "tool", NEW outcome \in CommandOutcomes, BuildConfigure(outcome),
         UNCHANGED <<pc, st, stop, mode, phase, worker, proof, result>>
  PROVE  LoopInv'
<1>1. dir \in DirType /\ op \in OpType
  BY TypesOfTools DEF LoopInv, LoopTypeOK
<1>2. /\ UNCHANGED <<tree, outside, patches, journal>>
      /\ op.tool = "build_target" /\ op.step = "configure"
  BY DEF BuildConfigure
<1>3. NoStamp \in [profile : Profiles \cup {NoProfile}, tree : Snapshot]
  BY Snapshots DEF NoStamp
<1>4. ASSUME dir' = dir \/ dir' = Configured(dir, op.profile),
             op' = [op EXCEPT !.step = "compile"]
      PROVE  LoopInv'
  <2>1. dir' \in DirType /\ (dir' = dir \/ dir'.stamp = NoStamp)
    <3>1. Configured(dir, op.profile) \in DirType /\ Configured(dir, op.profile).stamp = NoStamp
      BY <1>1, <1>3 DEF Configured, DirType, OpType
    <3> QED
      BY <1>1, <1>4, <3>1
  <2>2. op' \in OpType /\ op'.tool = "build_target" /\ op'.all = op.all /\ op'.step = "compile"
    BY <1>1, <1>2, <1>4 DEF OpType, ToolStep
  <2>3. /\ dir'.stamp # NoStamp => Covers(dir'.stamp.tree, dir'.bin.tree)
        /\ op.all => dir'.stamp = NoStamp
    BY <1>2, <2>1 DEF LoopInv, BuildInv
  <2>4. BuildInv'
    BY <1>2, <2>2, <2>3 DEF BuildInv, Covers, SameButOutside
  <2> QED
    BY <1>2, <2>1, <2>2, <2>4, ToolKeeps
<1>5. ASSUME dir' = [dir EXCEPT !.owner = IF @ = "none" THEN "unclaimed" ELSE @], Finish(Failed)
      PROVE  LoopInv'
  <2>1. dir' \in DirType /\ dir'.stamp = dir.stamp /\ dir'.bin = dir.bin
    BY <1>1, <1>5 DEF DirType
  <2>2. Failed \in ToolResult /\ Failed.domain = "fail"
    BY NoToolResults DEF Failed, Result
  <2> QED
    BY <1>2, <1>5, <2>1, <2>2, FinishesWithout
<1> QED
  BY <1>4, <1>5 DEF BuildConfigure

\* Binaries an incremental build leaves: those that were there, or of no tree.
LEMMA TouchedBinaries ==
  ASSUME ToolsTypeOK, NEW d \in DirType
  PROVE  /\ [d EXCEPT !.bin = Touched(@)] \in DirType
         /\ [d EXCEPT !.bin = Touched(@)].stamp = d.stamp
         /\ [d EXCEPT !.bin = Touched(@)].bin.tree \in {d.bin.tree, NoTree}
<1>1. /\ Mixed \in [kind : {"none", "mixed", "whole"}, profile : Profiles \cup {NoProfile},
                    tree : Snapshot]
      /\ Mixed.tree = NoTree
  BY Snapshots DEF Mixed
<1>2. Touched(d.bin) \in {d.bin, Mixed}
  BY DEF Touched
<1> QED
  BY <1>1, <1>2 DEF DirType

LEMMA BuildCompileKeeps ==
  ASSUME LoopInv, pc = "tool", NEW outcome \in CommandOutcomes, BuildCompile(outcome),
         UNCHANGED <<pc, st, stop, mode, phase, worker, proof, result>>
  PROVE  LoopInv'
<1>1. dir \in DirType /\ op \in OpType /\ tree \in Snapshot /\ ToolsTypeOK
  BY TypesOfTools DEF LoopInv, LoopTypeOK
<1>2. /\ UNCHANGED <<tree, outside, patches, journal>>
      /\ op.tool = "build_target" /\ op.step = "compile"
      /\ op' = [op EXCEPT !.step = "compiled", !.unproven = outcome]
  BY DEF BuildCompile
<1>3. /\ op' \in OpType /\ op'.tool = "build_target" /\ op'.all = op.all
      /\ op'.step = "compiled" /\ op'.unproven = outcome
  BY <1>1, <1>2 DEF OpType, ToolStep, CommandOutcomes, ExitKinds
<1>4. CASE op.all /\ outcome = "ok"
  <2>1. dir' = [dir EXCEPT !.bin = Built(op.profile, tree)]
    BY <1>4 DEF BuildCompile
  <2>2. dir' \in DirType /\ dir'.stamp = dir.stamp /\ dir'.bin.tree = tree
    BY <1>1, <2>1 DEF Built, DirType, OpType
  <2>3. dir'.stamp = NoStamp
    BY <1>2, <1>4, <2>2 DEF LoopInv, BuildInv
  <2>4. BuildInv'
    BY <1>2, <1>3, <2>2, <2>3 DEF BuildInv, Covers, SameButOutside
  <2> QED
    BY <1>2, <1>3, <2>2, <2>4, ToolKeeps
<1>5. CASE ~(op.all /\ outcome = "ok")
  <2>1. dir' = [dir EXCEPT !.bin = Touched(@)]
    BY <1>5 DEF BuildCompile
  <2>2. dir' \in DirType /\ dir'.stamp = dir.stamp /\ dir'.bin.tree \in {dir.bin.tree, NoTree}
    BY <1>1, <2>1, TouchedBinaries
  <2>3. /\ dir'.stamp # NoStamp => Covers(dir'.stamp.tree, dir'.bin.tree)
        /\ op.all => dir'.stamp = NoStamp
    BY <1>2, <2>2 DEF LoopInv, BuildInv, Covers
  <2>4. BuildInv'
    BY <1>2, <1>3, <1>5, <2>3 DEF BuildInv, Covers, SameButOutside
  <2> QED
    BY <1>2, <1>3, <2>2, <2>4, ToolKeeps
<1> QED
  BY <1>4, <1>5

LEMMA BuildEndKeeps ==
  ASSUME LoopInv, pc = "tool", BuildEnd,
         UNCHANGED <<pc, st, stop, mode, phase, worker, proof, result>>
  PROVE  LoopInv'
<1> DEFINE ok == op.unproven = "ok"
           moved == ok /\ tree # op.before
           res == IF op.unproven = "timeout" THEN Errored("timeout")
                  ELSE IF moved THEN Unproven("stale")
                  ELSE IF ok THEN Passed ELSE Failed
<1>1. dir \in DirType /\ op \in OpType /\ tree \in Snapshot
  BY TypesOfTools DEF LoopInv, LoopTypeOK
<1>2. /\ UNCHANGED <<tree, outside, patches, journal>>
      /\ op.tool = "build_target" /\ op.step = "compiled" /\ Finish(res)
      /\ dir' \in IF ok /\ op.all /\ ~moved THEN Stamped(dir, op.profile, tree) ELSE {dir}
  BY DEF BuildEnd
<1>3. /\ res \in ToolResult
      /\ ~(ok /\ ~moved) => res.exec # "ok" \/ res.domain \in {"unknown", "fail"}
  BY NoToolResults DEF Reasons, Doubts, Errored, Unproven, Failed, Result
<1> HIDE DEF res
<1>4. CASE ~(ok /\ op.all /\ ~moved)
  <2>1. dir' = dir
    BY <1>2, <1>4
  <2>2. CASE ~(ok /\ ~moved)
    <3>1. res.exec # "ok" \/ res.domain \in {"unknown", "fail"}
      BY <1>3, <2>2
    <3> QED
      BY <1>1, <1>2, <1>3, <2>1, <3>1, FinishesWithout
  <2>3. CASE ok /\ ~moved
    <3>1. ~op.all
      BY <1>4, <2>3
    <3>2. op' \in OpType /\ op'.tool = op.tool /\ op'.all = op.all /\ op'.step = "done"
      BY <1>1, <1>2, <1>3, Finishes
    <3>3. ClassifyProof(op') \notin CurrentTreeProofs
      BY <1>1, <3>1, <3>2, ProofKinds DEF OpType
    <3>4. BuildInv'
      BY <1>2, <2>1, <3>2, <3>3 DEF LoopInv, BuildInv, Covers, SameButOutside
    <3> QED
      BY <1>1, <1>2, <2>1, <3>2, <3>4, ToolKeeps
  <2> QED
    BY <2>2, <2>3
<1>5. CASE ok /\ op.all /\ ~moved
  <2>1. dir' = dir \/ dir' = [dir EXCEPT !.stamp = [profile |-> op.profile, tree |-> tree]]
    BY <1>2, <1>5 DEF Stamped
  <2>2. /\ dir' \in DirType /\ dir'.bin = dir.bin
        /\ dir'.stamp = dir.stamp \/ dir'.stamp.tree = tree
    BY <1>1, <2>1 DEF DirType, OpType
  <2>3. Covers(tree, dir.bin.tree) /\ dir.stamp = NoStamp
    BY <1>2, <1>5 DEF LoopInv, BuildInv, Covers
  <2>4. op' \in OpType /\ op'.tool = op.tool /\ op'.all = op.all /\ op'.step = "done"
    BY <1>1, <1>2, <1>3, Finishes
  <2>5. Covers(tree', dir'.bin.tree)
    BY <1>2, <2>2, <2>3
  <2>6. dir'.stamp # NoStamp => Covers(dir'.stamp.tree, dir'.bin.tree)
    BY <2>2, <2>3
  <2>7. BuildInv'
    BY <1>2, <2>4, <2>5, <2>6 DEF BuildInv, Covers, SameButOutside
  <2> QED
    BY <1>2, <2>2, <2>4, <2>7, ToolKeeps
<1> QED
  BY <1>4, <1>5
LEMMA TestStartKeeps ==
  ASSUME LoopInv, pc = "tool", TestStart,
         UNCHANGED <<pc, st, stop, mode, phase, worker, proof, result>>
  PROVE  LoopInv'
<1>1. dir \in DirType /\ op \in OpType /\ tree \in Snapshot /\ tree \in [Files -> AllTexts]
  BY TypesOfTools DEF LoopInv, LoopTypeOK
<1>2. PICK reason \in Doubts :
        /\ op' = [op EXCEPT !.step = "tests", !.before = tree, !.unproven = reason]
        /\ reason = "none" => dir.stamp # NoStamp /\ StaleFromIdentity(dir.stamp) = {}
  BY DEF TestStart, Doubts
<1>3. UNCHANGED <<tree, outside, dir, patches, journal>> /\ op.tool = "run_test"
  BY DEF TestStart
<1>4. /\ op' \in OpType /\ op'.tool = "run_test" /\ op'.all = op.all /\ op'.step = "tests"
      /\ op'.unproven = reason
  BY <1>1, <1>2, <1>3 DEF OpType, ToolStep
<1>5. dir.stamp # NoStamp => Covers(dir.stamp.tree, dir.bin.tree)
  BY DEF LoopInv, BuildInv
<1>6. reason = "none" => Covers(tree, dir.bin.tree)
  <2> SUFFICES ASSUME reason = "none" PROVE Covers(tree, dir.bin.tree)
    OBVIOUS
  <2>1. Covers(dir.stamp.tree, dir.bin.tree) /\ \A f \in Files : dir.stamp.tree[f] = tree[f]
    BY <1>2, <1>5 DEF StaleFromIdentity
  <2> QED
    BY <2>1 DEF Covers, SameButOutside
<1>7. BuildInv'
  BY <1>3, <1>4, <1>5, <1>6 DEF BuildInv, Covers, SameButOutside
<1> QED
  BY <1>1, <1>3, <1>4, <1>7, ToolKeeps

LEMMA TestEndKeeps ==
  ASSUME LoopInv, pc = "tool", NEW outcome \in CommandOutcomes \cup {"nothing"},
         TestEnd(outcome),
         UNCHANGED <<pc, st, stop, mode, phase, worker, proof, result>>
  PROVE  LoopInv'
<1> DEFINE reason == IF op.unproven # "none" THEN op.unproven
                     ELSE IF tree # op.before THEN "stale" ELSE "none"
           res == IF outcome = "timeout" THEN Errored("timeout")
                  ELSE IF outcome = "nothing" \/ reason # "none" THEN Unproven(reason)
                  ELSE IF outcome = "ok" THEN Passed ELSE Failed
<1>1. dir \in DirType /\ op \in OpType
  BY TypesOfTools DEF LoopInv, LoopTypeOK
<1>2. /\ UNCHANGED <<tree, outside, dir, patches, journal>>
      /\ op.tool = "run_test" /\ op.step = "tests" /\ Finish(res)
  BY DEF TestEnd
<1>3. /\ res.exec \in {"ok", "error"}
      /\ ~(op.unproven = "none") => res.exec # "ok" \/ res.domain \in {"unknown", "fail"}
  BY DEF Errored, Unproven, Passed, Failed, Result
<1>4. CASE op.unproven = "none"
  <2>1. res \in ToolResult
    BY <1>4, NoToolResults DEF Reasons, Doubts
  <2> HIDE DEF res
  <2>2. op' \in OpType /\ op'.tool = op.tool /\ op'.all = op.all /\ op'.step = "done"
    BY <1>1, <1>2, <2>1, Finishes
  <2>3. Covers(tree, dir.bin.tree)
    BY <1>2, <1>4 DEF LoopInv, BuildInv
  <2>4. dir.stamp # NoStamp => Covers(dir.stamp.tree, dir.bin.tree)
    BY DEF LoopInv, BuildInv
  <2>5. BuildInv'
    BY <1>2, <2>2, <2>3, <2>4 DEF BuildInv, Covers, SameButOutside
  <2> QED
    BY <1>1, <1>2, <2>2, <2>5, ToolKeeps
<1>5. CASE op.unproven # "none"
  <2>1. /\ res \in {Errored("timeout"), Unproven(op.unproven)}
        /\ res.exec # "ok" \/ res.domain = "unknown"
    BY <1>5 DEF Errored, Unproven, Result
  <2> HIDE DEF res
  <2>2. CASE op.unproven \in Doubts
    <3>1. res \in ToolResult
      BY <2>1, <2>2, NoToolResults DEF Reasons
    <3> QED
      BY <1>1, <1>2, <2>1, <3>1, FinishesWithout
  <2> QED
    BY <1>2, <2>2 DEF LoopInv, BuildInv
<1> QED
  BY <1>4, <1>5

LEMMA RaisesKeeps ==
  ASSUME LoopInv, pc = "tool",
         NEW reason \in {"command_cancelled", "cleanup_unknown", "missing_executable"},
         CommandRaises(reason),
         UNCHANGED <<pc, st, stop, mode, phase, worker, proof, result>>
  PROVE  LoopInv'
<1> DEFINE res == IF reason = "missing_executable" THEN BlockedBy(reason) ELSE Errored(reason)
<1>1. dir \in DirType /\ op \in OpType /\ ToolsTypeOK
  BY TypesOfTools DEF LoopInv, LoopTypeOK
<1>2. UNCHANGED <<tree, outside, patches, journal>> /\ Finish(res)
  BY DEF CommandRaises
<1>3. res \in ToolResult /\ res.exec # "ok"
  BY NoToolResults DEF Reasons, BlockedBy, Errored, Result
<1>4. dir' = dir \/ dir' = [dir EXCEPT !.bin = Touched(@)]
  BY DEF CommandRaises
<1>5. dir' \in DirType /\ dir'.stamp = dir.stamp /\ dir'.bin.tree \in {dir.bin.tree, NoTree}
  BY <1>1, <1>4, TouchedBinaries
<1> HIDE DEF res
<1> QED
  BY <1>2, <1>3, <1>5, FinishesWithout

LEMMA RefusedKeeps ==
  ASSUME LoopInv, pc = "tool", CommandRefused,
         UNCHANGED <<pc, st, stop, mode, phase, worker, proof, result>>
  PROVE  LoopInv'
<1>1. dir \in DirType
  BY TypesOfTools DEF LoopInv, LoopTypeOK
<1>2. /\ BlockedBy("command_cancelled") \in ToolResult
      /\ BlockedBy("command_cancelled").exec # "ok"
  BY NoToolResults DEF Reasons, BlockedBy, Result
<1> QED
  BY <1>1, <1>2, FinishesWithout DEF CommandRefused

LEMMA ToolStepsKeep == LoopInv /\ ToolSteps => LoopInv'
<1> SUFFICES ASSUME LoopInv, ToolSteps PROVE LoopInv'
  OBVIOUS
<1>1. pc = "tool" /\ UNCHANGED <<pc, st, stop, mode, phase, worker, proof, result>>
  BY DEF ToolSteps, LoopUnchanged
<1>2. \/ BuildStart \/ BuildEnd \/ TestStart
      \/ \E outcome \in CommandOutcomes :
            ConfigureProject(outcome) \/ BuildConfigure(outcome) \/ BuildCompile(outcome)
      \/ \E outcome \in CommandOutcomes \cup {"nothing"} : TestEnd(outcome)
      \/ \E reason \in {"command_cancelled", "cleanup_unknown", "missing_executable"} :
            CommandRaises(reason)
      \/ CommandRefused
  BY DEF ToolSteps
<1> QED
  BY <1>1, <1>2, ConfigureKeeps, BuildStartKeeps, BuildConfigureKeeps, BuildCompileKeeps,
     BuildEndKeeps, TestStartKeeps, TestEndKeeps, RaisesKeeps, RefusedKeeps-----------------------------------------------------------------------------
(* The end of a command, of a run and of a task.                           *)

LEMMA Fresh == FreshState \in AgentState /\ ~FreshState.verified
<1>1. [g \in Signatures |-> 0] \in [Signatures -> 0..MaxRepeats]
  BY LoopAssumption
<1> QED
  BY <1>1 DEF FreshState, AgentState, Halts, Proofs

LEMMA NoOpBuilds ==
  ASSUME BuildInv, op' = NoOp, UNCHANGED dir
  PROVE  BuildInv'
<1>1. op'.tool = "none" /\ op'.step = "none"
  BY DEF NoOp
<1> QED
  BY <1>1 DEF BuildInv, Covers, SameButOutside

LEMMA EndsKeeps == LoopInv /\ CallEnds => LoopInv'
<1> SUFFICES ASSUME LoopInv, CallEnds PROVE LoopInv'
  OBVIOUS
<1> USE DEF LoopInv
<1>1. st \in AgentState /\ op \in OpType /\ dir \in DirType
  BY TypesOfTools DEF LoopTypeOK
<1>2. /\ UNCHANGED <<tree, outside, dir, patches, journal, mode, stop, phase, worker, result>>
      /\ pc = "tool" /\ op' = NoOp /\ op.step = "done"
      /\ proof' = IF ClassifyProof(op) \in CurrentTreeProofs THEN dir.bin.tree ELSE proof
  BY DEF CallEnds
<1> DEFINE s == Judged(Recorded(st, op), op)
<1>3. /\ s \in AgentState
      /\ s.verified =>
           IF ClassifyProof(op) \in CurrentTreeProofs THEN s.full = ClassifyProof(op)
           ELSE st.verified /\ s.full = st.full
  <2>1. Counted(op) => st.repeats[Signature(op)] < MaxRepeats
    BY <1>2 DEF OpInv
  <2>2. op.all \in BOOLEAN /\ op.tool \in ToolName /\ op.result \in ToolResult
    BY <1>1 DEF OpType
  <2> QED
    BY <1>1, <2>1, <2>2, AfterEffect
<1>4. Continue(s)
  BY DEF CallEnds
<1> HIDE DEF s
<1>5. /\ st' \in AgentState /\ st'.verified = s.verified /\ st'.full = s.full
      /\ pc' \in {"call", "turn", "ended"}
  BY <1>3, <1>4, ContinueEffect
<1>6. LoopTypeOK'
  <2>1. proof' \in Snapshot
    BY <1>1, <1>2 DEF LoopTypeOK, DirType
  <2>2. ToolsTypeOK'
    BY <1>2, CallToolTypes DEF LoopTypeOK, ToolsTypeOK, OpType
  <2> QED
    BY <1>2, <1>5, <2>1, <2>2 DEF LoopTypeOK
<1>7. OpInv'
  BY <1>2, <1>5 DEF OpInv
<1>8. BuildInv'
  BY <1>2, NoOpBuilds
<1>9. CandidateInv' /\ JournalInv'
  BY <1>2, CandidateSame, JournalSame
<1>10. MarkInv'
  <2>1. VerifiedIsCurrent'
    <3>1. CASE ClassifyProof(op) \in CurrentTreeProofs
      <4>1. Covers(tree, dir.bin.tree)
        BY <1>2, <3>1 DEF BuildInv
      <4> QED
        BY <1>2, <3>1, <4>1 DEF VerifiedIsCurrent, Covers, SameButOutside
    <3>2. CASE ClassifyProof(op) \notin CurrentTreeProofs
      BY <1>2, <1>3, <1>5, <3>2 DEF MarkInv, VerifiedIsCurrent, SameButOutside
    <3> QED
      BY <3>1, <3>2
  <2>2. st'.verified => st'.full \in CurrentTreeProofs
    BY <1>3, <1>5 DEF MarkInv
  <2>3. result = NoResult /\ ~result.verified
    BY <1>2 DEF MarkInv, NoResult
  <2> QED
    BY <1>2, <2>1, <2>2, <2>3 DEF MarkInv, NoResult, NoTree
<1> QED
  BY <1>6, <1>7, <1>8, <1>9, <1>10

\* A finished run's result, with the tree it is about.
LEMMA ResultTypes ==
  ASSUME LoopTypeOK, NEW outcome \in {"pass", "fail", "escalated_pass", "escalated_fail",
                                      "blocked", "no_verdict"},
         NEW verified \in BOOLEAN, NEW reason,
         [NoResult EXCEPT !.reason = reason] \in RunResult
  PROVE  /\ TaskResult(outcome, verified, reason, st) \in RunResult
         /\ TaskResult(outcome, verified, reason, st).verified = verified
         /\ TaskResult(outcome, verified, reason, st).tree = tree
         /\ st.verified => TaskResult(outcome, verified, reason, st).scope = st.full
<1>1. /\ st.full \in Proofs /\ st.last \in Proofs /\ tree \in Snapshot
  BY Snapshots DEF LoopTypeOK, ToolsTypeOK, AgentState, Proofs
<1> QED
  BY <1>1 DEF TaskResult, RunResult, NoResult

LEMMA Reported ==
  /\ Outcome(st) \in {"blocked", "escalated_fail", "escalated_pass", "fail", "pass"}
  /\ ProductOutcome(st) \in {"pass", "fail", "escalated_pass", "escalated_fail", "blocked",
                             "no_verdict"}
  /\ WorkerOutcome(st) \in {"pass", "fail", "escalated_pass", "escalated_fail", "blocked",
                            "no_verdict"}
<1>1. Outcome(st) \in {"blocked", "escalated_fail", "escalated_pass", "fail", "pass"}
  BY DEF Outcome
<1>2. ProductOutcome(st) \in {"pass", "fail", "escalated_pass", "escalated_fail", "blocked",
                              "no_verdict"}
  BY <1>1 DEF ProductOutcome
<1> QED
  BY <1>1, <1>2 DEF WorkerOutcome

RunReasons ==
    {"none", "endpoint_unavailable", "inference_timeout", "unavailable_capability",
     "cancel_unreconciled", "cleanup_unknown", "verification_passed",
     "verification_failed", "missing_evidence", "blocked_call", "cancelled",
     "policy_denied"}

LEMMA ReasonsReported ==
  /\ \A outcome : ReasonCode(st, outcome) \in RunReasons
  /\ WorkerReason(st) \in RunReasons
  /\ \A reason \in RunReasons : [NoResult EXCEPT !.reason = reason] \in RunResult
  /\ NoResult \in RunResult
<1>1. \A outcome : ReasonCode(st, outcome) \in RunReasons
  BY DEF ReasonCode, RunReasons
<1>2. WorkerReason(st) \in RunReasons
  BY <1>1 DEF WorkerReason, RunReasons
<1>3. "none" \in Proofs /\ NoTree \in Snapshot
  BY Snapshots DEF Proofs
<1> QED
  BY <1>1, <1>2, <1>3 DEF NoResult, RunResult, RunReasons
\* Nothing but the result is new, and it claims no more than the run holds.
LEMMA ConcludeKeeps ==
  ASSUME LoopInv, UNCHANGED <<toolVars, mode, stop, phase, st, worker, proof>>,
         pc # "tool", pc' \in {"settle", "done"}, result' \in RunResult,
         result'.verified =>
           /\ st.verified /\ result'.scope = st.full
           /\ mode \in {"fix-test", "change"} => st.tests
           /\ Candidate => result'.tree = tree
  PROVE  LoopInv'
<1> USE DEF LoopInv
<1>0. UNCHANGED <<tree, outside, dir, patches, journal, op>>
  BY DEF toolVars
<1>1. LoopTypeOK'
  <2>1. ToolsTypeOK'
    BY ToolsSame DEF LoopTypeOK
  <2> QED
    BY <2>1 DEF LoopTypeOK
<1>2. OpInv'
  BY <1>0 DEF OpInv
<1>3. BuildInv' /\ CandidateInv' /\ JournalInv'
  BY <1>0, BuildSame, CandidateSame, JournalSame
<1>4. MarkInv'
  <2>1. VerifiedIsCurrent'
    BY <1>0 DEF MarkInv, VerifiedIsCurrent, SameButOutside
  <2>2. /\ ~worker'.verified
        /\ st'.verified => st'.full \in CurrentTreeProofs
    BY DEF MarkInv
  <2>3. /\ pc' \notin {"settle", "done"} => result' = NoResult
        /\ result'.verified =>
             /\ st'.verified /\ result'.scope = st'.full
             /\ mode' \in {"fix-test", "change"} => st'.tests
             /\ Candidate' => result'.tree = tree'
    BY <1>0 DEF Candidate
  <2> QED
    BY <2>1, <2>2, <2>3 DEF MarkInv, NoResult, NoTree, Candidate
<1> QED
  BY <1>1, <1>2, <1>3, <1>4

LEMMA CliKeeps == LoopInv /\ ConcludeCli => LoopInv'
<1> SUFFICES ASSUME LoopInv, ConcludeCli PROVE LoopInv'
  OBVIOUS
<1>1. /\ LoopTypeOK /\ st.verified \in BOOLEAN
      /\ [NoResult EXCEPT !.reason = "none"] \in RunResult
  BY ReasonsReported DEF LoopInv, LoopTypeOK, AgentState, RunReasons
<1>2. result' = TaskResult(Outcome(st), st.verified, "none", st)
  BY DEF ConcludeCli
<1>3. /\ result' \in RunResult /\ result'.verified = st.verified
      /\ st.verified => result'.scope = st.full
  BY <1>1, <1>2, Reported, ResultTypes
<1>4. ~Candidate /\ mode \notin {"fix-test", "change"} /\ pc = "ended" /\ pc' = "done"
  BY DEF ConcludeCli, Candidate
<1> QED
  BY <1>3, <1>4, ConcludeKeeps DEF ConcludeCli

LEMMA CheckKeeps == LoopInv /\ ConcludeCheck => LoopInv'
<1> SUFFICES ASSUME LoopInv, ConcludeCheck PROVE LoopInv'
  OBVIOUS
<1> DEFINE outcome == IF st.blocked THEN "blocked" ELSE ProductOutcome(st)
           verified == Succeeded(outcome) /\ st.verified
<1>1. /\ LoopTypeOK /\ verified \in BOOLEAN
      /\ [NoResult EXCEPT !.reason = ReasonCode(st, outcome)] \in RunResult
  BY ReasonsReported DEF LoopInv, LoopTypeOK, AgentState, Succeeded
<1>2. outcome \in {"pass", "fail", "escalated_pass", "escalated_fail", "blocked", "no_verdict"}
  BY Reported
<1>3. result' = TaskResult(outcome, verified, ReasonCode(st, outcome), st)
  BY DEF ConcludeCheck
<1>4. verified => st.verified
  OBVIOUS
<1> HIDE DEF outcome, verified
<1>5. /\ result' \in RunResult /\ result'.verified = verified
      /\ st.verified => result'.scope = st.full
  BY <1>1, <1>2, <1>3, ResultTypes
<1>6. ~Candidate /\ mode \notin {"fix-test", "change"} /\ pc = "ended" /\ pc' = "done"
  BY DEF ConcludeCheck, Candidate
<1> QED
  BY <1>4, <1>5, <1>6, ConcludeKeeps DEF ConcludeCheck

LEMMA StoppedKeeps == LoopInv /\ CandidateStopped => LoopInv'
<1> SUFFICES ASSUME LoopInv, CandidateStopped PROVE LoopInv'
  OBVIOUS
<1>1. tree \in Snapshot /\ "none" \in Proofs
  BY TypesOfTools DEF LoopInv, LoopTypeOK, Proofs
<1>2. result' \in RunResult /\ ~result'.verified
  BY <1>1 DEF CandidateStopped, RunResult
<1> QED
  BY <1>2, ConcludeKeeps DEF CandidateStopped

\* The verdict on a candidate's worker.
LEMMA WorkerResultFacts ==
  ASSUME LoopInv
  PROVE  /\ WorkerResult \in RunResult
         /\ WorkerResult.verified <=> WorkerVerified(st)
         /\ WorkerVerified(st) =>
              /\ st.verified /\ WorkerResult.scope = st.full
              /\ mode \in {"fix-test", "change"} => st.tests
         /\ WorkerResult.tree = tree
<1>1. WorkerVerified(st) \in BOOLEAN
  BY DEF WorkerVerified, Succeeded, ProofSatisfied, LoopInv, LoopTypeOK, AgentState
<1>2. LoopTypeOK /\ [NoResult EXCEPT !.reason = WorkerReason(st)] \in RunResult
  BY ReasonsReported DEF LoopInv
<1>3. WorkerVerified(st) => st.verified /\ (mode \in {"fix-test", "change"} => st.tests)
  BY DEF WorkerVerified, ProofSatisfied
<1>4. /\ WorkerResult \in RunResult /\ WorkerResult.verified = WorkerVerified(st)
      /\ WorkerResult.tree = tree
      /\ st.verified => WorkerResult.scope = st.full
  BY <1>1, <1>2, Reported, ResultTypes DEF WorkerResult
<1> QED
  BY <1>1, <1>3, <1>4

LEMMA JudgedKeeps == LoopInv /\ CandidateJudged => LoopInv'
<1> SUFFICES ASSUME LoopInv, CandidateJudged PROVE LoopInv'
  OBVIOUS
<1>1. result' = WorkerResult /\ pc = "ended" /\ pc' = "settle"
  BY DEF CandidateJudged
<1> QED
  BY <1>1, WorkerResultFacts, ConcludeKeeps DEF CandidateJudged

LEMMA CheckedKeeps == LoopInv /\ CandidateChecked => LoopInv'
<1> SUFFICES ASSUME LoopInv, CandidateChecked PROVE LoopInv'
  OBVIOUS
<1>1. LoopTypeOK /\ worker \in RunResult /\ ~worker.verified
  BY DEF LoopInv, LoopTypeOK, MarkInv
<1>2. \A reason \in RunReasons : [NoResult EXCEPT !.reason = reason] \in RunResult
  BY ReasonsReported
<1>3. CASE result' = TaskResult("no_verdict", FALSE, "cleanup_unknown", st)
  <2>1. result' \in RunResult /\ ~result'.verified
    BY <1>1, <1>2, <1>3, ResultTypes DEF RunReasons
  <2> QED
    BY <2>1, ConcludeKeeps DEF CandidateChecked
<1>4. CASE result' = TaskResult("pass", TRUE, "verification_passed", st) /\ ProofSatisfied(st)
  <2>1. st.verified /\ (mode \in {"fix-test", "change"} => st.tests)
    BY <1>4 DEF ProofSatisfied
  <2>2. result' \in RunResult /\ result'.tree = tree /\ result'.scope = st.full
    BY <1>1, <1>2, <1>4, <2>1, ResultTypes DEF RunReasons
  <2> QED
    BY <2>1, <2>2, ConcludeKeeps DEF CandidateChecked
<1>5. CASE result' = TaskResult("fail", FALSE, "verification_failed", st)
  <2>1. result' \in RunResult /\ ~result'.verified
    BY <1>1, <1>2, <1>5, ResultTypes DEF RunReasons
  <2> QED
    BY <2>1, ConcludeKeeps DEF CandidateChecked
<1>6. CASE result' = worker
  BY <1>1, <1>6, ConcludeKeeps DEF CandidateChecked
<1> QED
  BY <1>3, <1>4, <1>5, <1>6 DEF CandidateChecked

LEMMA SettledKeeps ==
  ASSUME LoopInv, NEW refused \in BOOLEAN, CandidateSettled(refused)
  PROVE  LoopInv'
<1>1. result \in RunResult /\ pc = "settle" /\ pc' = "done"
  BY DEF LoopInv, LoopTypeOK, CandidateSettled
<1>2. CASE refused
  <2>1. result' = [result EXCEPT !.outcome = "blocked", !.verified = FALSE,
                                 !.reason = "policy_denied"]
    BY <1>2 DEF CandidateSettled
  <2>2. result' \in RunResult /\ ~result'.verified
    BY <1>1, <2>1 DEF RunResult
  <2> QED
    BY <1>1, <2>2, ConcludeKeeps DEF CandidateSettled
<1>3. CASE ~refused
  <2>1. result' = result
    BY <1>3 DEF CandidateSettled
  <2>2. result.verified =>
          /\ st.verified /\ result.scope = st.full
          /\ mode \in {"fix-test", "change"} => st.tests
          /\ Candidate => result.tree = tree
    BY DEF LoopInv, MarkInv
  <2> QED
    BY <1>1, <2>1, <2>2, ConcludeKeeps DEF CandidateSettled
<1> QED
  BY <1>2, <1>3

LEMMA CheckStartsKeeps == LoopInv /\ CandidateCheckStarts => LoopInv'
<1> SUFFICES ASSUME LoopInv, CandidateCheckStarts PROVE LoopInv'
  OBVIOUS
<1> USE DEF LoopInv
<1>1. /\ UNCHANGED <<tree, outside, dir, patches, journal, op, mode, stop, result>>
      /\ worker' = WorkerResult /\ st' = FreshState /\ phase' = "check" /\ pc' = "turn"
      /\ proof' = NoTree /\ pc = "ended" /\ ~WorkerVerified(st)
  BY DEF CandidateCheckStarts, toolVars
<1>2. worker' \in RunResult /\ ~worker'.verified
  BY <1>1, WorkerResultFacts
<1>3. st' \in AgentState /\ ~st'.verified
  BY <1>1, Fresh
<1>4. LoopTypeOK'
  <2>1. ToolsTypeOK'
    BY <1>1 DEF LoopTypeOK, ToolsTypeOK
  <2> QED
    BY <1>1, <1>2, <1>3, <2>1, Snapshots DEF LoopTypeOK
<1>5. OpInv'
  BY <1>1 DEF OpInv
<1>6. BuildInv' /\ CandidateInv' /\ JournalInv'
  BY <1>1, BuildSame, CandidateSame, JournalSame
<1>7. MarkInv'
  <2>1. result = NoResult /\ ~result.verified
    BY <1>1 DEF MarkInv, NoResult
  <2> QED
    BY <1>1, <1>2, <1>3, <2>1 DEF MarkInv, VerifiedIsCurrent, NoResult, NoTree
<1> QED
  BY <1>4, <1>5, <1>6, <1>7

LEMMA StopKeeps == LoopInv /\ PressStop => LoopInv'
<1> SUFFICES ASSUME LoopInv, PressStop PROVE LoopInv'
  OBVIOUS
<1> USE DEF LoopInv
<1>1. UNCHANGED <<tree, outside, dir, patches, journal, op, mode, phase, worker, proof, result,
                  pc, st>>
      /\ stop' = TRUE
  BY DEF PressStop, toolVars, LoopUnchanged
<1>2. LoopTypeOK'
  <2>1. ToolsTypeOK'
    BY <1>1 DEF LoopTypeOK, ToolsTypeOK
  <2> QED
    BY <1>1, <2>1 DEF LoopTypeOK
<1>3. OpInv'
  BY <1>1 DEF OpInv
<1>4. BuildInv' /\ CandidateInv' /\ JournalInv'
  BY <1>1, BuildSame, CandidateSame, JournalSame
<1>5. MarkInv'
  BY <1>1 DEF MarkInv, VerifiedIsCurrent, SameButOutside, Candidate
<1> QED
  BY <1>2, <1>3, <1>4, <1>5-----------------------------------------------------------------------------
(* Somebody else edits.                                                    *)

LEMMA OutsiderKeeps == LoopInv /\ Outsider => LoopInv'
<1> SUFFICES ASSUME LoopInv, Outsider PROVE LoopInv'
  OBVIOUS
<1> USE DEF LoopInv
<1>1. PICK f \in Files : OutsideEdit(f)
  BY DEF Outsider
<1> DEFINE text == Largest + outside + 1
<1>2. /\ UNCHANGED <<dir, patches, journal, op, mode, stop, phase, worker, proof, result, pc, st>>
      /\ tree' = [tree EXCEPT ![f] = text] /\ ~Candidate
      /\ outside < MaxOutside /\ outside' = outside + 1
  BY <1>1 DEF Outsider, OutsideEdit, LoopUnchanged
<1>3. tree \in [Files -> AllTexts] /\ outside \in 0..MaxOutside
  BY DEF LoopTypeOK, ToolsTypeOK
<1>4. text \in AllTexts /\ OutsideText(text) /\ outside' \in 0..MaxOutside
  <2>1. text \in (Largest + 1)..(Largest + MaxOutside)
    BY <1>2, <1>3, LargestText
  <2> QED
    BY <1>2, <1>3, <2>1, LargestText DEF AllTexts, OutsideText
<1> HIDE DEF text
<1>5. tree' \in [Files -> AllTexts] /\ \A g \in Files : tree'[g] = IF g = f THEN text ELSE tree[g]
  BY <1>2, <1>3, <1>4
<1>6. \A u : SameButOutside(tree, u) => SameButOutside(tree', u)
  BY <1>4, <1>5 DEF SameButOutside
<1>7. LoopTypeOK'
  <2>1. ToolsTypeOK'
    BY <1>2, <1>4, <1>5 DEF LoopTypeOK, ToolsTypeOK
  <2> QED
    BY <1>2, <2>1 DEF LoopTypeOK
<1>8. OpInv'
  BY <1>2 DEF OpInv
<1>9. BuildInv'
  <2>1. /\ op'.tool = "build_target" /\ op'.all /\ op'.step = "compiled" /\ op'.unproven = "ok"
             => SameButOutside(tree', dir'.bin.tree)
    BY <1>2, <1>6 DEF BuildInv
  <2>2. /\ op'.tool = "run_test" /\ op'.step = "tests" /\ op'.unproven = "none"
             => Covers(tree', dir'.bin.tree)
    BY <1>2, <1>6 DEF BuildInv, Covers
  <2>3. op'.step = "done" /\ ClassifyProof(op') \in CurrentTreeProofs
             => Covers(tree', dir'.bin.tree)
    BY <1>2, <1>6 DEF BuildInv, Covers
  <2>4. dir'.stamp # NoStamp => Covers(dir'.stamp.tree, dir'.bin.tree)
    BY <1>2 DEF BuildInv
  <2> HIDE DEF LoopInv
  <2> QED
    BY <1>2, <2>1, <2>2, <2>3, <2>4 DEF LoopInv, BuildInv, Covers, SameButOutside
<1>10. CandidateInv'
  BY <1>2 DEF CandidateInv, Candidate
<1>11. JournalInv'
  <2> SUFFICES ASSUME phase = "first"
               PROVE  /\ \A i \in 1 .. Len(journal') :
                           Left(journal[i].file, i - 1, journal[i].before)'
                      /\ \A g \in Files : Left(g, Len(journal), tree[g])'
    BY <1>2 DEF JournalInv
  <2>1. \A i \in 1 .. Len(journal') : Left(journal[i].file, i - 1, journal[i].before)'
    BY <1>2 DEF JournalInv, Left
  <2>2. ASSUME NEW g \in Files PROVE Left(g, Len(journal), tree[g])'
    <3>1. CASE g = f
      BY <1>4, <1>5, <3>1 DEF Left
    <3>2. CASE g # f
      BY <1>2, <1>5, <3>2 DEF JournalInv, Left
    <3> QED
      BY <3>1, <3>2
  <2> QED
    BY <2>1, <2>2
<1>12. MarkInv'
  <2>1. VerifiedIsCurrent'
    <3>1. st'.verified => proof' = NoTree \/ SameButOutside(tree', proof')
      BY <1>2, <1>6 DEF MarkInv, VerifiedIsCurrent
    <3> QED
      BY <3>1 DEF VerifiedIsCurrent, SameButOutside
  <2> QED
    BY <1>2, <2>1 DEF MarkInv, Candidate
<1> QED
  BY <1>7, <1>8, <1>9, <1>10, <1>11, <1>12

-----------------------------------------------------------------------------
(* MutationJournal.revert, entry by entry.                                 *)

\* Induction on a set of numbers.
LEMMA EveryNumber ==
  ASSUME NEW S \in SUBSET Nat, 0 \in S, \A n \in S : n + 1 \in S
  PROVE  S = Nat
<1> DEFINE R == Nat \ S
<1>1. SUFFICES ASSUME R # {} PROVE FALSE
  OBVIOUS
<1>2. PICK m \in R : \A q \in R : ~(<<q, m>> \in OpToRel(<, Nat))
  <2>1. R \subseteq Nat
    OBVIOUS
  <2> HIDE DEF R
  <2> QED
    BY <1>1, <2>1, NatLessThanWellFounded, WFMin
<1>3. m \in Nat /\ m # 0 /\ m - 1 \in Nat
  OBVIOUS
<1>4. m - 1 \in S
  <2>1. ASSUME m - 1 \in R PROVE FALSE
    <3> DEFINE q == m - 1
    <3>1. q \in R /\ q \in Nat /\ q < m
      BY <1>3, <2>1
    <3> HIDE DEF q, R
    <3>2. <<q, m>> \in Nat \X Nat /\ <<q, m>>[1] = q /\ <<q, m>>[2] = m
      BY <1>3, <3>1
    <3> QED
      BY <1>2, <3>1, <3>2 DEF OpToRel
  <2> QED
    BY <1>3, <2>1
<1> QED
  BY <1>3, <1>4

\* t[k]: the tree after the k newest entries, for k up to n.
Undoes(n, t) ==
  t = [k \in 0 .. n |-> IF k = 0 THEN tree ELSE RevertEntry(t[k - 1], Newest(k))]

LEMMA UndoesAll ==
  ASSUME NEW n \in Nat
  PROVE  \E t : Undoes(n, t)
<1> DEFINE S == {m \in Nat : \E t : Undoes(m, t)}
<1>1. 0 \in S
  <2> DEFINE f == [k \in 0 .. 0 |-> tree]
  <2>1. f = [k \in 0 .. 0 |-> IF k = 0 THEN tree ELSE RevertEntry(f[k - 1], Newest(k))]
    OBVIOUS
  <2>2. Undoes(0, f)
    BY <2>1 DEF Undoes
  <2> QED
    BY <2>2
<1>2. ASSUME NEW m \in S PROVE m + 1 \in S
  <2>1. m \in Nat
    OBVIOUS
  <2>2. PICK f : Undoes(m, f)
    OBVIOUS
  <2> DEFINE g == [k \in 0 .. m + 1 |->
                     IF k <= m THEN f[k] ELSE RevertEntry(f[m], Newest(m + 1))]
  <2>3. \A k \in 0 .. m : f[k] = IF k = 0 THEN tree ELSE RevertEntry(f[k - 1], Newest(k))
    BY <2>1, <2>2 DEF Undoes
  <2>4. \A k \in 0 .. m + 1 : g[k] = IF k = 0 THEN tree ELSE RevertEntry(g[k - 1], Newest(k))
    <3>1. ASSUME NEW k \in 0 .. m + 1
          PROVE  g[k] = IF k = 0 THEN tree ELSE RevertEntry(g[k - 1], Newest(k))
      <4>1. CASE k = 0
        BY <2>1, <2>3, <4>1
      <4>2. CASE k # 0 /\ k <= m
        <5>1. k \in 0 .. m /\ k - 1 \in 0 .. m + 1 /\ k - 1 <= m
          BY <2>1, <4>2
        <5>2. g[k] = f[k] /\ g[k - 1] = f[k - 1]
          BY <4>2, <5>1
        <5> HIDE DEF g
        <5> QED
          BY <2>3, <4>2, <5>1, <5>2
      <4>3. CASE k = m + 1
        <5>1. g[m + 1] = RevertEntry(f[m], Newest(m + 1)) /\ g[m] = f[m]
          BY <2>1
        <5>2. k - 1 = m /\ k # 0
          BY <2>1, <4>3
        <5> HIDE DEF g
        <5> QED
          BY <4>3, <5>1, <5>2
      <4> QED
        BY <2>1, <4>1, <4>2, <4>3
    <3> QED
      BY <3>1
  <2>5. Undoes(m + 1, g)
    <3> DEFINE h == [k \in 0 .. m + 1 |->
                       IF k = 0 THEN tree ELSE RevertEntry(g[k - 1], Newest(k))]
    <3>1. g = h
      <4>1. g = [k \in 0 .. m + 1 |-> g[k]]
        OBVIOUS
      <4> HIDE DEF g
      <4> QED
        BY <2>4, <4>1
    <3> HIDE DEF g
    <3> QED
      BY <3>1 DEF Undoes
  <2> QED
    BY <2>1, <2>5
<1>3. S = Nat
  <2> HIDE DEF S
  <2>1. S \in SUBSET Nat
    BY DEF S
  <2> QED
    BY <1>1, <1>2, <2>1, EveryNumber
<1> QED
  BY <1>3

\* The steps of Reverts.
LEMMA RevertSteps ==
  ASSUME LoopTypeOK
  PROVE  /\ Len(journal) \in Nat
         /\ Reverts[0] = tree
         /\ \A n \in 1 .. Len(journal) : Reverts[n] = RevertEntry(Reverts[n - 1], Newest(n))
<1> DEFINE L == Len(journal)
           t == CHOOSE t : Undoes(L, t)
<1>1. L \in Nat
  BY DEF LoopTypeOK, ToolsTypeOK
<1>2. Undoes(L, t)
  BY <1>1, UndoesAll
<1>3. Reverts = t
  BY DEF Reverts, Undoes
<1> HIDE DEF t
<1>4. \A k \in 0 .. L : t[k] = IF k = 0 THEN tree ELSE RevertEntry(t[k - 1], Newest(k))
  BY <1>2 DEF Undoes
<1> QED
  BY <1>1, <1>3, <1>4
\* The entries of f among the n newest replaced somebody else's text.
Replaces(f, n) ==
    \E i \in Len(journal) - n + 1 .. Len(journal) :
        journal[i].file = f /\ OutsideText(journal[i].before)

\* After the n newest entries every file is what the entries before them left, and
\* somebody else's text is never lost.
LEMMA RevertInvariant ==
  ASSUME LoopInv, phase = "first"
  PROVE  \A n \in 0 .. Len(journal) :
           /\ Reverts[n] \in [Files -> AllTexts]
           /\ \A f \in Files :
                /\ Left(f, Len(journal) - n, Reverts[n][f])
                /\ OutsideText(Reverts[n][f]) <=> OutsideText(tree[f]) \/ Replaces(f, n)
<1> DEFINE L == Len(journal)
           R == Reverts
           Good(n) ==
             /\ R[n] \in [Files -> AllTexts]
             /\ \A f \in Files :
                  /\ Left(f, L - n, R[n][f])
                  /\ OutsideText(R[n][f]) <=> OutsideText(tree[f]) \/ Replaces(f, n)
           S == {n \in Nat : n <= L => Good(n)}
<1>1. /\ L \in Nat /\ R[0] = tree
      /\ \A n \in 1 .. L : R[n] = RevertEntry(R[n - 1], Newest(n))
  BY RevertSteps DEF LoopInv
<1>2. /\ tree \in [Files -> AllTexts]
      /\ \A i \in 1 .. L : journal[i] \in [file : Files, before : AllTexts, after : Texts]
  <2>1. tree \in [Files -> AllTexts]
    BY DEF LoopInv, LoopTypeOK, ToolsTypeOK
  <2>2. journal \in Seq([file : Files, before : AllTexts, after : Texts])
    BY DEF LoopInv, LoopTypeOK, ToolsTypeOK
  <2> QED
    BY <2>1, <2>2, ElementOfSeq
<1>3. /\ \A i \in 1 .. L : Left(journal[i].file, i - 1, journal[i].before)
      /\ \A f \in Files : Left(f, L, tree[f])
  BY DEF LoopInv, JournalInv
<1> HIDE DEF R
<1>4. 0 \in S
  <2>1. \A f : ~Replaces(f, 0)
    BY <1>1 DEF Replaces
  <2>2. L - 0 = L
    BY <1>1
  <2>3. Good(0)
    BY <1>1, <1>2, <1>3, <2>1, <2>2
  <2> QED
    BY <2>3
<1>5. ASSUME NEW n \in S PROVE n + 1 \in S
  <2> DEFINE e == journal[L - n]
             m == L - n
  <2>1. SUFFICES ASSUME n + 1 <= L PROVE Good(n + 1)
    OBVIOUS
  <2>2. n \in Nat /\ Good(n)
    BY <1>1, <2>1
  <2>3. /\ m \in 1 .. L /\ L - (n + 1) = m - 1 /\ L - n + 1 = m + 1 /\ L - (n + 1) + 1 = m
        /\ n + 1 \in 1 .. L /\ (n + 1) - 1 = n /\ L + 1 - (n + 1) = m
    BY <1>1, <2>1, <2>2
  <2>4. R[n + 1] = RevertEntry(R[n], e)
    BY <1>1, <2>3 DEF Newest
  <2>5. e \in [file : Files, before : AllTexts, after : Texts] /\ ~OutsideText(e.after)
    BY <1>2, <2>3, WorkersTexts
  <2>6. R[n + 1] \in [Files -> AllTexts]
    BY <2>2, <2>4, <2>5 DEF RevertEntry
  <2>7. \A f : Replaces(f, n + 1) <=> (e.file = f /\ OutsideText(e.before)) \/ Replaces(f, n)
    <3> SUFFICES ASSUME NEW f
                 PROVE  Replaces(f, n + 1) <=>
                          (e.file = f /\ OutsideText(e.before)) \/ Replaces(f, n)
      OBVIOUS
    <3>1. \A i : i \in m .. L <=> i = m \/ i \in m + 1 .. L
      BY <1>1, <2>3
    <3>2. /\ Replaces(f, n + 1) <=>
               \E i \in m .. L : journal[i].file = f /\ OutsideText(journal[i].before)
          /\ Replaces(f, n) <=>
               \E i \in m + 1 .. L : journal[i].file = f /\ OutsideText(journal[i].before)
      BY <2>3 DEF Replaces
    <3> HIDE DEF m
    <3> QED
      BY <3>1, <3>2 DEF m
  <2>8. ASSUME NEW f \in Files
        PROVE  /\ Left(f, m - 1, R[n + 1][f])
               /\ OutsideText(R[n + 1][f]) <=> OutsideText(tree[f]) \/ Replaces(f, n + 1)
    <3>1. /\ Left(f, m, R[n][f])
          /\ OutsideText(R[n][f]) <=> OutsideText(tree[f]) \/ Replaces(f, n)
      BY <2>2
    <3>2. CASE e.file # f
      <4>1. R[n + 1][f] = R[n][f]
        BY <2>2, <2>4, <3>2 DEF RevertEntry
      <4>2. Left(f, m - 1, R[n][f])
        <5>1. m \in Nat /\ \A i : i \in 1 .. m <=> i = m \/ i \in 1 .. m - 1
          BY <1>1, <2>3
        <5>2. journal[m].file # f
          BY <3>2
        <5>3. ASSUME NEW i \in 1 .. m, journal[i].file = f, journal[i].after = R[n][f],
                     \A k \in i + 1 .. m : journal[k].file # f
              PROVE  Left(f, m - 1, R[n][f])
          <6>1. i \in 1 .. m - 1
            BY <5>1, <5>2, <5>3
          <6>2. \A k \in i + 1 .. m - 1 : k \in i + 1 .. m
            BY <5>1
          <6> HIDE DEF m
          <6> QED
            BY <5>3, <6>1, <6>2 DEF Left
        <5> HIDE DEF m
        <5> QED
          BY <3>1, <5>1, <5>3 DEF Left
      <4> QED
        BY <2>7, <3>1, <3>2, <4>1, <4>2
    <3>3. CASE e.file = f /\ OutsideText(R[n][f])
      <4>1. R[n + 1][f] = R[n][f]
        BY <2>4, <2>5, <3>3 DEF RevertEntry
      <4> QED
        BY <2>7, <3>1, <3>3, <4>1 DEF Left
    <3>4. CASE e.file = f /\ ~OutsideText(R[n][f])
      <4>1. R[n][f] = e.after
        BY <2>3, <3>1, <3>4 DEF Left
      <4>2. R[n + 1][f] = e.before
        BY <2>2, <2>4, <2>5, <3>4, <4>1 DEF RevertEntry
      <4>3. Left(f, m - 1, e.before)
        BY <1>3, <2>3, <3>4
      <4> QED
        BY <2>7, <3>1, <3>4, <4>2, <4>3
    <3> QED
      BY <3>2, <3>3, <3>4
  <2> HIDE DEF e, m
  <2> QED
    BY <2>3, <2>6, <2>8
<1>6. S = Nat
  <2> HIDE DEF S
  <2>1. S \in SUBSET Nat
    BY DEF S
  <2> QED
    BY <1>4, <1>5, <2>1, EveryNumber
<1>7. \A n \in 0 .. L : Good(n)
  <2>1. \A n \in 0 .. L : n \in S /\ n <= L
    BY <1>1, <1>6
  <2> HIDE DEF Good
  <2> QED
    BY <2>1
<1> QED
  BY <1>7 DEF R

\* What escalation leaves in a file.
LEMMA EscalationRestoresFiles ==
  ASSUME LoopInv, Escalate
  PROVE  /\ tree' \in [Files -> AllTexts]
         /\ \A f \in Files : IF OutsideTextsOf(f) = {} THEN tree'[f] = Original(f)
                             ELSE OutsideText(tree'[f])
<1> DEFINE L == Len(journal)
<1>1. phase = "first" /\ tree' = Reverts[L]
  BY DEF Escalate, Speculative, RevertJournal, RevertedTree
<1>2. L \in Nat
  BY RevertSteps DEF LoopInv
<1>3. /\ Reverts[L] \in [Files -> AllTexts]
      /\ \A f \in Files :
           /\ Left(f, L - L, Reverts[L][f])
           /\ OutsideText(Reverts[L][f]) <=> OutsideText(tree[f]) \/ Replaces(f, L)
  BY <1>1, <1>2, RevertInvariant
<1>4. \A f \in Files : OutsideTextsOf(f) = {} <=> ~(OutsideText(tree[f]) \/ Replaces(f, L))
  <2> SUFFICES ASSUME NEW f \in Files
               PROVE  OutsideTextsOf(f) = {} <=> ~(OutsideText(tree[f]) \/ Replaces(f, L))
    OBVIOUS
  <2>1. L - L + 1 = 1
    BY <1>2
  <2>2. Replaces(f, L) <=> \E i \in 1 .. L : journal[i].file = f /\ OutsideText(journal[i].before)
    BY <2>1 DEF Replaces
  <2>3. OutsideTextsOf(f) = {} <=>
          /\ ~OutsideText(tree[f])
          /\ ~\E i \in 1 .. L : journal[i].file = f /\ OutsideText(journal[i].before)
    BY DEF OutsideTextsOf
  <2> QED
    BY <2>2, <2>3
<1>5. \A f \in Files : OutsideText(tree'[f]) \/ tree'[f] = Original(f)
  BY <1>1, <1>2, <1>3 DEF Left
<1> QED
  BY <1>1, <1>3, <1>4, <1>5

LEMMA EscalateKeeps == LoopInv /\ Escalate => LoopInv'
<1> SUFFICES ASSUME LoopInv, Escalate PROVE LoopInv'
  OBVIOUS
<1> USE DEF LoopInv
<1>1. /\ UNCHANGED <<outside, dir, patches, op, mode, stop, worker, result>>
      /\ phase' = "retry" /\ st' = FreshState /\ proof' = NoTree /\ pc = "ended" /\ pc' = "turn"
      /\ journal' \in {journal, <<>>} /\ mode = "cli"
  BY DEF Escalate, RevertJournal, Speculative
<1>2. tree' \in [Files -> AllTexts]
  BY EscalationRestoresFiles
<1>3. st' \in AgentState /\ ~st'.verified
  BY <1>1, Fresh
<1>4. LoopTypeOK'
  <2>1. journal' \in Seq([file : Files, before : AllTexts, after : Texts])
    <3>1. journal \in Seq([file : Files, before : AllTexts, after : Texts])
      BY DEF LoopTypeOK, ToolsTypeOK
    <3>2. <<>> \in Seq([file : Files, before : AllTexts, after : Texts])
      OBVIOUS
    <3> QED
      BY <1>1, <3>1, <3>2
  <2>2. ToolsTypeOK'
    BY <1>1, <1>2, <2>1 DEF LoopTypeOK, ToolsTypeOK
  <2> QED
    BY <1>1, <1>3, <2>2, Snapshots DEF LoopTypeOK
<1>5. OpInv'
  BY <1>1 DEF OpInv
<1>6. BuildInv'
  <2>1. op' = NoOp
    BY <1>1 DEF OpInv
  <2> QED
    BY <1>1, <2>1, NoOpBuilds
<1>7. CandidateInv' /\ JournalInv'
  BY <1>1 DEF CandidateInv, Candidate, JournalInv
<1>8. MarkInv'
  <2>1. result = NoResult /\ ~result.verified
    BY <1>1 DEF MarkInv, NoResult
  <2> QED
    BY <1>1, <1>3, <2>1 DEF MarkInv, VerifiedIsCurrent, NoResult, NoTree
<1> QED
  BY <1>4, <1>5, <1>6, <1>7, <1>8-----------------------------------------------------------------------------
(* The worker loop: the theorems.                                          *)

LEMMA LoopInitInv == LoopInit => LoopInv
<1> SUFFICES ASSUME LoopInit PROVE LoopInv
  OBVIOUS
<1>1. /\ tree = [f \in Files |-> IF f \in NewFiles THEN Missing ELSE 1]
      /\ outside = 0 /\ dir \in {NoDir, UserDir} /\ patches = [used |-> 0, pending |-> {}]
      /\ journal = <<>> /\ op = NoOp
      /\ mode \in Modes /\ stop = FALSE /\ pc = "turn" /\ phase = "first" /\ st = FreshState
      /\ worker = NoResult /\ proof = NoTree /\ result = NoResult
  BY DEF LoopInit, ToolsInit
<1>2. /\ Missing \in AllTexts /\ ~OutsideText(Missing) /\ 1 \in AllTexts /\ ~OutsideText(1)
  BY WorkersTexts, ToolsAssumption
<1>3. tree \in [Files -> AllTexts] /\ \A f \in Files : tree[f] = Original(f) /\ ~OutsideText(tree[f])
  BY <1>1, <1>2 DEF Original
<1>4. dir \in DirType /\ dir.stamp = NoStamp
  <2>1. NoStamp \in [profile : Profiles \cup {NoProfile}, tree : Snapshot]
    BY Snapshots DEF NoStamp
  <2>2. /\ NoBinaries \in [kind : {"none", "mixed", "whole"}, profile : Profiles \cup {NoProfile},
                           tree : Snapshot]
        /\ Mixed \in [kind : {"none", "mixed", "whole"}, profile : Profiles \cup {NoProfile},
                      tree : Snapshot]
    BY Snapshots DEF NoBinaries, Mixed
  <2>3. NoDir \in DirType /\ NoDir.stamp = NoStamp
    BY <2>1, <2>2 DEF NoDir, DirType
  <2>4. UserDir \in DirType /\ UserDir.stamp = NoStamp
    BY <2>2, <2>3 DEF UserDir, DirType
  <2> QED
    BY <1>1, <2>3, <2>4
<1>5. ToolsTypeOK
  <2>1. outside \in 0..MaxOutside
    BY <1>1, LargestText
  <2>2. journal \in Seq([file : Files, before : AllTexts, after : Texts])
    BY <1>1
  <2>3. op \in OpType
    BY <1>1, CallToolTypes
  <2> QED
    BY <1>1, <1>3, <1>4, <2>1, <2>2, <2>3 DEF ToolsTypeOK, DirType, OpType
<1>6. LoopTypeOK
  BY <1>1, <1>5, Fresh, ReasonsReported, Snapshots, LoopAssumption DEF LoopTypeOK
<1>7. OpInv
  BY <1>1 DEF OpInv
<1>8. BuildInv
  <2>1. op.tool = "none" /\ op.step = "none"
    BY <1>1 DEF NoOp
  <2> QED
    BY <1>4, <2>1 DEF BuildInv
<1>9. MarkInv
  BY <1>1, Fresh DEF MarkInv, VerifiedIsCurrent, NoResult
<1>10. CandidateInv
  BY <1>3 DEF CandidateInv
<1>11. JournalInv
  <2>1. Len(journal) = 0
    BY <1>1
  <2> QED
    BY <1>3, <2>1 DEF JournalInv, Left
<1> QED
  BY <1>6, <1>7, <1>8, <1>9, <1>10, <1>11 DEF LoopInv

LEMMA LoopStep == LoopInv /\ [LoopNext]_loopVars => LoopInv'
<1> SUFFICES ASSUME LoopInv, [LoopNext]_loopVars PROVE LoopInv'
  OBVIOUS
<1>1. CASE QuietAction
  BY <1>1, QuietActions, QuietKeeps DEF LoopInv
<1>2. ASSUME NEW o \in CallTools, CallStarts(o) PROVE LoopInv'
  BY <1>2, StartKeeps
<1>3. ASSUME NEW o \in CallTools, NEW f \in Files, NEW text \in Texts, CallProposes(o, f, text)
      PROVE  LoopInv'
  BY <1>3, ProposeKeeps
<1>4. ASSUME NEW o \in CallTools, NEW p \in patches.pending, CallApplies(o, p) PROVE LoopInv'
  BY <1>4, ApplyKeeps
<1>5. CASE CallEnds
  BY <1>5, EndsKeeps
<1>6. CASE ToolSteps
  BY <1>6, ToolStepsKeep
<1>7. CASE Controller
  BY <1>7, EscalateKeeps, CliKeeps, CheckKeeps, StoppedKeeps, JudgedKeeps, CheckStartsKeeps,
     CheckedKeeps, SettledKeeps DEF Controller
<1>8. CASE PressStop
  BY <1>8, StopKeeps
<1>9. CASE Outsider
  BY <1>9, OutsiderKeeps
<1>10. CASE UNCHANGED loopVars
  <2>1. UNCHANGED <<tree, outside, dir, patches, journal, op, mode, stop, pc, phase, st, worker,
                    proof, result>>
    BY <1>10 DEF loopVars, toolVars
  <2>2. LoopTypeOK'
    <3>1. ToolsTypeOK'
      BY <2>1, ToolsSame DEF LoopInv, LoopTypeOK, toolVars
    <3> QED
      BY <2>1, <3>1 DEF LoopInv, LoopTypeOK
  <2>3. OpInv' /\ BuildInv' /\ CandidateInv' /\ JournalInv'
    BY <2>1, BuildSame, CandidateSame, JournalSame DEF LoopInv, OpInv
  <2>4. MarkInv'
    BY <2>1 DEF LoopInv, MarkInv, VerifiedIsCurrent, SameButOutside, Candidate
  <2> QED
    BY <2>2, <2>3, <2>4 DEF LoopInv
<1> QED
  BY <1>1, <1>2, <1>3, <1>4, <1>5, <1>6, <1>7, <1>8, <1>9, <1>10
     DEF LoopNext, Work, Call, QuietAction, Done

\* The inductive invariant of the worker loop, over every interleaving of the model's
\* calls, the tools' steps, the user's Stop and somebody else's edits.
THEOREM LoopInvariant == LoopSpec => []LoopInv
  BY LoopInitInv, LoopStep, PTL DEF LoopSpec

\* Every reachable state of orchestrator.py's loop and its tools is well typed, with
\* at most one pending proposal per file (PatchStore) and every counted call within
\* policy.max_repeat_calls.
THEOREM LoopTypeCorrect == LoopSpec => []LoopTypeOK
<1>1. LoopInv => LoopTypeOK
  BY DEF LoopInv
<1> QED
  BY <1>1, LoopInvariant, PTL

\* AgentState.verified stands for a full proof of the tree on disk: no patch, build,
\* profile switch, revert or edit by somebody else lets an older proof's mark stand.
THEOREM VerifiedIsCurrentHolds == LoopSpec => []VerifiedIsCurrent
<1>1. LoopInv => VerifiedIsCurrent
  BY DEF LoopInv, MarkInv
<1> QED
  BY <1>1, LoopInvariant, PTL

\* A result TaskController reports verified carries the full proof its skill asks for,
\* and a candidate's is bound to the tree it was proved on.
THEOREM VerifiedResultIsBoundHolds == LoopSpec => []VerifiedResultIsBound
<1>1. LoopInv => VerifiedResultIsBound
  <2> SUFFICES ASSUME LoopInv, result.verified PROVE VerifiedResultIsBound
    BY DEF VerifiedResultIsBound
  <2>1. /\ st.verified /\ result.scope = st.full /\ st.full \in CurrentTreeProofs
        /\ mode \in {"fix-test", "change"} => st.tests
        /\ Candidate => result.tree = tree
    BY DEF LoopInv, MarkInv
  <2>2. Candidate /\ proof # NoTree => proof = tree
    <3> SUFFICES ASSUME Candidate, proof # NoTree PROVE proof = tree
      OBVIOUS
    <3>1. SameButOutside(tree, proof)
      BY <2>1 DEF LoopInv, MarkInv, VerifiedIsCurrent
    <3>2. \A f \in Files : tree[f] = proof[f]
      BY <3>1 DEF LoopInv, CandidateInv, SameButOutside
    <3>3. tree \in [Files -> AllTexts] /\ proof \in [Files -> AllTexts \cup {-1}]
      BY DEF LoopInv, LoopTypeOK, ToolsTypeOK, Snapshot
    <3> QED
      BY <3>2, <3>3
  <2> QED
    BY <2>1, <2>2 DEF VerifiedResultIsBound
<1> QED
  BY <1>1, LoopInvariant, PTL

\* Orchestrator.run's escalation: MutationJournal.revert gives the strong tier every
\* file only the worker wrote as it was, and never touches somebody else's text.
THEOREM EscalationRestoresHolds == LoopSpec => EscalationRestores
<1> DEFINE A == phase = "first" /\ phase' = "retry" =>
                  \A f \in Files :
                     IF OutsideTextsOf(f) = {} THEN tree'[f] = Original(f)
                     ELSE OutsideText(tree'[f])
<1>1. LoopInv /\ [LoopNext]_loopVars => [A]_loopVars
  <2> SUFFICES ASSUME LoopInv, LoopNext, phase = "first", phase' = "retry" PROVE A
    OBVIOUS
  <2>1. Escalate
    <3>1. ~(Turn \/ Call \/ ToolSteps \/ PressStop \/ Outsider \/ Done)
      BY DEF Turn, TurnBudget, TurnFails, TurnProse, Call, CallSubmit, CallUnknown, CallRepeated,
             CallStarts, CallRefused, CallQuick, CallProposes, CallApplies, CallEnds, ToolSteps,
             PressStop, Outsider, Done, LoopUnchanged, loopVars
    <3>2. ~(\/ ConcludeCli \/ ConcludeCheck \/ CandidateStopped \/ CandidateJudged
            \/ CandidateCheckStarts \/ CandidateChecked
            \/ \E refused \in BOOLEAN : CandidateSettled(refused))
      BY DEF ConcludeCli, ConcludeCheck, CandidateStopped, CandidateJudged,
             CandidateCheckStarts, CandidateChecked, CandidateSettled
    <3> QED
      BY <3>1, <3>2 DEF LoopNext, Work, Controller
  <2> QED
    BY <2>1, EscalationRestoresFiles
<1> QED
  BY <1>1, LoopInvariant, PTL DEF LoopSpec, EscalationRestores

-----------------------------------------------------------------------------
(* The managed runtime: the inductive invariant.                           *)

\* A creation time belongs to one process, and none is given twice.
OsInv ==
    \A i \in Pids :
        /\ os[i].born <= clock
        /\ os[i].born = 0 <=> os[i].kind = "none"
        /\ \A j \in Pids : os[i].born = os[j].born /\ os[i].born # 0 => i = j

\* The server a creation time and a pid were noted for: it, or nobody, has them.
NamesServer(pid, born) ==
    /\ pid \in Pids /\ born \in 1 .. clock
    /\ \A i \in Pids : os[i].born = born => i = pid /\ os[i].kind = "server"

\* process.json names a server that was launched.
RecordInv ==
    /\ record.born # 0 => NamesServer(record.pid, record.born)
    /\ TimingIsOfItsProcess

\* Where a command holds the profile lock.
Locks(c) ==
    \/ ctl[c].pc \in {"stopping", "launch", "record"}
    \/ ctl[c].pc \in {"status", "probe"} /\ ctl[c].at = "start"

LockInv == \A c \in Callers : Locks(c) => lock = c

RecordIsGone == record.born # 0 => os[record.pid].born # record.born

\* Under the lock the record is what the command found: gone when it launches,
\* the process it stops while it stops it.
CommandOf(c) ==
    /\ ctl[c].pc = "record" => NamesServer(ctl[c].pid, ctl[c].mine)
    /\ ctl[c].pc \in {"launch", "record"} => RecordIsGone
    /\ ctl[c].pc = "stopping" => ctl[c].st = record /\ record.born # 0

CommandInv == \A c \in Callers : CommandOf(c)

IInv == TypeOK /\ OsInv /\ RecordInv /\ LockInv /\ CommandInv /\ ServersAccounted

-----------------------------------------------------------------------------
(* What a step does to the command that takes it.                          *)

Others(c) == \A d \in Callers \ {c} : ctl'[d] = ctl[d]

Refreshed == [record EXCEPT !.ready = 0]

LEMMA Types ==
  ASSUME TypeOK
  PROVE  /\ \A c \in Callers : ctl[c] \in Commands /\ ctl[c].st \in Records
         /\ \A c \in Callers : ctl[c].polls \in Nat /\ ctl[c].plan \in Plans \cup {0}
         /\ clock \in Nat /\ NoRecord \in Records /\ Refreshed \in Records
<1>1. record \in Records /\ clock \in Nat
  BY DEF TypeOK
<1>2. NoRecord \in Records
  BY DEF NoRecord, Records
<1>3. Refreshed \in Records
  BY <1>1 DEF Refreshed, Records
<1> QED
  BY <1>1, <1>2, <1>3 DEF TypeOK, Commands

\* A command is replaced by its next state.
LEMMA SetFacts ==
  ASSUME TypeOK, NEW c \in Callers, NEW f \in Commands, Set(c, f)
  PROVE  ctl' \in [Callers -> Commands] /\ ctl'[c] = f /\ Others(c)
BY DEF TypeOK, Set, Others

\* A command that ends, with the plan of the server it reports.
LEMMA EndsFacts ==
  ASSUME TypeOK, NEW c \in Callers, NEW plan \in Plans \cup {0}, Ends(c, plan)
  PROVE  ctl' \in [Callers -> Commands] /\ ctl'[c].pc = "done" /\ Others(c)
<1> DEFINE f == [Idle EXCEPT !.plan = ctl[c].plan, !.out = plan]
<1>1. ctl[c].plan \in Plans \cup {0}
  BY DEF TypeOK, Commands
<1>2. f \in Commands /\ f.pc = "done"
  BY <1>1 DEF Commands, Records, Idle, NoRecord
<1>3. Set(c, f)
  BY DEF Ends
<1> HIDE DEF f
<1> QED
  BY <1>2, <1>3, SetFacts

LEMMA RefusesFacts ==
  ASSUME TypeOK, NEW c \in Callers, Refuses(c) \/ Raises(c)
  PROVE  ctl' \in [Callers -> Commands] /\ ctl'[c].pc = "done" /\ Others(c)
BY EndsFacts DEF Refuses, Raises

\* ensure reads the record.
LEMMA ReadFacts ==
  ASSUME TypeOK, NEW c \in Callers, EnsureReads(c)
  PROVE  /\ ctl' \in [Callers -> Commands] /\ Others(c)
         /\ \/ ctl'[c].pc = "reach"
            \/ ctl'[c].pc = "status" /\ ctl'[c].at = "ensure"
<1> DEFINE f1 == [ctl[c] EXCEPT !.pc = "reach"]
<1> DEFINE f2 == [ctl[c] EXCEPT !.pc = "status", !.at = "ensure", !.seen = Refreshed]
<1>1. /\ ctl[c] \in Commands /\ ctl[c].st \in Records /\ NoRecord \in Records
      /\ clock \in Nat /\ ctl[c].polls \in Nat /\ ctl[c].plan \in Plans \cup {0}
      /\ Refreshed \in Records /\ record \in Records
  BY Types DEF TypeOK
<1>2. \/ Set(c, f1)
      \/ Set(c, f2)
  BY DEF EnsureReads, Refreshed
<1>3. f1 \in Commands /\ f1.pc = "reach"
  BY <1>1 DEF Commands
<1>4. f2 \in Commands /\ f2.pc = "status" /\ f2.at = "ensure"
  BY <1>1 DEF Commands
<1> HIDE DEF f1, f2
<1> QED
  BY <1>2, <1>3, <1>4, SetFacts

\* status reads the record and may raise, which gives the lock back.
LEMMA StatusFacts ==
  ASSUME TypeOK, NEW c \in Callers, StatusReads(c)
  PROVE  /\ ctl' \in [Callers -> Commands] /\ Others(c)
         /\ \/ ctl'[c].pc = "done" /\ lock' = (IF lock = c THEN Nobody ELSE lock)
            \/ ctl'[c].pc = "probe" /\ ctl'[c].at = ctl[c].at /\ lock' = lock
            \/ ctl'[c].pc = "probe" /\ ctl'[c].at = ctl[c].at /\ lock' = lock
<1> DEFINE f2 == [ctl[c] EXCEPT !.pc = "probe", !.st = Refreshed, !.alive = TRUE]
<1> DEFINE f3 == [ctl[c] EXCEPT !.pc = "probe", !.st = Refreshed, !.alive = FALSE]
<1>1. /\ ctl[c] \in Commands /\ ctl[c].st \in Records /\ NoRecord \in Records
      /\ clock \in Nat /\ ctl[c].polls \in Nat /\ ctl[c].plan \in Plans \cup {0}
      /\ Refreshed \in Records /\ record \in Records
  BY Types DEF TypeOK
<1>2. \/ (Refuses(c) \/ Raises(c)) /\ lock' = (IF lock = c THEN Nobody ELSE lock)
      \/ Set(c, f2) /\ lock' = lock
      \/ Set(c, f3) /\ lock' = lock
  BY DEF StatusReads, Refreshed, owned_process
<1>3. f2 \in Commands /\ f2.pc = "probe" /\ f2.at = ctl[c].at
  BY <1>1 DEF Commands
<1>4. f3 \in Commands /\ f3.pc = "probe" /\ f3.at = ctl[c].at
  BY <1>1 DEF Commands
<1> HIDE DEF f2, f3
<1> QED
  BY <1>2, <1>3, <1>4, SetFacts, RefusesFacts

\* ensure reuses, stops or goes on.
LEMMA DecideFacts ==
  ASSUME TypeOK, NEW c \in Callers, NEW answers, EnsureDecides(c, answers)
  PROVE  /\ ctl' \in [Callers -> Commands] /\ Others(c)
         /\ \/ ctl'[c].pc = "done"
            \/ ctl'[c].pc = "stop"
            \/ ctl'[c].pc = "reach"
<1> DEFINE f2 == [ctl[c] EXCEPT !.pc = "stop", !.seen = NoRecord, !.st = NoRecord, !.alive = FALSE]
<1> DEFINE f3 == [ctl[c] EXCEPT !.pc = "reach", !.seen = NoRecord, !.st = NoRecord, !.alive = FALSE]
<1>1. /\ ctl[c] \in Commands /\ ctl[c].st \in Records /\ NoRecord \in Records
      /\ clock \in Nat /\ ctl[c].polls \in Nat /\ ctl[c].plan \in Plans \cup {0}
      /\ Refreshed \in Records /\ record \in Records
  BY Types DEF TypeOK
<1>2. \/ Ends(c, ctl[c].st.plan)
      \/ Set(c, f2)
      \/ Set(c, f3)
  BY DEF EnsureDecides
<1>3. ctl[c].st.plan \in Plans \cup {0}
  BY <1>1 DEF Records
<1>4. f2 \in Commands /\ f2.pc = "stop"
  BY <1>1 DEF Commands
<1>5. f3 \in Commands /\ f3.pc = "reach"
  BY <1>1 DEF Commands
<1> HIDE DEF f2, f3
<1> QED
  BY <1>2, <1>3, <1>4, <1>5, SetFacts, EndsFacts

\* What follows stop.
LEMMA AfterStopFacts ==
  ASSUME TypeOK, NEW c \in Callers, AfterStop(c)
  PROVE  /\ ctl' \in [Callers -> Commands] /\ Others(c)
         /\ \/ ctl'[c].pc = "reach"
            \/ ctl'[c].pc = "done"
<1> DEFINE f1 == [ctl[c] EXCEPT !.pc = "reach", !.st = NoRecord]
<1>1. /\ ctl[c] \in Commands /\ ctl[c].st \in Records /\ NoRecord \in Records
      /\ clock \in Nat /\ ctl[c].polls \in Nat /\ ctl[c].plan \in Plans \cup {0}
      /\ Refreshed \in Records /\ record \in Records
  BY Types DEF TypeOK
<1>2. \/ Set(c, f1)
      \/ Ends(c, 0)
  BY DEF AfterStop
<1>3. f1 \in Commands /\ f1.pc = "reach"
  BY <1>1 DEF Commands
<1> HIDE DEF f1
<1> QED
  BY <1>2, <1>3, SetFacts, EndsFacts

\* The endpoint is probed.
LEMMA ProbeFacts ==
  ASSUME TypeOK, NEW c \in Callers, NEW answers, ProbesEndpoint(c, answers)
  PROVE  /\ ctl' \in [Callers -> Commands] /\ Others(c)
         /\ \/ ctl'[c].pc = "done"
            \/ ctl'[c].pc = "start"
<1> DEFINE f2 == [ctl[c] EXCEPT !.pc = "start"]
<1>1. /\ ctl[c] \in Commands /\ ctl[c].st \in Records /\ NoRecord \in Records
      /\ clock \in Nat /\ ctl[c].polls \in Nat /\ ctl[c].plan \in Plans \cup {0}
      /\ Refreshed \in Records /\ record \in Records
  BY Types DEF TypeOK
<1>2. \/ (Refuses(c) \/ Raises(c))
      \/ Set(c, f2)
  BY DEF ProbesEndpoint
<1>3. f2 \in Commands /\ f2.pc = "start"
  BY <1>1 DEF Commands
<1> HIDE DEF f2
<1> QED
  BY <1>2, <1>3, SetFacts, RefusesFacts

\* start takes the lock or refuses.
LEMMA StartFacts ==
  ASSUME TypeOK, NEW c \in Callers, StartLocks(c)
  PROVE  /\ ctl' \in [Callers -> Commands] /\ Others(c)
         /\ \/ ctl'[c].pc = "done" /\ lock' = lock
            \/ ctl'[c].pc = "launch" /\ lock = Nobody /\ lock' = c /\ RecordIsGone
            \/ ctl'[c].pc = "status" /\ ctl'[c].at = "start" /\ lock = Nobody /\ lock' = c
<1> DEFINE f2 == [ctl[c] EXCEPT !.pc = "launch"]
<1> DEFINE f3 == [ctl[c] EXCEPT !.pc = "status", !.at = "start"]
<1>1. /\ ctl[c] \in Commands /\ ctl[c].st \in Records /\ NoRecord \in Records
      /\ clock \in Nat /\ ctl[c].polls \in Nat /\ ctl[c].plan \in Plans \cup {0}
      /\ Refreshed \in Records /\ record \in Records
  BY Types DEF TypeOK
<1>2. \/ (Refuses(c) \/ Raises(c)) /\ lock' = lock
      \/ Set(c, f2) /\ lock = Nobody /\ lock' = c /\ RecordIsGone
      \/ Set(c, f3) /\ lock = Nobody /\ lock' = c
  BY DEF StartLocks, owned_process, profile_lock, RecordIsGone
<1>3. f2 \in Commands /\ f2.pc = "launch"
  BY <1>1 DEF Commands
<1>4. f3 \in Commands /\ f3.pc = "status" /\ f3.at = "start"
  BY <1>1 DEF Commands
<1> HIDE DEF f2, f3
<1> QED
  BY <1>2, <1>3, <1>4, SetFacts, RefusesFacts

\* start returns what it found.
LEMMA ReturnFacts ==
  ASSUME TypeOK, NEW c \in Callers, NEW answers, StartReturns(c, answers)
  PROVE  /\ ctl' \in [Callers -> Commands] /\ Others(c)
         /\ \/ ctl'[c].pc = "done"
            \/ ctl'[c].pc = "done"
<1>1. /\ ctl[c] \in Commands /\ ctl[c].st \in Records /\ NoRecord \in Records
      /\ clock \in Nat /\ ctl[c].polls \in Nat /\ ctl[c].plan \in Plans \cup {0}
      /\ Refreshed \in Records /\ record \in Records
  BY Types DEF TypeOK
<1>2. \/ (Refuses(c) \/ Raises(c))
      \/ Ends(c, ctl[c].st.plan)
  BY DEF StartReturns
<1>3. ctl[c].st.plan \in Plans \cup {0}
  BY <1>1 DEF Records
<1> QED
  BY <1>2, <1>3, RefusesFacts, EndsFacts

\* The readiness loop.
LEMMA PollFacts ==
  ASSUME TypeOK, NEW c \in Callers, NEW answers, WaitPolls(c, answers)
  PROVE  /\ ctl' \in [Callers -> Commands] /\ Others(c)
         /\ \/ ctl'[c].pc = "mark"
            \/ ctl'[c].pc = "done"
            \/ ctl'[c].pc = "status" /\ ctl'[c].at = ctl[c].at /\ ctl[c].at = "wait"
<1> DEFINE f1 == [ctl[c] EXCEPT !.pc = "mark"]
<1> DEFINE f3 == [ctl[c] EXCEPT !.pc = "status", !.polls = ctl[c].polls + 1, !.st = NoRecord]
<1>1. /\ ctl[c] \in Commands /\ ctl[c].st \in Records /\ NoRecord \in Records
      /\ clock \in Nat /\ ctl[c].polls \in Nat /\ ctl[c].plan \in Plans \cup {0}
      /\ Refreshed \in Records /\ record \in Records
  BY Types DEF TypeOK
<1>2. ctl[c].polls + 1 \in Nat
  BY <1>1
<1>3. \/ Set(c, f1)
      \/ (Refuses(c) \/ Raises(c))
      \/ Set(c, f3) /\ ctl[c].at = "wait"
  BY DEF WaitPolls
<1>4. f1 \in Commands /\ f1.pc = "mark"
  BY <1>1, <1>2 DEF Commands
<1>5. f3 \in Commands /\ f3.pc = "status" /\ f3.at = ctl[c].at
  BY <1>1, <1>2 DEF Commands
<1> HIDE DEF f1, f3
<1> QED
  BY <1>3, <1>4, <1>5, SetFacts, RefusesFacts

\* A server is launched.
LEMMA LaunchFacts ==
  ASSUME TypeOK, NEW c \in Callers, NEW i \in Pids, NEW passed, Launches(c, i, passed)
  PROVE  /\ ctl' \in [Callers -> Commands] /\ Others(c)
         /\ \/ ctl'[c].pc = "done" /\ UNCHANGED <<os, clock>>
            \/ ctl'[c].pc = "record" /\ ctl'[c].mine = clock + 1 /\ ctl'[c].pid = i
               /\ os[i].born = 0 /\ clock' = clock + 1 /\ lock' = lock
               /\ os' = [os EXCEPT ![i] = [born |-> clock + 1, kind |-> "server",
                                           plan |-> ctl[c].plan, phase |-> "loading"]]
<1> DEFINE f2 == [ctl[c] EXCEPT !.pc = "record", !.mine = clock + 1, !.pid = i]
<1>1. /\ ctl[c] \in Commands /\ ctl[c].st \in Records /\ NoRecord \in Records
      /\ clock \in Nat /\ ctl[c].polls \in Nat /\ ctl[c].plan \in Plans \cup {0}
      /\ Refreshed \in Records /\ record \in Records
  BY Types DEF TypeOK
<1>2. clock + 1 \in Nat
  BY <1>1
<1>3. \/ (Refuses(c) \/ Raises(c)) /\ UNCHANGED <<os, clock>>
      \/ Set(c, f2) /\ os[i].born = 0 /\ clock' = clock + 1 /\ lock' = lock
               /\ os' = [os EXCEPT ![i] = [born |-> clock + 1, kind |-> "server",
                                           plan |-> ctl[c].plan, phase |-> "loading"]]
  BY DEF Launches
<1>4. f2 \in Commands /\ f2.pc = "record" /\ f2.mine = clock + 1 /\ f2.pid = i
  BY <1>1, <1>2 DEF Commands
<1> HIDE DEF f2
<1> QED
  BY <1>3, <1>4, SetFacts, RefusesFacts

\* A command begins.
LEMMA BeginFacts ==
  ASSUME TypeOK, NEW c \in Callers, NEW verb \in {"ensure", "start", "stop"},
         NEW plan \in make_plan(c), Begin(c, verb, plan)
  PROVE  /\ ctl' \in [Callers -> Commands] /\ Others(c)
         /\ ctl'[c].pc \in {"read", "start", "stop"}
<1> DEFINE f(p, q) == [Idle EXCEPT !.op = verb, !.plan = p, !.pc = q]
<1>1. Idle \in Commands /\ plan \in Plans /\ verb \in {"none", "ensure", "start", "stop"}
  BY RuntimeAssumption DEF make_plan, Idle, Records, NoRecord, Commands
<1>2. \A p \in Plans \cup {0}, q \in {"read", "start", "stop"} :
         f(p, q) \in Commands /\ f(p, q).pc = q
  BY <1>1 DEF Commands
<1>3. \E p \in Plans \cup {0}, q \in {"read", "start", "stop"} : Set(c, f(p, q))
  <2> DEFINE p == IF verb = "stop" THEN 0 ELSE plan
             q == CASE verb = "ensure" -> "read" [] verb = "start" -> "start"
                    [] verb = "stop" -> "stop"
  <2>1. p \in Plans \cup {0} /\ q \in {"read", "start", "stop"}
    BY <1>1
  <2>2. Set(c, f(p, q))
    BY DEF Begin
  <2> QED
    BY <2>1, <2>2
<1> HIDE DEF f
<1> QED
  BY <1>2, <1>3, SetFacts

\* stop finds the record's process gone, signals it, or raises.
LEMMA StopFacts ==
  ASSUME TypeOK, NEW c \in Callers, StopBegins(c)
  PROVE  /\ ctl' \in [Callers -> Commands] /\ Others(c)
         /\ \/ ctl'[c].pc = "done" /\ UNCHANGED <<os, record, lock>>
            \/ ctl'[c].pc \in {"done", "reach"} /\ lock = Nobody /\ RecordIsGone
               /\ record' = NoRecord /\ UNCHANGED <<os, lock>>
            \/ ctl'[c].pc = "stopping" /\ ctl'[c].st = record /\ lock = Nobody /\ lock' = c
               /\ record' = record /\ record.born # 0
               /\ os[record.pid].born = record.born
               /\ os' = [os EXCEPT ![record.pid].phase = IF @ = "dying" THEN @ ELSE "term"]
<1> DEFINE f3 == [ctl[c] EXCEPT !.pc = "stopping", !.st = record]
<1>1. /\ ctl[c] \in Commands /\ ctl[c].st \in Records /\ NoRecord \in Records
      /\ clock \in Nat /\ ctl[c].polls \in Nat /\ ctl[c].plan \in Plans \cup {0}
      /\ Refreshed \in Records /\ record \in Records
  BY Types DEF TypeOK
<1>2. \/ (Refuses(c) \/ Raises(c)) /\ UNCHANGED <<os, record, lock>>
      \/ AfterStop(c) /\ lock = Nobody /\ RecordIsGone /\ record' = NoRecord
         /\ UNCHANGED <<os, lock>>
      \/ Set(c, f3) /\ lock = Nobody /\ lock' = c /\ record' = record /\ record.born # 0
               /\ os[record.pid].born = record.born
               /\ os' = [os EXCEPT ![record.pid].phase = IF @ = "dying" THEN @ ELSE "term"]
  BY DEF StopBegins, owned_process, profile_lock, RecordIsGone
<1>3. f3 \in Commands /\ f3.pc = "stopping" /\ f3.st = record
  BY <1>1 DEF Commands
<1> HIDE DEF f3
<1> QED
  BY <1>2, <1>3, SetFacts, RefusesFacts, AfterStopFacts

\* The same, as the processes and the record see it.
LEMMA StopCases ==
  ASSUME TypeOK, NEW c \in Callers, StopBegins(c)
  PROVE  \/ os' = os /\ record' = record
         \/ RecordIsGone /\ UNCHANGED os
         \/ /\ record.born # 0 /\ os[record.pid].born = record.born
            /\ os' = [os EXCEPT ![record.pid].phase = IF @ = "dying" THEN @ ELSE "term"]
            /\ record' = record
BY DEF StopBegins, owned_process, RecordIsGone

\* The launched server is recorded.
LEMMA RecordsFacts ==
  ASSUME TypeOK, NEW c \in Callers, RecordsLaunch(c)
  PROVE  /\ ctl' \in [Callers -> Commands] /\ Others(c)
         /\ \/ ctl'[c].pc = "status" /\ ctl'[c].at = "wait"
<1> DEFINE f1 == [ctl[c] EXCEPT !.pc = "status", !.at = "wait"]
<1>1. /\ ctl[c] \in Commands /\ ctl[c].st \in Records /\ NoRecord \in Records
      /\ clock \in Nat /\ ctl[c].polls \in Nat /\ ctl[c].plan \in Plans \cup {0}
      /\ Refreshed \in Records /\ record \in Records
  BY Types DEF TypeOK
<1>2. \/ Set(c, f1)
  BY DEF RecordsLaunch
<1>3. f1 \in Commands /\ f1.pc = "status" /\ f1.at = "wait"
  BY <1>1 DEF Commands
<1> HIDE DEF f1
<1> QED
  BY <1>2, <1>3, SetFacts

\* The readiness loop ends.
LEMMA ReadinessFacts ==
  ASSUME TypeOK, NEW c \in Callers, _record_readiness(c)
  PROVE  /\ ctl' \in [Callers -> Commands] /\ Others(c)
         /\ \/ ctl'[c].pc = "done"
<1>1. /\ ctl[c] \in Commands /\ ctl[c].st \in Records /\ NoRecord \in Records
      /\ clock \in Nat /\ ctl[c].polls \in Nat /\ ctl[c].plan \in Plans \cup {0}
      /\ Refreshed \in Records /\ record \in Records
  BY Types DEF TypeOK
<1>2. \/ Ends(c, ctl[c].st.plan)
  BY DEF _record_readiness
<1>3. ctl[c].st.plan \in Plans \cup {0}
  BY <1>1 DEF Records
<1> QED
  BY <1>2, <1>3, EndsFacts

-----------------------------------------------------------------------------
(* What a step does to the processes.                                      *)

Same(j) == os'[j].born = os[j].born /\ os'[j].kind = os[j].kind

\* Nobody takes the creation time of another, and none is given twice.
Frame ==
    /\ clock' \in {clock, clock + 1}
    /\ \/ \A j \in Pids : Same(j) \/ (os'[j].born = 0 /\ os'[j].kind = "none")
       \/ \E i \in Pids :
             /\ clock' = clock + 1 /\ os[i].born = 0
             /\ os'[i].born = clock' /\ os'[i].kind # "none"
             /\ \A j \in Pids \ {i} : Same(j)

\* A process only changes its phase.
LEMMA PhaseFacts ==
  ASSUME TypeOK, NEW i, NEW ph \in Phases, os' = [os EXCEPT ![i].phase = ph]
  PROVE  /\ os' \in [Pids -> Processes]
         /\ \A j \in Pids : Same(j) /\ (j = i => os'[j].phase = ph)
         /\ \A j \in Pids \ {i} : os'[j] = os[j]
<1>1. os \in [Pids -> Processes]
  BY DEF TypeOK
<1>2. \A j \in Pids : os'[j] = IF j = i THEN [os[i] EXCEPT !.phase = ph] ELSE os[j]
  BY <1>1
<1>3. \A j \in Pids : [os[j] EXCEPT !.phase = ph] \in Processes
  BY <1>1 DEF Processes
<1>4. os' \in [Pids -> Processes]
  BY <1>1, <1>2, <1>3
<1>5. \A j \in Pids : /\ [os[j] EXCEPT !.phase = ph].born = os[j].born
                      /\ [os[j] EXCEPT !.phase = ph].kind = os[j].kind
                      /\ [os[j] EXCEPT !.phase = ph].phase = ph
  BY <1>1 DEF Processes
<1> QED
  BY <1>2, <1>4, <1>5 DEF Same

\* A process ends and frees its pid and its port.
LEMMA ProcessEndsFacts ==
  ASSUME TypeOK, NEW i \in Pids, ProcessEnds(i)
  PROVE  /\ os' \in [Pids -> Processes] /\ port' \in Nat
         /\ os'[i].born = 0 /\ os'[i].kind = "none"
         /\ \A j \in Pids \ {i} : os'[j] = os[j]
<1>1. NoProcess \in Processes /\ NoProcess.born = 0 /\ NoProcess.kind = "none"
  BY DEF NoProcess, Processes, Kinds, Phases
<1> QED
  BY <1>1 DEF ProcessEnds, TypeOK

\* A process starts under a free pid with the next creation time.
LEMMA ProcessStartsFacts ==
  ASSUME TypeOK, NEW i \in Pids, NEW k \in Kinds, NEW plan \in Plans \cup {0},
         NEW ph \in Phases,
         os' = [os EXCEPT ![i] = [born |-> clock + 1, kind |-> k, plan |-> plan, phase |-> ph]]
  PROVE  /\ os' \in [Pids -> Processes]
         /\ os'[i].born = clock + 1 /\ os'[i].kind = k
         /\ \A j \in Pids \ {i} : os'[j] = os[j]
<1> DEFINE new == [born |-> clock + 1, kind |-> k, plan |-> plan, phase |-> ph]
<1>1. clock + 1 \in Nat
  BY Types
<1>2. new \in Processes /\ new.born = clock + 1 /\ new.kind = k
  BY <1>1 DEF Processes
<1>3. os \in [Pids -> Processes] /\ os' = [os EXCEPT ![i] = new]
  BY DEF TypeOK
<1> HIDE DEF new
<1> QED
  BY <1>2, <1>3

\* stop signals the recorded process, or nobody.
LEMMA StopPhase ==
  ASSUME TypeOK, NEW c \in Callers, StopBegins(c)
  PROVE  os' = os \/ \E ph \in Phases : os' = [os EXCEPT ![record.pid].phase = ph]
<1>1. CASE os' = os
  BY <1>1
<1>2. CASE os' = [os EXCEPT ![record.pid].phase = IF @ = "dying" THEN @ ELSE "term"]
  <2> DEFINE ph == IF os[record.pid].phase = "dying" THEN "dying" ELSE "term"
  <2>1. ph \in Phases
    BY DEF Phases
  <2>2. os' = [os EXCEPT ![record.pid].phase = ph]
    BY <1>2 DEF TypeOK
  <2> QED
    BY <2>1, <2>2
<1> QED
  BY <1>1, <1>2, StopFacts

\* Every step is such a step of the processes.
LEMMA FrameStep == IInv /\ [Next]_vars => (os' \in [Pids -> Processes] /\ Frame)
<1> SUFFICES ASSUME IInv, [Next]_vars PROVE (os' \in [Pids -> Processes] /\ Frame)
  OBVIOUS
<1> USE DEF IInv
<1>1. ASSUME NEW c \in Callers, NEW verb \in {"ensure", "start", "stop"},
             NEW plan \in make_plan(c), Begin(c, verb, plan)
      PROVE  (os' \in [Pids -> Processes] /\ Frame)
  <2>1. os' = os /\ clock' = clock
    BY <1>1 DEF Begin
  <2> QED
    BY <2>1 DEF Frame, Same, TypeOK
<1>2. ASSUME NEW c \in Callers, EnsureReads(c)
      PROVE  (os' \in [Pids -> Processes] /\ Frame)
  <2>1. os' = os /\ clock' = clock
    BY <1>2 DEF EnsureReads
  <2> QED
    BY <2>1 DEF Frame, Same, TypeOK
<1>3. ASSUME NEW c \in Callers, StatusReads(c)
      PROVE  (os' \in [Pids -> Processes] /\ Frame)
  <2>1. os' = os /\ clock' = clock
    BY <1>3 DEF StatusReads
  <2> QED
    BY <2>1 DEF Frame, Same, TypeOK
<1>4. ASSUME NEW c \in Callers, StopBegins(c)
      PROVE  (os' \in [Pids -> Processes] /\ Frame)
  <2>1. os' = os \/ \E ph \in Phases : os' = [os EXCEPT ![record.pid].phase = ph]
    BY <1>4, StopPhase
  <2>2. os' \in [Pids -> Processes] /\ \A j \in Pids : Same(j)
    BY <2>1, PhaseFacts DEF TypeOK, Same
  <2>3. clock' = clock
    BY <1>4 DEF StopBegins
  <2> QED
    BY <2>2, <2>3 DEF Frame
<1>5. ASSUME NEW c \in Callers, StopEnds(c)
      PROVE  (os' \in [Pids -> Processes] /\ Frame)
  <2>1. os' = os /\ clock' = clock
    BY <1>5 DEF StopEnds
  <2> QED
    BY <2>1 DEF Frame, Same, TypeOK
<1>6. ASSUME NEW c \in Callers, StopForces(c)
      PROVE  (os' \in [Pids -> Processes] /\ Frame)
  <2>1. os' = os \/ \E ph \in Phases : os' = [os EXCEPT ![ctl[c].st.pid].phase = ph]
    BY <1>6 DEF StopForces, Phases
  <2>2. os' \in [Pids -> Processes] /\ \A j \in Pids : Same(j)
    BY <2>1, PhaseFacts DEF TypeOK, Same
  <2>3. clock' = clock
    BY <1>6 DEF StopForces
  <2> QED
    BY <2>2, <2>3 DEF Frame
<1>7. ASSUME NEW c \in Callers, StartLocks(c)
      PROVE  (os' \in [Pids -> Processes] /\ Frame)
  <2>1. os' = os /\ clock' = clock
    BY <1>7 DEF StartLocks
  <2> QED
    BY <2>1 DEF Frame, Same, TypeOK
<1>8. ASSUME NEW c \in Callers, RecordsLaunch(c)
      PROVE  (os' \in [Pids -> Processes] /\ Frame)
  <2>1. os' = os /\ clock' = clock
    BY <1>8 DEF RecordsLaunch
  <2> QED
    BY <2>1 DEF Frame, Same, TypeOK
<1>9. ASSUME NEW c \in Callers, RecordFails(c)
      PROVE  (os' \in [Pids -> Processes] /\ Frame)
  <2>1. clock' = clock
    BY <1>9 DEF RecordFails
  <2>2. CASE os' = os
    BY <2>1, <2>2 DEF Frame, Same, TypeOK
  <2>3. CASE os' = [os EXCEPT ![ctl[c].pid].phase = "dying"]
    BY <2>1, <2>3, PhaseFacts DEF Frame, Phases
  <2>4. CASE ProcessEnds(ctl[c].pid) /\ ctl[c].pid \in Pids
    BY <2>1, <2>4, ProcessEndsFacts DEF Frame, Same
  <2>5. ctl[c].pid \in Pids
    BY <1>9 DEF RecordFails, CommandInv, CommandOf, NamesServer
  <2> QED
    BY <1>9, <2>2, <2>3, <2>4, <2>5 DEF RecordFails
<1>10. ASSUME NEW c \in Callers, _record_readiness(c)
      PROVE  (os' \in [Pids -> Processes] /\ Frame)
  <2>1. os' = os /\ clock' = clock
    BY <1>10 DEF _record_readiness
  <2> QED
    BY <2>1 DEF Frame, Same, TypeOK
<1>11. ASSUME NEW c \in Callers, Crash(c)
      PROVE  (os' \in [Pids -> Processes] /\ Frame)
  <2>1. os' = os /\ clock' = clock
    BY <1>11 DEF Crash
  <2> QED
    BY <2>1 DEF Frame, Same, TypeOK
<1>12. ASSUME NEW c \in Callers, NEW answers, EnsureDecides(c, answers)
      PROVE  (os' \in [Pids -> Processes] /\ Frame)
  <2>1. os' = os /\ clock' = clock
    BY <1>12 DEF EnsureDecides
  <2> QED
    BY <2>1 DEF Frame, Same, TypeOK
<1>13. ASSUME NEW c \in Callers, NEW answers, StartReturns(c, answers)
      PROVE  (os' \in [Pids -> Processes] /\ Frame)
  <2>1. os' = os /\ clock' = clock
    BY <1>13 DEF StartReturns
  <2> QED
    BY <2>1 DEF Frame, Same, TypeOK
<1>14. ASSUME NEW c \in Callers, NEW answers, WaitPolls(c, answers)
      PROVE  (os' \in [Pids -> Processes] /\ Frame)
  <2>1. os' = os /\ clock' = clock
    BY <1>14 DEF WaitPolls
  <2> QED
    BY <2>1 DEF Frame, Same, TypeOK
<1>15. ASSUME NEW c \in Callers, NEW answers, ProbesEndpoint(c, answers)
      PROVE  (os' \in [Pids -> Processes] /\ Frame)
  <2>1. os' = os /\ clock' = clock
    BY <1>15 DEF ProbesEndpoint
  <2> QED
    BY <2>1 DEF Frame, Same, TypeOK
<1>16. ASSUME NEW c \in Callers, NEW i \in Pids, NEW passed, Launches(c, i, passed)
      PROVE  (os' \in [Pids -> Processes] /\ Frame)
  <2>1. CASE os' = os /\ clock' = clock
    BY <2>1 DEF Frame, Same, TypeOK
  <2>2. CASE /\ os[i].born = 0 /\ clock' = clock + 1
             /\ os' = [os EXCEPT ![i] = [born |-> clock + 1, kind |-> "server",
                                         plan |-> ctl[c].plan, phase |-> "loading"]]
    <3>1. ctl[c].plan \in Plans \cup {0} /\ "server" \in Kinds /\ "loading" \in Phases
      BY Types DEF Kinds, Phases
    <3> QED
      BY <2>2, <3>1, ProcessStartsFacts, ZenonT(40) DEF Frame, Same
  <2> QED
    BY <1>16, <2>1, <2>2, LaunchFacts
<1>17. ASSUME NEW i \in Pids, ServerBinds(i)
      PROVE  (os' \in [Pids -> Processes] /\ Frame)
  <2>1. os' = [os EXCEPT ![i].phase = "ready"] /\ clock' = clock
    BY <1>17 DEF ServerBinds
  <2> QED
    BY <2>1, PhaseFacts DEF Frame, Phases
<1>18. ASSUME NEW i \in Pids, ServerSickens(i)
      PROVE  (os' \in [Pids -> Processes] /\ Frame)
  <2>1. os' = [os EXCEPT ![i].phase = "sick"] /\ clock' = clock
    BY <1>18 DEF ServerSickens
  <2> QED
    BY <2>1, PhaseFacts DEF Frame, Phases
<1>19. ASSUME NEW i \in Pids, ServerExits(i)
      PROVE  (os' \in [Pids -> Processes] /\ Frame)
  <2>1. ProcessEnds(i) /\ clock' = clock
    BY <1>19 DEF ServerExits
  <2> QED
    BY <2>1, ProcessEndsFacts DEF Frame, Same
<1>20. ASSUME NEW i \in Pids, ForeignEnds(i)
      PROVE  (os' \in [Pids -> Processes] /\ Frame)
  <2>1. ProcessEnds(i) /\ clock' = clock
    BY <1>20 DEF ForeignEnds
  <2> QED
    BY <2>1, ProcessEndsFacts DEF Frame, Same
<1>21. ASSUME NEW i \in Pids, NEW listens, ForeignStarts(i, listens)
      PROVE  (os' \in [Pids -> Processes] /\ Frame)
  <2>1. /\ os[i].born = 0 /\ clock' = clock + 1
        /\ os' = [os EXCEPT ![i] = [born |-> clock + 1, kind |-> "foreign",
                                    plan |-> 0, phase |-> "none"]]
    BY <1>21 DEF ForeignStarts
  <2>2. 0 \in Plans \cup {0} /\ "foreign" \in Kinds /\ "none" \in Phases
    BY DEF Kinds, Phases
  <2> QED
    BY <2>1, <2>2, ProcessStartsFacts DEF Frame, Same
<1>22. CASE UNCHANGED vars
  BY <1>22 DEF vars, Frame, Same, TypeOK
<1> QED
  BY <1>1, <1>2, <1>3, <1>4, <1>5, <1>6, <1>7, <1>8, <1>9, <1>10, <1>11, <1>12,
     <1>13, <1>14, <1>15, <1>16, <1>17, <1>18, <1>19, <1>20, <1>21, <1>22 DEF Next,
     CallerStep

\* Every step leaves commands.
LEMMA CommandsTyped == IInv /\ [Next]_vars => (ctl' \in [Callers -> Commands])
<1> SUFFICES ASSUME IInv, [Next]_vars PROVE (ctl' \in [Callers -> Commands])
  OBVIOUS
<1> USE DEF IInv
<1>1. ASSUME NEW c \in Callers, NEW verb \in {"ensure", "start", "stop"},
             NEW plan \in make_plan(c), Begin(c, verb, plan)
      PROVE  (ctl' \in [Callers -> Commands])
  BY <1>1, BeginFacts
<1>2. ASSUME NEW c \in Callers, EnsureReads(c)
      PROVE  (ctl' \in [Callers -> Commands])
  BY <1>2, ReadFacts
<1>3. ASSUME NEW c \in Callers, StatusReads(c)
      PROVE  (ctl' \in [Callers -> Commands])
  BY <1>3, StatusFacts
<1>4. ASSUME NEW c \in Callers, StopBegins(c)
      PROVE  (ctl' \in [Callers -> Commands])
  BY <1>4, StopFacts
<1>5. ASSUME NEW c \in Callers, StopEnds(c)
      PROVE  (ctl' \in [Callers -> Commands])
  BY <1>5, AfterStopFacts DEF StopEnds
<1>6. ASSUME NEW c \in Callers, StopForces(c)
      PROVE  (ctl' \in [Callers -> Commands])
  <2>1. Raises(c) \/ ctl' = ctl
    BY <1>6 DEF StopForces
  <2> QED
    BY <2>1, RefusesFacts DEF TypeOK, Others
<1>7. ASSUME NEW c \in Callers, StartLocks(c)
      PROVE  (ctl' \in [Callers -> Commands])
  BY <1>7, StartFacts
<1>8. ASSUME NEW c \in Callers, RecordsLaunch(c)
      PROVE  (ctl' \in [Callers -> Commands])
  BY <1>8, RecordsFacts
<1>9. ASSUME NEW c \in Callers, RecordFails(c)
      PROVE  (ctl' \in [Callers -> Commands])
  BY <1>9, RefusesFacts DEF RecordFails
<1>10. ASSUME NEW c \in Callers, _record_readiness(c)
      PROVE  (ctl' \in [Callers -> Commands])
  BY <1>10, ReadinessFacts
<1>11. ASSUME NEW c \in Callers, Crash(c)
      PROVE  (ctl' \in [Callers -> Commands])
  BY <1>11, EndsFacts DEF Crash
<1>12. ASSUME NEW c \in Callers, NEW answers, EnsureDecides(c, answers)
      PROVE  (ctl' \in [Callers -> Commands])
  BY <1>12, DecideFacts
<1>13. ASSUME NEW c \in Callers, NEW answers, StartReturns(c, answers)
      PROVE  (ctl' \in [Callers -> Commands])
  BY <1>13, ReturnFacts
<1>14. ASSUME NEW c \in Callers, NEW answers, WaitPolls(c, answers)
      PROVE  (ctl' \in [Callers -> Commands])
  BY <1>14, PollFacts
<1>15. ASSUME NEW c \in Callers, NEW answers, ProbesEndpoint(c, answers)
      PROVE  (ctl' \in [Callers -> Commands])
  BY <1>15, ProbeFacts
<1>16. ASSUME NEW c \in Callers, NEW i \in Pids, NEW passed, Launches(c, i, passed)
      PROVE  (ctl' \in [Callers -> Commands])
  BY <1>16, LaunchFacts
<1>17. ASSUME NEW i \in Pids, ServerBinds(i)
      PROVE  (ctl' \in [Callers -> Commands])
  BY <1>17 DEF ServerBinds, Others, TypeOK
<1>18. ASSUME NEW i \in Pids, ServerSickens(i)
      PROVE  (ctl' \in [Callers -> Commands])
  BY <1>18 DEF ServerSickens, Others, TypeOK
<1>19. ASSUME NEW i \in Pids, ServerExits(i)
      PROVE  (ctl' \in [Callers -> Commands])
  BY <1>19 DEF ServerExits, Others, TypeOK
<1>20. ASSUME NEW i \in Pids, ForeignEnds(i)
      PROVE  (ctl' \in [Callers -> Commands])
  BY <1>20 DEF ForeignEnds, Others, TypeOK
<1>21. ASSUME NEW i \in Pids, NEW listens, ForeignStarts(i, listens)
      PROVE  (ctl' \in [Callers -> Commands])
  BY <1>21 DEF ForeignStarts, Others, TypeOK
<1>22. CASE UNCHANGED vars
  BY <1>22 DEF vars, TypeOK
<1> QED
  BY <1>1, <1>2, <1>3, <1>4, <1>5, <1>6, <1>7, <1>8, <1>9, <1>10, <1>11, <1>12,
     <1>13, <1>14, <1>15, <1>16, <1>17, <1>18, <1>19, <1>20, <1>21, <1>22 DEF Next,
     CallerStep

\* Every step leaves a record.
LEMMA RecordTyped == IInv /\ [Next]_vars => (record' \in Records)
<1> SUFFICES ASSUME IInv, [Next]_vars PROVE (record' \in Records)
  OBVIOUS
<1> USE DEF IInv
<1>1. ASSUME NEW c \in Callers, NEW verb \in {"ensure", "start", "stop"},
             NEW plan \in make_plan(c), Begin(c, verb, plan)
      PROVE  (record' \in Records)
  BY <1>1 DEF Begin, TypeOK
<1>2. ASSUME NEW c \in Callers, EnsureReads(c)
      PROVE  (record' \in Records)
  BY <1>2 DEF EnsureReads, TypeOK
<1>3. ASSUME NEW c \in Callers, StatusReads(c)
      PROVE  (record' \in Records)
  BY <1>3 DEF StatusReads, TypeOK
<1>4. ASSUME NEW c \in Callers, StopBegins(c)
      PROVE  (record' \in Records)
  BY <1>4, Types DEF StopBegins, TypeOK
<1>5. ASSUME NEW c \in Callers, StopEnds(c)
      PROVE  (record' \in Records)
  BY <1>5, Types DEF StopEnds, TypeOK
<1>6. ASSUME NEW c \in Callers, StopForces(c)
      PROVE  (record' \in Records)
  BY <1>6 DEF StopForces, TypeOK
<1>7. ASSUME NEW c \in Callers, StartLocks(c)
      PROVE  (record' \in Records)
  BY <1>7 DEF StartLocks, TypeOK
<1>8. ASSUME NEW c \in Callers, RecordsLaunch(c)
      PROVE  (record' \in Records)
  <2>1. /\ ctl[c].pid \in Pids \cup {NoPid} /\ ctl[c].mine \in Nat
        /\ ctl[c].plan \in Plans \cup {0}
    BY DEF TypeOK, Commands
  <2> QED
    BY <1>8, <2>1 DEF RecordsLaunch, Records
<1>9. ASSUME NEW c \in Callers, RecordFails(c)
      PROVE  (record' \in Records)
  BY <1>9 DEF RecordFails, TypeOK
<1>10. ASSUME NEW c \in Callers, _record_readiness(c)
      PROVE  (record' \in Records)
  <2>1. ctl[c].mine \in Nat /\ record \in Records
    BY DEF TypeOK, Commands
  <2>2. [record EXCEPT !.ready = ctl[c].mine] \in Records
    BY <2>1 DEF Records
  <2> QED
    BY <1>10, <2>1, <2>2 DEF _record_readiness
<1>11. ASSUME NEW c \in Callers, Crash(c)
      PROVE  (record' \in Records)
  BY <1>11 DEF Crash, TypeOK
<1>12. ASSUME NEW c \in Callers, NEW answers, EnsureDecides(c, answers)
      PROVE  (record' \in Records)
  BY <1>12 DEF EnsureDecides, TypeOK
<1>13. ASSUME NEW c \in Callers, NEW answers, StartReturns(c, answers)
      PROVE  (record' \in Records)
  BY <1>13 DEF StartReturns, TypeOK
<1>14. ASSUME NEW c \in Callers, NEW answers, WaitPolls(c, answers)
      PROVE  (record' \in Records)
  BY <1>14 DEF WaitPolls, TypeOK
<1>15. ASSUME NEW c \in Callers, NEW answers, ProbesEndpoint(c, answers)
      PROVE  (record' \in Records)
  BY <1>15 DEF ProbesEndpoint, TypeOK
<1>16. ASSUME NEW c \in Callers, NEW i \in Pids, NEW passed, Launches(c, i, passed)
      PROVE  (record' \in Records)
  BY <1>16 DEF Launches, TypeOK
<1>17. ASSUME NEW i \in Pids, ServerBinds(i)
      PROVE  (record' \in Records)
  BY <1>17 DEF ServerBinds, TypeOK
<1>18. ASSUME NEW i \in Pids, ServerSickens(i)
      PROVE  (record' \in Records)
  BY <1>18 DEF ServerSickens, TypeOK
<1>19. ASSUME NEW i \in Pids, ServerExits(i)
      PROVE  (record' \in Records)
  BY <1>19 DEF ServerExits, TypeOK
<1>20. ASSUME NEW i \in Pids, ForeignEnds(i)
      PROVE  (record' \in Records)
  BY <1>20 DEF ForeignEnds, TypeOK
<1>21. ASSUME NEW i \in Pids, NEW listens, ForeignStarts(i, listens)
      PROVE  (record' \in Records)
  BY <1>21 DEF ForeignStarts, TypeOK
<1>22. CASE UNCHANGED vars
  BY <1>22 DEF vars, TypeOK
<1> QED
  BY <1>1, <1>2, <1>3, <1>4, <1>5, <1>6, <1>7, <1>8, <1>9, <1>10, <1>11, <1>12,
     <1>13, <1>14, <1>15, <1>16, <1>17, <1>18, <1>19, <1>20, <1>21, <1>22 DEF Next,
     CallerStep

\* The lock, the port and the counters.
RestOK ==
    /\ lock \in Callers \cup {Nobody} /\ forgotten \subseteq Nat
    /\ port \in Nat /\ clock \in Nat /\ ops \in Nat /\ crashes \in Nat

\* Every step leaves them so.
LEMMA RestTyped == IInv /\ [Next]_vars => RestOK'
<1> SUFFICES ASSUME IInv, [Next]_vars PROVE RestOK'
  OBVIOUS
<1> USE DEF IInv, RestOK
<1>1. ASSUME NEW c \in Callers, NEW verb \in {"ensure", "start", "stop"},
             NEW plan \in make_plan(c), Begin(c, verb, plan)
      PROVE  RestOK'
  BY <1>1 DEF Begin, TypeOK, Nobody
<1>2. ASSUME NEW c \in Callers, EnsureReads(c)
      PROVE  RestOK'
  BY <1>2 DEF EnsureReads, TypeOK, Nobody
<1>3. ASSUME NEW c \in Callers, StatusReads(c)
      PROVE  RestOK'
  BY <1>3 DEF StatusReads, TypeOK, Nobody
<1>4. ASSUME NEW c \in Callers, StopBegins(c)
      PROVE  RestOK'
  BY <1>4 DEF StopBegins, TypeOK, Nobody, profile_lock
<1>5. ASSUME NEW c \in Callers, StopEnds(c)
      PROVE  RestOK'
  BY <1>5 DEF StopEnds, TypeOK, Nobody
<1>6. ASSUME NEW c \in Callers, StopForces(c)
      PROVE  RestOK'
  BY <1>6 DEF StopForces, TypeOK, Nobody
<1>7. ASSUME NEW c \in Callers, StartLocks(c)
      PROVE  RestOK'
  BY <1>7 DEF StartLocks, TypeOK, Nobody, profile_lock
<1>8. ASSUME NEW c \in Callers, RecordsLaunch(c)
      PROVE  RestOK'
  BY <1>8 DEF RecordsLaunch, TypeOK, Nobody
<1>9. ASSUME NEW c \in Callers, RecordFails(c)
      PROVE  RestOK'
  <2>1. ctl[c].pid \in Pids
    BY <1>9 DEF RecordFails, CommandInv, CommandOf, NamesServer
  <2>2. port' \in Nat
    BY <1>9, <2>1, ProcessEndsFacts DEF RecordFails, TypeOK
  <2> QED
    BY <1>9, <2>2 DEF RecordFails, TypeOK, Nobody
<1>10. ASSUME NEW c \in Callers, _record_readiness(c)
      PROVE  RestOK'
  BY <1>10 DEF _record_readiness, TypeOK, Nobody
<1>11. ASSUME NEW c \in Callers, Crash(c)
      PROVE  RestOK'
  <2>1. forgotten' \subseteq Nat
    BY <1>11 DEF Crash, TypeOK, Commands
  <2> QED
    BY <1>11, <2>1 DEF Crash, TypeOK, Nobody
<1>12. ASSUME NEW c \in Callers, NEW answers, EnsureDecides(c, answers)
      PROVE  RestOK'
  BY <1>12 DEF EnsureDecides, TypeOK, Nobody
<1>13. ASSUME NEW c \in Callers, NEW answers, StartReturns(c, answers)
      PROVE  RestOK'
  BY <1>13 DEF StartReturns, TypeOK, Nobody
<1>14. ASSUME NEW c \in Callers, NEW answers, WaitPolls(c, answers)
      PROVE  RestOK'
  BY <1>14 DEF WaitPolls, TypeOK, Nobody
<1>15. ASSUME NEW c \in Callers, NEW answers, ProbesEndpoint(c, answers)
      PROVE  RestOK'
  BY <1>15 DEF ProbesEndpoint, TypeOK, Nobody
<1>16. ASSUME NEW c \in Callers, NEW i \in Pids, NEW passed, Launches(c, i, passed)
      PROVE  RestOK'
  BY <1>16 DEF Launches, TypeOK, Nobody
<1>17. ASSUME NEW i \in Pids, ServerBinds(i)
      PROVE  RestOK'
  <2>1. os[i].born \in Nat
    BY DEF TypeOK, Processes
  <2> QED
    BY <1>17, <2>1 DEF ServerBinds, TypeOK
<1>18. ASSUME NEW i \in Pids, ServerSickens(i)
      PROVE  RestOK'
  BY <1>18 DEF ServerSickens, TypeOK, Nobody
<1>19. ASSUME NEW i \in Pids, ServerExits(i)
      PROVE  RestOK'
  BY <1>19, ProcessEndsFacts DEF ServerExits, TypeOK
<1>20. ASSUME NEW i \in Pids, ForeignEnds(i)
      PROVE  RestOK'
  BY <1>20, ProcessEndsFacts DEF ForeignEnds, TypeOK
<1>21. ASSUME NEW i \in Pids, NEW listens, ForeignStarts(i, listens)
      PROVE  RestOK'
  BY <1>21 DEF ForeignStarts, TypeOK, Nobody
<1>22. CASE UNCHANGED vars
  BY <1>22 DEF vars, TypeOK
<1> QED
  BY <1>1, <1>2, <1>3, <1>4, <1>5, <1>6, <1>7, <1>8, <1>9, <1>10, <1>11, <1>12,
     <1>13, <1>14, <1>15, <1>16, <1>17, <1>18, <1>19, <1>20, <1>21, <1>22 DEF Next,
     CallerStep

\* Every variable keeps its type.
LEMMA TypeStep == IInv /\ [Next]_vars => TypeOK'
BY FrameStep, CommandsTyped, RecordTyped, RestTyped DEF TypeOK, RestOK

\* No creation time is shared.
LEMMA OsStep == IInv /\ [Next]_vars => OsInv'
<1> SUFFICES ASSUME IInv, [Next]_vars PROVE OsInv'
  OBVIOUS
<1>1. Frame /\ clock \in Nat /\ \A j \in Pids : os[j].born \in Nat
  BY FrameStep, Types DEF IInv, TypeOK, Processes
<1>2. OsInv
  BY DEF IInv
<1> QED
  BY <1>1, <1>2 DEF OsInv, Frame, Same

\* What is named stays named, and what is gone stays gone.
LEMMA Kept ==
  ASSUME IInv, [Next]_vars, NEW pid, NEW born \in Nat
  PROVE  /\ NamesServer(pid, born) =>
               /\ pid \in Pids /\ born \in 1 .. clock'
               /\ \A i \in Pids : os'[i].born = born => i = pid /\ os'[i].kind = "server"
         /\ NamesServer(pid, born) /\ os[pid].born # born => os'[pid].born # born
<1>1. Frame /\ clock \in Nat /\ \A j \in Pids : os[j].born \in Nat
  BY FrameStep, Types DEF IInv, TypeOK, Processes
<1>2. OsInv
  BY DEF IInv
<1> QED
  BY <1>1, <1>2 DEF OsInv, Frame, Same, NamesServer

\* What is written to process.json.
RecordMoves ==
    \/ record' = record
    \/ record' = NoRecord
    \/ record'.pid = record.pid /\ record'.born = record.born /\ record'.ready = record.born
    \/ \E c \in Callers : /\ ctl[c].pc = "record"
                          /\ record'.pid = ctl[c].pid /\ record'.born = ctl[c].mine
                          /\ record'.ready = 0

\* Every step writes the record so.
LEMMA RecordMoved == IInv /\ [Next]_vars => RecordMoves
<1> SUFFICES ASSUME IInv, [Next]_vars PROVE RecordMoves
  OBVIOUS
<1> USE DEF IInv, TypeOK
<1>1. ASSUME NEW c \in Callers, NEW verb \in {"ensure", "start", "stop"},
             NEW plan \in make_plan(c), Begin(c, verb, plan)
      PROVE  RecordMoves
  BY <1>1 DEF Begin, RecordMoves
<1>2. ASSUME NEW c \in Callers, EnsureReads(c)
      PROVE  RecordMoves
  BY <1>2 DEF EnsureReads, RecordMoves
<1>3. ASSUME NEW c \in Callers, StatusReads(c)
      PROVE  RecordMoves
  BY <1>3 DEF StatusReads, RecordMoves
<1>4. ASSUME NEW c \in Callers, StopBegins(c)
      PROVE  RecordMoves
  BY <1>4 DEF StopBegins, RecordMoves
<1>5. ASSUME NEW c \in Callers, StopEnds(c)
      PROVE  RecordMoves
  BY <1>5 DEF StopEnds, RecordMoves
<1>6. ASSUME NEW c \in Callers, StopForces(c)
      PROVE  RecordMoves
  BY <1>6 DEF StopForces, RecordMoves
<1>7. ASSUME NEW c \in Callers, StartLocks(c)
      PROVE  RecordMoves
  BY <1>7 DEF StartLocks, RecordMoves
<1>8. ASSUME NEW c \in Callers, RecordsLaunch(c)
      PROVE  RecordMoves
  BY <1>8 DEF RecordsLaunch, RecordMoves
<1>9. ASSUME NEW c \in Callers, RecordFails(c)
      PROVE  RecordMoves
  BY <1>9 DEF RecordFails, RecordMoves
<1>10. ASSUME NEW c \in Callers, _record_readiness(c)
      PROVE  RecordMoves
  <2>1. [record EXCEPT !.ready = ctl[c].mine].pid = record.pid
    BY DEF TypeOK, Records
  <2>2. [record EXCEPT !.ready = ctl[c].mine].born = record.born
    BY DEF TypeOK, Records
  <2>3. [record EXCEPT !.ready = ctl[c].mine].ready = ctl[c].mine
    BY DEF TypeOK, Records
  <2> QED
    BY <1>10, <2>1, <2>2, <2>3 DEF _record_readiness, RecordMoves
<1>11. ASSUME NEW c \in Callers, Crash(c)
      PROVE  RecordMoves
  BY <1>11 DEF Crash, RecordMoves
<1>12. ASSUME NEW c \in Callers, NEW answers, EnsureDecides(c, answers)
      PROVE  RecordMoves
  BY <1>12 DEF EnsureDecides, RecordMoves
<1>13. ASSUME NEW c \in Callers, NEW answers, StartReturns(c, answers)
      PROVE  RecordMoves
  BY <1>13 DEF StartReturns, RecordMoves
<1>14. ASSUME NEW c \in Callers, NEW answers, WaitPolls(c, answers)
      PROVE  RecordMoves
  BY <1>14 DEF WaitPolls, RecordMoves
<1>15. ASSUME NEW c \in Callers, NEW answers, ProbesEndpoint(c, answers)
      PROVE  RecordMoves
  BY <1>15 DEF ProbesEndpoint, RecordMoves
<1>16. ASSUME NEW c \in Callers, NEW i \in Pids, NEW passed, Launches(c, i, passed)
      PROVE  RecordMoves
  BY <1>16 DEF Launches, RecordMoves
<1>17. ASSUME NEW i \in Pids, ServerBinds(i)
      PROVE  RecordMoves
  BY <1>17 DEF ServerBinds, RecordMoves
<1>18. ASSUME NEW i \in Pids, ServerSickens(i)
      PROVE  RecordMoves
  BY <1>18 DEF ServerSickens, RecordMoves
<1>19. ASSUME NEW i \in Pids, ServerExits(i)
      PROVE  RecordMoves
  BY <1>19 DEF ServerExits, RecordMoves
<1>20. ASSUME NEW i \in Pids, ForeignEnds(i)
      PROVE  RecordMoves
  BY <1>20 DEF ForeignEnds, RecordMoves
<1>21. ASSUME NEW i \in Pids, NEW listens, ForeignStarts(i, listens)
      PROVE  RecordMoves
  BY <1>21 DEF ForeignStarts, RecordMoves
<1>22. CASE UNCHANGED vars
  BY <1>22 DEF vars, RecordMoves
<1> QED
  BY <1>1, <1>2, <1>3, <1>4, <1>5, <1>6, <1>7, <1>8, <1>9, <1>10, <1>11, <1>12,
     <1>13, <1>14, <1>15, <1>16, <1>17, <1>18, <1>19, <1>20, <1>21, <1>22 DEF Next,
     CallerStep

\* process.json names a server that was launched, and a timing of its own.
LEMMA RecordStep == IInv /\ [Next]_vars => RecordInv'
<1> SUFFICES ASSUME IInv, [Next]_vars PROVE RecordInv'
  OBVIOUS
<1>1. RecordMoves /\ record \in Records /\ RecordInv /\ CommandInv /\ record' \in Records
  BY RecordMoved, RecordTyped DEF IInv, TypeOK
<1>2. record'.born \in Nat
  BY <1>1 DEF Records
<1>3. ctl \in [Callers -> Commands]
  BY DEF IInv, TypeOK
<1>4. TimingIsOfItsProcess'
  BY <1>1 DEF RecordMoves, RecordInv, TimingIsOfItsProcess, NoRecord
<1>5. ASSUME record'.born # 0 PROVE NamesServer(record.pid, record.born)'
  <2>1. \E pid \in Pids, born \in Nat :
           record'.pid = pid /\ record'.born = born /\ NamesServer(pid, born)
    <3>1. CASE record'.pid = record.pid /\ record'.born = record.born
      BY <1>1, <1>2, <1>5, <3>1 DEF RecordInv, NamesServer
    <3>2. CASE \E c \in Callers : /\ ctl[c].pc = "record"
                                  /\ record'.pid = ctl[c].pid /\ record'.born = ctl[c].mine
      BY <1>1, <1>2, <3>2 DEF CommandInv, CommandOf, NamesServer
    <3>3. record' # NoRecord
      BY <1>5 DEF NoRecord
    <3> QED
      BY <1>1, <3>1, <3>2, <3>3 DEF RecordMoves
  <2> QED
    BY <2>1, Kept DEF NamesServer
<1> QED
  BY <1>4, <1>5 DEF RecordInv

\* Who holds the lock has taken it, and nobody else gives it back.
LEMMA LockStep == IInv /\ [Next]_vars => LockInv'
<1> SUFFICES ASSUME IInv, [Next]_vars PROVE LockInv'
  OBVIOUS
<1>0. Nobody \notin Callers /\ TypeOK /\ LockInv
  BY RuntimeAssumption DEF Nobody, IInv
<1>1. ASSUME NEW c \in Callers, NEW verb \in {"ensure", "start", "stop"},
             NEW plan \in make_plan(c), Begin(c, verb, plan)
      PROVE  LockInv'
  <2>1. Others(c)
    BY <1>0, <1>1, BeginFacts
  <2>2. Locks(c)' => lock' = c
    BY <1>0, <1>1, BeginFacts DEF Locks, Begin, LockInv
  <2>3. lock' = lock \/ lock = Nobody \/ lock = c
    BY <1>0, <1>1 DEF Begin, Locks, LockInv
  <2> QED
    BY <1>0, <2>1, <2>2, <2>3 DEF Others, Locks, LockInv
<1>2. ASSUME NEW c \in Callers, EnsureReads(c)
      PROVE  LockInv'
  <2>1. Others(c)
    BY <1>0, <1>2, ReadFacts
  <2>2. Locks(c)' => lock' = c
    BY <1>0, <1>2, ReadFacts DEF Locks, EnsureReads, LockInv
  <2>3. lock' = lock \/ lock = Nobody \/ lock = c
    BY <1>0, <1>2 DEF EnsureReads, Locks, LockInv
  <2> QED
    BY <1>0, <2>1, <2>2, <2>3 DEF Others, Locks, LockInv
<1>3. ASSUME NEW c \in Callers, StatusReads(c)
      PROVE  LockInv'
  <2>1. Others(c)
    BY <1>0, <1>3, StatusFacts
  <2>2. Locks(c)' => lock' = c
    BY <1>0, <1>3, StatusFacts DEF Locks, StatusReads, LockInv
  <2>3. lock' = lock \/ lock = Nobody \/ lock = c
    BY <1>0, <1>3, StatusFacts DEF StatusReads, Locks, LockInv
  <2> QED
    BY <1>0, <2>1, <2>2, <2>3 DEF Others, Locks, LockInv
<1>4. ASSUME NEW c \in Callers, StopBegins(c)
      PROVE  LockInv'
  <2>1. Others(c)
    BY <1>0, <1>4, StopFacts
  <2>2. Locks(c)' => lock' = c
    BY <1>0, <1>4, StopFacts DEF Locks, LockInv
  <2>3. lock' = lock \/ lock = Nobody \/ lock = c
    BY <1>0, <1>4, StopFacts DEF StopBegins, Locks, LockInv
  <2> QED
    BY <1>0, <2>1, <2>2, <2>3 DEF Others, Locks, LockInv
<1>5. ASSUME NEW c \in Callers, StopEnds(c)
      PROVE  LockInv'
  <2>1. Others(c)
    BY <1>0, <1>5, AfterStopFacts DEF StopEnds, LockInv
  <2>2. Locks(c)' => lock' = c
    BY <1>0, <1>5, AfterStopFacts DEF Locks, StopEnds, LockInv
  <2>3. lock' = lock \/ lock = Nobody \/ lock = c
    BY <1>0, <1>5 DEF StopEnds, Locks, LockInv
  <2> QED
    BY <1>0, <2>1, <2>2, <2>3 DEF Others, Locks, LockInv
<1>6. ASSUME NEW c \in Callers, StopForces(c)
      PROVE  LockInv'
  <2>1. (Raises(c) /\ lock' = Nobody) \/ (ctl' = ctl /\ lock' = lock)
    BY <1>0, <1>6 DEF StopForces, LockInv
  <2>2. CASE ctl' = ctl /\ lock' = lock
    BY <1>0, <2>2 DEF Locks, LockInv
  <2>3. CASE Raises(c) /\ lock' = Nobody
    <3>1. Others(c) /\ ~Locks(c)' /\ lock = c
      BY <1>0, <1>6, <2>3, RefusesFacts DEF Locks, StopForces, LockInv
    <3> QED
      BY <1>0, <2>3, <3>1 DEF Others, Locks, LockInv
  <2> QED
    BY <1>0, <2>1, <2>2, <2>3
<1>7. ASSUME NEW c \in Callers, StartLocks(c)
      PROVE  LockInv'
  <2>1. Others(c)
    BY <1>0, <1>7, StartFacts
  <2>2. Locks(c)' => lock' = c
    BY <1>0, <1>7, StartFacts DEF Locks, LockInv
  <2>3. lock' = lock \/ lock = Nobody \/ lock = c
    BY <1>0, <1>7, StartFacts DEF StartLocks, Locks, LockInv
  <2> QED
    BY <1>0, <2>1, <2>2, <2>3 DEF Others, Locks, LockInv
<1>8. ASSUME NEW c \in Callers, RecordsLaunch(c)
      PROVE  LockInv'
  <2>1. Others(c)
    BY <1>0, <1>8, RecordsFacts
  <2>2. Locks(c)' => lock' = c
    BY <1>0, <1>8, RecordsFacts DEF Locks, RecordsLaunch, LockInv
  <2>3. lock' = lock \/ lock = Nobody \/ lock = c
    BY <1>0, <1>8 DEF RecordsLaunch, Locks, LockInv
  <2> QED
    BY <1>0, <2>1, <2>2, <2>3 DEF Others, Locks, LockInv
<1>9. ASSUME NEW c \in Callers, RecordFails(c)
      PROVE  LockInv'
  <2>1. Others(c)
    BY <1>0, <1>9, RefusesFacts DEF RecordFails, LockInv
  <2>2. Locks(c)' => lock' = c
    BY <1>0, <1>9, RefusesFacts DEF Locks, RecordFails, LockInv
  <2>3. lock' = lock \/ lock = Nobody \/ lock = c
    BY <1>0, <1>9 DEF RecordFails, Locks, LockInv
  <2> QED
    BY <1>0, <2>1, <2>2, <2>3 DEF Others, Locks, LockInv
<1>10. ASSUME NEW c \in Callers, _record_readiness(c)
      PROVE  LockInv'
  <2>1. Others(c)
    BY <1>0, <1>10, ReadinessFacts
  <2>2. Locks(c)' => lock' = c
    BY <1>0, <1>10, ReadinessFacts DEF Locks, _record_readiness, LockInv
  <2>3. lock' = lock \/ lock = Nobody \/ lock = c
    BY <1>0, <1>10 DEF _record_readiness, Locks, LockInv
  <2> QED
    BY <1>0, <2>1, <2>2, <2>3 DEF Others, Locks, LockInv
<1>11. ASSUME NEW c \in Callers, Crash(c)
      PROVE  LockInv'
  <2>1. Others(c)
    BY <1>0, <1>11, EndsFacts DEF Crash, LockInv
  <2>2. Locks(c)' => lock' = c
    BY <1>0, <1>11, EndsFacts DEF Locks, Crash, LockInv
  <2>3. lock' = lock \/ lock = Nobody \/ lock = c
    BY <1>0, <1>11 DEF Crash, Locks, LockInv
  <2> QED
    BY <1>0, <2>1, <2>2, <2>3 DEF Others, Locks, LockInv
<1>12. ASSUME NEW c \in Callers, NEW answers, EnsureDecides(c, answers)
      PROVE  LockInv'
  <2>1. Others(c)
    BY <1>0, <1>12, DecideFacts
  <2>2. Locks(c)' => lock' = c
    BY <1>0, <1>12, DecideFacts DEF Locks, EnsureDecides, LockInv
  <2>3. lock' = lock \/ lock = Nobody \/ lock = c
    BY <1>0, <1>12 DEF EnsureDecides, Locks, LockInv
  <2> QED
    BY <1>0, <2>1, <2>2, <2>3 DEF Others, Locks, LockInv
<1>13. ASSUME NEW c \in Callers, NEW answers, StartReturns(c, answers)
      PROVE  LockInv'
  <2>1. Others(c)
    BY <1>0, <1>13, ReturnFacts
  <2>2. Locks(c)' => lock' = c
    BY <1>0, <1>13, ReturnFacts DEF Locks, StartReturns, LockInv
  <2>3. lock' = lock \/ lock = Nobody \/ lock = c
    BY <1>0, <1>13 DEF StartReturns, Locks, LockInv
  <2> QED
    BY <1>0, <2>1, <2>2, <2>3 DEF Others, Locks, LockInv
<1>14. ASSUME NEW c \in Callers, NEW answers, WaitPolls(c, answers)
      PROVE  LockInv'
  <2>1. Others(c)
    BY <1>0, <1>14, PollFacts
  <2>2. Locks(c)' => lock' = c
    BY <1>0, <1>14, PollFacts DEF Locks, WaitPolls, LockInv
  <2>3. lock' = lock \/ lock = Nobody \/ lock = c
    BY <1>0, <1>14 DEF WaitPolls, Locks, LockInv
  <2> QED
    BY <1>0, <2>1, <2>2, <2>3 DEF Others, Locks, LockInv
<1>15. ASSUME NEW c \in Callers, NEW answers, ProbesEndpoint(c, answers)
      PROVE  LockInv'
  <2>1. Others(c)
    BY <1>0, <1>15, ProbeFacts
  <2>2. Locks(c)' => lock' = c
    BY <1>0, <1>15, ProbeFacts DEF Locks, ProbesEndpoint, LockInv
  <2>3. lock' = lock \/ lock = Nobody \/ lock = c
    BY <1>0, <1>15 DEF ProbesEndpoint, Locks, LockInv
  <2> QED
    BY <1>0, <2>1, <2>2, <2>3 DEF Others, Locks, LockInv
<1>16. ASSUME NEW c \in Callers, NEW i \in Pids, NEW passed, Launches(c, i, passed)
      PROVE  LockInv'
  <2>1. Others(c)
    BY <1>0, <1>16, LaunchFacts
  <2>2. Locks(c)' => lock' = c
    BY <1>0, <1>16, LaunchFacts DEF Locks, Launches, LockInv
  <2>3. lock' = lock \/ lock = Nobody \/ lock = c
    BY <1>0, <1>16 DEF Launches, Locks, LockInv
  <2> QED
    BY <1>0, <2>1, <2>2, <2>3 DEF Others, Locks, LockInv
<1>17. ASSUME NEW i \in Pids, ServerBinds(i)
      PROVE  LockInv'
  BY <1>0, <1>17 DEF ServerBinds, Locks, LockInv
<1>18. ASSUME NEW i \in Pids, ServerSickens(i)
      PROVE  LockInv'
  BY <1>0, <1>18 DEF ServerSickens, Locks, LockInv
<1>19. ASSUME NEW i \in Pids, ServerExits(i)
      PROVE  LockInv'
  BY <1>0, <1>19 DEF ServerExits, Locks, LockInv
<1>20. ASSUME NEW i \in Pids, ForeignEnds(i)
      PROVE  LockInv'
  BY <1>0, <1>20 DEF ForeignEnds, Locks, LockInv
<1>21. ASSUME NEW i \in Pids, NEW listens, ForeignStarts(i, listens)
      PROVE  LockInv'
  BY <1>0, <1>21 DEF ForeignStarts, Locks, LockInv
<1>22. CASE UNCHANGED vars
  BY <1>0, <1>22 DEF vars, Locks, LockInv
<1> QED
  BY <1>1, <1>2, <1>3, <1>4, <1>5, <1>6, <1>7, <1>8, <1>9, <1>10, <1>11, <1>12,
     <1>13, <1>14, <1>15, <1>16, <1>17, <1>18, <1>19, <1>20, <1>21, <1>22 DEF Next,
     CallerStep

\* A command that does not move keeps what it knows.
LEMMA CommandKept ==
  ASSUME IInv, [Next]_vars, NEW d \in Callers, ctl'[d] = ctl[d],
         Locks(d) => record' = record
  PROVE  CommandOf(d)'
<1>1. CommandOf(d) /\ ctl[d].mine \in Nat /\ record.born \in Nat
  BY DEF IInv, CommandInv, TypeOK, Commands, Records
<1>2. ctl[d].pc = "record" => NamesServer(ctl[d].pid, ctl[d].mine)'
  <2>1. ASSUME NamesServer(ctl[d].pid, ctl[d].mine) PROVE NamesServer(ctl[d].pid, ctl[d].mine)'
    BY <1>1, <2>1, Kept DEF NamesServer
  <2> QED
    BY <1>1, <2>1 DEF CommandOf
<1>3. ctl[d].pc \in {"launch", "record", "stopping"} => record' = record
  BY DEF Locks
<1>4. ASSUME ctl[d].pc \in {"launch", "record"} PROVE RecordIsGone'
  BY <1>1, <1>3, <1>4, Kept DEF CommandOf, RecordIsGone, IInv, RecordInv
<1> QED
  BY <1>1, <1>2, <1>3, <1>4 DEF CommandOf

LEMMA CommandFrame ==
  ASSUME IInv, [Next]_vars, NEW c \in Callers, Others(c), CommandOf(c)',
         record' = record \/ \A d \in Callers \ {c} : ~Locks(d)
  PROVE  CommandInv'
BY CommandKept DEF CommandInv, Others

LEMMA NobodyMoves ==
  ASSUME IInv, [Next]_vars, ctl' = ctl, record' = record
  PROVE  CommandInv'
BY CommandKept DEF CommandInv

\* Every command keeps what it knows under the lock.
LEMMA CommandStep == IInv /\ [Next]_vars => CommandInv'
<1> SUFFICES ASSUME IInv, [Next]_vars PROVE CommandInv'
  OBVIOUS
<1> USE DEF IInv
<1>0. Nobody \notin Callers /\ TypeOK /\ LockInv
  BY RuntimeAssumption DEF Nobody, IInv
<1>1. ASSUME NEW c \in Callers, NEW verb \in {"ensure", "start", "stop"},
             NEW plan \in make_plan(c), Begin(c, verb, plan)
      PROVE  CommandInv'
  <2>1. Others(c)
    BY <1>1, BeginFacts
  <2>2. CommandOf(c)'
    BY <1>1, BeginFacts DEF CommandOf
  <2>3. record' = record \/ \A d \in Callers \ {c} : ~Locks(d)
    BY <1>1 DEF Begin
  <2> QED
    BY <2>1, <2>2, <2>3, CommandFrame
<1>2. ASSUME NEW c \in Callers, EnsureReads(c)
      PROVE  CommandInv'
  <2>1. Others(c)
    BY <1>2, ReadFacts
  <2>2. CommandOf(c)'
    BY <1>2, ReadFacts DEF CommandOf
  <2>3. record' = record \/ \A d \in Callers \ {c} : ~Locks(d)
    BY <1>2 DEF EnsureReads
  <2> QED
    BY <2>1, <2>2, <2>3, CommandFrame
<1>3. ASSUME NEW c \in Callers, StatusReads(c)
      PROVE  CommandInv'
  <2>1. Others(c)
    BY <1>3, StatusFacts
  <2>2. CommandOf(c)'
    BY <1>3, StatusFacts DEF CommandOf
  <2>3. record' = record \/ \A d \in Callers \ {c} : ~Locks(d)
    BY <1>3 DEF StatusReads
  <2> QED
    BY <2>1, <2>2, <2>3, CommandFrame
<1>4. ASSUME NEW c \in Callers, StopBegins(c)
      PROVE  CommandInv'
  <2>1. Others(c)
    BY <1>4, StopFacts
  <2>2. CommandOf(c)'
    BY <1>4, StopFacts DEF CommandOf
  <2>3. record' = record \/ \A d \in Callers \ {c} : ~Locks(d)
    BY <1>0, <1>4, StopFacts DEF LockInv
  <2> QED
    BY <2>1, <2>2, <2>3, CommandFrame
<1>5. ASSUME NEW c \in Callers, StopEnds(c)
      PROVE  CommandInv'
  <2>1. Others(c)
    BY <1>5, AfterStopFacts DEF StopEnds
  <2>2. CommandOf(c)'
    BY <1>5, AfterStopFacts DEF CommandOf, StopEnds
  <2>3. record' = record \/ \A d \in Callers \ {c} : ~Locks(d)
    BY <1>5 DEF StopEnds, LockInv, Locks
  <2> QED
    BY <2>1, <2>2, <2>3, CommandFrame
<1>6. ASSUME NEW c \in Callers, StopForces(c)
      PROVE  CommandInv'
  <2>1. record' = record
    BY <1>6 DEF StopForces
  <2>2. CASE Raises(c)
    <3>1. Others(c) /\ CommandOf(c)'
      BY <2>2, RefusesFacts DEF CommandOf
    <3> QED
      BY <2>1, <3>1, CommandFrame
  <2>3. CASE ctl' = ctl
    BY <2>1, <2>3, NobodyMoves
  <2> QED
    BY <1>6, <2>2, <2>3 DEF StopForces
<1>7. ASSUME NEW c \in Callers, StartLocks(c)
      PROVE  CommandInv'
  <2>1. Others(c) /\ record' = record
    BY <1>7, StartFacts DEF StartLocks
  <2>2. ctl'[c].pc = "launch" => RecordIsGone'
    BY <1>7, StartFacts DEF StartLocks, RecordIsGone
  <2>3. CommandOf(c)'
    BY <1>7, <2>2, StartFacts DEF CommandOf
  <2> QED
    BY <2>1, <2>3, CommandFrame
<1>8. ASSUME NEW c \in Callers, RecordsLaunch(c)
      PROVE  CommandInv'
  <2>1. Others(c)
    BY <1>8, RecordsFacts
  <2>2. CommandOf(c)'
    BY <1>8, RecordsFacts DEF CommandOf
  <2>3. record' = record \/ \A d \in Callers \ {c} : ~Locks(d)
    BY <1>8 DEF RecordsLaunch, LockInv, Locks
  <2> QED
    BY <2>1, <2>2, <2>3, CommandFrame
<1>9. ASSUME NEW c \in Callers, RecordFails(c)
      PROVE  CommandInv'
  <2>1. Others(c)
    BY <1>9, RefusesFacts DEF RecordFails
  <2>2. CommandOf(c)'
    BY <1>9, RefusesFacts DEF CommandOf, RecordFails
  <2>3. record' = record \/ \A d \in Callers \ {c} : ~Locks(d)
    BY <1>9 DEF RecordFails
  <2> QED
    BY <2>1, <2>2, <2>3, CommandFrame
<1>10. ASSUME NEW c \in Callers, _record_readiness(c)
      PROVE  CommandInv'
  <2>1. Others(c)
    BY <1>10, ReadinessFacts
  <2>2. CommandOf(c)'
    BY <1>10, ReadinessFacts DEF CommandOf
  <2>3. record' = record \/ \A d \in Callers \ {c} : ~Locks(d)
    BY <1>0, <1>10 DEF _record_readiness, LockInv
  <2> QED
    BY <2>1, <2>2, <2>3, CommandFrame
<1>11. ASSUME NEW c \in Callers, Crash(c)
      PROVE  CommandInv'
  <2>1. Others(c)
    BY <1>11, EndsFacts DEF Crash
  <2>2. CommandOf(c)'
    BY <1>11, EndsFacts DEF CommandOf, Crash
  <2>3. record' = record \/ \A d \in Callers \ {c} : ~Locks(d)
    BY <1>11 DEF Crash
  <2> QED
    BY <2>1, <2>2, <2>3, CommandFrame
<1>12. ASSUME NEW c \in Callers, NEW answers, EnsureDecides(c, answers)
      PROVE  CommandInv'
  <2>1. Others(c)
    BY <1>12, DecideFacts
  <2>2. CommandOf(c)'
    BY <1>12, DecideFacts DEF CommandOf
  <2>3. record' = record \/ \A d \in Callers \ {c} : ~Locks(d)
    BY <1>12 DEF EnsureDecides
  <2> QED
    BY <2>1, <2>2, <2>3, CommandFrame
<1>13. ASSUME NEW c \in Callers, NEW answers, StartReturns(c, answers)
      PROVE  CommandInv'
  <2>1. Others(c)
    BY <1>13, ReturnFacts
  <2>2. CommandOf(c)'
    BY <1>13, ReturnFacts DEF CommandOf
  <2>3. record' = record \/ \A d \in Callers \ {c} : ~Locks(d)
    BY <1>13 DEF StartReturns
  <2> QED
    BY <2>1, <2>2, <2>3, CommandFrame
<1>14. ASSUME NEW c \in Callers, NEW answers, WaitPolls(c, answers)
      PROVE  CommandInv'
  <2>1. Others(c)
    BY <1>14, PollFacts
  <2>2. CommandOf(c)'
    BY <1>14, PollFacts DEF CommandOf
  <2>3. record' = record \/ \A d \in Callers \ {c} : ~Locks(d)
    BY <1>14 DEF WaitPolls
  <2> QED
    BY <2>1, <2>2, <2>3, CommandFrame
<1>15. ASSUME NEW c \in Callers, NEW answers, ProbesEndpoint(c, answers)
      PROVE  CommandInv'
  <2>1. Others(c)
    BY <1>15, ProbeFacts
  <2>2. CommandOf(c)'
    BY <1>15, ProbeFacts DEF CommandOf
  <2>3. record' = record \/ \A d \in Callers \ {c} : ~Locks(d)
    BY <1>15 DEF ProbesEndpoint
  <2> QED
    BY <2>1, <2>2, <2>3, CommandFrame
<1>16. ASSUME NEW c \in Callers, NEW i \in Pids, NEW passed, Launches(c, i, passed)
      PROVE  CommandInv'
  <2>1. Others(c) /\ record' = record
    BY <1>16, LaunchFacts DEF Launches
  <2>2. CASE ctl'[c].pc = "done"
    <3>1. CommandOf(c)'
      BY <2>2 DEF CommandOf
    <3> QED
      BY <2>1, <3>1, CommandFrame
  <2>3. CASE /\ ctl'[c].pc = "record" /\ ctl'[c].mine = clock + 1 /\ ctl'[c].pid = i
             /\ os[i].born = 0 /\ clock' = clock + 1
             /\ os' = [os EXCEPT ![i] = [born |-> clock + 1, kind |-> "server",
                                         plan |-> ctl[c].plan, phase |-> "loading"]]
    <3>1. /\ os'[i].born = clock + 1 /\ os'[i].kind = "server"
          /\ \A j \in Pids \ {i} : os'[j] = os[j]
      BY <2>3 DEF TypeOK
    <3>2. clock \in Nat /\ \A j \in Pids : os[j].born <= clock /\ os[j].born \in Nat
      BY DEF OsInv, TypeOK, Processes
    <3>3. NamesServer(ctl[c].pid, ctl[c].mine)'
      BY <2>3, <3>1, <3>2 DEF NamesServer
    <3>4. RecordIsGone /\ record.born \in Nat
      BY <1>16 DEF Launches, CommandInv, CommandOf, TypeOK, Records
    <3>5. RecordIsGone'
      BY <2>1, <3>4, Kept DEF RecordIsGone, RecordInv
    <3>6. CommandOf(c)'
      BY <2>3, <3>3, <3>5 DEF CommandOf
    <3> QED
      BY <2>1, <3>6, CommandFrame
  <2> QED
    BY <1>16, <2>2, <2>3, LaunchFacts
<1>17. ASSUME NEW i \in Pids, ServerBinds(i)
      PROVE  CommandInv'
  BY <1>17, NobodyMoves DEF ServerBinds
<1>18. ASSUME NEW i \in Pids, ServerSickens(i)
      PROVE  CommandInv'
  BY <1>18, NobodyMoves DEF ServerSickens
<1>19. ASSUME NEW i \in Pids, ServerExits(i)
      PROVE  CommandInv'
  BY <1>19, NobodyMoves DEF ServerExits
<1>20. ASSUME NEW i \in Pids, ForeignEnds(i)
      PROVE  CommandInv'
  BY <1>20, NobodyMoves DEF ForeignEnds
<1>21. ASSUME NEW i \in Pids, NEW listens, ForeignStarts(i, listens)
      PROVE  CommandInv'
  BY <1>21, NobodyMoves DEF ForeignStarts
<1>22. CASE UNCHANGED vars
  BY <1>22, NobodyMoves DEF vars
<1> QED
  BY <1>1, <1>2, <1>3, <1>4, <1>5, <1>6, <1>7, <1>8, <1>9, <1>10, <1>11, <1>12,
     <1>13, <1>14, <1>15, <1>16, <1>17, <1>18, <1>19, <1>20, <1>21, <1>22 DEF Next,
     CallerStep

\* A server that runs and was not told to die.
Runs(j) == os[j].kind = "server" /\ os[j].phase # "dying"

\* Where its creation time is noted.
Noted(j, born) ==
    \/ record.pid = j /\ record.born = born
    \/ \E c \in Callers : ctl[c].pc = "record" /\ ctl[c].mine = born
    \/ born \in forgotten

LEMMA AccountFrame ==
  ASSUME ServersAccounted,
         \A j \in Pids : Runs(j)' => Runs(j) /\ os'[j].born = os[j].born,
         \A j \in Pids : Runs(j)' /\ Noted(j, os[j].born) => Noted(j, os[j].born)'
  PROVE  ServersAccounted'
BY DEF ServersAccounted, Runs, Noted

\* No server is lost.
LEMMA AccountStep == IInv /\ [Next]_vars => ServersAccounted'
<1> SUFFICES ASSUME IInv, [Next]_vars PROVE ServersAccounted'
  OBVIOUS
<1>0. TypeOK /\ OsInv /\ CommandInv /\ ServersAccounted
  BY DEF IInv
<1>1. ASSUME NEW c \in Callers, NEW verb \in {"ensure", "start", "stop"},
             NEW plan \in make_plan(c), Begin(c, verb, plan)
      PROVE  ServersAccounted'
  BY <1>0, <1>1, BeginFacts DEF ServersAccounted, Begin, Others
<1>2. ASSUME NEW c \in Callers, EnsureReads(c)
      PROVE  ServersAccounted'
  BY <1>0, <1>2, ReadFacts DEF ServersAccounted, EnsureReads, Others
<1>3. ASSUME NEW c \in Callers, StatusReads(c)
      PROVE  ServersAccounted'
  BY <1>0, <1>3, StatusFacts DEF ServersAccounted, StatusReads, Others
<1>4. ASSUME NEW c \in Callers, StopBegins(c)
      PROVE  ServersAccounted'
  <2>1. Others(c) /\ ctl[c].pc = "stop" /\ forgotten' = forgotten
    BY <1>0, <1>4, StopFacts DEF StopBegins
  <2>2. ASSUME os' = os /\ record' = record PROVE ServersAccounted'
    BY <1>0, <2>1, <2>2, AccountFrame DEF Runs, Noted, Others
  <2>3. ASSUME RecordIsGone /\ UNCHANGED os PROVE ServersAccounted'
    <3>1. \A j \in Pids : Runs(j)' => Runs(j) /\ os'[j].born = os[j].born
      BY <2>3 DEF Runs
    <3>2. \A j \in Pids : Runs(j)' => ~(record.pid = j /\ record.born = os[j].born)
      BY <1>0, <2>3, <3>1 DEF Runs, RecordIsGone, OsInv
    <3> QED
      BY <1>0, <2>1, <3>1, <3>2, AccountFrame DEF Noted, Others
  <2>4. ASSUME os' = [os EXCEPT ![record.pid].phase = IF @ = "dying" THEN @ ELSE "term"],
               record' = record
        PROVE  ServersAccounted'
    <3>1. os \in [Pids -> Processes]
      BY <1>0 DEF TypeOK
    <3>2. ASSUME NEW j \in Pids, Runs(j)' PROVE Runs(j) /\ os'[j].born = os[j].born
      <4>1. CASE j # record.pid
        BY <2>4, <3>1, <3>2, <4>1 DEF Runs
      <4>2. CASE j = record.pid
        <5>1. os'[j] = [os[j] EXCEPT !.phase = IF @ = "dying" THEN @ ELSE "term"]
          BY <2>4, <3>1, <4>2
        <5>2. /\ os'[j].born = os[j].born /\ os'[j].kind = os[j].kind
              /\ os[j].phase = "dying" => os'[j].phase = "dying"
          BY <3>1, <5>1 DEF Processes
        <5> QED
          BY <3>2, <5>2 DEF Runs
      <4> QED
        BY <4>1, <4>2
    <3>3. \A j \in Pids : Noted(j, os[j].born) => Noted(j, os[j].born)'
      BY <2>1, <2>4 DEF Noted, Others
    <3> QED
      BY <1>0, <3>2, <3>3, AccountFrame
  <2> QED
    BY <1>0, <1>4, <2>2, <2>3, <2>4, StopCases
<1>5. ASSUME NEW c \in Callers, StopEnds(c)
      PROVE  ServersAccounted'
  <2>1. os' = os /\ Others(c) /\ ctl[c].pc = "stopping" /\ forgotten' = forgotten
    BY <1>0, <1>5, AfterStopFacts DEF StopEnds
  <2>2. RecordIsGone
    BY <1>5, <1>0 DEF StopEnds, CommandInv, CommandOf, RecordIsGone
  <2>3. \A j \in Pids : Runs(j) => ~(record.pid = j /\ record.born = os[j].born)
    BY <1>0, <2>2 DEF Runs, RecordIsGone, OsInv
  <2> QED
    BY <1>0, <2>1, <2>3, AccountFrame DEF Runs, Noted, Others
<1>6. ASSUME NEW c \in Callers, StopForces(c)
      PROVE  ServersAccounted'
  <2>1. ctl[c].pc = "stopping" /\ forgotten' = forgotten /\ record' = record
    BY <1>6 DEF StopForces
  <2>2. CASE Raises(c) /\ os' = os
    BY <1>0, <2>1, <2>2, RefusesFacts, AccountFrame DEF Runs, Noted, Others
  <2>3. CASE ctl' = ctl /\ os' = [os EXCEPT ![ctl[c].st.pid].phase = "dying"]
    <3>1. os \in [Pids -> Processes]
      BY <1>0 DEF TypeOK
    <3>2. \A j \in Pids : Runs(j)' => Runs(j) /\ os'[j].born = os[j].born
      BY <2>3, <3>1 DEF Runs, Processes
    <3>3. \A j \in Pids : Noted(j, os[j].born) => Noted(j, os[j].born)'
      BY <2>1, <2>3 DEF Noted
    <3> QED
      BY <1>0, <3>2, <3>3, AccountFrame
  <2> QED
    BY <1>6, <2>2, <2>3 DEF StopForces
<1>7. ASSUME NEW c \in Callers, StartLocks(c)
      PROVE  ServersAccounted'
  BY <1>0, <1>7, StartFacts DEF ServersAccounted, StartLocks, Others
<1>8. ASSUME NEW c \in Callers, RecordsLaunch(c)
      PROVE  ServersAccounted'
  <2>1. os' = os /\ Others(c) /\ forgotten' = forgotten
    BY <1>0, <1>8, RecordsFacts DEF RecordsLaunch
  <2>2. /\ ctl[c].pc = "record" /\ os[ctl[c].pid].born = ctl[c].mine
        /\ record'.pid = ctl[c].pid /\ record'.born = ctl[c].mine
    BY <1>8 DEF RecordsLaunch
  <2>3. RecordIsGone /\ NamesServer(ctl[c].pid, ctl[c].mine)
    BY <1>0, <2>2 DEF CommandInv, CommandOf
  <2>4. \A j \in Pids : Runs(j) => ~(record.pid = j /\ record.born = os[j].born)
    BY <1>0, <2>3 DEF Runs, RecordIsGone, OsInv
  <2>5. \A j \in Pids : os[j].born = ctl[c].mine => j = ctl[c].pid
    BY <2>3 DEF NamesServer
  <2> QED
    BY <1>0, <2>1, <2>2, <2>4, <2>5, AccountFrame DEF Runs, Noted, Others
<1>9. ASSUME NEW c \in Callers, RecordFails(c)
      PROVE  ServersAccounted'
  <2>1. Others(c) /\ ctl[c].pc = "record" /\ forgotten' = forgotten /\ record' = record
    BY <1>0, <1>9, RefusesFacts DEF RecordFails
  <2>2. NamesServer(ctl[c].pid, ctl[c].mine)
    BY <1>0, <2>1 DEF CommandInv, CommandOf
  <2>3. /\ \A j \in Pids : Runs(j)' => Runs(j) /\ os'[j].born = os[j].born
        /\ \A j \in Pids : Runs(j)' => os[j].born # ctl[c].mine
    <3>1. os \in [Pids -> Processes] /\ ctl[c].pid \in Pids
      BY <1>0, <2>2 DEF TypeOK, NamesServer
    <3>2. \A j \in Pids : os[j].born = ctl[c].mine => j = ctl[c].pid
      BY <2>2 DEF NamesServer
    <3>3. CASE os[ctl[c].pid].born = ctl[c].mine /\ ProcessEnds(ctl[c].pid)
      BY <1>0, <3>1, <3>2, <3>3, ProcessEndsFacts DEF Runs
    <3>4. CASE /\ os[ctl[c].pid].born = ctl[c].mine
               /\ os' = [os EXCEPT ![ctl[c].pid].phase = "dying"]
      BY <3>1, <3>2, <3>4 DEF Runs, Processes
    <3>5. CASE os[ctl[c].pid].born # ctl[c].mine /\ os' = os
      BY <3>2, <3>5 DEF Runs
    <3> QED
      BY <1>9, <3>3, <3>4, <3>5 DEF RecordFails
  <2> QED
    BY <1>0, <2>1, <2>3, AccountFrame DEF Noted, Others
<1>10. ASSUME NEW c \in Callers, _record_readiness(c)
      PROVE  ServersAccounted'
  BY <1>0, <1>10, ReadinessFacts DEF ServersAccounted, _record_readiness, Others
<1>11. ASSUME NEW c \in Callers, Crash(c)
      PROVE  ServersAccounted'
  BY <1>0, <1>11, EndsFacts DEF ServersAccounted, Crash, Others
<1>12. ASSUME NEW c \in Callers, NEW answers, EnsureDecides(c, answers)
      PROVE  ServersAccounted'
  BY <1>0, <1>12, DecideFacts DEF ServersAccounted, EnsureDecides, Others
<1>13. ASSUME NEW c \in Callers, NEW answers, StartReturns(c, answers)
      PROVE  ServersAccounted'
  BY <1>0, <1>13, ReturnFacts DEF ServersAccounted, StartReturns, Others
<1>14. ASSUME NEW c \in Callers, NEW answers, WaitPolls(c, answers)
      PROVE  ServersAccounted'
  BY <1>0, <1>14, PollFacts, ZenonT(40) DEF ServersAccounted, WaitPolls, Others
<1>15. ASSUME NEW c \in Callers, NEW answers, ProbesEndpoint(c, answers)
      PROVE  ServersAccounted'
  BY <1>0, <1>15, ProbeFacts DEF ServersAccounted, ProbesEndpoint, Others
<1>16. ASSUME NEW c \in Callers, NEW i \in Pids, NEW passed, Launches(c, i, passed)
      PROVE  ServersAccounted'
  <2>1. Others(c) /\ ctl[c].pc = "launch" /\ forgotten' = forgotten /\ record' = record
    BY <1>0, <1>16, LaunchFacts DEF Launches
  <2>2. CASE UNCHANGED <<os, clock>>
    BY <1>0, <2>1, <2>2, AccountFrame DEF Runs, Noted, Others
  <2>3. CASE /\ ctl'[c].pc = "record" /\ ctl'[c].mine = clock + 1 /\ ctl'[c].pid = i
             /\ os[i].born = 0 /\ clock' = clock + 1
             /\ os' = [os EXCEPT ![i] = [born |-> clock + 1, kind |-> "server",
                                         plan |-> ctl[c].plan, phase |-> "loading"]]
    <3>1. os'[i].born = clock + 1 /\ \A j \in Pids \ {i} : os'[j] = os[j]
      BY <1>0, <2>3 DEF TypeOK
    <3> QED
      BY <1>0, <2>1, <2>3, <3>1 DEF ServersAccounted, Others
  <2> QED
    BY <1>0, <1>16, <2>2, <2>3, LaunchFacts
<1>17. ASSUME NEW i \in Pids, ServerBinds(i)
      PROVE  ServersAccounted'
  BY <1>0, <1>17 DEF ServersAccounted, ServerBinds, TypeOK
<1>18. ASSUME NEW i \in Pids, ServerSickens(i)
      PROVE  ServersAccounted'
  BY <1>0, <1>18 DEF ServersAccounted, ServerSickens, TypeOK
<1>19. ASSUME NEW i \in Pids, ServerExits(i)
      PROVE  ServersAccounted'
  <2>1. ProcessEnds(i) /\ UNCHANGED <<record, ctl, forgotten>>
    BY <1>19 DEF ServerExits
  <2> QED
    BY <1>0, <2>1, ProcessEndsFacts DEF ServersAccounted
<1>20. ASSUME NEW i \in Pids, ForeignEnds(i)
      PROVE  ServersAccounted'
  <2>1. ProcessEnds(i) /\ UNCHANGED <<record, ctl, forgotten>>
    BY <1>20 DEF ForeignEnds
  <2> QED
    BY <1>0, <2>1, ProcessEndsFacts DEF ServersAccounted
<1>21. ASSUME NEW i \in Pids, NEW listens, ForeignStarts(i, listens)
      PROVE  ServersAccounted'
  BY <1>0, <1>21 DEF ServersAccounted, ForeignStarts, TypeOK
<1>22. CASE UNCHANGED vars
  BY <1>0, <1>22 DEF ServersAccounted, vars
<1> QED
  BY <1>1, <1>2, <1>3, <1>4, <1>5, <1>6, <1>7, <1>8, <1>9, <1>10, <1>11, <1>12,
     <1>13, <1>14, <1>15, <1>16, <1>17, <1>18, <1>19, <1>20, <1>21, <1>22 DEF Next,
     CallerStep

Foreign == \A i \in Pids : os[i].kind = "foreign" /\ os'[i] # os[i] => ForeignEnds(i)

\* Only its own end changes another program.
LEMMA ForeignStep == IInv /\ [Next]_vars => Foreign
<1> SUFFICES ASSUME IInv, [Next]_vars PROVE Foreign
  OBVIOUS
<1>0. TypeOK /\ OsInv /\ RecordInv /\ CommandInv
  BY DEF IInv
<1>1. ASSUME NEW c \in Callers, NEW verb \in {"ensure", "start", "stop"},
             NEW plan \in make_plan(c), Begin(c, verb, plan)
      PROVE  Foreign
  BY <1>0, <1>1 DEF Begin, Foreign
<1>2. ASSUME NEW c \in Callers, EnsureReads(c)
      PROVE  Foreign
  BY <1>0, <1>2 DEF EnsureReads, Foreign
<1>3. ASSUME NEW c \in Callers, StatusReads(c)
      PROVE  Foreign
  BY <1>0, <1>3 DEF StatusReads, Foreign
<1>4. ASSUME NEW c \in Callers, StopBegins(c)
      PROVE  Foreign
  <2>1. CASE os' = os
    BY <2>1 DEF Foreign
  <2>2. CASE /\ record.born # 0 /\ os[record.pid].born = record.born
             /\ os' = [os EXCEPT ![record.pid].phase = IF @ = "dying" THEN @ ELSE "term"]
    BY <1>0, <2>2 DEF Foreign, RecordInv, NamesServer, TypeOK
  <2> QED
    BY <1>0, <1>4, <2>1, <2>2, StopCases
<1>5. ASSUME NEW c \in Callers, StopEnds(c)
      PROVE  Foreign
  BY <1>0, <1>5 DEF StopEnds, Foreign
<1>6. ASSUME NEW c \in Callers, StopForces(c)
      PROVE  Foreign
  <2>1. CASE os' = os
    BY <2>1 DEF Foreign
  <2>2. CASE /\ os[ctl[c].st.pid].born = ctl[c].st.born
             /\ os' = [os EXCEPT ![ctl[c].st.pid].phase = "dying"]
    <3>1. /\ ctl[c].st = record /\ record.born # 0
          /\ os[record.pid].born = record.born
      BY <1>0, <1>6, <2>2 DEF StopForces, CommandInv, CommandOf
    <3> QED
      BY <1>0, <2>2, <3>1 DEF Foreign, RecordInv, NamesServer, TypeOK
  <2> QED
    BY <1>6, <2>1, <2>2 DEF StopForces
<1>7. ASSUME NEW c \in Callers, StartLocks(c)
      PROVE  Foreign
  BY <1>0, <1>7 DEF StartLocks, Foreign
<1>8. ASSUME NEW c \in Callers, RecordsLaunch(c)
      PROVE  Foreign
  BY <1>0, <1>8 DEF RecordsLaunch, Foreign
<1>9. ASSUME NEW c \in Callers, RecordFails(c)
      PROVE  Foreign
  <2>1. NamesServer(ctl[c].pid, ctl[c].mine)
    BY <1>0, <1>9 DEF RecordFails, CommandInv, CommandOf
  <2>2. CASE os' = os
    BY <2>2 DEF Foreign
  <2>3. CASE os[ctl[c].pid].born = ctl[c].mine
    BY <1>0, <1>9, <2>1, <2>3 DEF Foreign, RecordFails, ProcessEnds, NamesServer, TypeOK
  <2> QED
    BY <1>9, <2>2, <2>3 DEF RecordFails
<1>10. ASSUME NEW c \in Callers, _record_readiness(c)
      PROVE  Foreign
  BY <1>0, <1>10 DEF _record_readiness, Foreign
<1>11. ASSUME NEW c \in Callers, Crash(c)
      PROVE  Foreign
  BY <1>0, <1>11 DEF Crash, Foreign
<1>12. ASSUME NEW c \in Callers, NEW answers, EnsureDecides(c, answers)
      PROVE  Foreign
  BY <1>0, <1>12 DEF EnsureDecides, Foreign
<1>13. ASSUME NEW c \in Callers, NEW answers, StartReturns(c, answers)
      PROVE  Foreign
  BY <1>0, <1>13 DEF StartReturns, Foreign
<1>14. ASSUME NEW c \in Callers, NEW answers, WaitPolls(c, answers)
      PROVE  Foreign
  BY <1>0, <1>14 DEF WaitPolls, Foreign
<1>15. ASSUME NEW c \in Callers, NEW answers, ProbesEndpoint(c, answers)
      PROVE  Foreign
  BY <1>0, <1>15 DEF ProbesEndpoint, Foreign
<1>16. ASSUME NEW c \in Callers, NEW i \in Pids, NEW passed, Launches(c, i, passed)
      PROVE  Foreign
  <2>1. CASE os' = os
    BY <2>1 DEF Foreign
  <2>2. CASE os[i].born = 0 /\ \A j \in Pids \ {i} : os'[j] = os[j]
    BY <1>0, <2>2 DEF Foreign, OsInv
  <2> QED
    BY <1>0, <1>16, <2>1, <2>2 DEF Launches, TypeOK
<1>17. ASSUME NEW i \in Pids, ServerBinds(i)
      PROVE  Foreign
  BY <1>0, <1>17 DEF ServerBinds, Foreign, TypeOK
<1>18. ASSUME NEW i \in Pids, ServerSickens(i)
      PROVE  Foreign
  BY <1>0, <1>18 DEF ServerSickens, Foreign, TypeOK
<1>19. ASSUME NEW i \in Pids, ServerExits(i)
      PROVE  Foreign
  BY <1>0, <1>19 DEF ServerExits, ProcessEnds, Foreign, TypeOK
<1>20. ASSUME NEW i \in Pids, ForeignEnds(i)
      PROVE  Foreign
  <2>1. \A j \in Pids \ {i} : os'[j] = os[j]
    BY <1>0, <1>20 DEF ForeignEnds, ProcessEnds, TypeOK
  <2> QED
    BY <1>20, <2>1 DEF Foreign
<1>21. ASSUME NEW i \in Pids, NEW listens, ForeignStarts(i, listens)
      PROVE  Foreign
  <2>1. os[i].born = 0 /\ \A j \in Pids \ {i} : os'[j] = os[j]
    BY <1>0, <1>21 DEF ForeignStarts, TypeOK
  <2> QED
    BY <1>0, <2>1 DEF Foreign, OsInv
<1>22. CASE UNCHANGED vars
  BY <1>22 DEF vars, Foreign
<1> QED
  BY <1>1, <1>2, <1>3, <1>4, <1>5, <1>6, <1>7, <1>8, <1>9, <1>10, <1>11, <1>12,
     <1>13, <1>14, <1>15, <1>16, <1>17, <1>18, <1>19, <1>20, <1>21, <1>22 DEF Next,
     CallerStep

-----------------------------------------------------------------------------
(* The managed runtime: the theorems.                                      *)

LEMMA InitInv == Init => IInv
<1> SUFFICES ASSUME Init PROVE IInv
  OBVIOUS
<1>1. NoProcess \in Processes /\ NoRecord \in Records /\ Idle \in Commands
  BY DEF NoProcess, NoRecord, Idle, Processes, Records, Commands, Kinds, Phases
<1>2. TypeOK
  BY <1>1 DEF Init, TypeOK
<1>3. OsInv
  BY DEF Init, OsInv, NoProcess
<1>4. RecordInv
  BY DEF Init, RecordInv, TimingIsOfItsProcess, NoRecord
<1>5. \A c \in Callers : ctl[c].pc = "done"
  BY DEF Init, Idle
<1>6. LockInv /\ CommandInv
  BY <1>5 DEF LockInv, Locks, CommandInv, CommandOf
<1>7. ServersAccounted
  BY DEF Init, ServersAccounted, NoProcess
<1> QED
  BY <1>2, <1>3, <1>4, <1>6, <1>7 DEF IInv

\* The inductive invariant of the commands, their lock, the record and the
\* processes of the machine.
THEOREM Invariant == Spec => []IInv
<1>1. IInv /\ [Next]_vars => IInv'
  BY TypeStep, OsStep, RecordStep, LockStep, CommandStep, AccountStep DEF IInv
<1> QED
  BY InitInv, <1>1, PTL DEF Spec

\* Every component of the state of start, stop and ensure has its type.
THEOREM TypeCorrect == Spec => []TypeOK
<1>1. IInv => TypeOK
  BY DEF IInv
<1> QED
  BY Invariant, <1>1, PTL

\* start, stop and ensure lose no server: each one that runs is named by
\* process.json, about to be written there, or was left by a killed launcher.
THEOREM ServersAccountedHolds == Spec => []ServersAccounted
<1>1. IInv => ServersAccounted
  BY DEF IInv
<1> QED
  BY Invariant, <1>1, PTL

\* _record_readiness stores a timing only with the process it was measured for.
THEOREM TimingIsOfItsProcessHolds == Spec => []TimingIsOfItsProcess
<1>1. IInv => TimingIsOfItsProcess
  BY DEF IInv, RecordInv
<1> QED
  BY Invariant, <1>1, PTL

\* start, stop and ensure never signal or end a program the profile did not
\* launch, also when it got the pid that process.json names (owned_process).
THEOREM ForeignUntouchedHolds == Spec => ForeignUntouched
<1>1. IInv /\ [Next]_vars => [Foreign]_vars
  BY ForeignStep
<1>2. Spec => [][Foreign]_vars
  BY Invariant, <1>1, PTL DEF Spec
<1> QED
  BY <1>2 DEF ForeignUntouched, Foreign
=============================================================================
