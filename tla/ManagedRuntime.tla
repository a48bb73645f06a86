-------------------------- MODULE ManagedRuntime --------------------------
(***************************************************************************)
(* The local model server of one profile and the commands that share it    *)
(* (serving/serve.py, serving/managed_runtime.py).                         *)
(*                                                                         *)
(* A hub, a chat or a task run calls ensure_managed_runtime; the operator  *)
(* may call start and stop by hand.  They are separate processes that meet *)
(* in three places only: the file process.json (record), a lock of the     *)
(* operating system that is never waited for (lock), and the port.  The    *)
(* lock is released while a started server loads its model, so a second    *)
(* command sees a live server that does not answer yet.                    *)
(*                                                                         *)
(* A process is identified by its pid and its creation time (born): the    *)
(* pids are few and are given again once a process is gone.                *)
(***************************************************************************)
EXTENDS Naturals, FiniteSets

CONSTANTS Callers,     \* commands: hubs, chats, task runs, the operator
          Plans,       \* launch plans (exe, args, env, model_dir), from 1
          PlansOf,     \* the plans a caller's configuration may yield (make_plan)
          Pids,        \* process ids of the machine
          NoPid,       \* no process id
          MaxOps,      \* bound: commands given, of all callers
          MaxLaunch,   \* bound: servers launched
          MaxForeign,  \* bound: other programs that take a pid
          MaxCrash,    \* bound: callers killed in the middle of a command
          MaxPolls     \* bound: polls of the readiness loop (wait_seconds)

ASSUME RuntimeAssumption ==
    /\ Plans \subseteq Nat \ {0}
    /\ PlansOf \in [Callers -> SUBSET Plans]
    /\ NoPid \notin Pids
    /\ "nobody" \notin Callers
    /\ \A n \in {MaxOps, MaxLaunch, MaxForeign, MaxCrash, MaxPolls} : n \in Nat

VARIABLES os,       \* what runs under each pid
          port,     \* creation time of the process that listens, 0: free
          clock,    \* creation time of the latest process
          record,   \* the profile's process.json
          lock,     \* the caller that holds the profile lock
          ctl,      \* what each caller is doing
          ops,      \* commands given
          forgotten,\* servers whose launcher died before it recorded them
          crashes

vars == <<os, port, clock, record, lock, ctl, ops, forgotten, crashes>>

Nobody == "nobody"
NoProcess == [born |-> 0, kind |-> "none", plan |-> 0, phase |-> "none"]
NoRecord == [pid |-> NoPid, born |-> 0, plan |-> 0, ready |-> 0]

Kinds == {"none", "server", "foreign"}
Phases == {"none", "loading", "ready", "sick", "term", "dying"}

(* One command: where it is, its plan, the record its first read found,    *)
(* the record and the liveness its last status found, the server it        *)
(* launched, its polls, and its result: the plan of the server it reported *)
(* as usable, 0 when it refused, raised, stopped or was killed.  Why a     *)
(* former server was replaced or a start refused is only reported.         *)
Idle == [pc |-> "done", op |-> "none", plan |-> 0, at |-> "none", seen |-> NoRecord,
         st |-> NoRecord, alive |-> FALSE, mine |-> 0, pid |-> NoPid,
         polls |-> 0, out |-> 0]

Init ==
    /\ os = [i \in Pids |-> NoProcess]
    /\ port = 0
    /\ clock = 0
    /\ record = NoRecord
    /\ lock = Nobody
    /\ ctl = [c \in Callers |-> Idle]
    /\ ops = 0
    /\ forgotten = {}
    /\ crashes = 0

-----------------------------------------------------------------------------
(* The record, the process it names, and what answers on the port.         *)

(* owned_process: the record's process is gone, is the one that was        *)
(* launched, or its pid belongs to another process (a Refusal).            *)
AdoptAnyPid(r) ==
    IF r.born = 0 THEN "gone" ELSE IF os[r.pid].born = 0 THEN "gone" ELSE "own"
owned_process(r) ==
    IF r.born = 0 THEN "gone"
    ELSE IF os[r.pid].born = 0 THEN "gone"
    ELSE IF os[r.pid].born # r.born THEN "other" ELSE "own"

(* The process that listens on the port.                                   *)
Listener == CHOOSE i \in Pids : os[i].born = port

(* psutil finds another process under the pid, or is denied access to it.  *)
Unestablished(r) == owned_process(r) # "gone"

(* The health and model probes: a ready server answers for its model, a    *)
(* sick one does not, one that is told to end may until it has ended, and  *)
(* another program may answer anything.                                    *)
get_json ==
    IF port = 0 THEN {FALSE}
    ELSE IF os[Listener].phase \in {"ready", "loading", "sick"}
      THEN {os[Listener].phase = "ready"}
    ELSE BOOLEAN

(* The endpoint answers /models: a sick server may still do so.            *)
endpoint_reachable ==
    IF port = 0 THEN {FALSE}
    ELSE IF os[Listener].phase = "ready" THEN {TRUE} ELSE BOOLEAN

(* launch_differences: the recorded launch differs from the plan.          *)
launch_differences(r, plan) == r.plan # plan

(* profile_lock: taken at once or not at all; released when a caller dies.  *)
profile_lock(c) == lock = Nobody /\ lock' = c

Set(c, f) == ctl' = [ctl EXCEPT ![c] = f]

Ends(c, plan) == Set(c, [Idle EXCEPT !.plan = ctl[c].plan, !.out = plan])

(* start refuses: an ensure turns it into the typed refusal.               *)
Refuses(c) == Ends(c, 0)

(* A Refusal of read_record, status or stop is not caught by ensure.       *)
Raises(c) == Ends(c, 0)

ProcessEnds(i) ==
    /\ os' = [os EXCEPT ![i] = NoProcess]
    /\ port' = IF port = os[i].born THEN 0 ELSE port

-----------------------------------------------------------------------------
(* The plan is computed from the caller's configuration and environment.   *)
make_plan(c) == PlansOf[c]

(* A command begins.                                                       *)
Begin(c, op, plan) ==
    /\ ctl[c].pc = "done"
    /\ ops < MaxOps
    /\ ops' = ops + 1
    /\ Set(c, [Idle EXCEPT !.op = op, !.plan = IF op = "stop" THEN 0 ELSE plan,
                 !.pc = CASE op = "ensure" -> "read" [] op = "start" -> "start"
                          [] op = "stop" -> "stop"])
    /\ UNCHANGED <<os, port, clock, record, lock, forgotten, crashes>>

(* ensure reads the record.                                                *)
EnsureReads(c) ==
    /\ ctl[c].pc = "read"
    /\ Set(c, IF record = NoRecord THEN [ctl[c] EXCEPT !.pc = "reach"]
              ELSE [ctl[c] EXCEPT !.pc = "status", !.at = "ensure",
                             !.seen = [record EXCEPT !.ready = 0]])
    /\ UNCHANGED <<os, port, clock, record, lock, ops, forgotten, crashes>>

(* status reads the record again and looks for its process ...             *)
StatusReads(c) ==
    /\ ctl[c].pc = "status"
    /\ \/ /\ Unestablished(record)
          /\ IF ctl[c].at = "ensure" THEN Raises(c) ELSE Refuses(c)
          /\ lock' = IF lock = c THEN Nobody ELSE lock
       \/ /\ owned_process(record) # "other"
          /\ Set(c, [ctl[c] EXCEPT !.pc = "probe", !.st = [record EXCEPT !.ready = 0],
                       !.alive = owned_process(record) = "own"])
          /\ UNCHANGED lock
    /\ UNCHANGED <<os, port, clock, record, ops, forgotten, crashes>>

(* ... and probes the port.  What follows depends on the caller of status: *)
(* ensure reuses, stops, or finds the process dead.                        *)
EnsureDecides(c, answers) ==
    /\ ctl[c].pc = "probe" /\ ctl[c].at = "ensure"
    /\ LET x == ctl[c]
           changed == launch_differences(x.seen, x.plan)
       IN IF x.alive /\ answers /\ ~changed
          THEN Ends(c, x.st.plan)
          ELSE Set(c, [x EXCEPT !.pc = IF x.alive THEN "stop" ELSE "reach",
                         !.seen = NoRecord, !.st = NoRecord, !.alive = FALSE])
    /\ UNCHANGED <<os, port, clock, record, lock, ops, forgotten, crashes>>

-----------------------------------------------------------------------------
(* stop, for the operator or for ensure.                                   *)

AfterStop(c) ==
    IF ctl[c].op = "ensure" THEN Set(c, [ctl[c] EXCEPT !.pc = "reach", !.st = NoRecord])
    ELSE Ends(c, 0)

(* Under the lock the record is read anew; its process is signalled.       *)
StopBegins(c) ==
    /\ ctl[c].pc = "stop"
    /\ \/ /\ lock # Nobody \/ Unestablished(record)
          /\ Raises(c)
          /\ UNCHANGED <<os, record, lock>>
       \/ /\ lock = Nobody
          /\ owned_process(record) = "gone"
          /\ record' = NoRecord
          /\ AfterStop(c)
          /\ UNCHANGED <<os, lock>>
       \/ /\ owned_process(record) = "own"
          /\ profile_lock(c)
          /\ os' = [os EXCEPT ![record.pid].phase = IF @ = "dying" THEN @ ELSE "term"]
          /\ Set(c, [ctl[c] EXCEPT !.pc = "stopping", !.st = record])
          /\ UNCHANGED record
    /\ UNCHANGED <<port, clock, ops, forgotten, crashes>>

(* The process is gone: the record is removed and the lock released.       *)
StopWithoutWaiting(c) ==
    /\ ctl[c].pc = "stopping"
    /\ record' = NoRecord
    /\ lock' = Nobody
    /\ AfterStop(c)
    /\ UNCHANGED <<os, port, clock, ops, forgotten, crashes>>
StopEnds(c) ==
    /\ ctl[c].pc = "stopping"
    /\ os[ctl[c].st.pid].born # ctl[c].st.born
    /\ record' = NoRecord
    /\ lock' = Nobody
    /\ AfterStop(c)
    /\ UNCHANGED <<os, port, clock, ops, forgotten, crashes>>

(* The grace period ends: the process is killed.  When even that is not    *)
(* seen to end it wait raises, and so does psutil when the process ended   *)
(* just before the kill or the kill is denied: the record stays.           *)
StopKeepsWaiting(c) ==
    /\ ctl[c].pc = "stopping"
    /\ os[ctl[c].st.pid].born = ctl[c].st.born
    /\ os' = [os EXCEPT ![ctl[c].st.pid].phase = "dying"]
    /\ UNCHANGED <<port, clock, record, lock, ctl, ops, forgotten, crashes>>
StopForces(c) ==
    /\ ctl[c].pc = "stopping"
    /\ \/ /\ os[ctl[c].st.pid].born = ctl[c].st.born
          /\ os[ctl[c].st.pid].phase # "dying"
          /\ os' = [os EXCEPT ![ctl[c].st.pid].phase = "dying"]
          /\ UNCHANGED <<ctl, lock>>
       \/ /\ Raises(c)
          /\ lock' = Nobody
          /\ UNCHANGED os
    /\ UNCHANGED <<port, clock, record, ops, forgotten, crashes>>

-----------------------------------------------------------------------------
(* start.                                                                  *)

(* ensure refuses an endpoint that answers and is not its own.             *)
ProbesEndpoint(c, answers) ==
    /\ ctl[c].pc = "reach"
    /\ IF answers THEN Refuses(c) ELSE Set(c, [ctl[c] EXCEPT !.pc = "start"])
    /\ UNCHANGED <<os, port, clock, record, lock, ops, forgotten, crashes>>

(* Under the lock: a live server of this launch is looked at again, one of *)
(* another launch refuses, none leads to a launch.                         *)
StartLocks(c) ==
    /\ ctl[c].pc = "start"
    /\ LET own == owned_process(record)
       IN \/ /\ \/ lock # Nobody
                \/ Unestablished(record)
             /\ Refuses(c)
             /\ UNCHANGED lock
          \/ /\ own = "gone" \/ (own = "own" /\ ~launch_differences(record, ctl[c].plan))
             /\ profile_lock(c)
             /\ Set(c, IF own = "gone" THEN [ctl[c] EXCEPT !.pc = "launch"]
                       ELSE [ctl[c] EXCEPT !.pc = "status", !.at = "start"])
    /\ UNCHANGED <<os, port, clock, record, ops, forgotten, crashes>>

(* start found a live server of this launch: it returns it if healthy.     *)
StartReturns(c, answers) ==
    /\ ctl[c].pc = "probe" /\ ctl[c].at = "start"
    /\ IF ctl[c].alive /\ answers
       THEN Ends(c, ctl[c].st.plan) ELSE Refuses(c)
    /\ lock' = Nobody
    /\ UNCHANGED <<os, port, clock, record, ops, forgotten, crashes>>

(* preflight may refuse for many reasons (weights, precision, device, disk, *)
(* executable); an occupied port always does.                              *)
check_port == port = 0
preflight == IF check_port THEN BOOLEAN ELSE {FALSE}

Launches(c, i, passed) ==
    /\ ctl[c].pc = "launch"
    /\ IF passed
       THEN /\ clock < MaxLaunch + MaxForeign
            /\ os[i].born = 0
            /\ os' = [os EXCEPT ![i] = [born |-> clock + 1, kind |-> "server",
                                        plan |-> ctl[c].plan, phase |-> "loading"]]
            /\ clock' = clock + 1
            /\ Set(c, [ctl[c] EXCEPT !.pc = "record", !.mine = clock + 1, !.pid = i])
            /\ UNCHANGED lock
       ELSE /\ Refuses(c)
            /\ lock' = Nobody
            /\ UNCHANGED <<os, clock>>
    /\ UNCHANGED <<port, record, ops, forgotten, crashes>>

(* The launched process is recorded and the lock released; it may already  *)
(* be gone, or the write may fail: then it is ended before start refuses.  *)
RecordsLaunch(c) ==
    /\ ctl[c].pc = "record"
    /\ os[ctl[c].pid].born = ctl[c].mine
    /\ record' = [pid |-> ctl[c].pid, born |-> ctl[c].mine, plan |-> ctl[c].plan, ready |-> 0]
    /\ lock' = Nobody
    /\ Set(c, [ctl[c] EXCEPT !.pc = "status", !.at = "wait"])
    /\ UNCHANGED <<os, port, clock, ops, forgotten, crashes>>

RecordFails(c) ==
    /\ ctl[c].pc = "record"
    /\ IF os[ctl[c].pid].born = ctl[c].mine
       THEN \/ ProcessEnds(ctl[c].pid)
            \/ /\ os' = [os EXCEPT ![ctl[c].pid].phase = "dying"]
               /\ UNCHANGED port
       ELSE UNCHANGED <<os, port>>
    /\ Refuses(c)
    /\ lock' = Nobody
    /\ UNCHANGED <<clock, record, ops, forgotten, crashes>>

(* The readiness loop, without the lock: healthy, dead, too late, or again. *)
WaitPolls(c, answers) ==
    /\ ctl[c].pc = "probe" /\ ctl[c].at = "wait"
    /\ \/ /\ ctl[c].alive /\ answers
          /\ Set(c, [ctl[c] EXCEPT !.pc = "mark"])
       \/ /\ ~(ctl[c].alive /\ answers)
          /\ Refuses(c)
       \/ /\ ctl[c].alive /\ ~answers
          /\ ctl[c].polls < MaxPolls
          /\ Set(c, [ctl[c] EXCEPT !.pc = "status", !.polls = @ + 1, !.st = NoRecord])
    /\ UNCHANGED <<os, port, clock, record, lock, ops, forgotten, crashes>>

(* _record_readiness: the timing goes to the record only while it names    *)
(* the process launched here, and is given up when the lock is taken.      *)
MarkWhatIsThere(c) ==
    /\ ctl[c].pc = "mark"
    /\ record' = IF lock = Nobody /\ record # NoRecord
                 THEN [record EXCEPT !.ready = ctl[c].mine] ELSE record
    /\ Ends(c, ctl[c].st.plan)
    /\ UNCHANGED <<os, port, clock, lock, ops, forgotten, crashes>>
_record_readiness(c) ==
    /\ ctl[c].pc = "mark"
    /\ record' = IF lock = Nobody /\ <<record.pid, record.born>> = <<ctl[c].pid, ctl[c].mine>>
                 THEN [record EXCEPT !.ready = ctl[c].mine] ELSE record
    /\ Ends(c, ctl[c].st.plan)
    /\ UNCHANGED <<os, port, clock, lock, ops, forgotten, crashes>>

(* A caller is killed: the operating system releases its lock.             *)
Crash(c) ==
    /\ ctl[c].pc # "done"
    /\ crashes < MaxCrash
    /\ crashes' = crashes + 1
    /\ forgotten' = IF ctl[c].pc = "record" THEN forgotten \cup {ctl[c].mine} ELSE forgotten
    /\ lock' = IF lock = c THEN Nobody ELSE lock
    /\ Ends(c, 0)
    /\ UNCHANGED <<os, port, clock, record, ops>>

-----------------------------------------------------------------------------
(* The machine: servers and other programs.                                *)

(* A server listens once its model is loaded, if the port is free.         *)
ServerBinds(i) ==
    /\ os[i].kind = "server" /\ os[i].phase = "loading"
    /\ port = 0
    /\ os' = [os EXCEPT ![i].phase = "ready"]
    /\ port' = os[i].born
    /\ UNCHANGED <<clock, record, lock, ctl, ops, forgotten, crashes>>

(* It may stop answering, and may end at any time.                         *)
ServerSickens(i) ==
    /\ os[i].kind = "server" /\ os[i].phase = "ready"
    /\ os' = [os EXCEPT ![i].phase = "sick"]
    /\ UNCHANGED <<port, clock, record, lock, ctl, ops, forgotten, crashes>>

ServerExits(i) ==
    /\ os[i].kind = "server"
    /\ ProcessEnds(i)
    /\ UNCHANGED <<clock, record, lock, ctl, ops, forgotten, crashes>>

(* Another program takes a free pid and perhaps the port, and ends.        *)
ForeignStarts(i, listens) ==
    /\ Cardinality({j \in Pids : os[j].kind = "foreign"}) < MaxForeign
    /\ clock < MaxLaunch + MaxForeign
    /\ os[i].born = 0
    /\ listens => port = 0
    /\ os' = [os EXCEPT ![i] = [born |-> clock + 1, kind |-> "foreign",
                                plan |-> 0, phase |-> "none"]]
    /\ clock' = clock + 1
    /\ port' = IF listens THEN clock + 1 ELSE port
    /\ UNCHANGED <<record, lock, ctl, ops, forgotten, crashes>>

ForeignEnds(i) ==
    /\ os[i].kind = "foreign"
    /\ ProcessEnds(i)
    /\ UNCHANGED <<clock, record, lock, ctl, ops, forgotten, crashes>>

-----------------------------------------------------------------------------
CallerStep(c) ==
    \/ EnsureReads(c)
    \/ StatusReads(c)
    \/ \E answers \in get_json :
          EnsureDecides(c, answers) \/ StartReturns(c, answers) \/ WaitPolls(c, answers)
    \/ StopBegins(c)
    \/ StopEnds(c)
    \/ StopForces(c)
    \/ \E answers \in endpoint_reachable : ProbesEndpoint(c, answers)
    \/ StartLocks(c)
    \/ \E i \in Pids, passed \in preflight : Launches(c, i, passed)
    \/ RecordsLaunch(c)
    \/ RecordFails(c)
    \/ _record_readiness(c)

Next ==
    \/ \E c \in Callers, op \in {"ensure", "start", "stop"} :
          \E plan \in make_plan(c) : Begin(c, op, plan)
    \/ \E c \in Callers : CallerStep(c)
    \/ \E c \in Callers : Crash(c)
    \/ \E i \in Pids : ServerBinds(i) \/ ServerSickens(i) \/ ServerExits(i)
    \/ \E i \in Pids, listens \in BOOLEAN : ForeignStarts(i, listens)
    \/ \E i \in Pids : ForeignEnds(i)

(* A caller that is running goes on; nothing is assumed of the servers.    *)
Fairness == \A c \in Callers : WF_vars(CallerStep(c))

Spec == Init /\ [][Next]_vars /\ Fairness

-----------------------------------------------------------------------------
(* Properties                                                              *)

Processes == [born : Nat, kind : Kinds, plan : Plans \cup {0}, phase : Phases]
Records == [pid : Pids \cup {NoPid}, born : Nat, plan : Plans \cup {0}, ready : Nat]
Commands == [pc : {"done", "read", "status", "probe", "reach", "start", "stop", "stopping",
                   "launch", "record", "mark"},
             op : {"none", "ensure", "start", "stop"}, plan : Plans \cup {0},
             at : {"none", "ensure", "start", "wait"}, seen : Records, st : Records,
             alive : BOOLEAN, mine : Nat, pid : Pids \cup {NoPid}, polls : Nat,
             out : Plans \cup {0}]

(* The variables have their types.                                         *)
TypeOK ==
    /\ os \in [Pids -> Processes]
    /\ \A n \in {port, clock, ops, crashes} : n \in Nat
    /\ record \in Records
    /\ lock \in Callers \cup {Nobody}
    /\ ctl \in [Callers -> Commands]
    /\ forgotten \subseteq Nat

(* A program the profile did not launch is never signalled or ended by a   *)
(* command, even after it got the pid that process.json still names        *)
(* (owned_process compares the creation time): only by itself.             *)
ForeignUntouched ==
    [][\A i \in Pids : os[i].kind = "foreign" /\ os'[i] # os[i] => ForeignEnds(i)]_vars

(* No server is lost: one that is running and was not told to die is       *)
(* named by process.json, or its launcher is about to write it there, or   *)
(* that launcher was killed at this point.  start overwrites the record    *)
(* only when its process is gone, stop removes it only after its process   *)
(* is gone, and a launch that cannot be recorded is ended.                 *)
ServersAccounted ==
    \A i \in Pids :
        os[i].kind = "server" /\ os[i].phase # "dying"
            => \/ record.pid = i /\ record.born = os[i].born
               \/ \E c \in Callers : ctl[c].pc = "record" /\ ctl[c].mine = os[i].born
               \/ os[i].born \in forgotten

(* The readiness stored in process.json was measured by the command that   *)
(* launched the process process.json names, also when other commands       *)
(* replaced it meanwhile (_record_readiness).                              *)
TimingIsOfItsProcess == record.ready \in {0, record.born}

(* Every command ends: nothing waits for the lock, and each wait for a     *)
(* process or for readiness has a limit.                                   *)
CommandEnds == \A c \in Callers : ctl[c].pc # "done" ~> ctl[c].pc = "done"

(* A command that reports a usable server reports one that was launched    *)
(* exactly as its own plan would launch it ("A healthy owned process may   *)
(* be reused only when it was launched exactly as the current profile      *)
(* would launch it", docs/serving.md).                                     *)
ReadyAsPlanned ==
    \A c \in Callers : ctl[c].out \in {0, ctl[c].plan}
=============================================================================
