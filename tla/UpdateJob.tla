------------------------------ MODULE UpdateJob ------------------------------
(***************************************************************************)
(* One software update of a Runtime Instance, from "Apply Update" to its   *)
(* end.  Three parties share data/update_job.json, the cancel flag and the *)
(* pidfile, with no lock: threads of the web service (apply, cancel), its  *)
(* status poll (confirm_health), and the out-of-process Update Job.  Every *)
(* read and every write of the job file is a step of its own; each party   *)
(* writes back a whole record that it read some steps earlier.             *)
(*                                                                         *)
(* The application tree is the abstract one of TreeSwitch: `installed' and *)
(* the retained `fallback'.                                                *)
(***************************************************************************)
EXTENDS Naturals, FiniteSets

CONSTANTS
  Tags,          \* formal releases
  NoTag,
  Appliers,      \* threads of the web service that may run apply
  Cancellers,    \* threads of the web service that may run cancel
  MaxJobs,       \* bound: Update Job processes in a behaviour
  MaxOutages,    \* bound: power failures in a behaviour
  Deployments,   \* "systemd": the job is a unit; "docker": a process of the container
  Overlap,       \* TRUE: apply may be called while another call, a poll of the status
                 \* or the last update's process is still at work
  LateRestart    \* TRUE: `systemctl restart' may time out after restarting

ASSUME JobAssumption == /\ NoTag \notin Tags
                        /\ MaxJobs \in Nat /\ MaxOutages \in Nat
                        /\ Deployments \subseteq {"systemd", "docker"}
                        /\ LateRestart \in BOOLEAN
                        /\ Overlap \in BOOLEAN

VARIABLES
  job,        \* data/update_job.json
  flag,       \* data/update_job.cancel exists
  pid,        \* data/update_job.pid: a runner, or 0
  runner,     \* the Update Job processes
  installed,  \* the release of the live tree
  fallback,   \* the release of the retained tree, or NoTag
  epoch,      \* number of starts of the web service
  running,    \* the release the web service was started from
  op,         \* the web threads
  poll,       \* the status poll
  grace,      \* HEALTH_CONFIRM_GRACE_SECONDS have passed since the restart request
  asked,      \* history: a cancel was requested since the job was queued
  told,       \* history: a cancel has forced the end of the job since
  outlived,   \* history: the processes at work on the update when it did
  slipped,    \* history: activate_bundle has raised after its switch since
  outages,    \* power failures so far
  deploy      \* how this instance is deployed

files == <<job, flag, pid>>
tree == <<installed, fallback>>
service == <<epoch, running>>
forced == <<told, outlived>>
past == <<asked, told, outlived, slipped, outages, deploy>>
vars == <<job, flag, pid, runner, installed, fallback, epoch, running, op, poll, grace,
          asked, told, outlived, slipped, outages, deploy>>

Docker == deploy = "docker"

Admins == Appliers \cup Cancellers
Runners == 1..MaxJobs

InProgress == {"queued", "backing_up", "fetching_bundle", "installing",
               "syncing_deps", "applying_migrations", "restarting"}
Terminal == {"succeeded", "succeeded_but_unhealthy", "failed"}

Job == [stage : InProgress \cup Terminal \cup {"idle"},
        target : Tags \cup {NoTag},            \* target_tag
        prev : Tags \cup {NoTag},              \* previous_tag
        cancel : BOOLEAN,                      \* cancel_requested
        rollback : {"none", "ok", "bad"},      \* rollback_attempted, rollback_ok
        error : {"none", "start", "before", "rolled", "forced"},
        restart : Nat]                         \* restart_requested_at, as an epoch

NoJob == [stage |-> "idle", target |-> NoTag, prev |-> NoTag, cancel |-> FALSE,
          rollback |-> "none", error |-> "none", restart |-> 0]

Idle == [pc |-> "idle", state |-> NoJob]

Dormant == [pc |-> "none", base |-> NoJob, seen |-> NoJob, bundle |-> NoTag,
            left |-> FALSE, cancelled |-> FALSE, term |-> FALSE]

\* A process that ended leaves nothing of its memory.
Gone == [Dormant EXCEPT !.pc = "gone"]

\* One that ended before it looked at the job file.
Unborn == [Dormant EXCEPT !.pc = "unborn"]

Alive(r) == runner[r].pc \notin {"none", "gone", "unborn"}

\* It has read the queued update and goes on with it.
AtWork(r) == Alive(r) /\ runner[r].pc \notin {"start", "intent"}

Init ==
  /\ job = NoJob /\ flag = FALSE /\ pid = 0
  /\ runner = [r \in Runners |-> Dormant]
  /\ installed \in Tags /\ fallback = NoTag
  /\ epoch = 1 /\ running = installed
  /\ op = [a \in Admins |-> Idle] /\ poll = [pc |-> "idle", state |-> NoJob, late |-> FALSE]
  /\ grace = FALSE /\ asked = FALSE /\ outages = 0
  /\ told = FALSE /\ outlived = {} /\ slipped = FALSE
  /\ deploy \in Deployments

-----------------------------------------------------------------------------
(* The service restarts: its threads and its poll die with it, and so does a *)
(* job process that shares its container.                                    *)

RestartService(runners) ==
  /\ epoch' = epoch + 1
  /\ running' = installed
  /\ op' = [a \in Admins |-> Idle]
  /\ poll' = [pc |-> "idle", state |-> NoJob, late |-> FALSE]
  /\ runner' = IF Docker
               THEN [r \in Runners |-> IF Alive(r) THEN Gone ELSE runner[r]]
               ELSE runners

-----------------------------------------------------------------------------
(* ReleaseUpdate.apply *)

OpStep(a, pc, state) == op' = [op EXCEPT ![a] = [pc |-> pc, state |-> state]]
OpAt(a, pc) == op[a].pc = pc

Settled == /\ poll.pc = "idle"
           /\ \A a \in Admins : OpAt(a, "idle")
           /\ \A r \in Runners : ~Alive(r)

\* Preflight, catalogue and peak hours only reject; an accepted call goes on.
ApplyRead(a) ==
  /\ a \in Appliers /\ OpAt(a, "idle")
  /\ Cardinality({r \in Runners : runner[r].pc = "none"})
       > Cardinality({b \in Admins : op[b].pc \in {"apply_clear", "apply_write", "apply_start"}})
  /\ job.stage \notin InProgress
  /\ Overlap \/ Settled
  /\ \E t \in Tags : OpStep(a, "apply_clear", [NoJob EXCEPT !.stage = "queued", !.target = t])
  /\ UNCHANGED <<files, runner, tree, service, poll, grace, past>>

ApplyClear(a) ==
  /\ OpAt(a, "apply_clear")
  /\ flag' = FALSE
  /\ OpStep(a, "apply_write", [op[a].state EXCEPT !.prev = installed])
  /\ UNCHANGED <<job, pid, runner, tree, service, poll, grace, past>>

ApplyWrite(a) ==
  /\ OpAt(a, "apply_write")
  /\ job' = op[a].state
  /\ OpStep(a, "apply_start", op[a].state)
  /\ asked' = FALSE /\ told' = FALSE /\ outlived' = {} /\ slipped' = FALSE
  /\ UNCHANGED <<flag, pid, runner, tree, service, poll, grace, outages, deploy>>

\* systemctl start is a no-op while the unit is active; Docker spawns a process.
ApplyStart(a) ==
  /\ OpAt(a, "apply_start")
  /\ OpStep(a, "idle", NoJob)
  /\ \/ /\ ~Docker /\ \E r \in Runners : Alive(r)
        /\ UNCHANGED <<job, runner>>
     \/ /\ Docker \/ \A r \in Runners : ~Alive(r)
        /\ \E r \in Runners :
             /\ runner[r].pc = "none"
             /\ \A q \in 1..r - 1 : runner[q].pc # "none"
             /\ runner' = [runner EXCEPT ![r].pc = "start"]
        /\ UNCHANGED job
     \/ /\ job' = [op[a].state EXCEPT !.stage = "failed", !.error = "start"]
        /\ UNCHANGED runner
  /\ UNCHANGED <<flag, pid, tree, service, poll, grace, past>>

-----------------------------------------------------------------------------
(* ReleaseUpdate.cancel *)

CancelRead(a) ==
  /\ a \in Cancellers /\ OpAt(a, "idle")
  /\ job.stage \in InProgress
  /\ OpStep(a, "cancel_flag", job)
  /\ UNCHANGED <<files, runner, tree, service, poll, grace, past>>

CancelFlag(a) ==
  /\ OpAt(a, "cancel_flag")
  /\ flag' = TRUE /\ asked' = TRUE
  /\ OpStep(a, "cancel_write", op[a].state)
  /\ UNCHANGED <<job, pid, runner, tree, service, poll, grace, forced, slipped, outages,
                 deploy>>

CancelWrite(a) ==
  /\ OpAt(a, "cancel_write")
  /\ job' = [op[a].state EXCEPT !.cancel = TRUE]
  /\ OpStep(a, "cancel_stop", NoJob)
  /\ UNCHANGED <<flag, pid, runner, tree, service, poll, grace, past>>

\* systemctl stop reaches every process of the unit, the pidfile the process that wrote
\* it; either may fail.
CancelStop(a) ==
  /\ OpAt(a, "cancel_stop")
  /\ \E hit \in {{}, {pid} \cap Runners} \cup (IF Docker THEN {} ELSE {Runners}) :
       runner' = [r \in Runners |-> IF r \in hit /\ Alive(r)
                                    THEN [runner[r] EXCEPT !.term = TRUE] ELSE runner[r]]
  /\ OpStep(a, "cancel_wait", NoJob)
  /\ UNCHANGED <<files, tree, service, poll, grace, past>>

\* One poll of the five seconds' wait finds the job finished ...
CancelDone(a) ==
  /\ OpAt(a, "cancel_wait")
  /\ job.stage \notin InProgress
  /\ flag' = FALSE
  /\ OpStep(a, "idle", NoJob)
  /\ UNCHANGED <<job, pid, runner, tree, service, poll, grace, past>>

\* ... or the wait ends with the job still in progress, wherever its process is.
CancelTimeout(a) ==
  /\ OpAt(a, "cancel_wait")
  /\ job.stage \in InProgress
  /\ OpStep(a, "cancel_force", job)
  /\ UNCHANGED <<files, runner, tree, service, poll, grace, past>>

NoteForcedEnd == told' = TRUE /\ outlived' = {r \in Runners : AtWork(r)}

\* Fault: the forced end records the request but not the failure.
ForceWithoutStage(a) ==
  /\ OpAt(a, "cancel_force")
  /\ job' = [op[a].state EXCEPT !.cancel = TRUE, !.error = "forced"]
  /\ OpStep(a, "cancel_clear", NoJob)
  /\ NoteForcedEnd
  /\ UNCHANGED <<flag, pid, runner, tree, service, poll, grace, asked, slipped, outages,
                 deploy>>

\* Fault: the forced end writes a stage that no reader knows.
ForceUnknownStage(a) ==
  /\ OpAt(a, "cancel_force")
  /\ job' = [op[a].state EXCEPT !.stage = "cancelled", !.cancel = TRUE, !.error = "forced"]
  /\ OpStep(a, "cancel_clear", NoJob)
  /\ NoteForcedEnd
  /\ UNCHANGED <<flag, pid, runner, tree, service, poll, grace, asked, slipped, outages,
                 deploy>>

CancelForce(a) ==
  /\ OpAt(a, "cancel_force")
  /\ job' = [op[a].state EXCEPT !.stage = "failed", !.cancel = TRUE, !.error = "forced"]
  /\ OpStep(a, "cancel_clear", NoJob)
  /\ NoteForcedEnd
  /\ UNCHANGED <<flag, pid, runner, tree, service, poll, grace, asked, slipped, outages,
                 deploy>>

CancelClear(a) ==
  /\ OpAt(a, "cancel_clear")
  /\ flag' = FALSE
  /\ OpStep(a, "idle", NoJob)
  /\ UNCHANGED <<job, pid, runner, tree, service, poll, grace, past>>

Apply(a) == ApplyRead(a) \/ ApplyClear(a) \/ ApplyWrite(a) \/ ApplyStart(a)
Cancel(a) == \/ CancelRead(a) \/ CancelFlag(a) \/ CancelWrite(a) \/ CancelStop(a)
             \/ CancelDone(a) \/ CancelTimeout(a) \/ CancelForce(a) \/ CancelClear(a)

-----------------------------------------------------------------------------
(* ReleaseUpdate.confirm_health, run by every poll of the job's status.  It  *)
(* awaits the readiness probe between its read and its write.                *)

PollRest == [pc |-> "idle", state |-> NoJob, late |-> FALSE]

PollRead ==
  /\ poll.pc = "idle"
  /\ job.stage = "restarting"
  /\ \/ /\ installed = job.target
        /\ poll' = [pc |-> "probe", state |-> job, late |-> grace]
     \/ /\ installed # job.target /\ grace
        /\ poll' = [pc |-> "mismatch", state |-> job, late |-> TRUE]
  /\ UNCHANGED <<files, runner, tree, service, op, grace, past>>

PollMismatch ==
  /\ poll.pc = "mismatch"
  /\ job' = [poll.state EXCEPT !.stage = "succeeded_but_unhealthy"]
  /\ poll' = PollRest
  /\ UNCHANGED <<flag, pid, runner, tree, service, op, grace, past>>

\* Fault: any service that is ready confirms the update, started before the restart
\* request or after it.
ProbeAnyProcess ==
  /\ poll.pc = "probe"
  /\ \/ job' = [poll.state EXCEPT !.stage = "succeeded", !.error = "none", !.cancel = FALSE]
     \/ /\ poll.late
        /\ job' = [poll.state EXCEPT !.stage = "succeeded_but_unhealthy"]
     \/ ~poll.late /\ job' = job
  /\ poll' = PollRest
  /\ UNCHANGED <<flag, pid, runner, tree, service, op, grace, past>>

\* Fault: the poll waits for readiness without an end.
ProbeForEver ==
  /\ poll.pc = "probe"
  /\ \/ /\ epoch > poll.state.restart
        /\ job' = [poll.state EXCEPT !.stage = "succeeded", !.error = "none", !.cancel = FALSE]
     \/ job' = job
  /\ poll' = PollRest
  /\ UNCHANGED <<flag, pid, runner, tree, service, op, grace, past>>

\* The probe says ready or not; the process must have started after the request.
PollProbe ==
  /\ poll.pc = "probe"
  /\ \/ /\ epoch > poll.state.restart
        /\ job' = [poll.state EXCEPT !.stage = "succeeded", !.error = "none", !.cancel = FALSE]
     \/ /\ poll.late
        /\ job' = [poll.state EXCEPT !.stage = "succeeded_but_unhealthy"]
     \/ ~poll.late /\ job' = job
  /\ poll' = PollRest
  /\ UNCHANGED <<flag, pid, runner, tree, service, op, grace, past>>

\* The grace (180 s) outlasts what is left of a job that asked for the restart:
\* both restart adapters give up after 120 s.
GraceElapses ==
  /\ job.stage = "restarting" /\ ~grace
  /\ \A r \in Runners : runner[r].pc \notin {"restart", "fail_read", "restore", "fail_write"}
  /\ grace' = TRUE
  /\ UNCHANGED <<files, runner, tree, service, op, poll, past>>

\* The host goes down and comes up again: systemd or Docker starts the service, no one
\* starts the job again.
Outage ==
  /\ outages < MaxOutages
  /\ outages' = outages + 1
  /\ RestartService([r \in Runners |-> IF Alive(r) THEN Gone ELSE runner[r]])
  /\ UNCHANGED <<files, tree, grace, asked, forced, slipped, deploy>>

Poll == PollRead \/ PollMismatch \/ PollProbe

-----------------------------------------------------------------------------
(* The Update Job: scripts/run_update_job.py around UpdateJobRunner.run.  The *)
(* operators below are the kinds of step it is made of; Run lists the steps   *)
(* in their order.                                                            *)

RunAt(r, pc) == runner[r].pc = pc
Advance(r, new) == runner' = [runner EXCEPT ![r] = new]
Outside == <<op, poll, past>>

\* An exception: read the job file, then restore the tree if it was left.
Raise(r, cancelled) ==
  Advance(r, [runner[r] EXCEPT !.pc = "fail_read", !.cancelled = cancelled])

Boot(r) ==
  /\ RunAt(r, "start")
  /\ pid' = r
  /\ Advance(r, [runner[r] EXCEPT !.pc = "intent"])
  /\ UNCHANGED <<job, flag, tree, service, grace, Outside>>

\* The unit fails to start, or the process ends before it has written anything; or
\* build_runner raises, and main's finally clears the pidfile and the flag.
Stillbirth(r) ==
  /\ \/ RunAt(r, "start") /\ UNCHANGED <<pid, flag>>
     \/ RunAt(r, "intent") /\ pid' = 0 /\ flag' = FALSE
  /\ Advance(r, Unborn)
  /\ UNCHANGED <<job, tree, service, grace, Outside>>

\* Fault: the job takes up the update whatever its stage.
IntentUnchecked(r) ==
  /\ RunAt(r, "intent")
  /\ Advance(r, [runner[r] EXCEPT !.pc = "check_backup",
                    !.base = [job EXCEPT !.cancel = FALSE, !.error = "none",
                                         !.rollback = "none"]])
  /\ UNCHANGED <<files, tree, service, grace, Outside>>

Intent(r) ==
  /\ RunAt(r, "intent")
  /\ IF job.stage = "queued" /\ job.target # NoTag
       THEN Advance(r, [runner[r] EXCEPT !.pc = "check_backup",
                          !.base = [job EXCEPT !.cancel = FALSE, !.error = "none",
                                               !.rollback = "none"]])
       ELSE Advance(r, [runner[r] EXCEPT !.pc = "fail_write", !.base = job])
  /\ UNCHANGED <<files, tree, service, grace, Outside>>

\* _raise_if_cancelled
Check(r, at, go) ==
  /\ RunAt(r, at)
  /\ IF flag THEN Raise(r, TRUE) ELSE Advance(r, [runner[r] EXCEPT !.pc = go])
  /\ UNCHANGED <<files, tree, service, grace, Outside>>

\* _set: the record read earlier, with a new stage.
Set(r, at, stage, go) ==
  /\ RunAt(r, at)
  /\ job' = [runner[r].base EXCEPT !.stage = stage]
  /\ Advance(r, [runner[r] EXCEPT !.pc = go])
  /\ UNCHANGED <<flag, pid, tree, service, grace, Outside>>

\* base = self._store.read()
Read(r, at, go) ==
  /\ RunAt(r, at)
  /\ Advance(r, [runner[r] EXCEPT !.pc = go, !.base = job])
  /\ UNCHANGED <<files, tree, service, grace, Outside>>

\* An adapter that changes neither the job file nor the tree, and may fail.
Work(r, at, go) ==
  /\ RunAt(r, at)
  /\ \/ Advance(r, [runner[r] EXCEPT !.pc = go])
     \/ Raise(r, FALSE)
  /\ UNCHANGED <<files, tree, service, grace, Outside>>

Fetch(r) ==
  /\ RunAt(r, "fetch")
  /\ \/ Advance(r, [runner[r] EXCEPT !.pc = "read_fetch", !.seen = NoJob,
                                     !.bundle = runner[r].base.target])
     \/ Raise(r, FALSE)
  /\ UNCHANGED <<files, tree, service, grace, Outside>>

\* report_download: a read-modify-write of the job file, by the thread that downloads.
\* Bound: one report of a download.
ProgressRead(r) ==
  /\ RunAt(r, "fetch") /\ runner[r].seen = NoJob
  /\ job.stage = "fetching_bundle"
  /\ Advance(r, [runner[r] EXCEPT !.pc = "progress", !.seen = job])
  /\ UNCHANGED <<files, tree, service, grace, Outside>>

ProgressWrite(r) ==
  /\ RunAt(r, "progress")
  /\ job' = runner[r].seen
  /\ Advance(r, [runner[r] EXCEPT !.pc = "fetch"])
  /\ UNCHANGED <<flag, pid, tree, service, grace, Outside>>

\* activate_bundle returns; it raises before its switch; or it raises after it, in
\* removing the shop state from the retained tree, and the job does not note the switch.
Install(r) ==
  /\ RunAt(r, "install")
  /\ \/ /\ installed' = runner[r].bundle /\ fallback' = installed
        /\ Advance(r, [runner[r] EXCEPT !.pc = "read_install", !.left = TRUE])
        /\ UNCHANGED slipped
     \/ /\ Raise(r, FALSE) /\ UNCHANGED <<tree, slipped>>
     \/ /\ installed' = runner[r].bundle /\ fallback' = installed
        /\ Raise(r, FALSE)
        /\ slipped' = TRUE
  /\ UNCHANGED <<files, service, grace, op, poll, asked, forced, outages, deploy>>

\* pip polls the cancel flag while it runs.
Deps(r) ==
  /\ RunAt(r, "deps")
  /\ \/ Advance(r, [runner[r] EXCEPT !.pc = "read_deps"])
     \/ flag /\ Raise(r, TRUE)
     \/ Raise(r, FALSE)
  /\ UNCHANGED <<files, tree, service, grace, Outside>>

SetRestarting(r) ==
  /\ RunAt(r, "set_restart")
  /\ job' = [runner[r].base EXCEPT !.stage = "restarting", !.error = "none",
                                   !.cancel = FALSE, !.restart = epoch]
  /\ grace' = FALSE
  /\ Advance(r, [runner[r] EXCEPT !.pc = "restart"])
  /\ UNCHANGED <<flag, pid, tree, service, Outside>>

\* Calls service.restart() at `at': it restarts the service and returns; it raises
\* without a restart; or systemctl times out although the service restarts.
RestartCall(r, at, go, raised) ==
  /\ RunAt(r, at)
  /\ \/ RestartService([runner EXCEPT ![r].pc = go])
     \/ /\ Advance(r, [runner[r] EXCEPT !.pc = raised])
        /\ UNCHANGED <<service, op, poll>>
     \/ /\ LateRestart /\ ~Docker
        /\ RestartService([runner EXCEPT ![r].pc = raised])
  /\ UNCHANGED <<files, tree, grace, past>>

FailRead(r) ==
  /\ RunAt(r, "fail_read")
  /\ Advance(r, [runner[r] EXCEPT !.pc = IF runner[r].left THEN "restore" ELSE "fail_write",
                                  !.base = job])
  /\ UNCHANGED <<files, tree, service, grace, Outside>>

\* restore_previous_tree needs the retained tree, and may fail with it in place.
Restore(r) ==
  /\ RunAt(r, "restore")
  /\ \/ /\ fallback # NoTag
        /\ installed' = fallback /\ fallback' = NoTag
        /\ Advance(r, [runner[r] EXCEPT !.pc = "fail_write", !.base.rollback = "ok"])
     \/ /\ Advance(r, [runner[r] EXCEPT !.pc = "fail_write", !.base.rollback = "bad"])
        /\ UNCHANGED tree
  /\ UNCHANGED <<files, service, grace, Outside>>

\* _fail_before_leave, or the record _fail_with_rollback writes before it restarts.
FailWrite(r) ==
  LET final == IF runner[r].left
               THEN [runner[r].base EXCEPT !.stage = "failed", !.error = "rolled",
                       !.cancel = @ \/ runner[r].cancelled]
               ELSE [runner[r].base EXCEPT !.stage = "failed", !.error = "before",
                       !.rollback = "none"]
  IN /\ RunAt(r, "fail_write")
     /\ job' = final
     /\ Advance(r, [runner[r] EXCEPT !.base = final,
                       !.pc = IF runner[r].left THEN "fail_restart" ELSE "exit"])
     /\ UNCHANGED <<flag, pid, tree, service, grace, Outside>>

\* The restart after a rollback failed: the rollback is not ok after all.
FailRewrite(r) ==
  /\ RunAt(r, "fail_rewrite")
  /\ job' = [runner[r].base EXCEPT !.rollback = "bad"]
  /\ Advance(r, [runner[r] EXCEPT !.pc = "exit"])
  /\ UNCHANGED <<flag, pid, tree, service, grace, Outside>>

\* main's finally: clear_job_pid, clear_cancel.
Exit(r) ==
  /\ RunAt(r, "exit")
  /\ pid' = 0 /\ flag' = FALSE
  /\ Advance(r, Gone)
  /\ UNCHANGED <<job, tree, service, grace, Outside>>

\* SIGTERM: the process dies where it is, its finally does not run.
Die(r) ==
  /\ Alive(r) /\ runner[r].term
  /\ Advance(r, Gone)
  /\ UNCHANGED <<files, tree, service, grace, Outside>>

Run(r) ==
  \/ Boot(r)
  \/ Stillbirth(r)
  \/ Intent(r)
  \/ Check(r, "check_backup", "set_backup")
  \/ Set(r, "set_backup", "backing_up", "backup")
  \/ Work(r, "backup", "read_backup")
  \/ Read(r, "read_backup", "check_fetch")
  \/ Check(r, "check_fetch", "set_fetch")
  \/ Set(r, "set_fetch", "fetching_bundle", "fetch")
  \/ Fetch(r)
  \/ ProgressRead(r)
  \/ ProgressWrite(r)
  \/ Read(r, "read_fetch", "check_install")
  \/ Check(r, "check_install", "set_install")
  \/ Set(r, "set_install", "installing", "install")
  \/ Install(r)
  \/ Read(r, "read_install", "check_deps")
  \/ Check(r, "check_deps", "set_deps")
  \/ Set(r, "set_deps", "syncing_deps", "deps")
  \/ Deps(r)
  \/ Read(r, "read_deps", "browser")
  \/ Work(r, "browser", "check_migrate")
  \/ Check(r, "check_migrate", "read_migrate")
  \/ Read(r, "read_migrate", "set_migrate")
  \/ Set(r, "set_migrate", "applying_migrations", "migrate")
  \/ Work(r, "migrate", "read_outcome")
  \/ Read(r, "read_outcome", "set_outcome")
  \/ Set(r, "set_outcome", "applying_migrations", "check_restart")
  \/ Check(r, "check_restart", "read_restart")
  \/ Read(r, "read_restart", "set_restart")
  \/ SetRestarting(r)
  \/ RestartCall(r, "restart", "exit", "fail_read")
  \/ FailRead(r)
  \/ Restore(r)
  \/ FailWrite(r)
  \/ RestartCall(r, "fail_restart", "exit", "fail_rewrite")
  \/ FailRewrite(r)
  \/ Exit(r)

Next ==
  \/ \E a \in Admins : Apply(a) \/ Cancel(a)
  \/ Poll
  \/ GraceElapses
  \/ Outage
  \/ \E r \in Runners : Run(r) \/ Die(r)

Spec == Init /\ [][Next]_vars

\* Threads finish what they began and processes run; nobody has to call apply or
\* cancel.  The page polls the status for as long as it shows an update.
OpRuns(a) == ~OpAt(a, "idle") /\ (Apply(a) \/ Cancel(a))

Fairness ==
  /\ \A a \in Admins : WF_vars(OpRuns(a))
  /\ \A r \in Runners : WF_vars(Run(r) \/ Die(r))
  /\ WF_vars(Poll)
  /\ WF_vars(GraceElapses)

FairSpec == Spec /\ Fairness

-----------------------------------------------------------------------------
(* Properties *)

\* The places of the Update Job before it switches the tree, after that, and at its end.
Early == {"start", "intent", "check_backup", "set_backup", "backup", "read_backup",
          "check_fetch", "set_fetch", "fetch", "progress", "read_fetch", "check_install",
          "set_install", "install"}
Mid == {"read_install", "check_deps", "set_deps", "deps", "read_deps", "browser",
        "check_migrate", "read_migrate", "set_migrate", "migrate", "read_outcome",
        "set_outcome", "check_restart", "read_restart", "set_restart"}
Late == {"restart", "fail_read", "restore", "fail_write", "fail_restart", "fail_rewrite",
         "exit"}

\* The places of the web threads; in `Holding' a thread has a record to write back.
Applying == {"apply_clear", "apply_write", "apply_start"}
Holding == {"cancel_flag", "cancel_write", "cancel_force"}
Cancelling == Holding \cup {"cancel_stop", "cancel_wait", "cancel_clear"}

RunnerState ==
  [pc : Early \cup Mid \cup Late \cup {"none", "gone", "unborn"}, base : Job, seen : Job,
   bundle : Tags \cup {NoTag}, left : BOOLEAN, cancelled : BOOLEAN, term : BOOLEAN]
OpState == [pc : {"idle"} \cup Applying \cup Cancelling, state : Job]
PollState == [pc : {"idle", "probe", "mismatch"}, state : Job, late : BOOLEAN]

TypeOK ==
  /\ job \in Job /\ flag \in BOOLEAN /\ pid \in Runners \cup {0}
  /\ runner \in [Runners -> RunnerState]
  /\ installed \in Tags /\ fallback \in Tags \cup {NoTag}
  /\ epoch \in Nat /\ running \in Tags
  /\ op \in [Admins -> OpState] /\ poll \in PollState
  /\ grace \in BOOLEAN /\ asked \in BOOLEAN /\ outages \in 0..MaxOutages
  /\ told \in BOOLEAN /\ outlived \subseteq Runners /\ slipped \in BOOLEAN
  /\ deploy \in Deployments

Quiescent == \A r \in Runners : ~Alive(r)

\* "Update succeeded" is two facts (docs/adr/0082): the release the job targeted is
\* the live tree, and the service that answers was started from it, after the
\* restart the job asked for.
SuccessIsReal ==
  job.stage = "succeeded" =>
    /\ installed = job.target
    /\ running = job.target
    /\ epoch > job.restart

\* A job that reports a failure before the switch has not touched the live tree, unless
\* activate_bundle raised after its switch: the job then takes it for one before.
FailedBeforeIsUntouched ==
  job.stage = "failed" /\ job.error \in {"before", "start"} /\ Quiescent /\ ~slipped
    => installed = job.prev

\* A job that reports a successful rollback left the release it started from.
RollbackIsReal ==
  job.stage = "failed" /\ job.error = "rolled" /\ job.rollback = "ok" /\ Quiescent
    => installed = job.prev

\* What the job file says of a finished update is what happened to the tree and to
\* the service, whoever wrote it last: the job, a poll or a cancel.
RecordIsTrue == SuccessIsReal /\ FailedBeforeIsUntouched /\ RollbackIsReal

\* The Update Job stops as cancelled only for a cancel of its own update: a flag
\* left behind by an earlier one never aborts the next.
CancelIsMeant == \A r \in Runners : ~runner[r].cancelled /\ runner'[r].cancelled => asked

\* The live tree is replaced only by the release of the update that the job file
\* names.  While no cancel was forced, the file reports that update as in progress; after
\* a forced end only a process that was at work then, and that the signal did not stop,
\* may still switch, never one that had yet to take the update up.
Switches(r) == RunAt(r, "install") /\ runner'[r].pc # "install" /\ tree' # tree

InstallsTarget ==
  \A r \in Runners : Switches(r) =>
    /\ installed' = job.target
    /\ r \in outlived \/ (~told /\ job.stage \in InProgress)

\* A cancel ends the update it was meant for, and no other: the two together.
CancelsAreHonoured == [][CancelIsMeant /\ InstallsTarget]_vars

\* No update stays in progress for ever: it ends by itself while nothing stops it from
\* outside; and an operator whose page keeps showing it in progress, and who ends up
\* cancelling it, ends it whatever happened to the job's process.
NotStuck == []<>(job.stage \notin InProgress)

Undisturbed == outages = 0 /\ ~asked /\ \A r \in Runners : runner[r].pc # "unborn"
EndsByItself == []Undisturbed => NotStuck

CancelEnds == (\A a \in Cancellers : WF_vars(CancelRead(a))) => NotStuck

\* "Concurrent apply while a job is in progress is rejected."
\* (services/release_update/__init__.py:793)
ConcurrentApplyRejected ==
  [][\A a \in Admins : op[a].pc = "apply_write" /\ op'[a].pc = "apply_start"
       => job.stage \notin InProgress]_vars
=============================================================================
