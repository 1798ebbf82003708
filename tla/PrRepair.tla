------------------------------ MODULE PrRepair ------------------------------
(***************************************************************************)
(* Repair of an existing pull request: the tools github_pr_* of            *)
(* src/src/mcp/tools/phase8-tools.ts on the rows of PullRequestRepairStore *)
(* (src/src/workflow/pr-repair-store.ts), the clone in the worker and the  *)
(* head branch at GitHub.                                                  *)
(*                                                                         *)
(* A commit is a number and a sha is the whole history that it names, so   *)
(* "fast-forward" is IsPrefix.  A tool call is a sequence of steps, one    *)
(* per await on GitHub or on the worker; up to its first effect, and to    *)
(* what it keeps of an earlier answer, it is in no step.  The locks are    *)
(* per tool and session, so calls of different tools interleave.           *)
(*                                                                         *)
(* updatePRRepair awaits nothing outside the process and is one step: it   *)
(* changes the cached object in place before it saves, so a save that      *)
(* throws leaves memory and disk apart until the next save, or until a     *)
(* restart reads the disk.                                                 *)
(*                                                                         *)
(* HEAD of a clone stays on the head branch here; what becomes of a HEAD   *)
(* that leaves it, RepositoryPublish shows of the same push.               *)
(*                                                                         *)
(* Whether the pull request is open, comes from a fork or has the default  *)
(* branch as its head is GitHub's affair and may differ at every call:     *)
(* where a handler looks, the call may end there (GiveUp, or no step).     *)
(***************************************************************************)
EXTENDS Naturals, FiniteSets, Sequences, SequencesExt

CONSTANTS
  Tasks,        \* coding tasks
  Repairs,      \* repair sessions, in the order they are created
  None,         \* no task, no session
  Calls,        \* tool calls in flight
  CycleLimit,   \* repairCycleLimit (PR_REPAIR_MAX_CYCLES)
  MaxCommits,   \* bound of the instance: commits ever made, by anybody
  MaxPushes,    \* bound of the instance: commitsPublished of a session
  MaxMishaps    \* bound of the instance: saves that throw and clones reset

ASSUME NoneAssumption == Repairs \subseteq Nat /\ None \notin Tasks \cup Repairs
ASSUME LimitAssumption == CycleLimit \in Nat \ {0}
ASSUME CallsAssumption == IsFiniteSet(Calls)
ASSUME BoundAssumption ==
  MaxCommits \in Nat /\ MaxPushes \in Nat /\ MaxMishaps \in Nat

VARIABLES
  remote,    \* the head branch at GitHub
  local,     \* the clone of each session's worker: a sha, or none
  dirty,     \* sessions whose working tree has uncommitted changes
  history,   \* ghost: whether a shell took commits off a session's clone
  mem,       \* the cached row of each session
  disk,      \* the saved row of each session
  bound,     \* tasks whose row names the pull request
  evidence,  \* tasks with evidence of status passed
  calls,     \* the tool calls in flight
  granted,   \* ghost: repair cycles each session was told it started
  acked,     \* ghost: pushes each session was told succeeded
  commits,   \* how many commits there are
  faults     \* how many saves have thrown

session == <<mem, disk, faults>>
worker == <<local, dirty, history>>
told == <<granted, acked>>
vars == <<remote, worker, session, bound, evidence, calls, told, commits>>

(* A clone that was reset once may be reset again.                         *)
Mishaps == faults + Cardinality({r \in Repairs : history[r] # "kept"})

Sha == Seq(1..MaxCommits)
NoSha == <<0>>   \* no sha: no clone, or an empty string in a row

States ==
  {"ATTACHED", "INSPECTING", "FEEDBACK_READY", "REPAIR_PLANNING", "REPAIRING",
   "READY_TO_PUSH", "WAITING_FOR_CI", "CI_PASSED", "CI_FAILED",
   "REVIEW_RESPONSE_READY", "BLOCKED"}

Row == [task : Tasks \cup {None}, state : States, original : Sha,
        current : Sha, latest : Sha, ci : Sha \cup {NoSha},
        cycles : Nat, created : Nat, published : Nat]
Created(t, sha) ==
  [task |-> t, state |-> "ATTACHED", original |-> sha, current |-> sha,
   latest |-> sha, ci |-> NoSha, cycles |-> 0, created |-> 0, published |-> 0]
NoRow == Created(None, <<>>)

Exists(r) == mem[r].task # None

(* seen: a sha the call has read.  count, own: commitsCreated as the       *)
(* handler's state object shows it, and whether that object is still the   *)
(* cached one: an update replaces the cached object after changing it, so  *)
(* the handler sees one later update and no more.                          *)
Steps == {"idle", "attach:get", "attach:task", "start:wipe", "start:clone",
          "start:head", "start:save", "complete:head", "complete:status",
          "complete:save", "push:head", "push:verify", "ci"}
Call == [at : Steps, rep : Repairs \cup {None},
         task : Tasks \cup {None}, seen : Sha \cup {NoSha},
         count : Nat, own : BOOLEAN]
Idle == [at |-> "idle", rep |-> None, task |-> None, seen |-> <<>>,
         count |-> 0, own |-> FALSE]

Init ==
  /\ remote = <<>>
  /\ local = [r \in Repairs |-> NoSha]
  /\ dirty = {}
  /\ history = [r \in Repairs |-> "kept"]
  /\ mem = [r \in Repairs |-> NoRow]
  /\ disk = [r \in Repairs |-> NoRow]
  /\ bound = {}
  /\ evidence = {}
  /\ calls = [c \in Calls |-> Idle]
  /\ granted = [r \in Repairs |-> 0]
  /\ acked = [r \in Repairs |-> 0]
  /\ commits = 0
  /\ faults = 0

At(c, step) == calls[c].at = step
Rep(c) == calls[c].rep
Goto(c, step) == calls' = [calls EXCEPT ![c].at = step]
Saw(c, step, sha) == calls' = [calls EXCEPT ![c].at = step, ![c].seen = sha]
Begin(c, step, r) ==
  /\ At(c, "idle") /\ Exists(r)
  /\ calls' = [calls EXCEPT ![c] = [Idle EXCEPT !.at = step, !.rep = r]]
Return(c) == calls' = [calls EXCEPT ![c] = Idle]
RecordPassing(r) == evidence' = evidence \cup {mem[r].task}

(* updatePRRepair of session r to row, by a handler that leaves the calls  *)
(* as base: handlers that still hold the cached object see the new row,    *)
(* and lose the object when the save has put a copy in its place.          *)
Handles(base, r, row, saved) ==
  [c \in Calls |->
     IF base[c].own /\ base[c].rep = r
     THEN [base[c] EXCEPT !.count = row.created, !.own = ~saved]
     ELSE base[c]]

(* Mutant: the row is written to disk some other time.                     *)
SaveLater(base, r, row) ==
  /\ mem' = [mem EXCEPT ![r] = row]
  /\ calls' = Handles(base, r, row, TRUE)
  /\ UNCHANGED <<disk, faults>>
Save(base, r, row) ==
  /\ mem' = [mem EXCEPT ![r] = row]
  /\ disk' = [disk EXCEPT ![r] = row]
  /\ calls' = Handles(base, r, row, TRUE)
  /\ UNCHANGED faults

SaveThrows(base, r, row) ==
  /\ Mishaps < MaxMishaps /\ faults' = faults + 1
  /\ mem' = [mem EXCEPT ![r] = row]
  /\ calls' = Handles(base, r, row, FALSE)
  /\ UNCHANGED disk

Finished(c) == [calls EXCEPT ![c] = Idle]

-----------------------------------------------------------------------------
(* github_pr_attach, one at a time per task.  The row is created before    *)
(* the task is updated: if that fails the task is attached all the same.   *)
(* Mutant: attaching takes no lock.                                        *)
AlwaysFree(t) == TRUE
AttachFree(t) ==
  \A c \in Calls : calls[c].at \in {"attach:get", "attach:task"}
                    => calls[c].task # t

Attach(c, t) ==
  /\ At(c, "idle") /\ AttachFree(t)
  /\ \A r \in Repairs : disk[r].task # t
  /\ calls' = [calls EXCEPT ![c] = [Idle EXCEPT !.at = "attach:get",
                                               !.task = t]]
  /\ UNCHANGED <<remote, worker, session, bound, evidence, told, commits>>

AttachCreate(c, r) ==
  /\ At(c, "attach:get")
  /\ ~Exists(r) /\ \A q \in Repairs : q < r => Exists(q)
  /\ Save([calls EXCEPT ![c].at = "attach:task"], r,
          Created(calls[c].task, remote))
  /\ UNCHANGED <<remote, worker, bound, evidence, told, commits>>

AttachTask(c) ==
  /\ At(c, "attach:task")
  /\ bound' = bound \cup {calls[c].task}
  /\ Return(c)
  /\ UNCHANGED <<remote, worker, session, evidence, told, commits>>

(* github_pr_repair_workspace_start, one at a time per session.  The old   *)
(* clone is removed before the new one is made, and only then is its head  *)
(* compared with the head the session was attached at.                     *)
WorkspaceStart(c, r) ==
  /\ \A d \in Calls : Rep(d) = r => calls[d].at \notin
       {"start:wipe", "start:clone", "start:head", "start:save"}
  /\ Begin(c, "start:wipe", r)
  /\ UNCHANGED <<remote, worker, session, bound, evidence, told, commits>>

StartWipe(c) ==
  /\ At(c, "start:wipe")
  /\ local' = [local EXCEPT ![Rep(c)] = NoSha]
  /\ dirty' = dirty \ {Rep(c)}
  /\ Goto(c, "start:clone")
  /\ UNCHANGED <<remote, history, session, bound, evidence, told, commits>>

StartClone(c) ==
  /\ At(c, "start:clone")
  /\ local' = [local EXCEPT ![Rep(c)] = remote]
  /\ history' = [history EXCEPT ![Rep(c)] =
                   IF @ = "rewritten" THEN "recloned" ELSE @]
  /\ Goto(c, "start:head")
  /\ UNCHANGED <<remote, dirty, session, bound, evidence, told, commits>>

StartHead(c) ==
  /\ At(c, "start:head")
  /\ Saw(c, "start:save", local[Rep(c)])
  /\ UNCHANGED <<remote, worker, session, bound, evidence, told, commits>>

StartSave(c) ==
  /\ At(c, "start:save")
  /\ calls[c].seen = mem[Rep(c)].original
  /\ LET row == [mem[Rep(c)] EXCEPT !.state = "INSPECTING"] IN
     \/ Save(Finished(c), Rep(c), row) /\ RecordPassing(Rep(c))
     \/ SaveThrows(Finished(c), Rep(c), row) /\ UNCHANGED evidence
  /\ UNCHANGED <<remote, worker, bound, told, commits>>

(* github_pr_repair_plan_set: from any state, without a lock.              *)
PlanSet(r) ==
  /\ Exists(r)
  /\ LET row == [mem[r] EXCEPT !.state = "REPAIR_PLANNING"] IN
     Save(calls, r, row) \/ SaveThrows(calls, r, row)
  /\ UNCHANGED <<remote, worker, bound, evidence, told, commits>>

-----------------------------------------------------------------------------
(* github_pr_repair_cycle_start *)
Exhausted(r) == mem[r].cycles >= CycleLimit

CycleRow(r) == [mem[r] EXCEPT !.state = "REPAIRING", !.cycles = @ + 1]

CycleStart(r) ==
  /\ Exists(r) /\ mem[r].state # "REPAIRING" /\ ~Exhausted(r)
  /\ \/ /\ Save(calls, r, CycleRow(r))
        /\ granted' = [granted EXCEPT ![r] = @ + 1]
     \/ SaveThrows(calls, r, CycleRow(r)) /\ UNCHANGED granted
  /\ UNCHANGED <<remote, worker, bound, evidence, acked, commits>>

CycleRefuse(r) ==
  /\ Exists(r) /\ mem[r].state # "REPAIRING" /\ Exhausted(r)
  /\ LET row == [mem[r] EXCEPT !.state = "BLOCKED"] IN
     Save(calls, r, row) \/ SaveThrows(calls, r, row)
  /\ UNCHANGED <<remote, worker, bound, evidence, told, commits>>

(* github_pr_repair_cycle_complete takes no lock: the state is tested when *)
(* it starts, head and status are read one after the other.                *)
(* Mutant: the state is not tested.                                        *)
InAnyState(r) == TRUE
InCycle(r) == mem[r].state = "REPAIRING"

CycleComplete(c, r) ==
  /\ At(c, "idle") /\ Exists(r) /\ InCycle(r)
  /\ calls' = [calls EXCEPT ![c] =
                [Idle EXCEPT !.at = "complete:head", !.rep = r, !.own = TRUE,
                             !.count = mem[r].created]]
  /\ UNCHANGED <<remote, worker, session, bound, evidence, told, commits>>

(* git rev-parse throws where there is no clone.                           *)
HasClone(r) == local[r] # NoSha

CompleteHead(c) ==
  /\ At(c, "complete:head") /\ HasClone(Rep(c))
  /\ Saw(c, "complete:status", local[Rep(c)])
  /\ UNCHANGED <<remote, worker, session, bound, evidence, told, commits>>

CompleteStatus(c) ==
  /\ At(c, "complete:status")
  /\ Rep(c) \in dirty \/ calls[c].count # 0
  /\ calls' = [calls EXCEPT ![c].at = "complete:save", ![c].own = FALSE,
                            ![c].count = 0]
  /\ UNCHANGED <<remote, worker, session, bound, evidence, told, commits>>

(* Any evidence of the task may be named, what the look-up tools recorded  *)
(* included; a cycle passes if all that is named passed.                   *)
CompleteRow(c, passed) ==
  LET row == mem[Rep(c)] IN
  [row EXCEPT !.state = IF passed THEN "READY_TO_PUSH" ELSE "FEEDBACK_READY",
              !.created = IF calls[c].seen = row.current THEN @ ELSE @ + 1,
              !.current = calls[c].seen]

CompleteSave(c) ==
  /\ At(c, "complete:save")
  /\ \E passed \in {FALSE} \cup {mem[Rep(c)].task \in evidence} :
       LET row == CompleteRow(c, passed) IN
       \/ Save(Finished(c), Rep(c), row)
       \/ SaveThrows(Finished(c), Rep(c), row)
  /\ UNCHANGED <<remote, worker, bound, evidence, told, commits>>

-----------------------------------------------------------------------------
(* github_pr_repair_preflight changes nothing: it says that a session is   *)
(* ready to push, here of what it reads at one moment.                     *)
(* Mutant: it does not ask GitHub for the head.                            *)
AnyTip(r) == TRUE
KnownTip(r) == remote \in {mem[r].original, mem[r].latest}
PreflightReady(r) ==
  Exists(r) /\ KnownTip(r) /\ HasClone(r) /\ r \notin dirty /\ mem[r].created > 0

(* git push -u origin: only a fast-forward is accepted.                    *)
FastForward(r) == local[r] # NoSha /\ IsPrefix(remote, local[r])

(* github_pr_push_repair, one at a time per session.  The client confirms  *)
(* any two shas; a confirmation other than the heads that are read ends    *)
(* the call.  It looks neither at the state nor at a preflight, nor        *)
(* whether the pull request is open.                                       *)
PushRepair(c, r) ==
  /\ \A d \in Calls : Rep(d) = r => calls[d].at \notin {"push:head", "push:verify"}
  /\ mem[r].published < MaxPushes
  /\ FastForward(r)
  /\ remote' = local[r]
  /\ Begin(c, "push:head", r)
  /\ UNCHANGED <<worker, session, bound, evidence, told, commits>>

PushHead(c) ==
  /\ At(c, "push:head") /\ local[Rep(c)] # NoSha
  /\ Saw(c, "push:verify", local[Rep(c)])
  /\ UNCHANGED <<remote, worker, session, bound, evidence, told, commits>>

(* The head that rev-parse gave is recorded only if GitHub shows it too.   *)
(* Mutant: it is recorded without asking GitHub.                           *)
Unverified(c) == TRUE
TipVerified(c) == remote = calls[c].seen

PushedRow(c) ==
  [mem[Rep(c)] EXCEPT !.state = "WAITING_FOR_CI", !.published = @ + 1,
                      !.latest = calls[c].seen, !.ci = calls[c].seen]

PushVerify(c) ==
  /\ At(c, "push:verify") /\ TipVerified(c)
  /\ \/ /\ Save(Finished(c), Rep(c), PushedRow(c))
        /\ RecordPassing(Rep(c))
        /\ acked' = [acked EXCEPT ![Rep(c)] = @ + 1]
     \/ /\ SaveThrows(Finished(c), Rep(c), PushedRow(c))
        /\ UNCHANGED <<evidence, acked>>
  /\ UNCHANGED <<remote, worker, bound, granted, commits>>

-----------------------------------------------------------------------------
(* github_pr_refresh_ci polls the checks of the sha it was given, here the *)
(* head that the session knows when the poll starts, for as long as they   *)
(* are pending and the caller waits; the verdict goes into the row         *)
(* whatever has become of that head.                                       *)
RefreshCi(c, r) ==
  /\ At(c, "idle") /\ Exists(r)
  /\ calls' = [calls EXCEPT ![c] =
                [Idle EXCEPT !.at = "ci", !.rep = r, !.seen = mem[r].latest]]
  /\ UNCHANGED <<remote, worker, session, bound, evidence, told, commits>>

Verdicts == {"CI_PASSED", "CI_FAILED", "WAITING_FOR_CI"}

CiVerdict(c) ==
  /\ At(c, "ci")
  /\ \E verdict \in Verdicts :
       LET row == [mem[Rep(c)] EXCEPT !.state = verdict] IN
       \/ Save(Finished(c), Rep(c), row)
       \/ SaveThrows(Finished(c), Rep(c), row)
  /\ UNCHANGED <<remote, worker, bound, evidence, told, commits>>

(* github_pr_post_review_response updates the row when the reply is posted. *)
PostReviewResponse(r) ==
  /\ Exists(r)
  /\ LET row == [mem[r] EXCEPT !.state = "REVIEW_RESPONSE_READY"] IN
     Save(calls, r, row) \/ SaveThrows(calls, r, row)
  /\ UNCHANGED <<remote, worker, bound, evidence, told, commits>>

(* The tools that list threads, checks and runs write counts into the row, *)
(* which nothing reads: what matters is that they save the cached row.     *)
ListReviewThreads(r) ==
  /\ Exists(r)
  /\ \/ Save(calls, r, mem[r]) /\ RecordPassing(r)
     \/ SaveThrows(calls, r, mem[r]) /\ UNCHANGED evidence
  /\ UNCHANGED <<remote, worker, bound, told, commits>>
ListChecks(r) == ListReviewThreads(r)
ListWorkflowRuns(r) == ListReviewThreads(r)

(* The other look-ups only record what they fetched, as passed evidence.   *)
PrGet(r) ==
  /\ Exists(r) /\ RecordPassing(r)
  /\ UNCHANGED <<remote, worker, session, bound, calls, told, commits>>
GetReviewThread(r) == PrGet(r)
ClassifyFeedback(r) == PrGet(r)
GetCiFailureEvidence(r) == PrGet(r)

(* github_pr_prepare_final_handoff changes nothing.                        *)
FinalHandoff(r) == [headSha |-> mem[r].current, originalHeadSha |-> mem[r].original]

(* GitHub or the worker does not answer, or a check after an answer fails: *)
(* the call ends with an error.                                            *)
GiveUp(c) ==
  /\ ~At(c, "idle")
  /\ Return(c)
  /\ UNCHANGED <<remote, worker, session, bound, evidence, told, commits>>

-----------------------------------------------------------------------------
(* The rest of the world: the repository tools and shells of the worker,   *)
(* other people, a controller that stops and starts on its disk.           *)
Edit(r) ==
  /\ local[r] # NoSha
  /\ dirty' = dirty \cup {r}
  /\ UNCHANGED <<remote, local, history, session, bound, evidence, calls, told,
                 commits>>

Commit(r) ==
  /\ local[r] # NoSha /\ r \in dirty /\ commits < MaxCommits
  /\ commits' = commits + 1
  /\ local' = [local EXCEPT ![r] = Append(@, commits')]
  /\ dirty' = dirty \ {r}
  /\ UNCHANGED <<remote, history, session, bound, evidence, calls, told>>

(* git reset in a shell: commits come off the clone, and what they changed *)
(* stays in the working tree or goes too.  Amending a commit or rebasing   *)
(* is a reset and commits after it.                                        *)
Rewrite(r) ==
  /\ local[r] # NoSha
  /\ history[r] = "kept" => Mishaps < MaxMishaps
  /\ \E n \in 0..(Len(local[r]) - 1) :
       local' = [local EXCEPT ![r] = SubSeq(@, 1, n)]
  /\ dirty' \in {dirty \cup {r}, dirty \ {r}}
  /\ history' = [history EXCEPT ![r] = "rewritten"]
  /\ UNCHANGED <<remote, session, bound, evidence, calls, told, commits>>

OthersPush ==
  /\ commits < MaxCommits
  /\ commits' = commits + 1
  /\ remote' = Append(remote, commits')
  /\ UNCHANGED <<worker, session, bound, evidence, calls, told>>

Restart ==
  /\ mem' = disk
  /\ calls' = [c \in Calls |-> Idle]
  /\ UNCHANGED <<remote, worker, disk, faults, bound, evidence, told, commits>>

Next ==
  \/ \E c \in Calls, t \in Tasks : Attach(c, t)
  \/ \E c \in Calls, r \in Repairs :
       \/ AttachCreate(c, r) \/ WorkspaceStart(c, r) \/ CycleComplete(c, r)
       \/ PushRepair(c, r) \/ RefreshCi(c, r)
  \/ \E c \in Calls :
       \/ AttachTask(c) \/ StartWipe(c) \/ StartClone(c)
       \/ StartHead(c) \/ StartSave(c) \/ CompleteHead(c) \/ CompleteStatus(c)
       \/ CompleteSave(c) \/ PushHead(c) \/ PushVerify(c)
       \/ CiVerdict(c) \/ GiveUp(c)
  \/ \E r \in Repairs :
       \/ PlanSet(r) \/ CycleStart(r) \/ CycleRefuse(r) \/ PrGet(r)
       \/ PostReviewResponse(r) \/ ListReviewThreads(r) \/ ListChecks(r)
       \/ ListWorkflowRuns(r) \/ GetReviewThread(r) \/ ClassifyFeedback(r)
       \/ GetCiFailureEvidence(r)
       \/ Edit(r) \/ Commit(r) \/ Rewrite(r)
  \/ OthersPush \/ Restart

Spec == Init /\ [][Next]_vars

-----------------------------------------------------------------------------
TypeOK ==
  /\ remote \in Sha
  /\ local \in [Repairs -> Sha \cup {NoSha}] /\ dirty \subseteq Repairs
  /\ history \in [Repairs -> {"kept", "rewritten", "recloned"}]
  /\ mem \in [Repairs -> Row] /\ disk \in [Repairs -> Row]
  /\ bound \subseteq Tasks /\ evidence \subseteq Tasks
  /\ calls \in [Calls -> Call]
  /\ granted \in [Repairs -> Nat] /\ acked \in [Repairs -> Nat]
  /\ commits \in 0..MaxCommits /\ faults \in Nat

RecordedHeads ==
  \A r \in Repairs : \A row \in {mem[r], disk[r]} :
    /\ IsPrefix(row.original, row.latest)
    /\ IsPrefix(row.latest, remote)
    /\ row.ci # NoSha => row.ci = row.latest

(* The head that a session records as pushed was the head of the branch:   *)
(* it is in the branch's history, even if the worker's clone moved on, was *)
(* reset or was made again while the push was under way.  And the head     *)
(* that is handed off has the head the session was attached at in its      *)
(* history, as long as no shell ever took commits off the clone.           *)
RecordedWasRemote ==
  /\ \A r \in Repairs : history[r] = "kept" =>
       IsPrefix(FinalHandoff(r).originalHeadSha, FinalHandoff(r).headSha)
  /\ RecordedHeads

(* A session that preflight calls ready can be pushed: the clone has all   *)
(* that is on the branch, whatever was pushed, cloned again or recorded    *)
(* since.  Preflight compares shas and tests no ancestry, so this is so    *)
(* only of a clone that no shell took commits off since it was made.       *)
PreflightIsSafe ==
  \A r \in Repairs :
    PreflightReady(r) /\ history[r] # "rewritten" => FastForward(r)

(* Cycles granted and pushes answered are never forgotten, so that neither *)
(* a save that throws nor a restart lets a session start more cycles than  *)
(* its limit; only a save that throws costs a cycle that nobody was        *)
(* granted; and a session is BLOCKED, in memory or on disk, only when its  *)
(* cycles are spent.                                                       *)
CycleAccounts ==
  \A r \in Repairs :
    /\ granted[r] <= disk[r].cycles /\ disk[r].cycles <= mem[r].cycles
    /\ mem[r].cycles <= CycleLimit
    /\ mem[r].cycles <= granted[r] + faults
    /\ acked[r] <= disk[r].published
    /\ \A row \in {mem[r], disk[r]} :
         row.state = "BLOCKED" => row.cycles = CycleLimit

(* A task has one repair session, and a task whose row names the pull      *)
(* request has its session on disk, although attach is two writes with     *)
(* GitHub asked before and the task store between.                         *)
OneRepairPerTask ==
  /\ \A r, s \in Repairs :
       Exists(r) /\ Exists(s) /\ mem[r].task = mem[s].task => r = s
  /\ \A t \in bound : \E r \in Repairs : disk[r].task = t

(* complete awaits between its test and its update: calls that overlap all *)
(* count, but never more often than each cycle has calls.                  *)
CreatedOvershoot ==
  \A r \in Repairs :
    mem[r].created <= Cardinality(Calls) * mem[r].cycles
=============================================================================
