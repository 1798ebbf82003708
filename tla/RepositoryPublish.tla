------------------------- MODULE RepositoryPublish --------------------------
(***************************************************************************)
(* The repository tools of one worker session, from bind to publish        *)
(* (src/src/mcp/tools/repository-tools.ts), with the session's row in      *)
(* SessionRegistry, the clone in the worker                                *)
(* (src/src/e2b/git-operations.ts) and the branch at GitHub.               *)
(*                                                                         *)
(* Tools that change the clone hold repositoryLock of the session;         *)
(* preflight and validation_record do not, and shells of the worker need   *)
(* no tool.  With Postgres a handler works on a copy, and updateSession    *)
(* reads the row again and writes the whole of it: what others wrote since *)
(* then is lost.  With files a handler works on the registry's own object  *)
(* and its changes are seen at once; persist() then takes a snapshot of    *)
(* the registry and renames it over the file, and a restart reads the file. *)
(*                                                                         *)
(* A commit is a number, a sha the history it names since the base branch; *)
(* one repository is authorized.  A push sends the branch that is named,   *)
(* while HEAD is what is confirmed before and recorded after it.  A base   *)
(* branch that has moved is only warned about and is left out, like the    *)
(* count of commits and the dirty flag of the row, which no tool reads.    *)
(* Shells edit and clean the working tree at any time, so that wherever a  *)
(* tool looks it may be clean or not.  Nobody else writes to the working   *)
(* branches at GitHub.                                                     *)
(***************************************************************************)
EXTENDS Naturals, Sequences, SequencesExt

CONSTANTS
  Branches,    \* names of working branches
  Base,        \* the base branch; in a row, no working branch
  Records,     \* validations with an exit code that is not 0
  Calls,       \* tool calls in flight
  MaxCommits   \* bound of the instance: commits ever made

ASSUME BranchAssumption == Base \notin Branches
ASSUME BoundAssumption == MaxCommits \in Nat

VARIABLES
  storage,   \* where the registry keeps its rows
  row,       \* repositoryState and validationRecords of the session
  saved,     \* with files, the same in the file
  crossed,   \* ghost: writes of the file have overlapped, or one has failed
  clone,     \* the clone: is it there, what HEAD is on, the tips of branches
  remote,    \* the working branches at GitHub
  calls,     \* the tool calls in flight
  commits,   \* how many commits there are
  shells     \* ghost: the commits that shells made, or put on a branch

file == <<saved, crossed>>
worker == <<clone, commits, shells>>
vars == <<storage, row, file, worker, remote, calls>>

Sha == Seq(1..MaxCommits)
NoSha == <<0>>
Names == Branches \cup {Base}

(* pushed is a ghost: the branch that HEAD was on and that was pushed when *)
(* the published head was read; Base if these were different branches.     *)
RepoState == [cloneState : {"gone", "unbound", "bound", "cloned"},
              branch : Names,
              publication : {"none", "preflight_passed", "published"},
              published : Sha \cup {NoSha}, pushed : Names]
Unbound == [cloneState |-> "unbound", branch |-> Base,
            publication |-> "none", published |-> NoSha, pushed |-> Base]
Row == [repo : RepoState, failed : SUBSET Records]
FreshRow == [repo |-> Unbound, failed |-> {}]

(* A file that cannot be parsed is taken for an empty registry: the        *)
(* session is gone.                                                        *)
GoneRow == [FreshRow EXCEPT !.repo.cloneState = "gone"]
HasRepository(repo) == repo.cloneState \in {"bound", "cloned"}

(* HEAD is on a branch that there is.                                      *)
Clone == {k \in [there : BOOLEAN, on : Names, tip : [Names -> Sha \cup {NoSha}]] :
            k.tip[k.on] # NoSha}
NoClone == [there |-> FALSE, on |-> Base,
            tip |-> [b \in Names |-> IF b = Base THEN <<>> ELSE NoSha]]
HeadSha == clone.tip[clone.on]

(* mine: the copy of the row a handler works on, or the snapshot it saves. *)
(* branch: the branch it was asked for.  seen: the head it has read, and   *)
(* straight: was HEAD on that branch then.  An update ends in "...:read"   *)
(* and "...:write".                                                        *)
Locked == {"bind", "clone", "file", "branch", "branch:head", "commit",
           "publish:push", "publish:head", "tool:read", "tool:write"}
Reading == {"tool:read", "preflight:read", "record:read"}
Writing == {"tool:write", "preflight:write", "record:write"}
Steps == Locked \cup Reading \cup Writing \cup {"idle", "preflight"}
Call == [at : Steps, mine : Row, branch : Names, seen : Sha, straight : BOOLEAN]
Idle == [at |-> "idle", mine |-> FreshRow, branch |-> Base, seen |-> <<>>,
         straight |-> FALSE]

Init ==
  /\ storage \in {"files", "postgres"}
  /\ row = FreshRow
  /\ saved = FreshRow
  /\ crossed = FALSE
  /\ clone = NoClone
  /\ remote = [b \in Branches |-> NoSha]
  /\ calls = [c \in Calls |-> Idle]
  /\ commits = 0
  /\ shells = {}

At(c, step) == calls[c].at = step
Goto(c, step) == calls' = [calls EXCEPT ![c].at = step]
Return(c) == calls' = [calls EXCEPT ![c] = Idle]

(* getSession returns a copy with Postgres, the cached object with files,  *)
(* so that the handler works on the row itself.                            *)
Copy == IF storage = "files" THEN Unbound ELSE row.repo
Mine(c) == IF storage = "files" THEN row.repo ELSE calls[c].mine.repo
Begin(c, step, b) ==
  /\ At(c, "idle")
  /\ calls' = [calls EXCEPT ![c] =
       [Idle EXCEPT !.at = step, !.mine.repo = Copy, !.branch = b]]

(* Mutant: the tools take no lock.                                         *)
Unlocked(c) == At(c, "idle")
LockFree(c) == At(c, "idle") /\ \A d \in Calls : calls[d].at \notin Locked

(* A handler has changed its repositoryState and calls updateSession.      *)
Store(c, step, repo) ==
  IF storage = "files"
  THEN /\ row' = [row EXCEPT !.repo = repo]
       /\ calls' = [calls EXCEPT ![c] = [Idle EXCEPT !.at = step]]
  ELSE /\ calls' = [calls EXCEPT ![c] =
            [Idle EXCEPT !.at = step, !.mine.repo = repo]]
       /\ UNCHANGED row

Reread(c) ==
  CASE At(c, "tool:read") -> "tool:write"
    [] At(c, "preflight:read") -> "preflight:write"
    [] At(c, "record:read") -> "record:write"

(* updateSession with Postgres: the rest of the row is read again, then    *)
(* the whole of it is written.                                             *)
ReadAgain(c) ==
  /\ storage = "postgres" /\ calls[c].at \in Reading
  /\ calls' = [calls EXCEPT ![c].at = Reread(c),
       ![c].mine = IF At(c, "record:read") THEN [@ EXCEPT !.repo = row.repo]
                   ELSE [@ EXCEPT !.failed = row.failed]]
  /\ UNCHANGED <<storage, row, file, worker, remote>>

Write(c) ==
  /\ storage = "postgres" /\ calls[c].at \in Writing
  /\ row' = calls[c].mine
  /\ Return(c)
  /\ UNCHANGED <<storage, file, worker, remote>>

(* updateSession with files: persist() writes what the registry holds when *)
(* the directory is known to exist.  Writes that overlap are renamed in    *)
(* any order, and two of one millisecond spoil each other's temporary file. *)
Overlaps(c) == \E d \in Calls \ {c} : calls[d].at \in Writing

Snapshot(c) ==
  /\ storage = "files" /\ calls[c].at \in Reading
  /\ calls' = [calls EXCEPT ![c].at = Reread(c), ![c].mine = row]
  /\ crossed' = (crossed \/ Overlaps(c))
  /\ UNCHANGED <<storage, row, saved, worker, remote>>

(* Mutant: the temporary file is written and never renamed.                *)
NotRenamed(c) ==
  /\ storage = "files" /\ calls[c].at \in Writing
  /\ Return(c)
  /\ UNCHANGED <<storage, row, file, worker, remote>>
Rename(c) ==
  /\ storage = "files" /\ calls[c].at \in Writing
  /\ saved' = calls[c].mine \/ (Overlaps(c) /\ saved' = GoneRow)
  /\ Return(c)
  /\ UNCHANGED <<storage, row, crossed, worker, remote>>

-----------------------------------------------------------------------------
(* repository_bind *)
Bind(c) ==
  /\ LockFree(c) /\ row.repo.cloneState = "unbound"
  /\ Begin(c, "bind", Base)
  /\ UNCHANGED <<storage, row, file, worker, remote>>

Bound(c) ==
  /\ At(c, "bind")
  /\ Store(c, "tool:read", [Unbound EXCEPT !.cloneState = "bound"])
  /\ UNCHANGED <<storage, file, worker, remote>>

(* repository_clone removes what was cloned before. *)
CloneStart(c) ==
  /\ LockFree(c) /\ HasRepository(row.repo)
  /\ Begin(c, "clone", Base)
  /\ clone' = NoClone
  /\ UNCHANGED <<storage, row, file, remote, commits, shells>>

CloneGit(c) ==
  /\ At(c, "clone")
  /\ clone' = [NoClone EXCEPT !.there = TRUE]
  /\ Store(c, "tool:read", [Mine(c) EXCEPT !.cloneState = "cloned"])
  /\ UNCHANGED <<storage, file, remote, commits, shells>>

(* The other tools under the lock read the row and then work on the clone. *)
Start(c, step, b) ==
  /\ LockFree(c) /\ row.repo.cloneState # "gone"
  /\ Begin(c, step, b)
  /\ UNCHANGED <<storage, row, file, worker, remote>>

(* repository_write_file and repository_apply_patch write the row back as  *)
(* it was, but for a flag, and only if it was bound.                       *)
WriteFile(c) == Start(c, "file", Base)
ApplyPatch(c) == Start(c, "file", Base)

FileWritten(c) ==
  /\ At(c, "file") /\ clone.there
  /\ IF HasRepository(Mine(c))
     THEN Store(c, "tool:read", Mine(c))
     ELSE Return(c) /\ UNCHANGED row
  /\ UNCHANGED <<storage, file, worker, remote>>

(* git_create_branch, from whatever HEAD is.  The branch is checked out    *)
(* before its head is read and the row is written: if either fails, HEAD   *)
(* is on the new branch and the row names the old one.                     *)
CreateBranch(c, b) == HasRepository(row.repo) /\ Start(c, "branch", b)

BranchCheckout(c) ==
  /\ At(c, "branch")
  /\ clone.there /\ clone.tip[calls[c].branch] = NoSha
  /\ clone' = [clone EXCEPT !.on = calls[c].branch,
                            !.tip[calls[c].branch] = HeadSha]
  /\ Goto(c, "branch:head")
  /\ UNCHANGED <<storage, row, file, remote, commits, shells>>

BranchCreated(c) ==
  /\ At(c, "branch:head") /\ clone.there
  /\ Store(c, "tool:read", [Mine(c) EXCEPT !.branch = calls[c].branch])
  /\ UNCHANGED <<storage, file, worker, remote>>

(* git_commit, on whatever branch HEAD is. *)
GitCommit(c) == HasRepository(row.repo) /\ Start(c, "commit", Base)

NewCommit ==
  /\ clone.there /\ commits < MaxCommits
  /\ commits' = commits + 1
  /\ clone' = [clone EXCEPT !.tip[clone.on] = Append(@, commits')]

Committed(c) ==
  /\ At(c, "commit")
  /\ NewCommit
  /\ Store(c, "tool:read", Mine(c))
  /\ UNCHANGED <<storage, file, remote, shells>>

(* validation_record of a failure, without the lock; with files nothing    *)
(* comes between the read and the change of the row.                       *)
ValidationRecord(c, v) ==
  /\ At(c, "idle") /\ row.repo.cloneState # "gone" /\ v \notin row.failed
  /\ IF storage = "files"
     THEN row' = [row EXCEPT !.failed = @ \cup {v}] /\ Goto(c, "record:read")
     ELSE /\ calls' = [calls EXCEPT ![c] =
                 [Idle EXCEPT !.at = "record:read",
                              !.mine.failed = row.failed \cup {v}]]
          /\ UNCHANGED row
  /\ UNCHANGED <<storage, file, worker, remote>>

-----------------------------------------------------------------------------
(* github_preflight_publish, without the lock: the row is read at one time *)
(* and the clone at a later one.  A failure that the row has when it begins *)
(* blocks in the end, so that such a call is left out.                     *)
Preflight(c) ==
  /\ HasRepository(row.repo) /\ row.failed = {}
  /\ Begin(c, "preflight", Base)
  /\ UNCHANGED <<storage, row, file, worker, remote>>

(* PreflightValidator: any working branch will do, whatever HEAD is on.    *)
Ready(c) ==
  /\ Mine(c).cloneState = "cloned" /\ Mine(c).branch # Base
  /\ clone.there /\ HeadSha # <<>>

PreflightPass(c) ==
  /\ At(c, "preflight") /\ Ready(c)
  /\ Store(c, "preflight:read",
           [Mine(c) EXCEPT !.publication = "preflight_passed"])
  /\ UNCHANGED <<storage, file, worker, remote>>

(* github_publish_branch.  The client confirms the row's branch and any    *)
(* sha; a sha other than HEAD ends the call.  The branch that HEAD is on   *)
(* is not compared, and no preflight is asked for.                         *)
PublishBranch(c) ==
  /\ LockFree(c) /\ row.repo.branch # Base /\ clone.there
  /\ calls' = [calls EXCEPT ![c] =
       [at |-> "publish:push", mine |-> [repo |-> Copy, failed |-> {}],
        branch |-> row.repo.branch, seen |-> HeadSha,
        straight |-> clone.on = row.repo.branch]]
  /\ UNCHANGED <<storage, row, file, worker, remote>>

(* git push -u origin <branch>: only a fast-forward is accepted.           *)
FastForward(b) ==
  /\ clone.tip[b] # NoSha
  /\ remote[b] # NoSha => IsPrefix(remote[b], clone.tip[b])

PublishPush(c) ==
  /\ At(c, "publish:push") /\ FastForward(calls[c].branch)
  /\ remote' = [remote EXCEPT ![calls[c].branch] = clone.tip[calls[c].branch]]
  /\ \/ calls' = [calls EXCEPT ![c] =
          [@ EXCEPT !.at = "publish:head", !.seen = <<>>, !.straight = FALSE]]
     \/ Return(c)
  /\ UNCHANGED <<storage, row, file, worker>>

Published(c) ==
  [Mine(c) EXCEPT !.publication = "published", !.published = HeadSha,
                  !.pushed = IF clone.on = calls[c].branch THEN clone.on ELSE Base]

(* What HEAD is now goes into the row as the remote head.                  *)
(* Mutant: before it is pushed.                                            *)
PublishHeadFirst(c) ==
  /\ At(c, "publish:push") /\ clone.there
  /\ Store(c, "tool:read", Published(c))
  /\ UNCHANGED <<storage, file, worker, remote>>
PublishHead(c) ==
  /\ At(c, "publish:head") /\ clone.there
  /\ Store(c, "tool:read", Published(c))
  /\ UNCHANGED <<storage, file, worker, remote>>

(* github_prepare_pr_handoff changes nothing.  The head it hands off is the *)
(* published one, its commits are those of the clone at the time.          *)
HandsOff == row.repo.publication = "published" /\ clone.there
PrHandoff == [headBranch |-> row.repo.branch, headSha |-> row.repo.published,
              commits |-> HeadSha]

(* The worker, GitHub, the disk or the database fails, or a check fails:   *)
(* the call ends with an error.                                            *)
Saving(c) == storage = "files" /\ calls[c].at \in Reading \cup Writing

GiveUp(c) ==
  /\ ~At(c, "idle")
  /\ Return(c)
  /\ crossed' = (crossed \/ Saving(c))
  /\ UNCHANGED <<storage, row, saved, worker, remote>>

-----------------------------------------------------------------------------
(* runtime_run_command and terminals: commits and whatever else git can do *)
(* to the branches of the clone, without a lock.                           *)
ShellCommit ==
  /\ NewCommit
  /\ shells' = shells \cup {commits'}
  /\ UNCHANGED <<storage, row, file, remote, calls>>

(* What of new is at another place than in old. *)
Placed(old, new) ==
  {new[i] : i \in {j \in DOMAIN new : j \in DOMAIN old => new[j] # old[j]}}

ShellTip(b, new) ==
  /\ clone' = [clone EXCEPT !.on = b, !.tip[b] = new]
  /\ shells' = shells \cup Placed(clone.tip[b], new)
  /\ UNCHANGED <<storage, row, file, commits, remote, calls>>

ShellCheckout(b) ==
  /\ clone.there
  /\ ShellTip(b, IF clone.tip[b] = NoSha THEN HeadSha ELSE clone.tip[b])

(* git reset, rebase or commit --amend, which is a reset and a commit: the *)
(* branch that HEAD is on gets part of the history of some branch.         *)
ShellReset(from, n) ==
  /\ clone.there /\ clone.tip[from] # NoSha /\ n \in 0..Len(clone.tip[from])
  /\ ShellTip(clone.on, SubSeq(clone.tip[from], 1, n))

Restart ==
  /\ calls' = [c \in Calls |-> Idle]
  /\ row' = IF storage = "files" THEN saved ELSE row
  /\ crossed' = FALSE
  /\ UNCHANGED <<storage, saved, worker, remote>>

Next ==
  \/ \E c \in Calls :
       \/ ReadAgain(c) \/ Write(c) \/ Snapshot(c) \/ Rename(c)
       \/ Bind(c) \/ Bound(c) \/ CloneStart(c)
       \/ CloneGit(c) \/ WriteFile(c) \/ ApplyPatch(c) \/ FileWritten(c)
       \/ BranchCheckout(c) \/ BranchCreated(c) \/ GitCommit(c) \/ Committed(c)
       \/ Preflight(c) \/ PreflightPass(c)
       \/ PublishBranch(c) \/ PublishPush(c) \/ PublishHead(c)
       \/ GiveUp(c)
       \/ \E b \in Branches : CreateBranch(c, b)
       \/ \E v \in Records : ValidationRecord(c, v)
  \/ ShellCommit \/ Restart
  \/ \E b \in Names :
       ShellCheckout(b) \/ \E n \in 0..MaxCommits : ShellReset(b, n)

Spec == Init /\ [][Next]_vars

-----------------------------------------------------------------------------
TypeOK ==
  /\ storage \in {"files", "postgres"} /\ row \in Row
  /\ saved \in Row /\ crossed \in BOOLEAN
  /\ clone \in Clone
  /\ remote \in [Branches -> Sha \cup {NoSha}]
  /\ calls \in [Calls -> Call] /\ commits \in 0..MaxCommits
  /\ shells \subseteq 1..MaxCommits

(* Where HEAD was on the branch that was named when it was confirmed, each *)
(* commit that a push publishes was confirmed at its place, or a shell made *)
(* it or put it there: no tool can slip a commit in.                       *)
PublishesWhatWasConfirmed ==
  [][ \A c \in Calls :
        At(c, "publish:push") /\ calls[c].straight /\ remote' # remote =>
          LET new == remote'[calls[c].branch] IN
          \A i \in DOMAIN new :
            \/ new[i] \in shells
            \/ i \in DOMAIN calls[c].seen /\ calls[c].seen[i] = new[i] ]_remote

(* The head a handoff names was read from the clone after the push.  Where *)
(* HEAD was on the branch that was pushed, every commit of it is on that   *)
(* branch at GitHub, or a shell made it or put it there; over lost answers, *)
(* restarts, new clones, later branches and stale rows.                    *)
PublishedWasPushed ==
  HandsOff /\ row.repo.pushed # Base =>
    LET head == PrHandoff.headSha
        there == remote[row.repo.pushed] IN
    \A i \in DOMAIN head :
      head[i] \in shells \/ (i \in DOMAIN there /\ there[i] = head[i])

(* What new forgets of old: that the session is there, bound and cloned,   *)
(* that it has a branch and a published head, a failure that was recorded. *)
Remembers(old, new) ==
  /\ old.repo.cloneState # "gone" => new.repo.cloneState # "gone"
  /\ HasRepository(old.repo) => HasRepository(new.repo)
  /\ old.repo.cloneState = "cloned" => new.repo.cloneState = "cloned"
  /\ old.repo.branch # Base => new.repo.branch # Base
  /\ old.repo.published # NoSha => new.repo.published # NoSha
  /\ old.failed \subseteq new.failed

(* With files the row forgets nothing while the process runs, whatever     *)
(* overlaps.  A restart loses only what was still being written, unless    *)
(* two writes of the file have overlapped or one has failed.               *)
NothingForgotten ==
  [][ storage = "files" /\ ~Remembers(row, row') =>
        Restart /\ (crossed \/ \E c \in Calls : Saving(c)) ]_row
=============================================================================
