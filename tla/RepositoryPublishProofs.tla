---------------------- MODULE RepositoryPublishProofs ----------------------
(***************************************************************************)
(* For any number of tool calls, branches, commits and validations, over   *)
(* restarts, new clones, stale rows and shells that rewrite the clone: a   *)
(* push publishes what was confirmed, a head handed off was pushed (each   *)
(* where HEAD was on the branch that is pushed), and with files only a     *)
(* restart can make the row forget.                                        *)
(***************************************************************************)
EXTENDS RepositoryPublish, SequenceTheorems, TLAPS

-----------------------------------------------------------------------------
(* Types.                                                                  *)
LEMMA RowTypes ==
  /\ Unbound \in RepoState /\ FreshRow \in Row /\ GoneRow \in Row
  /\ FreshRow.repo = Unbound /\ FreshRow.failed = {}
  /\ GoneRow.repo.publication = "none" /\ GoneRow.repo.cloneState = "gone"
  /\ GoneRow.repo.branch = Base /\ GoneRow.repo.published = NoSha
  /\ Idle \in Call /\ Idle.mine = FreshRow /\ Idle.at = "idle"
<1>1. Unbound \in RepoState
  BY DEF RepoState, Unbound, Names
<1>2. FreshRow \in Row /\ FreshRow.repo = Unbound /\ FreshRow.failed = {}
  BY <1>1 DEF FreshRow, Row
<1> DEFINE gone == [Unbound EXCEPT !.cloneState = "gone"]
<1>3. /\ gone \in RepoState /\ gone.publication = "none" /\ gone.cloneState = "gone"
      /\ gone.branch = Base /\ gone.published = NoSha
  BY <1>1 DEF RepoState, Unbound
<1>4. GoneRow = [repo |-> gone, failed |-> {}]
  BY DEF GoneRow, FreshRow
<1>5. Idle \in Call /\ Idle.mine = FreshRow /\ Idle.at = "idle"
  BY <1>2 DEF Idle, Call, Steps, Sha, Names
<1> HIDE DEF gone
<1>6. GoneRow \in Row /\ GoneRow.repo = gone
  BY <1>3, <1>4 DEF Row
<1> QED BY <1>1, <1>2, <1>3, <1>5, <1>6

(* The parts of a call that has begun, or has left its update to be saved. *)
LEMMA PutAt ==
  ASSUME NEW k \in Call, NEW step \in Steps
  PROVE  /\ [k EXCEPT !.at = step] \in Call /\ [k EXCEPT !.at = step].at = step
         /\ [k EXCEPT !.at = step].mine = k.mine
         /\ [k EXCEPT !.at = step].branch = k.branch
BY DEF Call

WithMine(k, step, repo) == [k EXCEPT !.at = step, !.mine.repo = repo]
LEMMA PutMine ==
  ASSUME NEW k \in Call, NEW step \in Steps, NEW repo \in RepoState
  PROVE  /\ WithMine(k, step, repo) \in Call /\ WithMine(k, step, repo).at = step
         /\ WithMine(k, step, repo).mine.repo = repo
<1> DEFINE k1 == [k EXCEPT !.at = step]
           k2 == [k1 EXCEPT !.mine.repo = repo]
<1>1. k1 \in Call /\ k1.at = step
  BY DEF Call
<1>2. k1.mine \in Row
  BY <1>1 DEF Call
<1> HIDE DEF k1
<1>3. k2 \in Call /\ k2.at = step /\ k2.mine.repo = repo
  BY <1>1, <1>2 DEF Call, Row
<1>4. k2 = WithMine(k, step, repo)
  BY DEF k1, WithMine
<1> HIDE DEF k2
<1> QED BY <1>3, <1>4

WithBranch(k, step, repo, b) == [k EXCEPT !.at = step, !.mine.repo = repo, !.branch = b]
LEMMA PutBranch ==
  ASSUME NEW k \in Call, NEW step \in Steps, NEW repo \in RepoState, NEW b \in Names
  PROVE  /\ WithBranch(k, step, repo, b) \in Call /\ WithBranch(k, step, repo, b).at = step
         /\ WithBranch(k, step, repo, b).mine.repo = repo
         /\ WithBranch(k, step, repo, b).branch = b
<1> DEFINE k2 == WithMine(k, step, repo)
           k3 == [k2 EXCEPT !.branch = b]
<1>1. k2 \in Call /\ k2.at = step /\ k2.mine.repo = repo
  BY PutMine
<1> HIDE DEF k2
<1>2. k3 \in Call /\ k3.at = step /\ k3.mine.repo = repo /\ k3.branch = b
  BY <1>1 DEF Call
<1>3. k3 = WithBranch(k, step, repo, b)
  BY Zenon DEF k2, WithMine, WithBranch
<1> HIDE DEF k3
<1> QED BY <1>2, <1>3

LEMMA StoreEffect ==
  ASSUME TypeOK, NEW c \in Calls, NEW step \in Steps, NEW repo \in RepoState,
         Store(c, step, repo)
  PROVE  /\ row' \in Row /\ calls' \in [Calls -> Call] /\ calls'[c].at = step
         /\ \A d \in Calls \ {c} : calls'[d] = calls[d]
         /\ \/ /\ storage = "files" /\ calls'[c].mine = FreshRow
               /\ row' = [row EXCEPT !.repo = repo] /\ row'.repo = repo
               /\ row'.failed = row.failed
            \/ /\ storage = "postgres" /\ row' = row /\ calls'[c].mine.repo = repo
<1>1. row \in Row /\ calls \in [Calls -> Call] /\ Base \in Names
  BY DEF TypeOK, Names
<1>2. CASE storage = "files"
  <2>1. /\ row' = [row EXCEPT !.repo = repo]
        /\ calls' = [calls EXCEPT ![c] = [Idle EXCEPT !.at = step]]
    BY <1>2 DEF Store
  <2>2. /\ [Idle EXCEPT !.at = step] \in Call /\ [Idle EXCEPT !.at = step].at = step
        /\ [Idle EXCEPT !.at = step].mine = FreshRow
    BY RowTypes, PutAt
  <2> QED BY <1>1, <1>2, <2>1, <2>2 DEF Row
<1>3. CASE storage # "files"
  <2> DEFINE new == WithMine(Idle, step, repo)
  <2>1. row' = row /\ storage = "postgres" /\ calls' = [calls EXCEPT ![c] = new]
    BY <1>3, Zenon DEF Store, TypeOK, WithMine
  <2>2. new \in Call /\ new.at = step /\ new.mine.repo = repo
    BY RowTypes, PutMine
  <2> HIDE DEF new
  <2> QED BY <1>1, <2>1, <2>2
<1> QED BY <1>2, <1>3

LEMMA MineType ==
  ASSUME TypeOK, NEW c \in Calls
  PROVE  /\ Mine(c) \in RepoState /\ Copy \in RepoState
         /\ calls[c] \in Call /\ calls[c].mine \in Row /\ calls[c].mine.repo \in RepoState
         /\ row.repo \in RepoState /\ saved.repo \in RepoState
<1>1. row.repo \in RepoState /\ saved.repo \in RepoState
  BY DEF TypeOK, Row
<1>2. calls[c] \in Call /\ calls[c].mine \in Row /\ calls[c].mine.repo \in RepoState
  BY DEF TypeOK, Call, Row
<1> QED BY <1>1, <1>2, RowTypes DEF Mine, Copy

LEMMA BeginEffect ==
  ASSUME TypeOK, NEW c \in Calls, NEW step \in Steps, NEW b \in Names, Begin(c, step, b)
  PROVE  /\ calls' \in [Calls -> Call] /\ calls'[c].at = step
         /\ \A d \in Calls \ {c} : calls'[d] = calls[d]
         /\ calls'[c].mine.repo \in {row.repo, Unbound} /\ calls'[c].branch = b
<1> DEFINE new == WithBranch(Idle, step, Copy, b)
<1>1. Copy \in RepoState /\ Copy \in {row.repo, Unbound}
  BY MineType DEF Copy
<1>2. new \in Call /\ new.at = step /\ new.mine.repo = Copy /\ new.branch = b
  BY <1>1, RowTypes, PutBranch
<1>3. calls' = [calls EXCEPT ![c] = new]
  BY Zenon DEF Begin, WithBranch
<1> HIDE DEF new
<1> QED BY <1>1, <1>2, <1>3 DEF TypeOK

LEMMA ShaIsSeq ==
  /\ Sha \subseteq Seq(Nat) /\ NoSha \in Seq(Nat) /\ NoSha \notin Sha
  /\ Len(NoSha) = 1 /\ NoSha[1] = 0
  /\ \A s \in Sha : \A i \in DOMAIN s : s[i] \in 1..MaxCommits /\ s[i] \in Nat \ {0}
<1>1. 1..MaxCommits \subseteq Nat
  BY BoundAssumption
<1>2. ASSUME NEW s \in Sha
      PROVE  s \in Seq(Nat)
  <2>1. s \in Seq(1..MaxCommits) /\ Len(s) \in Nat /\ s \in [1..Len(s) -> 1..MaxCommits]
    BY LenProperties DEF Sha
  <2>2. s \in [1..Len(s) -> Nat]
    BY <1>1, <2>1
  <2> QED BY <2>1, <2>2, SeqDef
<1>3. \A s \in Sha : \A i \in DOMAIN s : s[i] \in 1..MaxCommits /\ s[i] \in Nat \ {0}
  BY BoundAssumption DEF Sha
<1>4. NoSha \in Seq(Nat) /\ Len(NoSha) = 1 /\ NoSha[1] = 0 /\ 1 \in DOMAIN NoSha
  BY DEF NoSha
<1> QED BY <1>2, <1>3, <1>4

LEMMA CloneType ==
  ASSUME TypeOK
  PROVE  /\ clone \in [there : BOOLEAN, on : Names, tip : [Names -> Sha \cup {NoSha}]]
         /\ clone.on \in Names /\ clone.tip \in [Names -> Sha \cup {NoSha}]
         /\ clone.there \in BOOLEAN /\ HeadSha \in Sha
         /\ clone = [there |-> clone.there, on |-> clone.on, tip |-> clone.tip]
BY DEF TypeOK, Clone, HeadSha

PutTip(k, b, new) == [k EXCEPT !.on = b, !.tip[b] = new]
LEMMA ClonePut ==
  ASSUME TypeOK, NEW b \in Names, NEW new \in Sha
  PROVE  /\ PutTip(clone, b, new) \in Clone
         /\ PutTip(clone, b, new).tip = [clone.tip EXCEPT ![b] = new]
<1> DEFINE Shape == [there : BOOLEAN, on : Names, tip : [Names -> Sha \cup {NoSha}]]
           k1 == [clone EXCEPT !.on = b]
           k2 == [k1 EXCEPT !.tip[b] = new]
<1>1. k1 \in Shape /\ k1.on = b /\ k1.tip = clone.tip
  BY CloneType
<1> HIDE DEF k1
<1>2. k2 \in Shape /\ k2.on = b /\ k2.tip = [clone.tip EXCEPT ![b] = new]
  BY <1>1
<1>3. k2 = PutTip(clone, b, new)
  BY Zenon DEF k1, PutTip
<1>4. [clone.tip EXCEPT ![b] = new][b] # NoSha
  BY CloneType, ShaIsSeq
<1> HIDE DEF k2
<1> QED BY <1>2, <1>3, <1>4 DEF Clone

LEMMA NewCommitEffect ==
  ASSUME TypeOK, NewCommit
  PROVE  /\ clone' \in Clone /\ commits' \in 1..MaxCommits /\ commits' \in 0..MaxCommits
         /\ clone'.tip = [clone.tip EXCEPT ![clone.on] = Append(HeadSha, commits')]
<1>1. commits' = commits + 1 /\ commits' \in 1..MaxCommits /\ commits' \in 0..MaxCommits
  BY BoundAssumption DEF TypeOK, NewCommit
<1>2. Append(HeadSha, commits') \in Sha
  BY <1>1, CloneType DEF Sha
<1> DEFINE tip == [clone.tip EXCEPT ![clone.on] = Append(HeadSha, commits')]
<1>3. tip \in [Names -> Sha \cup {NoSha}] /\ tip[clone.on] # NoSha
  BY <1>2, CloneType, ShaIsSeq
<1> HIDE DEF tip
<1>4. clone' = [there |-> clone.there, on |-> clone.on, tip |-> tip]
  BY CloneType DEF NewCommit, HeadSha, tip
<1>5. clone' \in Clone /\ clone'.tip = tip
  BY <1>3, <1>4, CloneType DEF Clone
<1> QED BY <1>1, <1>5 DEF tip

-----------------------------------------------------------------------------
(* A step of a tool call, by what it does to the clone, the branches at    *)
(* GitHub and the other calls, and where its repository states come from.  *)
From(c) == {row.repo, saved.repo, calls[c].mine.repo, Unbound, GoneRow.repo}

(* new says published only if it says what an older state said, or names   *)
(* HEAD after the push of the branch that HEAD is on.                      *)
Sound(c, new) ==
  new.publication = "published" /\ new.pushed # Base =>
    \/ /\ At(c, "publish:head") /\ clone.on = calls[c].branch
       /\ new.published = HeadSha /\ new.pushed = calls[c].branch
    \/ \E old \in From(c) :
         /\ old.publication = "published"
         /\ new.published = old.published /\ new.pushed = old.pushed

RepoFlow(c) ==
  \E new \in RepoState :
    /\ Sound(c, new)
    /\ row'.repo \in From(c) \cup {new}
    /\ saved'.repo \in From(c) \cup {new}
    /\ calls'[c].mine.repo \in From(c) \cup {new}

Pushes(c) ==
  /\ At(c, "publish:push") /\ FastForward(calls[c].branch) /\ clone' = clone
  /\ remote' = [remote EXCEPT ![calls[c].branch] = clone.tip[calls[c].branch]]

CloneFlow(c) ==
  /\ clone' = clone \/ calls[c].at \in Locked \/ LockFree(c)
  /\ remote' = remote \/ Pushes(c)

CallFlow(c) ==
  /\ \A d \in Calls \ {c} : calls'[d] = calls[d]
  /\ calls'[c].at \in Locked => LockFree(c) \/ calls[c].at \in Locked
  /\ calls'[c].at = "publish:push" =>
       /\ LockFree(c) /\ clone' = clone /\ remote' = remote
       /\ calls'[c].branch \in Branches
       /\ calls'[c].straight => calls'[c].seen = clone.tip[calls'[c].branch]
  /\ calls'[c].at = "publish:head" => Pushes(c) /\ calls'[c].branch = calls[c].branch

ToolStep(c) ==
  /\ TypeOK' /\ UNCHANGED <<storage, shells>>
  /\ RepoFlow(c) /\ CloneFlow(c) /\ CallFlow(c)

(* A call that only reads, saves or ends.                                  *)
LEMMA QuietStep ==
  ASSUME TypeOK, NEW c \in Calls,
         calls' \in [Calls -> Call], \A d \in Calls \ {c} : calls'[d] = calls[d],
         calls'[c].at \in Locked => calls[c].at \in Locked \/ LockFree(c),
         calls'[c].at \notin {"publish:push", "publish:head"},
         calls'[c].mine.repo \in From(c),
         row' \in Row, row'.repo \in From(c), saved' \in Row, saved'.repo \in From(c),
         crossed' \in BOOLEAN, UNCHANGED <<storage, worker>>,
         remote' = remote \/ Pushes(c)
  PROVE  ToolStep(c)
<1>1. TypeOK'
  <2>1. remote' \in [Branches -> Sha \cup {NoSha}]
    <3>1. CASE remote' = remote
      BY <3>1 DEF TypeOK
    <3>2. CASE Pushes(c)
      <4>1. calls[c].branch \in Names
        BY MineType DEF Call
      <4>2. clone.tip[calls[c].branch] \in Sha \cup {NoSha}
        BY <4>1, CloneType
      <4> QED BY <3>2, <4>2 DEF Pushes, TypeOK
    <3> QED BY <3>1, <3>2
  <2> QED BY <2>1 DEF TypeOK, worker
<1>2. RepoFlow(c)
  <2>1. Sound(c, Unbound) /\ Unbound \in RepoState
    BY RowTypes DEF Sound, Unbound
  <2> QED BY <2>1 DEF RepoFlow
<1>3. CloneFlow(c)
  BY DEF CloneFlow, worker
<1>4. CallFlow(c)
  BY DEF CallFlow
<1> QED BY <1>1, <1>2, <1>3, <1>4 DEF ToolStep, worker

LEMMA BeginStep ==
  ASSUME TypeOK, NEW c \in Calls, NEW step \in Steps, NEW b \in Names, Begin(c, step, b),
         step \in Locked => LockFree(c), step \notin {"publish:push", "publish:head"},
         UNCHANGED <<storage, row, file, worker, remote>>
  PROVE  ToolStep(c)
<1>1. /\ calls' \in [Calls -> Call] /\ \A d \in Calls \ {c} : calls'[d] = calls[d]
      /\ calls'[c].at = step /\ calls'[c].mine.repo \in {row.repo, Unbound}
  BY BeginEffect
<1>2. row' = row /\ saved' = saved /\ crossed' = crossed
  BY DEF file
<1> QED BY <1>1, <1>2, QuietStep DEF From, TypeOK

LEMMA StoreStep ==
  ASSUME TypeOK, NEW c \in Calls, NEW step \in Reading, NEW repo \in RepoState,
         Store(c, step, repo), Sound(c, repo),
         step \in Locked => calls[c].at \in Locked,
         clone' \in Clone, commits' \in 0..MaxCommits,
         clone' = clone \/ calls[c].at \in Locked,
         UNCHANGED <<storage, file, remote, shells>>
  PROVE  ToolStep(c)
<1>1. /\ row' \in Row /\ calls' \in [Calls -> Call] /\ calls'[c].at = step
      /\ \A d \in Calls \ {c} : calls'[d] = calls[d]
      /\ \/ calls'[c].mine = FreshRow /\ row'.repo = repo
         \/ row' = row /\ calls'[c].mine.repo = repo
  BY StoreEffect DEF Steps
<1>2. TypeOK'
  BY <1>1 DEF TypeOK, file
<1>3. RepoFlow(c)
  BY <1>1, RowTypes DEF RepoFlow, From, file
<1>4. CloneFlow(c)
  BY DEF CloneFlow
<1>5. CallFlow(c)
  BY <1>1 DEF CallFlow, Reading
<1> QED BY <1>2, <1>3, <1>4, <1>5 DEF ToolStep

LEMMA ReturnStep ==
  ASSUME TypeOK, NEW c \in Calls, Return(c), row' = row \/ row' = calls[c].mine,
         saved' \in {saved, calls[c].mine, GoneRow}, crossed' \in BOOLEAN,
         UNCHANGED <<storage, worker>>,
         remote' = remote \/ Pushes(c)
  PROVE  ToolStep(c)
<1>1. /\ calls' \in [Calls -> Call] /\ calls'[c] = Idle
      /\ \A d \in Calls \ {c} : calls'[d] = calls[d]
  BY RowTypes DEF Return, TypeOK
<1>2. row' \in Row /\ saved' \in Row
  BY MineType, RowTypes DEF TypeOK
<1>3. /\ row'.repo \in From(c) /\ saved'.repo \in From(c) /\ calls'[c].mine.repo \in From(c)
      /\ calls'[c].at = "idle"
  BY <1>1, RowTypes DEF From
<1> QED BY <1>1, <1>2, <1>3, QuietStep DEF Locked

(* A call that reads the row a second time moves only itself.              *)
LEMMA ReadAgainStep ==
  ASSUME TypeOK, NEW c \in Calls, ReadAgain(c)
  PROVE  ToolStep(c)
<1>1. calls[c] \in Call /\ calls[c].mine \in Row /\ row \in Row /\ calls \in [Calls -> Call]
      /\ row.failed \in SUBSET Records /\ row.repo \in RepoState
  BY MineType DEF TypeOK, Row
<1> DEFINE mine == IF At(c, "record:read") THEN [calls[c].mine EXCEPT !.repo = row.repo]
                   ELSE [calls[c].mine EXCEPT !.failed = row.failed]
<1>2. mine \in Row /\ mine.repo \in {row.repo, calls[c].mine.repo}
  BY <1>1 DEF Row
<1>3. /\ Reread(c) \in Writing /\ Reread(c) \in Steps
      /\ Reread(c) \in Locked => calls[c].at \in Locked
  BY DEF ReadAgain, Reading, Reread, At, Writing, Steps, Locked
<1>4. calls' = [calls EXCEPT ![c].at = Reread(c), ![c].mine = mine]
  BY <1>1 DEF ReadAgain, Call
<1> HIDE DEF mine
<1>5. /\ calls' \in [Calls -> Call] /\ \A d \in Calls \ {c} : calls'[d] = calls[d]
      /\ calls'[c].at = Reread(c) /\ calls'[c].mine = mine
  BY <1>1, <1>2, <1>3, <1>4 DEF Call
<1>6. UNCHANGED <<storage, row, saved, crossed, worker, remote>>
  BY DEF ReadAgain, file
<1> QED BY <1>2, <1>3, <1>5, <1>6, QuietStep DEF From, Writing, TypeOK

LEMMA SnapshotStep ==
  ASSUME TypeOK, NEW c \in Calls, Snapshot(c)
  PROVE  ToolStep(c) /\ calls'[c].at \in Writing /\ calls'[c].mine = row
<1>1. calls[c] \in Call /\ row \in Row /\ calls \in [Calls -> Call]
  BY MineType DEF TypeOK
<1>2. /\ Reread(c) \in Writing /\ Reread(c) \in Steps
      /\ Reread(c) \in Locked => calls[c].at \in Locked
  BY DEF Snapshot, Reading, Reread, At, Writing, Steps, Locked
<1>3. calls' = [calls EXCEPT ![c].at = Reread(c), ![c].mine = row]
  BY DEF Snapshot
<1>4. /\ calls' \in [Calls -> Call] /\ \A d \in Calls \ {c} : calls'[d] = calls[d]
      /\ calls'[c].at = Reread(c) /\ calls'[c].mine = row
  BY <1>1, <1>2, <1>3 DEF Call
<1>5. UNCHANGED <<storage, row, saved, worker, remote>> /\ crossed' \in BOOLEAN
  BY DEF Snapshot, TypeOK, Overlaps
<1> QED BY <1>2, <1>4, <1>5, QuietStep DEF From, Writing, TypeOK

LEMMA SaveStep ==
  ASSUME TypeOK, NEW c \in Calls, Write(c) \/ Rename(c)
  PROVE  ToolStep(c)
<1>1. crossed' \in BOOLEAN /\ saved' \in {saved, calls[c].mine, GoneRow}
  BY DEF Write, Rename, file, TypeOK
<1>2. /\ Return(c) /\ (row' = row \/ row' = calls[c].mine)
      /\ UNCHANGED <<storage, worker>> /\ remote' = remote
  BY DEF Write, Rename
<1> QED BY <1>1, <1>2, ReturnStep

LEMMA GiveUpStep ==
  ASSUME TypeOK, NEW c \in Calls, GiveUp(c)
  PROVE  ToolStep(c)
<1>1. crossed' \in BOOLEAN /\ saved' \in {saved, calls[c].mine, GoneRow}
  BY DEF GiveUp, TypeOK, Saving
<1>2. Return(c) /\ row' = row /\ UNCHANGED <<storage, worker>> /\ remote' = remote
  BY DEF GiveUp
<1> QED BY <1>1, <1>2, ReturnStep

LEMMA StartStep ==
  ASSUME TypeOK, NEW c \in Calls, NEW step \in {"file", "branch", "commit"},
         NEW b \in Names, Start(c, step, b)
  PROVE  ToolStep(c)
<1>1. step \in Steps /\ step \notin {"publish:push", "publish:head"}
  BY DEF Steps, Locked
<1> QED BY <1>1, BeginStep DEF Start

LEMMA BindStep ==
  ASSUME TypeOK, NEW c \in Calls, Bind(c) \/ Bound(c)
  PROVE  ToolStep(c)
<1>1. CASE Bind(c)
  <2>1. "bind" \in Steps /\ Base \in Names
    BY DEF Steps, Locked, Names
  <2> QED BY <1>1, <2>1, BeginStep DEF Bind
<1>2. CASE Bound(c)
  <2> DEFINE repo == [Unbound EXCEPT !.cloneState = "bound"]
  <2>1. repo \in RepoState /\ repo.publication = "none"
    BY DEF RepoState, Unbound, Names
  <2>2. Sound(c, repo)
    BY <2>1 DEF Sound
  <2>3. "tool:read" \in Reading /\ calls[c].at \in Locked
    BY <1>2 DEF Bound, At, Reading, Locked
  <2> HIDE DEF repo
  <2>4. Store(c, "tool:read", repo) /\ UNCHANGED <<storage, file, worker, remote>>
    BY <1>2 DEF Bound, repo
  <2> QED BY <2>1, <2>2, <2>3, <2>4, StoreStep DEF worker, TypeOK
<1> QED BY <1>1, <1>2

(* What a handler writes to its repository state without publishing.       *)
LEMMA MineIsSound ==
  ASSUME TypeOK, NEW c \in Calls, NEW repo \in RepoState,
         repo.publication = "published" =>
           /\ Mine(c).publication = "published"
           /\ repo.published = Mine(c).published /\ repo.pushed = Mine(c).pushed
  PROVE  Sound(c, repo)
BY DEF Sound, From, Mine

LEMMA CloneStep ==
  ASSUME TypeOK, NEW c \in Calls, CloneStart(c) \/ CloneGit(c)
  PROVE  ToolStep(c)
<1>0. NoClone \in Clone /\ [NoClone EXCEPT !.there = TRUE] \in Clone
  <2> DEFINE tip == [b \in Names |-> IF b = Base THEN <<>> ELSE NoSha]
  <2>1. tip \in [Names -> Sha \cup {NoSha}] /\ tip[Base] # NoSha /\ Base \in Names
    BY DEF NoSha, Sha, Names
  <2>2. NoClone = [there |-> FALSE, on |-> Base, tip |-> tip]
    BY DEF NoClone
  <2> HIDE DEF tip
  <2>3. NoClone \in [there : BOOLEAN, on : Names, tip : [Names -> Sha \cup {NoSha}]]
        /\ NoClone.on = Base /\ NoClone.tip = tip
    BY <2>1, <2>2
  <2> DEFINE there == [NoClone EXCEPT !.there = TRUE]
  <2>4. /\ there \in [there : BOOLEAN, on : Names, tip : [Names -> Sha \cup {NoSha}]]
        /\ there.on = Base /\ there.tip = tip
    BY <2>3
  <2> QED BY <2>1, <2>3, <2>4 DEF Clone
<1>1. CASE CloneStart(c)
  <2>1. "clone" \in Steps /\ "clone" \notin {"publish:push", "publish:head"} /\ Base \in Names
    BY DEF Steps, Locked, Names
  <2>2. /\ calls' \in [Calls -> Call] /\ \A d \in Calls \ {c} : calls'[d] = calls[d]
        /\ calls'[c].at = "clone" /\ calls'[c].mine.repo \in {row.repo, Unbound}
    BY <1>1, <2>1, BeginEffect DEF CloneStart
  <2>3. TypeOK' /\ UNCHANGED <<storage, shells, row, saved, remote>> /\ LockFree(c)
    BY <1>0, <1>1, <2>2 DEF CloneStart, TypeOK, file
  <2>4. RepoFlow(c)
    <3>1. Sound(c, Unbound) /\ Unbound \in RepoState
      BY RowTypes DEF Sound, Unbound
    <3> QED BY <2>2, <2>3, <3>1 DEF RepoFlow, From
  <2>5. CloneFlow(c) /\ CallFlow(c)
    BY <2>2, <2>3 DEF CloneFlow, CallFlow
  <2> QED BY <2>3, <2>4, <2>5 DEF ToolStep
<1>2. CASE CloneGit(c)
  <2> DEFINE repo == [Mine(c) EXCEPT !.cloneState = "cloned"]
  <2>1. /\ repo \in RepoState /\ repo.publication = Mine(c).publication
        /\ repo.published = Mine(c).published /\ repo.pushed = Mine(c).pushed
    BY MineType DEF RepoState
  <2> HIDE DEF repo
  <2>2. Sound(c, repo)
    BY <2>1, MineIsSound
  <2>3. "tool:read" \in Reading /\ calls[c].at \in Locked
    BY <1>2 DEF CloneGit, At, Reading, Locked
  <2>4. clone' \in Clone /\ commits' = commits
    BY <1>0, <1>2 DEF CloneGit
  <2>5. Store(c, "tool:read", repo) /\ UNCHANGED <<storage, file, remote, shells>>
    BY <1>2 DEF CloneGit, repo
  <2> QED BY <2>1, <2>2, <2>3, <2>4, <2>5, StoreStep DEF TypeOK
<1> QED BY <1>1, <1>2

LEMMA FileStep ==
  ASSUME TypeOK, NEW c \in Calls, FileWritten(c)
  PROVE  ToolStep(c)
<1>1. Sound(c, Mine(c)) /\ Mine(c) \in RepoState
  BY MineType, MineIsSound
<1>2. "tool:read" \in Reading /\ calls[c].at \in Locked
  BY DEF FileWritten, At, Reading, Locked
<1>3. UNCHANGED <<storage, file, worker, remote>> /\ saved' = saved /\ crossed' = crossed
  BY DEF FileWritten, file
<1>4. CASE Store(c, "tool:read", Mine(c))
  BY <1>1, <1>2, <1>3, <1>4, StoreStep DEF worker, TypeOK
<1>5. CASE Return(c) /\ UNCHANGED row
  BY <1>3, <1>5, ReturnStep DEF TypeOK
<1> QED BY <1>4, <1>5 DEF FileWritten

LEMMA BranchStep ==
  ASSUME TypeOK, NEW c \in Calls, BranchCheckout(c) \/ BranchCreated(c)
  PROVE  ToolStep(c)
<1>0. calls[c] \in Call /\ calls[c].branch \in Names
  BY MineType DEF Call
<1>1. CASE BranchCheckout(c)
  <2>1. clone' = PutTip(clone, calls[c].branch, HeadSha)
    BY <1>1 DEF BranchCheckout, PutTip
  <2>2. clone' \in Clone
    BY <1>0, <2>1, ClonePut, CloneType
  <2>3. /\ calls' \in [Calls -> Call] /\ \A d \in Calls \ {c} : calls'[d] = calls[d]
        /\ calls'[c].at = "branch:head" /\ calls'[c].mine = calls[c].mine
    <3>1. /\ [calls[c] EXCEPT !.at = "branch:head"] \in Call
          /\ [calls[c] EXCEPT !.at = "branch:head"].at = "branch:head"
          /\ [calls[c] EXCEPT !.at = "branch:head"].mine = calls[c].mine
      BY <1>0, PutAt DEF Steps, Locked
    <3> QED BY <1>1, <3>1 DEF BranchCheckout, Goto, TypeOK
  <2>4. TypeOK' /\ UNCHANGED <<storage, shells, row, saved, remote>> /\ calls[c].at \in Locked
    BY <1>1, <2>2, <2>3 DEF BranchCheckout, TypeOK, file, At, Locked
  <2>5. RepoFlow(c)
    <3>1. Sound(c, Unbound) /\ Unbound \in RepoState
      BY RowTypes DEF Sound, Unbound
    <3> QED BY <2>3, <2>4, <3>1 DEF RepoFlow, From
  <2>6. CloneFlow(c) /\ CallFlow(c)
    BY <2>3, <2>4 DEF CloneFlow, CallFlow
  <2> QED BY <2>4, <2>5, <2>6 DEF ToolStep
<1>2. CASE BranchCreated(c)
  <2> DEFINE repo == [Mine(c) EXCEPT !.branch = calls[c].branch]
  <2>1. /\ repo \in RepoState /\ repo.publication = Mine(c).publication
        /\ repo.published = Mine(c).published /\ repo.pushed = Mine(c).pushed
    BY <1>0, MineType DEF RepoState
  <2> HIDE DEF repo
  <2>2. Sound(c, repo)
    BY <2>1, MineIsSound
  <2>3. "tool:read" \in Reading /\ calls[c].at \in Locked
    BY <1>2 DEF BranchCreated, At, Reading, Locked
  <2>4. Store(c, "tool:read", repo) /\ UNCHANGED <<storage, file, worker, remote>>
    BY <1>2 DEF BranchCreated, repo
  <2> QED BY <2>1, <2>2, <2>3, <2>4, StoreStep DEF worker, TypeOK
<1> QED BY <1>1, <1>2

LEMMA CommitStep ==
  ASSUME TypeOK, NEW c \in Calls, Committed(c)
  PROVE  ToolStep(c)
<1>1. Sound(c, Mine(c)) /\ Mine(c) \in RepoState
  BY MineType, MineIsSound
<1>2. "tool:read" \in Reading /\ calls[c].at \in Locked
  BY DEF Committed, At, Reading, Locked
<1>3. clone' \in Clone /\ commits' \in 0..MaxCommits
  BY NewCommitEffect DEF Committed
<1> QED BY <1>1, <1>2, <1>3, StoreStep DEF Committed

LEMMA RecordStep ==
  ASSUME TypeOK, NEW c \in Calls, NEW v \in Records, ValidationRecord(c, v)
  PROVE  ToolStep(c) /\ calls'[c].at = "record:read"
<1>0. "record:read" \in Steps /\ "record:read" \notin Locked /\ calls[c] \in Call
      /\ row \in Row /\ calls \in [Calls -> Call]
  BY MineType DEF Steps, Reading, Locked, TypeOK
<1>1. UNCHANGED <<storage, worker, remote>> /\ saved' = saved /\ crossed' = crossed
  BY DEF ValidationRecord, file
<1>2. CASE storage = "files"
  <2>1. row' = [row EXCEPT !.failed = @ \cup {v}] /\ Goto(c, "record:read")
    BY <1>2 DEF ValidationRecord
  <2>2. row' \in Row /\ row'.repo = row.repo
    BY <1>0, <2>1 DEF Row
  <2>3. /\ calls' \in [Calls -> Call] /\ \A d \in Calls \ {c} : calls'[d] = calls[d]
        /\ calls'[c].at = "record:read" /\ calls'[c].mine = calls[c].mine
    BY <1>0, <2>1, PutAt DEF Goto
  <2> QED BY <1>0, <1>1, <2>2, <2>3, QuietStep DEF From, TypeOK
<1>3. CASE storage # "files"
  <2> DEFINE begun == [Idle EXCEPT !.at = "record:read"]
             new == [begun EXCEPT !.mine.failed = row.failed \cup {v}]
  <2>1. begun \in Call /\ begun.at = "record:read" /\ begun.mine = FreshRow
    BY <1>0, RowTypes, PutAt
  <2>2. calls' = [calls EXCEPT ![c] = new] /\ row' = row
    BY <1>3, Zenon DEF ValidationRecord
  <2> HIDE DEF begun
  <2>3. new \in Call /\ new.at = "record:read" /\ new.mine.repo = Unbound
    BY <1>0, <2>1, RowTypes DEF Call, Row
  <2> HIDE DEF new
  <2>4. /\ calls' \in [Calls -> Call] /\ \A d \in Calls \ {c} : calls'[d] = calls[d]
        /\ calls'[c].at = "record:read" /\ calls'[c].mine.repo = Unbound
    BY <1>0, <2>2, <2>3
  <2> QED BY <1>0, <1>1, <2>2, <2>4, QuietStep DEF From, TypeOK
<1> QED BY <1>2, <1>3

LEMMA PreflightStep ==
  ASSUME TypeOK, NEW c \in Calls, Preflight(c) \/ PreflightPass(c)
  PROVE  ToolStep(c)
<1>1. CASE Preflight(c)
  <2>1. "preflight" \in Steps /\ "preflight" \notin Locked /\ Base \in Names
    BY DEF Steps, Locked, Names
  <2> QED BY <1>1, <2>1, BeginStep DEF Preflight
<1>2. CASE PreflightPass(c)
  <2> DEFINE repo == [Mine(c) EXCEPT !.publication = "preflight_passed"]
  <2>1. repo \in RepoState /\ repo.publication = "preflight_passed"
    BY MineType DEF RepoState
  <2>2. Sound(c, repo)
    BY <2>1 DEF Sound
  <2>3. "preflight:read" \in Reading \ Locked
    BY DEF Reading, Locked
  <2> HIDE DEF repo
  <2>4. Store(c, "preflight:read", repo) /\ UNCHANGED <<storage, file, worker, remote>>
    BY <1>2 DEF PreflightPass, repo
  <2> QED BY <2>1, <2>2, <2>3, <2>4, StoreStep DEF TypeOK, worker
<1> QED BY <1>1, <1>2

LEMMA PublishStart ==
  ASSUME TypeOK, NEW c \in Calls, PublishBranch(c)
  PROVE  ToolStep(c)
<1> DEFINE new == [at |-> "publish:push", mine |-> [repo |-> Copy, failed |-> {}],
                   branch |-> row.repo.branch, seen |-> HeadSha,
                   straight |-> (clone.on = row.repo.branch)]
<1>0. Copy \in RepoState /\ Copy \in {row.repo, Unbound} /\ row.repo.branch \in Names
  BY MineType DEF Copy, RepoState
<1>1. new \in Call /\ new.at = "publish:push" /\ new.branch = row.repo.branch
      /\ new.seen = HeadSha /\ new.straight = (clone.on = row.repo.branch)
      /\ new.mine.repo = Copy
  BY <1>0, CloneType DEF Call, Row, Steps, Locked
<1>2. /\ calls' = [calls EXCEPT ![c] = new] /\ LockFree(c) /\ row.repo.branch # Base
      /\ UNCHANGED <<storage, row, saved, crossed, worker, remote>>
  BY DEF PublishBranch, file
<1> HIDE DEF new
<1>3. /\ calls' \in [Calls -> Call] /\ calls'[c] = new
      /\ \A d \in Calls \ {c} : calls'[d] = calls[d]
  BY <1>1, <1>2 DEF TypeOK
<1>4. TypeOK'
  BY <1>2, <1>3 DEF TypeOK, worker
<1>5. RepoFlow(c)
  <2>1. Sound(c, Unbound) /\ Unbound \in RepoState
    BY RowTypes DEF Sound, Unbound
  <2> QED BY <1>0, <1>1, <1>2, <1>3, <2>1 DEF RepoFlow, From
<1>6. /\ calls'[c].branch \in Branches
      /\ calls'[c].straight => calls'[c].seen = clone.tip[calls'[c].branch]
  BY <1>0, <1>1, <1>2, <1>3 DEF Names, HeadSha
<1>7. CloneFlow(c) /\ CallFlow(c)
  <2>1. /\ calls'[c].at = "publish:push" /\ LockFree(c) /\ clone' = clone /\ remote' = remote
        /\ \A d \in Calls \ {c} : calls'[d] = calls[d]
    BY <1>1, <1>2, <1>3 DEF worker
  <2> QED BY <1>6, <2>1 DEF CloneFlow, CallFlow
<1> QED BY <1>2, <1>4, <1>5, <1>7 DEF ToolStep, worker

LEMMA PushStep ==
  ASSUME TypeOK, NEW c \in Calls, PublishPush(c)
  PROVE  ToolStep(c)
<1>0. /\ UNCHANGED <<storage, worker>> /\ row' = row /\ saved' = saved /\ crossed' = crossed
      /\ Pushes(c)
  BY DEF PublishPush, Pushes, worker, file
<1>1. CASE Return(c)
  BY <1>0, <1>1, ReturnStep DEF TypeOK
<1>2. CASE calls' = [calls EXCEPT ![c] =
               [@ EXCEPT !.at = "publish:head", !.seen = <<>>, !.straight = FALSE]]
  <2> DEFINE k1 == [calls[c] EXCEPT !.at = "publish:head"]
             k2 == [k1 EXCEPT !.seen = <<>>]
             k3 == [k2 EXCEPT !.straight = FALSE]
  <2>1. k1 \in Call /\ k1.at = "publish:head" /\ k1.mine = calls[c].mine
        /\ k1.branch = calls[c].branch
    BY MineType DEF Call, Steps, Locked
  <2>2. calls' = [calls EXCEPT ![c] = k3]
    BY <1>2, Zenon
  <2> HIDE DEF k1
  <2>3. k2 \in Call /\ k2.at = "publish:head" /\ k2.mine = calls[c].mine
        /\ k2.branch = calls[c].branch
    <3>1. <<>> \in Sha
      BY DEF Sha
    <3> QED BY <2>1, <3>1 DEF Call
  <2> HIDE DEF k2
  <2>4. k3 \in Call /\ k3.at = "publish:head" /\ k3.mine = calls[c].mine
        /\ k3.branch = calls[c].branch
    BY <2>3 DEF Call
  <2> HIDE DEF k3
  <2>5. /\ calls' \in [Calls -> Call] /\ \A d \in Calls \ {c} : calls'[d] = calls[d]
        /\ calls'[c] = k3
    BY <2>2, <2>4 DEF TypeOK
  <2>6. TypeOK'
    <3>1. calls[c].branch \in Names
      BY MineType DEF Call
    <3>2. clone.tip[calls[c].branch] \in Sha \cup {NoSha}
      BY <3>1, CloneType
    <3>3. remote' \in [Branches -> Sha \cup {NoSha}]
      BY <1>0, <3>2 DEF Pushes, TypeOK
    <3> QED BY <1>0, <2>5, <3>3 DEF TypeOK, worker
  <2>7. RepoFlow(c)
    <3>1. Sound(c, Unbound) /\ Unbound \in RepoState
      BY RowTypes DEF Sound, Unbound
    <3>2. calls'[c].mine = calls[c].mine /\ row' = row /\ saved' = saved
      BY <1>0, <2>4, <2>5
    <3> QED BY <3>1, <3>2 DEF RepoFlow, From
  <2>8. CloneFlow(c) /\ CallFlow(c)
    <3>1. /\ calls'[c].at = "publish:head" /\ calls'[c].branch = calls[c].branch
          /\ \A d \in Calls \ {c} : calls'[d] = calls[d]
      BY <2>4, <2>5
    <3>2. calls[c].at \in Locked /\ clone' = clone
      BY <1>0 DEF Pushes, At, Locked
    <3> QED BY <1>0, <3>1, <3>2 DEF CloneFlow, CallFlow
  <2> QED BY <1>0, <2>6, <2>7, <2>8 DEF ToolStep, worker
<1> QED BY <1>1, <1>2 DEF PublishPush

LEMMA HeadStep ==
  ASSUME TypeOK, NEW c \in Calls, PublishHead(c)
  PROVE  ToolStep(c) /\ Published(c) \in RepoState /\ Published(c).published = HeadSha
         /\ Published(c).cloneState = Mine(c).cloneState
         /\ Published(c).branch = Mine(c).branch
<1> DEFINE to == IF clone.on = calls[c].branch THEN clone.on ELSE Base
           k1 == [Mine(c) EXCEPT !.publication = "published"]
           k2 == [k1 EXCEPT !.published = HeadSha]
           k3 == [k2 EXCEPT !.pushed = to]
<1>1. to \in Names /\ HeadSha \in Sha /\ Mine(c) \in RepoState
  BY CloneType, MineType DEF Names
<1>2. to # Base => clone.on = calls[c].branch /\ to = calls[c].branch
  OBVIOUS
<1>3. k3 = Published(c)
  BY Zenon DEF Published
<1> HIDE DEF to
<1>4. k1 \in RepoState /\ k1.cloneState = Mine(c).cloneState /\ k1.branch = Mine(c).branch
  BY <1>1 DEF RepoState
<1> HIDE DEF k1
<1>5. k2 \in RepoState /\ k2.cloneState = Mine(c).cloneState /\ k2.branch = Mine(c).branch
      /\ k2.published = HeadSha
  BY <1>1, <1>4 DEF RepoState
<1> HIDE DEF k2
<1>6. k3 \in RepoState /\ k3.cloneState = Mine(c).cloneState /\ k3.branch = Mine(c).branch
      /\ k3.published = HeadSha /\ k3.pushed = to
  BY <1>1, <1>5 DEF RepoState
<1> HIDE DEF k3
<1>7. Sound(c, Published(c))
  BY <1>2, <1>3, <1>6 DEF Sound, PublishHead
<1>8. "tool:read" \in Reading /\ calls[c].at \in Locked
  BY DEF PublishHead, At, Reading, Locked
<1>9. ToolStep(c)
  BY <1>3, <1>6, <1>7, <1>8, StoreStep DEF PublishHead, TypeOK, worker
<1> QED BY <1>3, <1>6, <1>9

Tool(c) ==
  \/ ReadAgain(c) \/ Write(c) \/ Snapshot(c) \/ Rename(c)
  \/ Bind(c) \/ Bound(c) \/ CloneStart(c)
  \/ CloneGit(c) \/ WriteFile(c) \/ ApplyPatch(c) \/ FileWritten(c)
  \/ BranchCheckout(c) \/ BranchCreated(c) \/ GitCommit(c) \/ Committed(c)
  \/ Preflight(c) \/ PreflightPass(c)
  \/ PublishBranch(c) \/ PublishPush(c) \/ PublishHead(c)
  \/ GiveUp(c)
  \/ \E b \in Branches : CreateBranch(c, b)
  \/ \E v \in Records : ValidationRecord(c, v)

Shell ==
  \/ ShellCommit
  \/ \E b \in Names : ShellCheckout(b) \/ \E n \in 0..MaxCommits : ShellReset(b, n)

LEMMA ToolSteps ==
  ASSUME TypeOK, NEW c \in Calls, Tool(c)
  PROVE  ToolStep(c)
<1>1. CASE WriteFile(c) \/ ApplyPatch(c) \/ GitCommit(c) \/ \E b \in Branches : CreateBranch(c, b)
  BY <1>1, StartStep DEF WriteFile, ApplyPatch, CreateBranch, GitCommit, Names
<1> QED BY <1>1, ReadAgainStep, SnapshotStep, SaveStep, GiveUpStep, BindStep, CloneStep,
           FileStep, BranchStep, CommitStep, RecordStep, PreflightStep, PublishStart,
           PushStep, HeadStep DEF Tool

LEMMA NextIs == Next => (\E c \in Calls : Tool(c)) \/ Shell \/ Restart
BY DEF Next, Tool, Shell

-----------------------------------------------------------------------------
(* A shell's step: what is at a new place in a branch is of shells.        *)
LEMMA ShellTips ==
  ASSUME TypeOK, NEW b \in Names, NEW new \in Sha, ShellTip(b, new)
  PROVE  /\ UNCHANGED <<storage, row, saved, crossed, remote, calls>>
         /\ shells \subseteq shells' /\ TypeOK'
         /\ \A n \in Names : \A i \in DOMAIN clone'.tip[n] :
              \/ clone'.tip[n][i] \in shells'
              \/ i \in DOMAIN clone.tip[n] /\ clone.tip[n][i] = clone'.tip[n][i]
<1>1. /\ UNCHANGED <<storage, row, saved, crossed, remote, calls, commits>>
      /\ clone' = PutTip(clone, b, new)
      /\ shells' = shells \cup Placed(clone.tip[b], new)
  BY DEF ShellTip, file, PutTip
<1>2. clone' \in Clone /\ clone'.tip = [clone.tip EXCEPT ![b] = new]
  BY <1>1, ClonePut
<1>3. Placed(clone.tip[b], new) \subseteq 1..MaxCommits
  BY ShaIsSeq DEF Placed
<1>4. TypeOK'
  BY <1>1, <1>2, <1>3 DEF TypeOK
<1>5. ASSUME NEW n \in Names, NEW i \in DOMAIN clone'.tip[n]
      PROVE  \/ clone'.tip[n][i] \in shells'
             \/ i \in DOMAIN clone.tip[n] /\ clone.tip[n][i] = clone'.tip[n][i]
  <2>1. CASE n # b
    BY <1>2, <1>5, <2>1, CloneType
  <2>2. CASE n = b
    <3>1. clone'.tip[n] = new /\ i \in DOMAIN new
      BY <1>2, <1>5, <2>2, CloneType
    <3>2. ASSUME ~(i \in DOMAIN clone.tip[n] /\ clone.tip[n][i] = new[i])
          PROVE  new[i] \in Placed(clone.tip[b], new)
      BY <2>2, <3>1, <3>2 DEF Placed
    <3> QED BY <1>1, <3>1, <3>2
  <2> QED BY <2>1, <2>2
<1> QED BY <1>1, <1>4, <1>5

LEMMA ShellSteps ==
  ASSUME TypeOK, Shell
  PROVE  /\ UNCHANGED <<storage, row, saved, crossed, remote, calls>>
         /\ shells \subseteq shells' /\ TypeOK'
         /\ \A n \in Names : \A i \in DOMAIN clone'.tip[n] :
              \/ clone'.tip[n][i] \in shells'
              \/ i \in DOMAIN clone.tip[n] /\ clone.tip[n][i] = clone'.tip[n][i]
<1>1. CASE ShellCommit
  <2>1. /\ UNCHANGED <<storage, row, saved, crossed, remote, calls>>
        /\ shells' = shells \cup {commits'}
    BY <1>1 DEF ShellCommit, file
  <2>2. /\ clone' \in Clone /\ commits' \in 1..MaxCommits /\ commits' \in 0..MaxCommits
        /\ clone'.tip = [clone.tip EXCEPT ![clone.on] = Append(HeadSha, commits')]
    BY <1>1, NewCommitEffect DEF ShellCommit
  <2>3. TypeOK'
    BY <2>1, <2>2 DEF TypeOK
  <2>4. ASSUME NEW n \in Names, NEW i \in DOMAIN clone'.tip[n]
        PROVE  \/ clone'.tip[n][i] \in shells'
               \/ i \in DOMAIN clone.tip[n] /\ clone.tip[n][i] = clone'.tip[n][i]
    <3>1. CASE n # clone.on
      BY <2>2, <2>4, <3>1, CloneType
    <3>2. CASE n = clone.on
      <4>1. clone'.tip[n] = Append(HeadSha, commits') /\ clone.tip[n] = HeadSha
        BY <2>2, <3>2, CloneType DEF HeadSha
      <4>2. HeadSha \in Seq(Nat) /\ commits' \in Nat
        BY <2>2, CloneType, ShaIsSeq, BoundAssumption
      <4>3. \A s \in Seq(Nat), x \in Nat : \A j \in DOMAIN Append(s, x) :
              Append(s, x)[j] = x \/ (j \in DOMAIN s /\ s[j] = Append(s, x)[j])
        OBVIOUS
      <4> QED BY <2>1, <2>4, <4>1, <4>2, <4>3
    <3> QED BY <3>1, <3>2
  <2> QED BY <2>1, <2>3, <2>4
<1>2. ASSUME NEW b \in Names, ShellCheckout(b)
      PROVE  \E new \in Sha : ShellTip(b, new)
  <2>1. (IF clone.tip[b] = NoSha THEN HeadSha ELSE clone.tip[b]) \in Sha
    BY CloneType
  <2> QED BY <1>2, <2>1 DEF ShellCheckout
<1>3. ASSUME NEW b \in Names, NEW n \in 0..MaxCommits, ShellReset(b, n)
      PROVE  \E new \in Sha : ShellTip(clone.on, new)
  <2>1. clone.tip[b] \in Sha /\ n \in 0..Len(clone.tip[b])
    BY <1>3, CloneType DEF ShellReset
  <2>2. \A S : \A s \in Seq(S) : \A m \in 0..Len(s) : SubSeq(s, 1, m) \in Seq(S)
    OBVIOUS
  <2>3. SubSeq(clone.tip[b], 1, n) \in Sha
    BY <2>1, <2>2, Zenon DEF Sha
  <2> QED BY <1>3, <2>3 DEF ShellReset
<1>4. ASSUME NEW b \in Names, NEW new \in Sha, ShellTip(b, new)
      PROVE  /\ UNCHANGED <<storage, row, saved, crossed, remote, calls>>
             /\ shells \subseteq shells' /\ TypeOK'
             /\ \A n \in Names : \A i \in DOMAIN clone'.tip[n] :
                  \/ clone'.tip[n][i] \in shells'
                  \/ i \in DOMAIN clone.tip[n] /\ clone.tip[n][i] = clone'.tip[n][i]
  BY <1>4, ShellTips
<1>5. ShellCommit \/ \E b \in Names : \E new \in Sha : ShellTip(b, new)
  <2>1. clone.on \in Names
    BY CloneType
  <2> QED BY <1>2, <1>3, <2>1 DEF Shell
<1> QED BY <1>1, <1>4, <1>5

-----------------------------------------------------------------------------
(* The inductive invariant.  Two calls are never both under the lock; what *)
(* was confirmed of a branch is what the branch holds, but for what shells *)
(* have put there; what any row, copy or file says is published is at      *)
(* GitHub, on the branch that was pushed, or of shells.                    *)
OneLocked ==
  \A c, d \in Calls : calls[c].at \in Locked /\ calls[d].at \in Locked => c = d

Vouched(head, b) ==
  \A i \in DOMAIN head :
    head[i] \in shells \/ (i \in DOMAIN remote[b] /\ remote[b][i] = head[i])

Confirmed(c) ==
  calls[c].at = "publish:push" =>
    /\ calls[c].branch \in Branches
    /\ calls[c].straight =>
         \A i \in DOMAIN clone.tip[calls[c].branch] :
           \/ clone.tip[calls[c].branch][i] \in shells
           \/ /\ i \in DOMAIN calls[c].seen
              /\ calls[c].seen[i] = clone.tip[calls[c].branch][i]

Pushed(c) ==
  calls[c].at = "publish:head" =>
    /\ calls[c].branch \in Branches
    /\ Vouched(clone.tip[calls[c].branch], calls[c].branch)

Honest(repo) ==
  repo.publication = "published" /\ repo.pushed # Base =>
    /\ repo.published \in Sha /\ repo.pushed \in Branches
    /\ Vouched(repo.published, repo.pushed)

PublishInv ==
  /\ TypeOK /\ OneLocked
  /\ \A c \in Calls : Confirmed(c) /\ Pushed(c) /\ Honest(calls[c].mine.repo)
  /\ Honest(row.repo) /\ Honest(saved.repo)

LEMMA PrefixIs ==
  ASSUME NEW s \in Seq(Nat), NEW t \in Seq(Nat), IsPrefix(s, t)
  PROVE  Len(s) <= Len(t) /\ \A i \in 1..Len(s) : s[i] = t[i]
<1>1. Len(s) <= Len(t) /\ s = SubSeq(t, 1, Len(s))
  <2>1. SubSeq(s, 1, Len(s)) = s
    OBVIOUS
  <2> QED BY <2>1 DEF IsPrefix
<1> DEFINE u == SubSeq(t, 1, Len(s))
<1>2. \A i \in 1..Len(s) : u[i] = t[i]
  BY <1>1
<1> HIDE DEF u
<1>3. s = u
  BY <1>1 DEF u
<1> QED BY <1>1, <1>2, <1>3

(* What is at GitHub stays there, since only fast-forwards are accepted.   *)
LEMMA VouchedStays ==
  ASSUME TypeOK, NEW head \in Sha, NEW b \in Branches, Vouched(head, b),
         shells \subseteq shells', remote' = remote \/ \E c \in Calls : Pushes(c)
  PROVE  \A i \in DOMAIN head :
           head[i] \in shells' \/ (i \in DOMAIN remote'[b] /\ remote'[b][i] = head[i])
<1>1. CASE remote' = remote
  BY <1>1 DEF Vouched
<1>2. ASSUME NEW c \in Calls, Pushes(c)
      PROVE  \A i \in DOMAIN head :
               head[i] \in shells' \/ (i \in DOMAIN remote'[b] /\ remote'[b][i] = head[i])
  <2>0. remote'[b] = IF b = calls[c].branch THEN clone.tip[b] ELSE remote[b]
    BY <1>2 DEF Pushes, TypeOK
  <2>1. CASE b # calls[c].branch
    BY <2>0, <2>1 DEF Vouched
  <2>2. CASE b = calls[c].branch
    <3>1. /\ clone.tip[b] \in Seq(Nat) /\ remote[b] \in Seq(Nat)
          /\ remote[b] \in Sha \cup {NoSha}
      BY CloneType, ShaIsSeq DEF TypeOK, Names
    <3> SUFFICES ASSUME NEW i \in DOMAIN head, head[i] \notin shells'
                 PROVE  i \in DOMAIN remote'[b] /\ remote'[b][i] = head[i]
      OBVIOUS
    <3>2. i \in DOMAIN remote[b] /\ remote[b][i] = head[i]
      BY DEF Vouched
    <3>3. remote[b] # NoSha
      <4>1. head[i] \in Nat \ {0}
        BY ShaIsSeq
      <4>2. remote[b] = NoSha => i = 1
        BY <3>2 DEF NoSha
      <4> QED BY <3>2, <4>1, <4>2, ShaIsSeq
    <3>4. IsPrefix(remote[b], clone.tip[b])
      BY <1>2, <2>2, <3>3 DEF FastForward, Pushes
    <3>5. i \in 1..Len(remote[b])
      BY <3>1, <3>2
    <3>6. /\ Len(remote[b]) <= Len(clone.tip[b])
          /\ \A j \in 1..Len(remote[b]) : remote[b][j] = clone.tip[b][j]
      BY <3>1, <3>4, PrefixIs
    <3>7. i \in DOMAIN clone.tip[b] /\ clone.tip[b][i] = head[i]
      BY <3>1, <3>2, <3>5, <3>6
    <3> QED BY <2>0, <2>2, <3>7
  <2> QED BY <2>1, <2>2
<1> QED BY <1>1, <1>2

LEMMA HonestStays ==
  ASSUME TypeOK, NEW repo, Honest(repo),
         shells \subseteq shells', remote' = remote \/ \E c \in Calls : Pushes(c)
  PROVE  repo.publication = "published" /\ repo.pushed # Base =>
           /\ repo.published \in Sha /\ repo.pushed \in Branches
           /\ \A i \in DOMAIN repo.published :
                \/ repo.published[i] \in shells'
                \/ /\ i \in DOMAIN remote'[repo.pushed]
                   /\ remote'[repo.pushed][i] = repo.published[i]
<1> SUFFICES ASSUME repo.publication = "published", repo.pushed # Base
             PROVE  /\ repo.published \in Sha /\ repo.pushed \in Branches
                    /\ \A i \in DOMAIN repo.published :
                         \/ repo.published[i] \in shells'
                         \/ /\ i \in DOMAIN remote'[repo.pushed]
                            /\ remote'[repo.pushed][i] = repo.published[i]
  OBVIOUS
<1>1. /\ repo.published \in Sha /\ repo.pushed \in Branches
      /\ Vouched(repo.published, repo.pushed)
  BY DEF Honest
<1> QED BY <1>1, VouchedStays

LEMMA ToolKeeps ==
  ASSUME PublishInv, NEW c \in Calls, ToolStep(c)
  PROVE  PublishInv'
<1>0. /\ TypeOK /\ OneLocked /\ Honest(row.repo) /\ Honest(saved.repo)
      /\ \A d \in Calls : Confirmed(d) /\ Pushed(d) /\ Honest(calls[d].mine.repo)
      /\ TypeOK' /\ shells' = shells /\ RepoFlow(c) /\ CloneFlow(c) /\ CallFlow(c)
  BY DEF PublishInv, ToolStep
<1>1. \A d \in Calls \ {c} : calls'[d] = calls[d]
  BY <1>0 DEF CallFlow
<1>2. OneLocked'
  <2> SUFFICES ASSUME NEW d \in Calls, NEW e \in Calls,
                      calls'[d].at \in Locked, calls'[e].at \in Locked, d # e
               PROVE  FALSE
    BY DEF OneLocked
  <2>1. CASE d = c
    BY <1>0, <1>1, <2>1 DEF CallFlow, OneLocked, LockFree
  <2>2. CASE e = c
    BY <1>0, <1>1, <2>2 DEF CallFlow, OneLocked, LockFree
  <2>3. CASE d # c /\ e # c
    BY <1>0, <1>1, <2>3 DEF OneLocked
  <2> QED BY <2>1, <2>2, <2>3
<1>3. ASSUME NEW d \in Calls \ {c}, calls[d].at \in Locked
      PROVE  clone' = clone /\ remote' = remote
  <2>1. ~LockFree(c) /\ calls[c].at \notin Locked
    BY <1>0, <1>3 DEF OneLocked, LockFree
  <2> QED BY <1>0, <2>1 DEF CloneFlow, Pushes, Locked, At
<1>4. ASSUME NEW d \in Calls
      PROVE  Confirmed(d)' /\ Pushed(d)'
  <2>1. CASE d = c
    <3>1. CASE calls'[c].at = "publish:push"
      <4>1. /\ clone' = clone /\ calls'[c].branch \in Branches
            /\ calls'[c].straight => calls'[c].seen = clone'.tip[calls'[c].branch]
        BY <1>0, <3>1 DEF CallFlow
      <4>2. calls'[c].at # "publish:head"
        BY <3>1
      <4> QED BY <2>1, <4>1, <4>2 DEF Confirmed, Pushed
    <3>2. CASE calls'[c].at = "publish:head"
      <4>1. /\ Pushes(c) /\ calls'[c].branch = calls[c].branch /\ clone' = clone
            /\ calls[c].branch \in Branches
        BY <1>0, <3>2 DEF CallFlow, Pushes, Confirmed, At
      <4>2. remote'[calls'[c].branch] = clone'.tip[calls'[c].branch]
        BY <1>0, <4>1 DEF Pushes, TypeOK
      <4>3. calls'[c].at # "publish:push"
        BY <3>2
      <4> QED BY <2>1, <4>1, <4>2, <4>3 DEF Confirmed, Pushed, Vouched
    <3> QED BY <2>1, <3>1, <3>2 DEF Confirmed, Pushed
  <2>2. CASE d # c
    <3>1. calls'[d] = calls[d]
      BY <1>1, <2>2
    <3>2. CASE calls[d].at \in {"publish:push", "publish:head"}
      <4>1. clone' = clone /\ remote' = remote
        BY <1>3, <2>2, <3>2 DEF Locked
      <4> QED BY <1>0, <3>1, <4>1 DEF Confirmed, Pushed, Vouched
    <3>3. CASE calls[d].at \notin {"publish:push", "publish:head"}
      BY <3>1, <3>3 DEF Confirmed, Pushed
    <3> QED BY <3>2, <3>3
  <2> QED BY <2>1, <2>2
<1>5. PICK new \in RepoState :
        /\ Sound(c, new)
        /\ row'.repo \in From(c) \cup {new} /\ saved'.repo \in From(c) \cup {new}
        /\ calls'[c].mine.repo \in From(c) \cup {new}
  BY <1>0 DEF RepoFlow
<1>6. \A old \in From(c) : Honest(old)
  <2>1. Honest(Unbound) /\ Honest(GoneRow.repo)
    BY RowTypes DEF Honest, Unbound
  <2> QED BY <1>0, <2>1 DEF From
<1>7. Honest(new)
  <2> SUFFICES ASSUME new.publication = "published", new.pushed # Base
               PROVE  /\ new.published \in Sha /\ new.pushed \in Branches
                      /\ Vouched(new.published, new.pushed)
    BY DEF Honest
  <2>1. CASE /\ At(c, "publish:head") /\ clone.on = calls[c].branch
             /\ new.published = HeadSha /\ new.pushed = calls[c].branch
    BY <1>0, <2>1, CloneType DEF Pushed, HeadSha, At
  <2>2. CASE \E old \in From(c) :
               /\ old.publication = "published"
               /\ new.published = old.published /\ new.pushed = old.pushed
    BY <1>6, <2>2 DEF Honest
  <2> QED BY <1>5, <2>1, <2>2 DEF Sound
<1>8. remote' = remote \/ \E d \in Calls : Pushes(d)
  BY <1>0 DEF CloneFlow
<1>9. Honest(row.repo)' /\ Honest(saved.repo)'
  <2>1. Honest(row'.repo) /\ Honest(saved'.repo)
    BY <1>5, <1>6, <1>7
  <2> QED BY <1>0, <1>8, <2>1, HonestStays DEF Honest, Vouched
<1>10. ASSUME NEW d \in Calls
       PROVE  Honest(calls[d].mine.repo)'
  <2>1. Honest(calls'[d].mine.repo)
    BY <1>0, <1>1, <1>5, <1>6, <1>7
  <2> QED BY <1>0, <1>8, <2>1, HonestStays DEF Honest, Vouched
<1> QED BY <1>0, <1>2, <1>4, <1>9, <1>10 DEF PublishInv

LEMMA ShellKeeps ==
  ASSUME PublishInv, Shell
  PROVE  PublishInv'
<1>0. /\ TypeOK /\ OneLocked /\ Honest(row.repo) /\ Honest(saved.repo)
      /\ \A d \in Calls : Confirmed(d) /\ Pushed(d) /\ Honest(calls[d].mine.repo)
  BY DEF PublishInv
<1>1. /\ UNCHANGED <<storage, row, saved, crossed, remote, calls>>
      /\ shells \subseteq shells' /\ TypeOK'
      /\ \A n \in Names : \A i \in DOMAIN clone'.tip[n] :
           \/ clone'.tip[n][i] \in shells'
           \/ i \in DOMAIN clone.tip[n] /\ clone.tip[n][i] = clone'.tip[n][i]
  BY <1>0, ShellSteps
<1>2. OneLocked'
  BY <1>0, <1>1 DEF OneLocked
<1>3. ASSUME NEW d \in Calls
      PROVE  Confirmed(d)' /\ Pushed(d)'
  <2>1. CASE calls[d].at = "publish:push"
    <3>1. /\ calls[d].branch \in Branches /\ calls[d].branch \in Names
          /\ calls[d].straight =>
               \A i \in DOMAIN clone.tip[calls[d].branch] :
                 \/ clone.tip[calls[d].branch][i] \in shells
                 \/ /\ i \in DOMAIN calls[d].seen
                    /\ calls[d].seen[i] = clone.tip[calls[d].branch][i]
      BY <1>0, <2>1 DEF Confirmed, Names
    <3>2. calls[d].straight =>
            \A i \in DOMAIN clone'.tip[calls[d].branch] :
              \/ clone'.tip[calls[d].branch][i] \in shells'
              \/ /\ i \in DOMAIN calls[d].seen
                 /\ calls[d].seen[i] = clone'.tip[calls[d].branch][i]
      BY <1>1, <3>1
    <3>3. calls[d].at # "publish:head"
      BY <2>1
    <3> QED BY <1>1, <3>1, <3>2, <3>3 DEF Confirmed, Pushed
  <2>2. CASE calls[d].at = "publish:head"
    <3>1. /\ calls[d].branch \in Branches /\ calls[d].branch \in Names
          /\ Vouched(clone.tip[calls[d].branch], calls[d].branch)
      BY <1>0, <2>2 DEF Pushed, Names
    <3>2. \A i \in DOMAIN clone'.tip[calls[d].branch] :
            \/ clone'.tip[calls[d].branch][i] \in shells'
            \/ /\ i \in DOMAIN remote[calls[d].branch]
               /\ remote[calls[d].branch][i] = clone'.tip[calls[d].branch][i]
      BY <1>1, <3>1 DEF Vouched
    <3>3. calls[d].at # "publish:push"
      BY <2>2
    <3> QED BY <1>1, <3>1, <3>2, <3>3 DEF Confirmed, Pushed, Vouched
  <2> QED BY <1>1, <2>1, <2>2 DEF Confirmed, Pushed
<1>4. ASSUME NEW d \in Calls
      PROVE  Honest(calls[d].mine.repo)'
  BY <1>0, <1>1, HonestStays DEF Honest, Vouched
<1>5. Honest(row.repo)' /\ Honest(saved.repo)'
  BY <1>0, <1>1, HonestStays DEF Honest, Vouched
<1> QED BY <1>1, <1>2, <1>3, <1>4, <1>5 DEF PublishInv

LEMMA RestartKeeps ==
  ASSUME PublishInv, Restart
  PROVE  PublishInv'
<1>1. /\ TypeOK /\ Honest(row.repo) /\ Honest(saved.repo)
      /\ UNCHANGED <<storage, saved, clone, commits, shells, remote>> /\ crossed' = FALSE
      /\ row' = row \/ row' = saved
      /\ calls' \in [Calls -> Call] /\ \A d \in Calls : calls'[d] = Idle
  BY RowTypes DEF PublishInv, Restart, worker
<1>2. TypeOK'
  BY <1>1 DEF TypeOK
<1>3. Honest(row.repo)' /\ Honest(saved.repo)'
  BY <1>1 DEF Honest, Vouched
<1>4. OneLocked'
  BY <1>1, RowTypes DEF OneLocked, Locked
<1>5. ASSUME NEW d \in Calls
      PROVE  Confirmed(d)' /\ Pushed(d)' /\ Honest(calls[d].mine.repo)'
  <2>1. calls'[d].at = "idle" /\ calls'[d].mine.repo = Unbound
    BY <1>1, RowTypes
  <2> QED BY <2>1 DEF Confirmed, Pushed, Honest, Unbound
<1> QED BY <1>2, <1>3, <1>4, <1>5 DEF PublishInv

LEMMA PublishInvStarts == Init => PublishInv
<1> SUFFICES ASSUME Init PROVE PublishInv
  OBVIOUS
<1>1. /\ storage \in {"files", "postgres"} /\ row = FreshRow /\ saved = FreshRow
      /\ crossed = FALSE /\ clone = NoClone /\ remote = [b \in Branches |-> NoSha]
      /\ calls = [c \in Calls |-> Idle] /\ commits = 0 /\ shells = {}
  BY DEF Init
<1>2. NoClone \in Clone
  <2> DEFINE tip == [b \in Names |-> IF b = Base THEN <<>> ELSE NoSha]
  <2>1. tip \in [Names -> Sha \cup {NoSha}] /\ tip[Base] # NoSha /\ Base \in Names
    BY DEF NoSha, Sha, Names
  <2>2. NoClone = [there |-> FALSE, on |-> Base, tip |-> tip]
    BY DEF NoClone
  <2> HIDE DEF tip
  <2> QED BY <2>1, <2>2 DEF Clone
<1>3. TypeOK
  <2>1. remote \in [Branches -> Sha \cup {NoSha}] /\ calls \in [Calls -> Call]
    BY <1>1, RowTypes
  <2>2. commits \in 0..MaxCommits /\ shells \subseteq 1..MaxCommits
    BY <1>1, BoundAssumption
  <2> QED BY <1>1, <1>2, <2>1, <2>2, RowTypes DEF TypeOK
<1>4. OneLocked
  BY <1>1, RowTypes DEF OneLocked, Locked
<1>5. \A c \in Calls : Confirmed(c) /\ Pushed(c) /\ Honest(calls[c].mine.repo)
  <2>1. \A c \in Calls : calls[c].at = "idle" /\ calls[c].mine.repo = Unbound
    BY <1>1, RowTypes
  <2> QED BY <2>1 DEF Confirmed, Pushed, Honest, Unbound
<1>6. Honest(row.repo) /\ Honest(saved.repo)
  BY <1>1, RowTypes DEF Honest, Unbound
<1> QED BY <1>3, <1>4, <1>5, <1>6 DEF PublishInv

LEMMA PublishInvKept == PublishInv /\ [Next]_vars => PublishInv'
<1> SUFFICES ASSUME PublishInv, [Next]_vars PROVE PublishInv'
  OBVIOUS
<1>1. ASSUME NEW c \in Calls, Tool(c)
      PROVE  PublishInv'
  BY <1>1, ToolSteps, ToolKeeps DEF PublishInv
<1>2. CASE UNCHANGED vars
  BY <1>2 DEF PublishInv, vars, worker, file, TypeOK, OneLocked, Confirmed, Pushed, Honest,
     Vouched
<1> QED BY <1>1, <1>2, NextIs, ShellKeeps, RestartKeeps

LEMMA PublishInvHolds == Spec => []PublishInv
<1> QED BY PublishInvStarts, PublishInvKept, PTL DEF Spec

(* The types of the row, the file, the clone, the branches at GitHub and   *)
(* the calls, in each state of repository-tools.ts that the model reaches. *)
THEOREM TypeCorrect == Spec => []TypeOK
<1>1. PublishInv => TypeOK
  BY DEF PublishInv
<1> QED BY <1>1, PublishInvHolds, PTL

(* Where HEAD was on the branch that github_publish_branch pushed, the     *)
(* head github_prepare_pr_handoff names was pushed: each commit of it is   *)
(* on that branch at GitHub or was put there by a shell, whatever answers  *)
(* were lost, however often the clone was made anew or rewritten, however  *)
(* stale the row's copies are and whatever a restart reads from the file.  *)
THEOREM HandoffIsPushed == Spec => []PublishedWasPushed
<1>1. PublishInv => PublishedWasPushed
  BY DEF PublishInv, PublishedWasPushed, HandsOff, PrHandoff, Honest, Vouched
<1> QED BY <1>1, PublishInvHolds, PTL

(* Where HEAD was on the row's branch when github_publish_branch confirmed *)
(* it, the push publishes what was confirmed, and beyond it only what      *)
(* shells have put on the branch: the repository lock keeps every other    *)
(* tool's checkout, commit, clone and push out between the two.            *)
THEOREM ConfirmedIsPublished == Spec => PublishesWhatWasConfirmed
<1> DEFINE Step ==
      \A c \in Calls :
        At(c, "publish:push") /\ calls[c].straight /\ remote' # remote =>
          LET new == remote'[calls[c].branch] IN
          \A i \in DOMAIN new :
            \/ new[i] \in shells
            \/ i \in DOMAIN calls[c].seen /\ calls[c].seen[i] = new[i]
<1>1. ASSUME PublishInv, [Next]_vars
      PROVE  [Step]_remote
  <2> SUFFICES ASSUME remote' # remote, NEW c \in Calls, At(c, "publish:push"),
                      calls[c].straight, NEW i \in DOMAIN remote'[calls[c].branch]
               PROVE  \/ remote'[calls[c].branch][i] \in shells
                      \/ /\ i \in DOMAIN calls[c].seen
                         /\ calls[c].seen[i] = remote'[calls[c].branch][i]
    BY Zenon
  <2>1. PICK d \in Calls : Tool(d)
    <3>1. Shell => remote' = remote
      BY <1>1, ShellSteps DEF PublishInv
    <3> QED BY <1>1, <3>1, NextIs DEF vars, Restart
  <2>2. Pushes(d)
    BY <1>1, <2>1, ToolSteps DEF PublishInv, ToolStep, CloneFlow
  <2>3. d = c
    BY <1>1, <2>2 DEF PublishInv, OneLocked, Pushes, At, Locked
  <2>4. Confirmed(c) /\ calls[c].branch \in Branches /\ TypeOK
    BY <1>1 DEF PublishInv, Confirmed, At
  <2>5. remote'[calls[c].branch] = clone.tip[calls[c].branch]
    BY <2>2, <2>3, <2>4 DEF Pushes, TypeOK
  <2> QED BY <2>4, <2>5 DEF Confirmed, At
<1> QED BY <1>1, PublishInvHolds, PTL DEF Spec, PublishesWhatWasConfirmed

-----------------------------------------------------------------------------
(* With files.  A call that works on the clone does so after the session   *)
(* was bound, and no restart can have come between.                        *)
OnRepository == {"clone", "branch", "branch:head", "commit", "publish:push",
                 "publish:head", "preflight"}

WellFormed(repo) == ~HasRepository(repo) => repo.branch = Base /\ repo.published = NoSha

FilesCall(c) ==
  /\ calls[c].at = "bind" => row.repo.cloneState = "unbound"
  /\ calls[c].at \in OnRepository => HasRepository(row.repo)
  /\ calls[c].at \in {"branch", "branch:head"} => calls[c].branch # Base
  /\ calls[c].at \in Writing => WellFormed(calls[c].mine.repo)

(* As long as writes of the file have not overlapped and none has failed,  *)
(* the file holds the row, or a call that will write it is on its way.     *)
Fresh ==
  /\ \A c, d \in Calls : calls[c].at \in Writing /\ calls[d].at \in Writing => c = d
  /\ \A c \in Calls : calls[c].at \in Writing =>
       calls[c].mine = row \/ \E d \in Calls : calls[d].at \in Reading
  /\ saved = row \/ \E d \in Calls : calls[d].at \in Reading \cup Writing

FilesInv ==
  storage = "files" =>
    /\ WellFormed(row.repo) /\ WellFormed(saved.repo)
    /\ \A c \in Calls : FilesCall(c)
    /\ ~crossed => Fresh

(* What a step does to the file: nothing, a snapshot, a rename, or it may  *)
(* have spoilt the order of the writes.                                    *)
Quiet(c) ==
  /\ saved' = saved /\ crossed' = crossed
  /\ calls[c].at \notin Reading \cup Writing /\ calls'[c].at \notin Writing
  /\ row' = row \/ calls'[c].at \in Reading

Snaps(c) ==
  /\ saved' = saved /\ row' = row /\ crossed' = (crossed \/ Overlaps(c))
  /\ calls[c].at \in Reading /\ calls'[c].at \in Writing /\ calls'[c].mine = row

Renames(c) ==
  /\ row' = row /\ crossed' = crossed
  /\ calls[c].at \in Writing /\ calls'[c].at = "idle"
  /\ saved' = calls[c].mine \/ (Overlaps(c) /\ saved' = GoneRow)

FilesStep(c) ==
  /\ storage' = storage /\ \A d \in Calls \ {c} : calls'[d] = calls[d]
  /\ FilesCall(c)'
  /\ Remembers(row, row') /\ WellFormed(row'.repo)
  /\ \/ row'.repo.cloneState = row.repo.cloneState
     \/ HasRepository(row.repo) \/ calls[c].at = "bind"
  /\ \/ Quiet(c) \/ Snaps(c) \/ Renames(c)
     \/ crossed' /\ saved' = saved

LEMMA SameRow == Remembers(row, row)
BY DEF Remembers

LEMMA FilesBegin ==
  ASSUME TypeOK, FilesInv, storage = "files", NEW c \in Calls, NEW step \in Steps,
         NEW b \in Names, Begin(c, step, b), step \notin Reading \cup Writing,
         step = "bind" => row.repo.cloneState = "unbound",
         step \in OnRepository => HasRepository(row.repo), step \in {"branch", "branch:head"} => b # Base,
         UNCHANGED <<storage, row, file>>
  PROVE  FilesStep(c)
<1>1. /\ calls'[c].at = step /\ \A d \in Calls \ {c} : calls'[d] = calls[d]
      /\ calls'[c].branch = b
  BY BeginEffect
<1>2. FilesCall(c)'
  BY <1>1 DEF FilesCall
<1>3. calls[c].at = "idle"
  BY DEF Begin, At
<1>4. Quiet(c)
  BY <1>1, <1>3 DEF Quiet, file, Reading, Writing
<1> QED BY <1>1, <1>2, <1>4, SameRow DEF FilesStep, FilesInv

LEMMA FilesReturn ==
  ASSUME TypeOK, FilesInv, storage = "files", NEW c \in Calls, Return(c),
         calls[c].at \notin Reading \cup Writing, UNCHANGED <<storage, row, saved, crossed>>
  PROVE  FilesStep(c)
<1>1. calls'[c].at = "idle" /\ \A d \in Calls \ {c} : calls'[d] = calls[d]
  BY RowTypes DEF Return, TypeOK
<1>2. FilesCall(c)'
  BY <1>1 DEF FilesCall, OnRepository, Writing
<1>3. Quiet(c)
  BY <1>1 DEF Quiet, Reading, Writing
<1> QED BY <1>1, <1>2, <1>3, SameRow DEF FilesStep, FilesInv

(* What a handler stores keeps what the row had.                           *)
LEMMA FilesStore ==
  ASSUME TypeOK, storage = "files", FilesInv, NEW c \in Calls, NEW step \in Reading,
         NEW repo \in RepoState, Store(c, step, repo), UNCHANGED <<storage, file>>,
         calls[c].at \notin Reading \cup Writing, HasRepository(repo),
         row.repo.cloneState = "cloned" => repo.cloneState = "cloned",
         row.repo.branch # Base => repo.branch # Base,
         row.repo.published # NoSha => repo.published # NoSha,
         HasRepository(row.repo) \/ calls[c].at = "bind"
  PROVE  FilesStep(c)
<1>1. /\ \A d \in Calls \ {c} : calls'[d] = calls[d]
      /\ calls'[c].at = step /\ row'.repo = repo /\ row'.failed = row.failed
  BY StoreEffect DEF Steps
<1>2. FilesCall(c)'
  BY <1>1 DEF FilesCall, Reading, OnRepository, Writing
<1>3. Remembers(row, row') /\ WellFormed(row'.repo)
  BY <1>1 DEF Remembers, WellFormed, HasRepository
<1>4. Quiet(c)
  BY <1>1 DEF Quiet, file, Reading, Writing
<1> QED BY <1>1, <1>2, <1>3, <1>4 DEF FilesStep

LEMMA FilesSteps ==
  ASSUME TypeOK, FilesInv, storage = "files", NEW c \in Calls, Tool(c)
  PROVE  FilesStep(c)
<1>0. /\ FilesCall(c) /\ WellFormed(row.repo) /\ WellFormed(saved.repo)
      /\ row.repo \in RepoState /\ Mine(c) = row.repo /\ Mine(c) \in RepoState
  BY MineType DEF FilesInv, Mine
<1>1. CASE ReadAgain(c) \/ Write(c)
  BY <1>1 DEF ReadAgain, Write
<1>2. CASE Snapshot(c)
  <2>1. /\ calls'[c].at \in Writing /\ calls'[c].mine = row /\ calls[c].at \in Reading
        /\ \A d \in Calls \ {c} : calls'[d] = calls[d]
        /\ UNCHANGED <<storage, row, saved>> /\ crossed' = (crossed \/ Overlaps(c))
    BY <1>2, SnapshotStep DEF ToolStep, CallFlow, Snapshot
  <2>2. FilesCall(c)'
    BY <1>0, <2>1 DEF FilesCall, Writing, OnRepository
  <2>3. Snaps(c)
    BY <2>1 DEF Snaps
  <2> QED BY <1>0, <2>1, <2>2, <2>3, SameRow DEF FilesStep
<1>3. CASE Rename(c)
  <2>1. calls'[c].at = "idle" /\ \A d \in Calls \ {c} : calls'[d] = calls[d]
    BY <1>3, RowTypes DEF Rename, Return, TypeOK
  <2>2. FilesCall(c)'
    BY <2>1 DEF FilesCall, OnRepository, Writing
  <2>3. Renames(c) /\ UNCHANGED <<storage, row>>
    BY <1>3, <2>1 DEF Rename, Renames
  <2> QED BY <1>0, <2>1, <2>2, <2>3, SameRow DEF FilesStep
<1>4. CASE GiveUp(c)
  <2>1. CASE calls[c].at \notin Reading \cup Writing
    BY <1>4, <2>1, FilesReturn DEF GiveUp, Saving, TypeOK
  <2>2. CASE calls[c].at \in Reading \cup Writing
    <3>1. crossed' /\ UNCHANGED <<storage, row, saved>>
      BY <1>4, <2>2 DEF GiveUp, Saving
    <3>2. calls'[c].at = "idle" /\ \A d \in Calls \ {c} : calls'[d] = calls[d]
      BY <1>4, RowTypes DEF GiveUp, Return, TypeOK
    <3>3. FilesCall(c)'
      BY <3>2 DEF FilesCall, OnRepository, Writing
    <3> QED BY <1>0, <3>1, <3>2, <3>3, SameRow DEF FilesStep
  <2> QED BY <2>1, <2>2
<1>5. CASE Bind(c) \/ Preflight(c)
  <2>1. /\ {"bind", "preflight"} \subseteq Steps \ (Reading \cup Writing)
        /\ "bind" \notin OnRepository /\ Base \in Names
    BY DEF Steps, Locked, Reading, Writing, OnRepository, Names
  <2> QED BY <1>5, <2>1, FilesBegin DEF Bind, Preflight
<1>6. CASE WriteFile(c) \/ ApplyPatch(c) \/ GitCommit(c) \/ \E b \in Branches : CreateBranch(c, b)
  <2>1. /\ {"file", "branch", "commit"} \subseteq Steps \ (Reading \cup Writing)
        /\ "file" \notin OnRepository /\ Base \in Names /\ Branches \subseteq Names
        /\ \A b \in Branches : b # Base
    BY BranchAssumption DEF Steps, Locked, Reading, Writing, OnRepository, Names
  <2> QED BY <1>6, <2>1, FilesBegin DEF WriteFile, ApplyPatch, CreateBranch, GitCommit, Start
<1>7. CASE CloneStart(c)
  <2>1. "clone" \in Steps \ (Reading \cup Writing) /\ Base \in Names
    BY DEF Steps, Locked, Reading, Writing, Names
  <2> QED BY <1>7, <2>1, FilesBegin DEF CloneStart
<1>8. ASSUME calls[c].at \in OnRepository
      PROVE  HasRepository(row.repo) /\ calls[c].at \notin Reading \cup Writing
  BY <1>0, <1>8 DEF FilesCall, OnRepository, Reading, Writing
<1>9. "tool:read" \in Reading /\ "preflight:read" \in Reading
  BY DEF Reading
<1>10. CASE Bound(c)
  <2> DEFINE repo == [Unbound EXCEPT !.cloneState = "bound"]
  <2>1. repo \in RepoState /\ HasRepository(repo)
    BY DEF RepoState, Unbound, Names, HasRepository
  <2>2. calls[c].at = "bind" /\ row.repo.branch = Base /\ row.repo.published = NoSha
        /\ row.repo.cloneState = "unbound"
    BY <1>0, <1>10 DEF FilesCall, Bound, At, WellFormed, HasRepository
  <2>3. Store(c, "tool:read", repo) /\ UNCHANGED <<storage, file>>
    BY <1>10 DEF Bound
  <2>4. calls[c].at \notin Reading \cup Writing
    BY <2>2 DEF Reading, Writing
  <2> HIDE DEF repo
  <2> QED BY <1>9, <2>1, <2>2, <2>3, <2>4, FilesStore
<1>11. CASE CloneGit(c)
  <2> DEFINE repo == [Mine(c) EXCEPT !.cloneState = "cloned"]
  <2>1. /\ repo \in RepoState /\ repo.cloneState = "cloned" /\ repo.branch = row.repo.branch
        /\ repo.published = row.repo.published
    BY <1>0 DEF RepoState
  <2>2. HasRepository(row.repo) /\ calls[c].at \notin Reading \cup Writing
    BY <1>8, <1>11 DEF CloneGit, At, OnRepository
  <2>3. Store(c, "tool:read", repo) /\ UNCHANGED <<storage, file>>
    BY <1>11 DEF CloneGit
  <2> HIDE DEF repo
  <2>4. HasRepository(repo)
    BY <2>1 DEF HasRepository
  <2> QED BY <1>9, <2>1, <2>2, <2>3, <2>4, FilesStore
<1>12. CASE FileWritten(c)
  <2>1. calls[c].at \notin Reading \cup Writing /\ UNCHANGED <<storage, file, saved, crossed>>
    BY <1>12 DEF FileWritten, At, Reading, Writing, file
  <2>2. CASE HasRepository(row.repo)
    <3>1. Store(c, "tool:read", row.repo)
      BY <1>0, <1>12, <2>2 DEF FileWritten
    <3> QED BY <1>0, <1>9, <2>1, <2>2, <3>1, FilesStore
  <2>3. CASE ~HasRepository(row.repo)
    BY <1>0, <1>12, <2>1, <2>3, FilesReturn DEF FileWritten
  <2> QED BY <2>2, <2>3
<1>13. CASE BranchCheckout(c)
  <2>1. /\ [calls[c] EXCEPT !.at = "branch:head"].at = "branch:head"
        /\ [calls[c] EXCEPT !.at = "branch:head"].branch = calls[c].branch
    BY MineType, PutAt DEF Steps, Locked
  <2>2. /\ calls'[c].at = "branch:head" /\ calls'[c].branch = calls[c].branch
        /\ \A d \in Calls \ {c} : calls'[d] = calls[d]
        /\ UNCHANGED <<storage, row, saved, crossed>> /\ calls[c].at = "branch"
    BY <1>13, <2>1 DEF BranchCheckout, Goto, TypeOK, file, At
  <2>3. FilesCall(c)'
    BY <1>0, <2>2 DEF FilesCall, OnRepository, Writing
  <2>4. Quiet(c)
    BY <2>2 DEF Quiet, Reading, Writing
  <2> QED BY <1>0, <2>2, <2>3, <2>4, SameRow DEF FilesStep
<1>14. CASE BranchCreated(c)
  <2> DEFINE repo == [Mine(c) EXCEPT !.branch = calls[c].branch]
  <2>1. /\ repo \in RepoState /\ repo.cloneState = row.repo.cloneState
        /\ repo.branch = calls[c].branch /\ repo.published = row.repo.published
    BY <1>0, MineType DEF RepoState, Call
  <2>2. /\ HasRepository(row.repo) /\ calls[c].at \notin Reading \cup Writing
        /\ calls[c].branch # Base
    BY <1>0, <1>8, <1>14 DEF BranchCreated, At, OnRepository, FilesCall
  <2>3. Store(c, "tool:read", repo) /\ UNCHANGED <<storage, file>>
    BY <1>14 DEF BranchCreated
  <2> HIDE DEF repo
  <2>4. HasRepository(repo)
    BY <2>1, <2>2 DEF HasRepository
  <2> QED BY <1>9, <2>1, <2>2, <2>3, <2>4, FilesStore
<1>15. CASE Committed(c)
  <2>1. Store(c, "tool:read", row.repo) /\ UNCHANGED <<storage, file>>
    BY <1>0, <1>15 DEF Committed
  <2>2. HasRepository(row.repo) /\ calls[c].at \notin Reading \cup Writing
    BY <1>8, <1>15 DEF Committed, At, OnRepository
  <2> QED BY <1>0, <1>9, <2>1, <2>2, FilesStore
<1>16. CASE PreflightPass(c)
  <2> DEFINE repo == [Mine(c) EXCEPT !.publication = "preflight_passed"]
  <2>1. /\ repo \in RepoState /\ repo.cloneState = row.repo.cloneState
        /\ repo.branch = row.repo.branch /\ repo.published = row.repo.published
    BY <1>0 DEF RepoState
  <2>2. HasRepository(row.repo) /\ calls[c].at \notin Reading \cup Writing
    BY <1>8, <1>16 DEF PreflightPass, At, OnRepository
  <2>3. Store(c, "preflight:read", repo) /\ UNCHANGED <<storage, file>>
    BY <1>16 DEF PreflightPass
  <2> HIDE DEF repo
  <2>4. HasRepository(repo)
    BY <2>1, <2>2 DEF HasRepository
  <2> QED BY <1>9, <2>1, <2>2, <2>3, <2>4, FilesStore
<1>17. CASE PublishBranch(c)
  <2>1. /\ calls'[c].at = "publish:push" /\ \A d \in Calls \ {c} : calls'[d] = calls[d]
        /\ UNCHANGED <<storage, row, saved, crossed>> /\ row.repo.branch # Base
        /\ calls[c].at = "idle"
    BY <1>17 DEF PublishBranch, TypeOK, file, LockFree, At
  <2>2. HasRepository(row.repo)
    BY <1>0, <2>1 DEF WellFormed
  <2>3. FilesCall(c)'
    BY <2>1, <2>2 DEF FilesCall, Writing
  <2>4. Quiet(c)
    BY <2>1 DEF Quiet, Reading, Writing
  <2> QED BY <1>0, <2>1, <2>3, <2>4, SameRow DEF FilesStep
<1>18. CASE PublishPush(c)
  <2>1. /\ UNCHANGED <<storage, row, saved, crossed>> /\ calls[c].at = "publish:push"
        /\ calls[c].at \notin Reading \cup Writing
    BY <1>18 DEF PublishPush, file, At, Reading, Writing
  <2>2. \A d \in Calls \ {c} : calls'[d] = calls[d]
    BY <1>18, PushStep DEF ToolStep, CallFlow
  <2>3. CASE Return(c)
    BY <2>1, <2>3, FilesReturn
  <2>4. CASE calls' = [calls EXCEPT ![c] =
               [@ EXCEPT !.at = "publish:head", !.seen = <<>>, !.straight = FALSE]]
    <3>1. calls'[c].at = "publish:head"
      <4> DEFINE k1 == [calls[c] EXCEPT !.at = "publish:head"]
                 k2 == [k1 EXCEPT !.seen = <<>>]
                 k3 == [k2 EXCEPT !.straight = FALSE]
      <4>1. k1 \in Call /\ k1.at = "publish:head"
        BY MineType DEF Call, Steps, Locked
      <4>2. calls' = [calls EXCEPT ![c] = k3]
        BY <2>4, Zenon
      <4> HIDE DEF k1
      <4>3. k2 \in Call /\ k2.at = "publish:head"
        <5>1. <<>> \in Sha
          BY DEF Sha
        <5> QED BY <4>1, <5>1 DEF Call
      <4> HIDE DEF k2
      <4>4. k3.at = "publish:head"
        BY <4>3 DEF Call
      <4> HIDE DEF k3
      <4> QED BY <4>2, <4>4 DEF TypeOK
    <3>2. FilesCall(c)'
      BY <1>0, <2>1, <3>1 DEF FilesCall, Writing, OnRepository
    <3>3. Quiet(c)
      BY <2>1, <3>1 DEF Quiet, Writing
    <3> QED BY <1>0, <2>1, <2>2, <3>2, <3>3, SameRow DEF FilesStep
  <2> QED BY <1>18, <2>3, <2>4 DEF PublishPush
<1>19. CASE PublishHead(c)
  <2>1. /\ Published(c) \in RepoState /\ Published(c).published \in Sha
        /\ Published(c).cloneState = row.repo.cloneState
        /\ Published(c).branch = row.repo.branch
    BY <1>0, <1>19, HeadStep, CloneType
  <2>2. HasRepository(row.repo) /\ calls[c].at \notin Reading \cup Writing
    BY <1>8, <1>19 DEF PublishHead, At, OnRepository
  <2>3. Store(c, "tool:read", Published(c)) /\ UNCHANGED <<storage, file>>
    BY <1>19 DEF PublishHead
  <2>4. HasRepository(Published(c)) /\ Published(c).published # NoSha
    BY <2>1, <2>2, ShaIsSeq DEF HasRepository
  <2> QED BY <1>9, <2>1, <2>2, <2>3, <2>4, FilesStore
<1>20. ASSUME NEW v \in Records, ValidationRecord(c, v)
       PROVE  FilesStep(c)
  <2>1. /\ row' = [row EXCEPT !.failed = @ \cup {v}] /\ UNCHANGED <<storage, saved, crossed>>
        /\ calls'[c].at = "record:read" /\ calls[c].at = "idle"
        /\ \A d \in Calls \ {c} : calls'[d] = calls[d]
    BY <1>20, RecordStep DEF ValidationRecord, ToolStep, CallFlow, file, At
  <2>2. row'.repo = row.repo /\ row.failed \subseteq row'.failed
    BY <2>1 DEF TypeOK, Row
  <2>3. FilesCall(c)'
    BY <2>1 DEF FilesCall, OnRepository, Writing
  <2>4. Quiet(c)
    BY <2>1 DEF Quiet, Reading, Writing
  <2>5. Remembers(row, row')
    BY <2>2 DEF Remembers
  <2> QED BY <1>0, <2>1, <2>2, <2>3, <2>4, <2>5 DEF FilesStep
<1> QED BY <1>1, <1>2, <1>3, <1>4, <1>5, <1>6, <1>7, <1>10, <1>11, <1>12, <1>13,
           <1>14, <1>15, <1>16, <1>17, <1>18, <1>19, <1>20 DEF Tool

(* The file keeps up with the row.                                         *)
LEMMA FreshStays ==
  ASSUME FilesInv, storage = "files", NEW c \in Calls, FilesStep(c), ~crossed'
  PROVE  Fresh'
<1>1. ~crossed /\ Fresh
  <2>1. Quiet(c) \/ Snaps(c) \/ Renames(c)
    BY DEF FilesStep
  <2>2. Quiet(c) => ~crossed
    BY Zenon DEF Quiet
  <2>3. Snaps(c) => ~crossed
    BY Zenon DEF Snaps
  <2>4. Renames(c) => ~crossed
    BY Zenon DEF Renames
  <2> QED BY <2>1, <2>2, <2>3, <2>4 DEF FilesInv
<1>2. \A d \in Calls \ {c} : calls'[d] = calls[d]
  BY DEF FilesStep
<1>3. \A d \in Calls : calls[d].at \in Reading => calls[d].at \notin Writing
  BY DEF Reading, Writing
<1>4. CASE Quiet(c)
  <2>1. \A d, e \in Calls :
          calls'[d].at \in Writing /\ calls'[e].at \in Writing => d = e
    BY <1>1, <1>2, <1>4 DEF Quiet, Fresh
  <2>2. ASSUME row' # row
        PROVE  calls'[c].at \in Reading
    BY <1>4, <2>2 DEF Quiet
  <2>3. ASSUME row' = row, NEW d \in Calls, calls[d].at \in Reading \cup Writing
        PROVE  calls'[d] = calls[d]
    BY <1>2, <1>4, <2>3 DEF Quiet
  <2>4. ASSUME NEW d \in Calls, calls'[d].at \in Writing
        PROVE  calls'[d].mine = row' \/ \E e \in Calls : calls'[e].at \in Reading
    <3>1. d # c /\ calls'[d] = calls[d]
      BY <1>2, <1>4, <2>4 DEF Quiet
    <3> QED BY <1>1, <2>2, <2>3, <2>4, <3>1 DEF Fresh
  <2>5. saved' = row' \/ \E e \in Calls : calls'[e].at \in Reading \cup Writing
    BY <1>1, <1>4, <2>2, <2>3 DEF Quiet, Fresh
  <2> QED BY <2>1, <2>4, <2>5 DEF Fresh
<1>5. CASE Snaps(c)
  <2>1. \A d \in Calls \ {c} : calls[d].at \notin Writing
    BY <1>5 DEF Snaps, Overlaps
  <2> QED BY <1>2, <1>5, <2>1 DEF Snaps, Fresh
<1>6. CASE Renames(c)
  <2>1. \A d \in Calls \ {c} : calls[d].at \notin Writing
    BY <1>1, <1>6 DEF Renames, Fresh
  <2>2. saved' = calls[c].mine
    BY <1>6, <2>1 DEF Renames, Overlaps
  <2>3. \A d \in Calls : calls'[d].at \notin Writing
    BY <1>2, <1>6, <2>1 DEF Renames, Writing
  <2>4. saved' = row' \/ \E d \in Calls : calls'[d].at \in Reading
    <3>1. CASE calls[c].mine = row
      BY <1>6, <2>2, <3>1 DEF Renames
    <3>2. ASSUME NEW d \in Calls, calls[d].at \in Reading
          PROVE  calls'[d] = calls[d]
      BY <1>2, <1>3, <1>6, <3>2 DEF Renames
    <3> QED BY <1>1, <1>6, <3>1, <3>2 DEF Renames, Fresh
  <2> QED BY <2>3, <2>4 DEF Fresh
<1> QED BY <1>4, <1>5, <1>6 DEF FilesStep

LEMMA FilesKeeps ==
  ASSUME PublishInv, FilesInv, [Next]_vars
  PROVE  FilesInv'
<1> SUFFICES ASSUME storage' = "files" PROVE FilesInv'
  BY DEF FilesInv
<1>1. ASSUME NEW c \in Calls, Tool(c)
      PROVE  FilesInv'
  <2>1. TypeOK /\ OneLocked /\ ToolStep(c)
    BY <1>1, ToolSteps DEF PublishInv
  <2>2. storage = "files" /\ FilesStep(c)
    BY <1>1, <2>1, FilesSteps DEF ToolStep
  <2>3. \A d \in Calls : FilesCall(d)
    BY <2>2 DEF FilesInv
  <2>4. ASSUME NEW d \in Calls
        PROVE  FilesCall(d)'
    <3>1. CASE d = c
      BY <2>2, <3>1 DEF FilesStep
    <3>2. CASE d # c
      <4>1. calls'[d] = calls[d]
        BY <2>2, <3>2 DEF FilesStep
      <4>2. HasRepository(row.repo) => HasRepository(row'.repo)
        BY <2>2 DEF FilesStep, Remembers
      <4>3. calls[d].at = "bind" => row'.repo.cloneState = "unbound"
        <5>1. ASSUME calls[d].at = "bind", calls[c].at = "bind"
              PROVE  FALSE
          BY <2>1, <3>2, <5>1 DEF OneLocked, Locked
        <5>2. ASSUME calls[d].at = "bind", HasRepository(row.repo)
              PROVE  FALSE
          BY <2>3, <5>2 DEF FilesCall, HasRepository
        <5> QED BY <2>2, <2>3, <5>1, <5>2 DEF FilesStep, FilesCall
      <4> QED BY <2>3, <4>1, <4>2, <4>3 DEF FilesCall
    <3> QED BY <3>1, <3>2
  <2>5. WellFormed(row'.repo) /\ WellFormed(saved'.repo)
    <3>1. WellFormed(GoneRow.repo)
      BY RowTypes DEF WellFormed
    <3> QED BY <2>2, <2>3, <3>1 DEF FilesStep, FilesInv, Quiet, Snaps, Renames, FilesCall
  <2>6. ~crossed' => Fresh'
    BY <2>2, FreshStays
  <2> QED BY <2>4, <2>5, <2>6 DEF FilesInv, WellFormed, HasRepository
<1>2. CASE Shell \/ UNCHANGED vars
  <2>1. UNCHANGED <<storage, row, saved, crossed, calls>>
    BY <1>2, ShellSteps DEF vars, file, PublishInv
  <2> QED BY <2>1 DEF FilesInv, FilesCall, WellFormed, HasRepository, Fresh
<1>3. CASE Restart
  <2>1. /\ UNCHANGED <<storage, saved>> /\ row' = saved
        /\ \A d \in Calls : calls'[d].at = "idle"
    BY <1>3, RowTypes DEF Restart
  <2>2. \A d \in Calls : FilesCall(d)'
    BY <2>1 DEF FilesCall, OnRepository, Writing
  <2>3. Fresh'
    BY <2>1 DEF Fresh, Writing
  <2>4. WellFormed(row'.repo) /\ WellFormed(saved'.repo)
    BY <2>1 DEF FilesInv
  <2> QED BY <2>2, <2>3, <2>4 DEF FilesInv, WellFormed, HasRepository
<1> QED BY <1>1, <1>2, <1>3, NextIs

LEMMA FilesInvHolds == Spec => []FilesInv
<1>1. Init => FilesInv
  <2> SUFFICES ASSUME Init PROVE FilesInv
    OBVIOUS
  <2>1. row = saved /\ row.repo = Unbound /\ \A c \in Calls : calls[c].at = "idle"
    BY RowTypes DEF Init
  <2> QED BY <2>1 DEF FilesInv, FilesCall, WellFormed, Unbound, Fresh, OnRepository, Writing
<1>2. PublishInv /\ FilesInv /\ [Next]_vars => FilesInv'
  BY FilesKeeps
<1> QED BY <1>1, <1>2, PublishInvHolds, PTL DEF Spec

(* With files the session's row forgets nothing while the process runs: no *)
(* overlap of the tools, of preflight or of validation_record and no       *)
(* failure half way unbinds the session or loses its branch, its published *)
(* head or a recorded failure.  A restart reads the file, and then forgets *)
(* only if an update was still to be saved, or since the last restart two  *)
(* writes of the file have overlapped or one has failed.                   *)
THEOREM FilesForgetNothing == Spec => NothingForgotten
<1> DEFINE Step ==
      storage = "files" /\ ~Remembers(row, row') =>
        Restart /\ (crossed \/ \E c \in Calls : Saving(c))
<1>1. ASSUME PublishInv, FilesInv, [Next]_vars
      PROVE  [Step]_row
  <2> SUFFICES ASSUME row' # row, storage = "files", ~Remembers(row, row')
               PROVE  Restart /\ (crossed \/ \E c \in Calls : Saving(c))
    OBVIOUS
  <2>1. ASSUME NEW c \in Calls, Tool(c)
        PROVE  FALSE
    BY <1>1, <2>1, FilesSteps DEF PublishInv, FilesStep
  <2>2. Restart
    BY <1>1, <2>1, NextIs, ShellSteps DEF vars, PublishInv
  <2>3. row' = saved
    BY <2>2 DEF Restart
  <2> QED BY <1>1, <2>2, <2>3 DEF FilesInv, Fresh, Saving
<1> QED BY <1>1, PublishInvHolds, FilesInvHolds, PTL DEF Spec, NothingForgotten
=============================================================================
