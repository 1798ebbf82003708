--------------------------- MODULE PrRepairProofs ---------------------------
(***************************************************************************)
(* Theorems about PrRepair.  What makes its invariants inductive:          *)
(*   - what each step of a call has read and may rely on (CallsKnown), and *)
(*     in which fields memory and disk never differ (RowsAgree);           *)
(*   - Attaching: what the lock per task makes of the two writes of attach;*)
(*   - Overshoot: a session that is not REPAIRING has as many creations to *)
(*     spare as calls are still completing, one that is has K of them;     *)
(*   - Heads: the head a session was attached at is in all that it reads,  *)
(*     as long as no shell takes commits off its clone;                    *)
(*   - Clones: commits that one clone got from another session's clone can *)
(*     only have come through GitHub.  Only a commit makes a history, and  *)
(*     it makes a new one (Fresh), so two clones share what both cloned,   *)
(*     whatever is reset.                                                  *)
(***************************************************************************)
EXTENDS PrRepair, FiniteSetTheorems, TLAPS

AttachSteps == {"attach:get", "attach:task"}
CompleteSteps == {"complete:head", "complete:status", "complete:save"}
HeadSteps == {"complete:status", "complete:save"}

CallsKnown ==
  \A c \in Calls :
    /\ calls[c].at \in AttachSteps => calls[c].task \in Tasks
    /\ calls[c].at \notin AttachSteps \cup {"idle"} =>
         Rep(c) \in Repairs /\ Exists(Rep(c))
    /\ calls[c].at \in HeadSteps \cup {"push:verify"} => calls[c].seen \in Sha

RowsAgree ==
  \A r \in Repairs :
    /\ mem[r].task = disk[r].task /\ mem[r].original = disk[r].original
    /\ ~Exists(r) => mem[r] = NoRow /\ disk[r] = NoRow /\ ~HasClone(r)

Known == TypeOK /\ CallsKnown /\ RowsAgree

-----------------------------------------------------------------------------
(* Histories: a sha, or the single 0 that stands for none.                 *)
Hist == Seq(Nat)

(* Every sha, and none, is a history.                                      *)
LEMMA ShaHist == Sha \subseteq Hist /\ NoSha \in Hist /\ NoSha \notin Sha /\ <<>> \in Sha
  <1>1. Sha \subseteq Hist
    BY BoundAssumption DEF Sha, Hist
  <1>2. NoSha \in Hist /\ <<>> \in Sha
    BY DEF NoSha, Hist, Sha
  <1>3. NoSha \notin Sha
    <2>1. SUFFICES ASSUME NoSha \in Sha PROVE FALSE
      OBVIOUS
    <2>2. NoSha[1] \in 1..MaxCommits
      BY <2>1 DEF Sha, NoSha
    <2> QED
      BY <2>2, BoundAssumption DEF NoSha
  <1> QED
    BY <1>1, <1>2, <1>3

(* IsPrefix, element by element.                                           *)
LEMMA PrefixElements ==
  ASSUME NEW s \in Hist, NEW t \in Hist
  PROVE  IsPrefix(s, t) <=> Len(s) <= Len(t) /\ \A i \in 1..Len(s) : s[i] = t[i]
  BY DEF IsPrefix, Hist

(* IsPrefix is a partial order with the empty history at the bottom.       *)
LEMMA PrefixReflexive ==
  ASSUME NEW s \in Hist PROVE IsPrefix(s, s) /\ IsPrefix(<<>>, s)
  <1>1. <<>> \in Hist /\ Len(<<>>) = 0 /\ Len(s) \in Nat
    BY DEF Hist
  <1>2. IsPrefix(s, s)
    BY <1>1, PrefixElements
  <1>3. IsPrefix(<<>>, s)
    BY <1>1, PrefixElements
  <1> QED
    BY <1>2, <1>3

LEMMA PrefixTransitive ==
  ASSUME NEW s \in Hist, NEW t \in Hist, NEW u \in Hist,
         IsPrefix(s, t), IsPrefix(t, u)
  PROVE  IsPrefix(s, u)
  BY PrefixElements DEF Hist

(* A commit keeps every prefix.                                            *)
LEMMA PrefixAppend ==
  ASSUME NEW s \in Hist, NEW t \in Hist, NEW n \in Nat, IsPrefix(s, t)
  PROVE  IsPrefix(s, Append(t, n)) /\ IsPrefix(t, Append(t, n))
  <1>1. /\ Append(t, n) \in Hist /\ Len(Append(t, n)) = Len(t) + 1
        /\ \A i \in 1..Len(t) : Append(t, n)[i] = t[i]
    BY DEF Hist
  <1>2. Len(s) \in Nat /\ Len(t) \in Nat
    BY DEF Hist
  <1>3. IsPrefix(t, Append(t, n))
    <2> DEFINE u == Append(t, n)
    <2>1. IsPrefix(t, u) <=> Len(t) <= Len(u) /\ \A i \in 1..Len(t) : t[i] = u[i]
      BY <1>1, PrefixElements
    <2> QED
      BY <1>1, <1>2, <2>1
  <1> QED
    BY <1>1, <1>3, PrefixTransitive

(* A history that does not know a commit is a prefix of a history with     *)
(* that commit on top only if it was one before.                           *)
LEMMA PrefixOfFresh ==
  ASSUME NEW n \in Nat, NEW s \in Seq(1..n), NEW t \in Hist,
         IsPrefix(s, Append(t, n + 1))
  PROVE  IsPrefix(s, t)
  <1>1. /\ s \in Hist /\ Append(t, n + 1) \in Hist
        /\ Len(Append(t, n + 1)) = Len(t) + 1
    BY DEF Hist
  <1>2. Len(s) <= Len(t) + 1 /\ \A i \in 1..Len(s) : s[i] = Append(t, n + 1)[i]
    BY <1>1, PrefixElements
  <1>3. Len(s) # Len(t) + 1
    <2>1. SUFFICES ASSUME Len(s) = Len(t) + 1 PROVE FALSE
      OBVIOUS
    <2>2. s[Len(t) + 1] = n + 1
      BY <1>2, <2>1 DEF Hist
    <2>3. s[Len(t) + 1] \in 1..n
      BY <2>1 DEF Hist
    <2> QED
      BY <2>2, <2>3
  <1>4. Len(s) <= Len(t) /\ \A i \in 1..Len(s) : s[i] = t[i]
    BY <1>2, <1>3 DEF Hist
  <1> QED
    BY <1>1, <1>4, PrefixElements

(* A history with a commit on top is no prefix of one that does not know   *)
(* that commit.                                                            *)
LEMMA FreshIsNoPrefix ==
  ASSUME NEW n \in Nat, NEW s \in Hist, NEW t \in Seq(1..n)
  PROVE  ~IsPrefix(Append(s, n + 1), t)
  <1>1. /\ Append(s, n + 1) \in Hist /\ t \in Hist
        /\ Len(Append(s, n + 1)) = Len(s) + 1 /\ Len(s) \in Nat
    BY DEF Hist
  <1>2. SUFFICES ASSUME IsPrefix(Append(s, n + 1), t) PROVE FALSE
    OBVIOUS
  <1>3. Len(s) + 1 <= Len(t) /\ Append(s, n + 1)[Len(s) + 1] = t[Len(s) + 1]
    <2> DEFINE u == Append(s, n + 1)
    <2>1. Len(u) <= Len(t) /\ \A i \in 1..Len(u) : u[i] = t[i]
      BY <1>1, <1>2, PrefixElements
    <2> QED
      BY <1>1, <2>1
  <1>4. t[Len(s) + 1] = n + 1 /\ t[Len(s) + 1] \in 1..n
    BY <1>3 DEF Hist
  <1> QED
    BY <1>4

(* A prefix of a history with a commit on top is all of it or was a prefix *)
(* before.                                                                 *)
LEMMA PrefixOfAppend ==
  ASSUME NEW n \in Nat, NEW s \in Hist, NEW t \in Hist, IsPrefix(s, Append(t, n))
  PROVE  s = Append(t, n) \/ IsPrefix(s, t)
  <1> DEFINE u == Append(t, n)
  <1>1. u \in Hist /\ Len(u) = Len(t) + 1 /\ \A i \in 1..Len(t) : u[i] = t[i]
    BY DEF Hist
  <1>2. Len(s) \in Nat /\ Len(t) \in Nat
    BY DEF Hist
  <1>3. Len(s) <= Len(u) /\ \A i \in 1..Len(s) : s[i] = u[i]
    BY <1>1, PrefixElements
  <1> HIDE DEF u
  <1>4. CASE Len(s) = Len(u)
    BY <1>1, <1>3, <1>4 DEF Hist, u
  <1>5. CASE Len(s) # Len(u)
    <2>1. Len(s) <= Len(t) /\ \A i \in 1..Len(s) : s[i] = t[i]
      BY <1>1, <1>2, <1>3, <1>5
    <2> QED
      BY <2>1, PrefixElements
  <1> QED
    BY <1>4, <1>5 DEF u

(* What a reset leaves of a history is a prefix of it.                     *)
LEMMA Shortened ==
  ASSUME NEW S, NEW s \in Seq(S), NEW n \in 0..(Len(s) - 1)
  PROVE  /\ SubSeq(s, 1, n) \in Seq(S) /\ Len(SubSeq(s, 1, n)) = n
         /\ \A i \in 1..n : SubSeq(s, 1, n)[i] = s[i]
  OBVIOUS

LEMMA PrefixShortened ==
  ASSUME NEW s \in Hist, NEW n \in 0..(Len(s) - 1)
  PROVE  IsPrefix(SubSeq(s, 1, n), s)
  <1> DEFINE u == SubSeq(s, 1, n)
  <1>1. u \in Hist /\ Len(u) = n /\ \A i \in 1..n : u[i] = s[i]
    BY Shortened DEF Hist
  <1>2. Len(s) \in Nat
    BY DEF Hist
  <1> HIDE DEF u
  <1>3. IsPrefix(u, s)
    BY <1>1, <1>2, PrefixElements
  <1> QED
    BY <1>3 DEF u

-----------------------------------------------------------------------------
(* What the steps do to the rows and to the calls, in fewer kinds.         *)
Written(r, row) ==
  /\ mem' = [mem EXCEPT ![r] = row]
  /\ \/ disk' = [disk EXCEPT ![r] = row] /\ faults' = faults
     \/ disk' = disk /\ faults' = faults + 1

Relabelled(r) ==
  \E s \in States :
    /\ s \in {"REPAIRING", "BLOCKED"} => s = mem[r].state
    /\ Written(r, [mem[r] EXCEPT !.state = s])

SameCall(c, call) ==
  /\ calls'[c].at = call.at /\ calls'[c].rep = call.rep
  /\ calls'[c].task = call.task /\ calls'[c].seen = call.seen

(* A relabelled row is a row, and so is one that is written back as it is. *)
LEMMA RelabelledRow ==
  ASSUME NEW row \in Row, NEW s \in States
  PROVE  [row EXCEPT !.state = s] \in Row
  BY DEF Row

LEMMA SameRow ==
  ASSUME NEW row \in Row
  PROVE  row = [row EXCEPT !.state = row.state] /\ row.state \in States
  BY DEF Row

LEMMA ChangedRows ==
  ASSUME NEW row \in Row, NEW s \in States, NEW sha \in Sha, NEW n \in Nat
  PROVE  /\ [row EXCEPT !.state = s, !.cycles = @ + 1] \in Row
         /\ [row EXCEPT !.state = s, !.created = n, !.current = sha] \in Row
         /\ [row EXCEPT !.state = s, !.published = @ + 1, !.latest = sha,
                        !.ci = sha] \in Row
  <1>1. row.cycles + 1 \in Nat /\ row.published + 1 \in Nat
    BY DEF Row
  <1>2. [row EXCEPT !.state = s, !.cycles = @ + 1] \in Row
    BY <1>1 DEF Row
  <1>3. [row EXCEPT !.state = s, !.created = n, !.current = sha] \in Row
    BY DEF Row
  <1>4. [row EXCEPT !.state = s, !.published = @ + 1, !.latest = sha, !.ci = sha] \in Row
    BY <1>1 DEF Row
  <1> QED
    BY <1>2, <1>3, <1>4

LEMMA IdleCall == Idle \in Call
  BY ShaHist DEF Idle, Call, Steps

LEMMA NewRow ==
  ASSUME NEW t \in Tasks \cup {None}, NEW s \in Sha
  PROVE  Created(t, s) \in Row
  BY DEF Created, Row, States

(* An update keeps every call at its step and with what it has read.       *)
LEMMA UpdateCalls ==
  ASSUME NEW base \in [Calls -> Call], NEW r \in Repairs, NEW row \in Row,
         Save(base, r, row) \/ SaveThrows(base, r, row)
  PROVE  calls' \in [Calls -> Call] /\ \A c \in Calls : SameCall(c, base[c])
  <1>1. PICK saved \in BOOLEAN : calls' = Handles(base, r, row, saved)
    BY DEF Save, SaveThrows
  <1>2. ASSUME NEW c \in Calls
        PROVE  Handles(base, r, row, saved)[c] \in Call /\ SameCall(c, base[c])
    <2>1. base[c] \in Call /\ row.created \in Nat
      BY DEF Row
    <2>2. CASE base[c].own /\ base[c].rep = r
      <3>1. calls'[c] = [base[c] EXCEPT !.count = row.created, !.own = ~saved]
        BY <1>1, <2>2 DEF Handles
      <3> QED
        BY <1>1, <2>1, <3>1 DEF Call, SameCall
    <2>3. CASE ~(base[c].own /\ base[c].rep = r)
      <3>1. calls'[c] = base[c]
        BY <1>1, <2>3 DEF Handles
      <3> QED
        BY <1>1, <2>1, <3>1 DEF SameCall
    <2> QED
      BY <2>2, <2>3
  <1> QED
    BY <1>1, <1>2 DEF Handles

LEMMA Update ==
  ASSUME TypeOK, NEW base \in [Calls -> Call], NEW r \in Repairs, NEW row \in Row,
         Save(base, r, row) \/ SaveThrows(base, r, row)
  PROVE  /\ Written(r, row)
         /\ mem' \in [Repairs -> Row] /\ disk' \in [Repairs -> Row]
         /\ faults' \in Nat
         /\ calls' \in [Calls -> Call]
         /\ \A c \in Calls : SameCall(c, base[c])
  <1>1. Written(r, row)
    BY DEF Save, SaveThrows, Written
  <1>2. mem' \in [Repairs -> Row] /\ disk' \in [Repairs -> Row]
    BY <1>1 DEF Written, TypeOK
  <1>3. faults' \in Nat
    <2>1. faults \in Nat
      BY DEF TypeOK
    <2>2. faults' = faults \/ faults' = faults + 1
      BY DEF Save, SaveThrows
    <2> QED
      BY <2>1, <2>2
  <1> QED
    BY <1>1, <1>2, <1>3, UpdateCalls

(* The calls as the handlers that update leave them.                       *)
LEMMA Bases ==
  ASSUME TypeOK, NEW c \in Calls
  PROVE  /\ calls \in [Calls -> Call]
         /\ Finished(c) \in [Calls -> Call]
         /\ [calls EXCEPT ![c].at = "attach:task"] \in [Calls -> Call]
  BY IdleCall DEF TypeOK, Finished, Call, Steps

(* What a row is written with.                                             *)
LEMMA WrittenRows ==
  ASSUME Known, NEW r \in Repairs
  PROVE  /\ \A s \in States : [mem[r] EXCEPT !.state = s] \in Row
         /\ mem[r] \in Row /\ CycleRow(r) \in Row
         /\ \A c \in Calls :
              /\ At(c, "complete:save") /\ Rep(c) = r
                   => \A passed \in BOOLEAN : CompleteRow(c, passed) \in Row
              /\ At(c, "push:verify") /\ Rep(c) = r => PushedRow(c) \in Row
  <1>1. mem[r] \in Row
    BY DEF Known, TypeOK
  <1>2. \A s \in States : [mem[r] EXCEPT !.state = s] \in Row
    BY <1>1, RelabelledRow
  <1>3. CycleRow(r) \in Row
    BY <1>1, ChangedRows, ShaHist DEF CycleRow, States
  <1>4. ASSUME NEW c \in Calls, Rep(c) = r, calls[c].seen \in Sha
        PROVE  /\ \A passed \in BOOLEAN : CompleteRow(c, passed) \in Row
               /\ PushedRow(c) \in Row
    <2>1. ASSUME NEW passed \in BOOLEAN PROVE CompleteRow(c, passed) \in Row
      <3> DEFINE s == IF passed THEN "READY_TO_PUSH" ELSE "FEEDBACK_READY"
                 n == IF calls[c].seen = mem[r].current THEN mem[r].created
                      ELSE mem[r].created + 1
      <3>1. s \in States /\ n \in Nat
        BY <1>1 DEF States, Row
      <3>2. CompleteRow(c, passed)
              = [mem[r] EXCEPT !.state = s, !.created = n, !.current = calls[c].seen]
        BY <1>4 DEF CompleteRow
      <3> HIDE DEF s, n
      <3>3. [mem[r] EXCEPT !.state = s, !.created = n, !.current = calls[c].seen] \in Row
        BY <1>1, <1>4, <3>1, ChangedRows
      <3> QED
        BY <3>2, <3>3
    <2>2. PushedRow(c) \in Row
      BY <1>1, <1>4, ChangedRows DEF PushedRow, States
    <2> QED
      BY <2>1, <2>2
  <1>5. \A c \in Calls : At(c, "complete:save") \/ At(c, "push:verify")
                           => calls[c].seen \in Sha
    BY DEF Known, CallsKnown, HeadSteps, At
  <1> QED
    BY <1>1, <1>2, <1>3, <1>4, <1>5

(* A call past its attach, and not idle, is of a session that exists.      *)
LEMMA CallOfSession ==
  ASSUME Known, NEW c \in Calls, ~At(c, "idle"), calls[c].at \notin AttachSteps
  PROVE  Rep(c) \in Repairs /\ Exists(Rep(c))
  BY DEF Known, CallsKnown, At

(* The rows that handlers relabel.                                         *)
LEMMA RelabelUpdates ==
  ASSUME Known, NEW base \in [Calls -> Call], NEW r \in Repairs, NEW s \in States,
         s \in {"REPAIRING", "BLOCKED"} => s = mem[r].state,
         \/ Save(base, r, [mem[r] EXCEPT !.state = s])
         \/ SaveThrows(base, r, [mem[r] EXCEPT !.state = s])
  PROVE  /\ Relabelled(r)
         /\ mem' \in [Repairs -> Row] /\ disk' \in [Repairs -> Row]
         /\ faults' \in Nat
         /\ calls' \in [Calls -> Call]
         /\ \A c \in Calls : SameCall(c, base[c])
  <1>1. [mem[r] EXCEPT !.state = s] \in Row
    BY WrittenRows
  <1>2. TypeOK
    BY DEF Known
  <1>3. /\ Written(r, [mem[r] EXCEPT !.state = s])
        /\ mem' \in [Repairs -> Row] /\ disk' \in [Repairs -> Row]
        /\ faults' \in Nat
        /\ calls' \in [Calls -> Call]
        /\ \A c \in Calls : SameCall(c, base[c])
    BY <1>1, <1>2, Update
  <1>4. Relabelled(r)
    BY <1>3 DEF Relabelled
  <1> QED
    BY <1>3, <1>4

SessionTyped ==
  /\ mem' \in [Repairs -> Row] /\ disk' \in [Repairs -> Row]
  /\ faults' \in Nat /\ calls' \in [Calls -> Call]

(* The actions that only relabel a row: what they do to the session and    *)
(* to the calls.                                                           *)
LEMMA Relabels ==
  ASSUME Known, NEW r \in Repairs,
         PlanSet(r) \/ PostReviewResponse(r) \/ ListReviewThreads(r)
  PROVE  Relabelled(r) /\ SessionTyped /\ \A c \in Calls : SameCall(c, calls[c])
  <1>1. calls \in [Calls -> Call] /\ mem[r] \in Row
    BY DEF Known, TypeOK
  <1>2. CASE PlanSet(r) \/ PostReviewResponse(r)
    <2>1. PICK s \in States \ {"REPAIRING", "BLOCKED"} :
            \/ Save(calls, r, [mem[r] EXCEPT !.state = s])
            \/ SaveThrows(calls, r, [mem[r] EXCEPT !.state = s])
      BY <1>2 DEF PlanSet, PostReviewResponse, States
    <2> QED
      BY <1>1, <2>1, RelabelUpdates DEF SessionTyped
  <1>3. CASE ListReviewThreads(r)
    <2>1. /\ mem[r] = [mem[r] EXCEPT !.state = mem[r].state]
          /\ mem[r].state \in States
      BY <1>1, SameRow
    <2>2. Save(calls, r, mem[r]) \/ SaveThrows(calls, r, mem[r])
      BY <1>3 DEF ListReviewThreads
    <2> DEFINE s == mem[r].state
    <2>3. \/ Save(calls, r, [mem[r] EXCEPT !.state = s])
          \/ SaveThrows(calls, r, [mem[r] EXCEPT !.state = s])
      BY <2>1, <2>2
    <2> QED
      BY <1>1, <2>1, <2>3, RelabelUpdates DEF SessionTyped
  <1> QED
    BY <1>2, <1>3

LEMMA RelabelsOfCalls ==
  ASSUME Known, NEW c \in Calls, StartSave(c) \/ CiVerdict(c)
  PROVE  /\ Rep(c) \in Repairs /\ Exists(Rep(c))
         /\ Relabelled(Rep(c)) /\ SessionTyped
         /\ \A d \in Calls : SameCall(d, Finished(c)[d])
  <1>1. Finished(c) \in [Calls -> Call] /\ Rep(c) \in Repairs /\ Exists(Rep(c))
    BY Bases, CallOfSession DEF Known, StartSave, CiVerdict, At, AttachSteps
  <1>2. PICK s \in States \ {"REPAIRING", "BLOCKED"} :
          \/ Save(Finished(c), Rep(c), [mem[Rep(c)] EXCEPT !.state = s])
          \/ SaveThrows(Finished(c), Rep(c), [mem[Rep(c)] EXCEPT !.state = s])
    BY DEF StartSave, CiVerdict, Verdicts, States
  <1> QED
    BY <1>1, <1>2, RelabelUpdates DEF SessionTyped

(* The other updates: those that need no call, and those that end one.     *)
LEMMA CycleUpdates ==
  ASSUME Known, NEW r \in Repairs
  PROVE  /\ CycleStart(r) => SessionTyped /\ Written(r, CycleRow(r))
         /\ CycleRefuse(r)
              => SessionTyped /\ Written(r, [mem[r] EXCEPT !.state = "BLOCKED"])
         /\ CycleStart(r) \/ CycleRefuse(r) => \A d \in Calls : SameCall(d, calls[d])
  <1>1. TypeOK /\ calls \in [Calls -> Call]
    BY DEF Known, TypeOK
  <1>2. ASSUME CycleStart(r)
        PROVE  /\ SessionTyped /\ Written(r, CycleRow(r))
               /\ \A d \in Calls : SameCall(d, calls[d])
    <2>1. CycleRow(r) \in Row
      BY WrittenRows
    <2> QED
      BY <1>1, <1>2, <2>1, Update DEF CycleStart, SessionTyped
  <1>3. ASSUME CycleRefuse(r)
        PROVE  /\ SessionTyped /\ Written(r, [mem[r] EXCEPT !.state = "BLOCKED"])
               /\ \A d \in Calls : SameCall(d, calls[d])
    <2>1. [mem[r] EXCEPT !.state = "BLOCKED"] \in Row
      BY WrittenRows DEF States
    <2> QED
      BY <1>1, <1>3, <2>1, Update DEF CycleRefuse, SessionTyped
  <1> QED
    BY <1>2, <1>3

LEMMA OtherUpdates ==
  ASSUME Known, NEW r \in Repairs, NEW c \in Calls
  PROVE  /\ AttachCreate(c, r)
              => /\ SessionTyped /\ Written(r, Created(calls[c].task, remote))
                 /\ calls[c].task \in Tasks
                 /\ \A d \in Calls : SameCall(d, [calls EXCEPT ![c].at = "attach:task"][d])
         /\ CompleteSave(c)
              => /\ Rep(c) \in Repairs /\ Exists(Rep(c)) /\ SessionTyped
                 /\ \E passed \in BOOLEAN : Written(Rep(c), CompleteRow(c, passed))
                 /\ \A d \in Calls : SameCall(d, Finished(c)[d])
         /\ PushVerify(c)
              => /\ Rep(c) \in Repairs /\ Exists(Rep(c)) /\ SessionTyped
                 /\ Written(Rep(c), PushedRow(c))
                 /\ \A d \in Calls : SameCall(d, Finished(c)[d])
  <1>1. TypeOK
    BY DEF Known
  <1>2. ASSUME AttachCreate(c, r)
        PROVE  /\ SessionTyped /\ Written(r, Created(calls[c].task, remote))
               /\ calls[c].task \in Tasks
               /\ \A d \in Calls : SameCall(d, [calls EXCEPT ![c].at = "attach:task"][d])
    <2>1. calls[c].task \in Tasks
      BY <1>2 DEF AttachCreate, At, Known, CallsKnown, AttachSteps
    <2>2. Created(calls[c].task, remote) \in Row
      BY <1>1, <2>1, NewRow DEF TypeOK
    <2> QED
      BY <1>1, <1>2, <2>1, <2>2, Bases, Update DEF AttachCreate, SessionTyped
  <1>3. ASSUME CompleteSave(c)
        PROVE  /\ Rep(c) \in Repairs /\ Exists(Rep(c)) /\ SessionTyped
               /\ \E passed \in BOOLEAN : Written(Rep(c), CompleteRow(c, passed))
               /\ \A d \in Calls : SameCall(d, Finished(c)[d])
    <2>1. Rep(c) \in Repairs /\ Exists(Rep(c))
      BY <1>3, CallOfSession DEF CompleteSave, At, AttachSteps
    <2>2. PICK passed \in BOOLEAN :
            \/ Save(Finished(c), Rep(c), CompleteRow(c, passed))
            \/ SaveThrows(Finished(c), Rep(c), CompleteRow(c, passed))
      <3> DEFINE x == mem[Rep(c)].task \in evidence
      <3>1. {FALSE} \cup {x} \subseteq BOOLEAN
        OBVIOUS
      <3> QED
        BY <1>3, <3>1 DEF CompleteSave
    <2>3. CompleteRow(c, passed) \in Row
      BY <1>3, <2>1, WrittenRows DEF CompleteSave
    <2> QED
      BY <1>1, <2>1, <2>2, <2>3, Bases, Update DEF SessionTyped
  <1>4. ASSUME PushVerify(c)
        PROVE  /\ Rep(c) \in Repairs /\ Exists(Rep(c)) /\ SessionTyped
               /\ Written(Rep(c), PushedRow(c))
               /\ \A d \in Calls : SameCall(d, Finished(c)[d])
    <2>1. Rep(c) \in Repairs /\ Exists(Rep(c))
      BY <1>4, CallOfSession DEF PushVerify, At, AttachSteps
    <2>2. PushedRow(c) \in Row
      BY <1>4, <2>1, WrittenRows DEF PushVerify
    <2> QED
      BY <1>1, <1>4, <2>1, <2>2, Bases, Update DEF PushVerify, SessionTyped
  <1> QED
    BY <1>2, <1>3, <1>4

-----------------------------------------------------------------------------
(* The kinds of step, as far as the rows and what clients were told are    *)
(* concerned.                                                              *)
SessionMove ==
  \/ UNCHANGED session /\ UNCHANGED told
  \/ Restart
  \/ \E c \in Calls, r \in Repairs : AttachCreate(c, r)
  \/ \E r \in Repairs :
       /\ Exists(r)
       /\ (Relabelled(r) /\ UNCHANGED told) \/ CycleStart(r) \/ CycleRefuse(r)
  \/ \E c \in Calls : CompleteSave(c) \/ PushVerify(c)

(* The kinds of step, as far as the branch and the clones are concerned.   *)
HeadMove ==
  \/ UNCHANGED <<remote, local, history, commits>>
  \/ \E c \in Calls : StartWipe(c) \/ StartClone(c)
  \/ \E c \in Calls, r \in Repairs : PushRepair(c, r)
  \/ \E r \in Repairs : Commit(r) \/ Rewrite(r)
  \/ OthersPush

Histories == [Repairs -> {"kept", "rewritten", "recloned"}]

(* What a step makes of one call.                                          *)
CallMove(c) ==
  \/ SameCall(c, calls[c])
  \/ calls'[c].at = "idle"
  \/ \E t \in Tasks : Attach(c, t)
  \/ \E r \in Repairs :
       \/ AttachCreate(c, r) \/ WorkspaceStart(c, r) \/ CycleComplete(c, r)
       \/ PushRepair(c, r) \/ RefreshCi(c, r)
  \/ \/ StartWipe(c) \/ StartClone(c) \/ StartHead(c)
     \/ CompleteHead(c) \/ CompleteStatus(c) \/ PushHead(c)

(* The steps of a call that neither save nor commit.                       *)
OwnStep(c) ==
  \/ \E t \in Tasks : Attach(c, t)
  \/ \E r \in Repairs :
       \/ WorkspaceStart(c, r) \/ CycleComplete(c, r)
       \/ PushRepair(c, r) \/ RefreshCi(c, r)
  \/ \/ AttachTask(c) \/ StartWipe(c) \/ StartClone(c) \/ StartHead(c)
     \/ CompleteHead(c) \/ CompleteStatus(c) \/ PushHead(c) \/ GiveUp(c)

LEMMA OwnSteps ==
  ASSUME Known, NEW c \in Calls, OwnStep(c)
  PROVE  /\ UNCHANGED session /\ UNCHANGED told
         /\ calls' \in [Calls -> Call]
         /\ \A d \in Calls : CallMove(d)
  <1>t. calls \in [Calls -> Call] /\ mem \in [Repairs -> Row]
        /\ local \in [Repairs -> Sha \cup {NoSha}] /\ Idle \in Call
    BY IdleCall DEF Known, TypeOK
  <1>1. UNCHANGED session /\ UNCHANGED told
    BY DEF OwnStep, Attach, WorkspaceStart, CycleComplete, PushRepair, RefreshCi,
           AttachTask, StartWipe, StartClone, StartHead, CompleteHead,
           CompleteStatus, PushHead, GiveUp
  <1>2. PICK x : calls' = [calls EXCEPT ![c] = x] /\ x \in Call
    <2>1. CASE \E t \in Tasks : Attach(c, t)
      <3>1. PICK t \in Tasks : Attach(c, t)
        BY <2>1
      <3>2. [Idle EXCEPT !.at = "attach:get", !.task = t] \in Call
        BY <1>t DEF Call, Steps
      <3> QED
        BY <3>1, <3>2 DEF Attach
    <2>2. CASE \E r \in Repairs : WorkspaceStart(c, r) \/ PushRepair(c, r)
      <3>1. PICK r \in Repairs : WorkspaceStart(c, r) \/ PushRepair(c, r)
        BY <2>2
      <3>2. /\ [Idle EXCEPT !.at = "start:wipe", !.rep = r] \in Call
            /\ [Idle EXCEPT !.at = "push:head", !.rep = r] \in Call
        BY <1>t DEF Call, Steps
      <3> QED
        BY <3>1, <3>2 DEF WorkspaceStart, PushRepair, Begin
    <2>3. CASE \E r \in Repairs : CycleComplete(c, r)
      <3>1. PICK r \in Repairs : CycleComplete(c, r)
        BY <2>3
      <3>2. [Idle EXCEPT !.at = "complete:head", !.rep = r, !.own = TRUE,
                         !.count = mem[r].created] \in Call
        BY <1>t DEF Call, Steps, Row
      <3> QED
        BY <3>1, <3>2 DEF CycleComplete
    <2>4. CASE \E r \in Repairs : RefreshCi(c, r)
      <3>1. PICK r \in Repairs : RefreshCi(c, r)
        BY <2>4
      <3>2. [Idle EXCEPT !.at = "ci", !.rep = r, !.seen = mem[r].latest] \in Call
        BY <1>t DEF Call, Steps, Row
      <3> QED
        BY <3>1, <3>2 DEF RefreshCi
    <2>5. CASE AttachTask(c) \/ GiveUp(c)
      BY <1>t, <2>5 DEF AttachTask, GiveUp, Return
    <2>6. CASE StartWipe(c) \/ StartClone(c)
      <3>1. \A at \in Steps : [calls[c] EXCEPT !.at = at] \in Call
        BY <1>t DEF Call
      <3>2. "start:clone" \in Steps /\ "start:head" \in Steps
        BY DEF Steps
      <3>3. PICK at \in Steps : calls' = [calls EXCEPT ![c] = [calls[c] EXCEPT !.at = at]]
        BY <1>t, <2>6, <3>2 DEF StartWipe, StartClone, Goto
      <3> QED
        BY <3>1, <3>3
    <2>7. CASE StartHead(c) \/ CompleteHead(c) \/ PushHead(c)
      <3>1. \A at \in Steps, sha \in Sha \cup {NoSha} :
              [calls[c] EXCEPT !.at = at, !.seen = sha] \in Call
        BY <1>t DEF Call
      <3>2. "start:save" \in Steps /\ "complete:status" \in Steps /\ "push:verify" \in Steps
        BY DEF Steps
      <3>3. Rep(c) \in Repairs
        BY <2>7, CallOfSession
           DEF StartHead, CompleteHead, PushHead, At, AttachSteps
      <3>4. PICK at \in Steps :
              calls' = [calls EXCEPT ![c] = [calls[c] EXCEPT !.at = at,
                                                             !.seen = local[Rep(c)]]]
        BY <1>t, <2>7, <3>2 DEF StartHead, CompleteHead, PushHead, Saw
      <3> QED
        BY <1>t, <3>1, <3>3, <3>4
    <2>8. CASE CompleteStatus(c)
      <3>1. [calls[c] EXCEPT !.at = "complete:save", !.own = FALSE, !.count = 0] \in Call
        BY <1>t DEF Call, Steps
      <3> QED
        BY <1>t, <2>8, <3>1 DEF CompleteStatus
    <2> QED
      BY <2>1, <2>2, <2>3, <2>4, <2>5, <2>6, <2>7, <2>8 DEF OwnStep
  <1>3. \A d \in Calls \ {c} : CallMove(d)
    BY <1>t, <1>2 DEF CallMove, SameCall
  <1>4. CallMove(c)
    <2>1. CASE AttachTask(c) \/ GiveUp(c)
      BY <1>t, <2>1 DEF CallMove, AttachTask, GiveUp, Return, Idle
    <2> QED
      BY <2>1 DEF OwnStep, CallMove
  <1> QED
    BY <1>t, <1>1, <1>2, <1>3, <1>4

(* Every step is of one of those kinds and keeps the types.                *)
Rest ==
  /\ remote' \in Sha /\ local' \in [Repairs -> Sha \cup {NoSha}]
  /\ dirty' \subseteq Repairs /\ history' \in Histories
  /\ bound' \subseteq Tasks /\ evidence' \subseteq Tasks
  /\ granted' \in [Repairs -> Nat] /\ acked' \in [Repairs -> Nat]
  /\ commits' \in 0..MaxCommits

Types ==
  /\ remote \in Sha
  /\ local \in [Repairs -> Sha \cup {NoSha}] /\ dirty \subseteq Repairs
  /\ history \in Histories
  /\ mem \in [Repairs -> Row] /\ disk \in [Repairs -> Row]
  /\ bound \subseteq Tasks /\ evidence \subseteq Tasks
  /\ calls \in [Calls -> Call]
  /\ granted \in [Repairs -> Nat] /\ acked \in [Repairs -> Nat]
  /\ commits \in 0..MaxCommits /\ faults \in Nat
  /\ \A r \in Repairs : Exists(r) => mem[r].task \in Tasks

LEMMA KnownTypes ==
  ASSUME Known PROVE Types
  BY DEF Known, TypeOK, Types, Histories, Exists, Row

LEMMA OwnStepRest ==
  ASSUME Known, NEW c \in Calls, OwnStep(c)
  PROVE  Rest /\ HeadMove
  <1>t. Types
    BY KnownTypes
  <1>1. ~At(c, "idle") /\ calls[c].at \notin AttachSteps => Rep(c) \in Repairs
    BY CallOfSession
  <1>2. CASE AttachTask(c)
    <2>1. calls[c].task \in Tasks
      BY <1>2 DEF AttachTask, At, Known, CallsKnown, AttachSteps
    <2> QED
      BY <1>2, <1>t, <2>1 DEF AttachTask, Rest, HeadMove, Types, worker, told
  <1>3. CASE StartWipe(c) \/ StartClone(c)
    <2>1. Rep(c) \in Repairs
      BY <1>1, <1>3 DEF StartWipe, StartClone, At, AttachSteps
    <2>2. /\ local' \in [Repairs -> Sha \cup {NoSha}] /\ dirty' \subseteq Repairs
          /\ history' \in Histories
      BY <1>t, <1>3, <2>1 DEF StartWipe, StartClone, Types, Histories
    <2> QED
      BY <1>3, <1>t, <2>2 DEF StartWipe, StartClone, Rest, HeadMove, Types, told
  <1>4. CASE \E r \in Repairs : PushRepair(c, r)
    <2>1. PICK r \in Repairs : PushRepair(c, r)
      BY <1>4
    <2>2. remote' \in Sha
      BY <1>t, <2>1 DEF PushRepair, FastForward, Types
    <2> QED
      BY <1>t, <2>1, <2>2 DEF PushRepair, Rest, HeadMove, Types, told, worker
  <1>5. CASE \/ \E t \in Tasks : Attach(c, t)
             \/ \E r \in Repairs :
                  WorkspaceStart(c, r) \/ CycleComplete(c, r) \/ RefreshCi(c, r)
             \/ StartHead(c) \/ CompleteHead(c) \/ CompleteStatus(c)
             \/ PushHead(c) \/ GiveUp(c)
    <2>1. UNCHANGED <<remote, worker, bound, evidence, told, commits>>
      BY <1>5 DEF Attach, WorkspaceStart, CycleComplete, RefreshCi, StartHead,
                  CompleteHead, CompleteStatus, PushHead, GiveUp
    <2> QED
      BY <1>t, <2>1 DEF Rest, HeadMove, Types, worker, told
  <1> QED
    BY <1>2, <1>3, <1>4, <1>5 DEF OwnStep

(* The steps that save.                                                    *)
SaveStep ==
  \/ \E c \in Calls, r \in Repairs : AttachCreate(c, r)
  \/ \E c \in Calls : StartSave(c) \/ CompleteSave(c) \/ PushVerify(c) \/ CiVerdict(c)
  \/ \E r \in Repairs :
       \/ PlanSet(r) \/ CycleStart(r) \/ CycleRefuse(r)
       \/ PostReviewResponse(r) \/ ListReviewThreads(r)

LEMMA FinishedMoves ==
  ASSUME Known, NEW c \in Calls, \A d \in Calls : SameCall(d, Finished(c)[d])
  PROVE  \A d \in Calls : CallMove(d)
  <1>1. Finished(c)[c] = Idle /\ \A d \in Calls \ {c} : Finished(c)[d] = calls[d]
    BY DEF Finished, Known, TypeOK
  <1> QED
    BY <1>1 DEF CallMove, SameCall, Idle

LEMMA SaveSteps ==
  ASSUME Known, SaveStep
  PROVE  /\ SessionTyped /\ Rest /\ SessionMove
         /\ UNCHANGED <<remote, local, history, commits>>
         /\ \A c \in Calls : CallMove(c)
  <1>t. Types
    BY KnownTypes
  <1>1. UNCHANGED <<remote, worker, bound, commits>>
    BY DEF SaveStep, AttachCreate, StartSave, CompleteSave, PushVerify, CiVerdict,
           PlanSet, CycleStart, CycleRefuse, PostReviewResponse, ListReviewThreads
  <1>2. SessionTyped /\ SessionMove /\ \A d \in Calls : CallMove(d)
    <2>1. CASE \E c \in Calls, r \in Repairs : AttachCreate(c, r)
      <3>1. PICK c \in Calls, r \in Repairs : AttachCreate(c, r)
        BY <2>1
      <3>2. /\ SessionTyped
            /\ \A d \in Calls : SameCall(d, [calls EXCEPT ![c].at = "attach:task"][d])
        BY <3>1, OtherUpdates
      <3>3. \A d \in Calls \ {c} : SameCall(d, calls[d])
        BY <3>2, <1>t DEF Types
      <3> QED
        BY <3>1, <3>2, <3>3 DEF SessionMove, CallMove
    <2>2. CASE \E c \in Calls : StartSave(c) \/ CiVerdict(c)
      <3>1. PICK c \in Calls : StartSave(c) \/ CiVerdict(c)
        BY <2>2
      <3>2. UNCHANGED told
        BY <3>1 DEF StartSave, CiVerdict
      <3> QED
        BY <3>1, <3>2, RelabelsOfCalls, FinishedMoves DEF SessionMove
    <2>3. CASE \E c \in Calls : CompleteSave(c) \/ PushVerify(c)
      <3>1. PICK c \in Calls : CompleteSave(c) \/ PushVerify(c)
        BY <2>3
      <3>2. Rep(c) \in Repairs
        BY <3>1, CallOfSession DEF CompleteSave, PushVerify, At, AttachSteps
      <3>3. SessionTyped /\ \A d \in Calls : SameCall(d, Finished(c)[d])
        BY <3>1, <3>2, OtherUpdates
      <3> QED
        BY <3>1, <3>3, FinishedMoves DEF SessionMove
    <2>4. CASE \E r \in Repairs : PlanSet(r) \/ PostReviewResponse(r) \/ ListReviewThreads(r)
      <3>1. PICK r \in Repairs : PlanSet(r) \/ PostReviewResponse(r) \/ ListReviewThreads(r)
        BY <2>4
      <3>2. Exists(r) /\ UNCHANGED told
        BY <3>1 DEF PlanSet, PostReviewResponse, ListReviewThreads
      <3>3. Relabelled(r) /\ SessionTyped /\ \A d \in Calls : SameCall(d, calls[d])
        BY <3>1, Relabels
      <3> QED
        BY <3>2, <3>3 DEF SessionMove, CallMove
    <2>5. CASE \E r \in Repairs : CycleStart(r) \/ CycleRefuse(r)
      <3>1. PICK r \in Repairs : CycleStart(r) \/ CycleRefuse(r)
        BY <2>5
      <3>2. Exists(r)
        BY <3>1 DEF CycleStart, CycleRefuse
      <3>3. SessionTyped /\ \A d \in Calls : SameCall(d, calls[d])
        BY <3>1, CycleUpdates
      <3> QED
        BY <3>1, <3>2, <3>3 DEF SessionMove, CallMove
    <2> QED
      BY <2>1, <2>2, <2>3, <2>4, <2>5 DEF SaveStep
  <1>3. evidence' \subseteq Tasks
    <2>1. \A c \in Calls : StartSave(c) \/ PushVerify(c) => Rep(c) \in Repairs /\ Exists(Rep(c))
      BY CallOfSession DEF StartSave, PushVerify, At, AttachSteps
    <2>2. \/ UNCHANGED evidence
          \/ \E r \in Repairs : Exists(r) /\ RecordPassing(r)
      BY <2>1 DEF SaveStep, AttachCreate, StartSave, CompleteSave, PushVerify, CiVerdict,
           PlanSet, CycleStart, CycleRefuse, PostReviewResponse, ListReviewThreads
    <2> QED
      BY <1>t, <2>2 DEF Types, RecordPassing
  <1>4. granted' \in [Repairs -> Nat] /\ acked' \in [Repairs -> Nat]
    <2>1. \A c \in Calls : PushVerify(c) => Rep(c) \in Repairs
      BY CallOfSession DEF PushVerify, At, AttachSteps
    <2>2. \/ UNCHANGED told
          \/ \E r \in Repairs : /\ granted' = [granted EXCEPT ![r] = @ + 1]
                                /\ UNCHANGED acked
          \/ \E r \in Repairs : /\ acked' = [acked EXCEPT ![r] = @ + 1]
                                /\ UNCHANGED granted
      BY <2>1 DEF SaveStep, AttachCreate, StartSave, CompleteSave, PushVerify, CiVerdict,
           PlanSet, CycleStart, CycleRefuse, PostReviewResponse, ListReviewThreads, told
    <2> QED
      BY <1>t, <2>2 DEF Types, told
  <1> QED
    BY <1>1, <1>2, <1>3, <1>4, <1>t DEF Rest, Types, worker

LEMMA WorldSteps ==
  ASSUME Known,
         \/ \E r \in Repairs : PrGet(r) \/ Edit(r) \/ Commit(r) \/ Rewrite(r)
         \/ OthersPush \/ Restart
  PROVE  SessionTyped /\ Rest /\ SessionMove /\ HeadMove /\ \A c \in Calls : CallMove(c)
  <1>t. Types
    BY KnownTypes
  <1>1. CASE \E r \in Repairs : PrGet(r) \/ Edit(r)
    <2>1. PICK r \in Repairs : PrGet(r) \/ Edit(r)
      BY <1>1
    <2>2. UNCHANGED <<remote, local, history, commits, bound, session, told, calls>>
      BY <2>1 DEF PrGet, Edit, worker
    <2>3. dirty' \subseteq Repairs /\ evidence' \subseteq Tasks
      BY <1>t, <2>1 DEF PrGet, Edit, worker, RecordPassing, Types
    <2> QED
      BY <1>t, <2>2, <2>3
         DEF Types, SessionTyped, Rest, session, told, SessionMove, HeadMove, CallMove, SameCall
  <1>2. CASE (\E r \in Repairs : Commit(r)) \/ OthersPush
    <2>1. UNCHANGED <<history, session, told, calls, bound, evidence>>
      BY <1>2 DEF Commit, OthersPush, worker
    <2>2. commits' \in 0..MaxCommits /\ commits' \in 1..MaxCommits
      BY <1>2, <1>t, BoundAssumption DEF Commit, OthersPush, Types
    <2>3. remote' \in Sha /\ local' \in [Repairs -> Sha \cup {NoSha}] /\ dirty' \subseteq Repairs
      <3>1. \A s \in Sha : Append(s, commits') \in Sha
        BY <2>2 DEF Sha
      <3>2. CASE OthersPush
        BY <1>t, <3>1, <3>2 DEF OthersPush, Types, worker
      <3>3. CASE \E r \in Repairs : Commit(r)
        <4>1. PICK r \in Repairs : Commit(r)
          BY <3>3
        <4>2. local[r] \in Sha
          BY <1>t, <4>1 DEF Commit, Types
        <4> QED
          BY <1>t, <3>1, <4>1, <4>2 DEF Commit, Types
      <3> QED
        BY <1>2, <3>2, <3>3
    <2> QED
      BY <1>2, <1>t, <2>1, <2>2, <2>3
         DEF Types, SessionTyped, Rest, session, told, SessionMove, HeadMove, CallMove, SameCall
  <1>3. CASE Restart
    BY <1>3, <1>t, IdleCall
       DEF Restart, Types, SessionTyped, Rest, told, worker, SessionMove, HeadMove, CallMove, Idle
  <1>4. CASE \E r \in Repairs : Rewrite(r)
    <2>1. PICK r \in Repairs : Rewrite(r)
      BY <1>4
    <2>2. UNCHANGED <<remote, commits, session, told, calls, bound, evidence>>
      BY <2>1 DEF Rewrite
    <2>3. dirty' \subseteq Repairs /\ history' \in Histories
      BY <1>t, <2>1 DEF Rewrite, Types, Histories
    <2>4. PICK n \in 0..(Len(local[r]) - 1) :
            local' = [local EXCEPT ![r] = SubSeq(@, 1, n)]
      BY <2>1 DEF Rewrite
    <2>5. local[r] \in Sha
      BY <1>t, <2>1 DEF Rewrite, Types
    <2>6. SubSeq(local[r], 1, n) \in Sha
      BY <2>5, Shortened DEF Sha
    <2>7. local' \in [Repairs -> Sha \cup {NoSha}]
      BY <1>t, <2>4, <2>6 DEF Types
    <2> QED
      BY <1>4, <1>t, <2>2, <2>3, <2>7
         DEF Types, SessionTyped, Rest, session, told, SessionMove, HeadMove, CallMove, SameCall
  <1> QED
    BY <1>1, <1>2, <1>3, <1>4

LEMMA StepMoves ==
  ASSUME Known, [Next]_vars
  PROVE  TypeOK' /\ SessionMove /\ HeadMove /\ \A c \in Calls : CallMove(c)
  <1>t. Types
    BY KnownTypes
  <1>1. SessionTyped /\ Rest => TypeOK'
    BY DEF SessionTyped, Rest, Histories, TypeOK
  <1>2. CASE UNCHANGED vars
    BY <1>t, <1>1, <1>2
       DEF Types, SessionTyped, Rest, vars, session, worker, told,
           SessionMove, HeadMove, CallMove, SameCall
  <1>3. CASE \E c \in Calls : OwnStep(c)
    <2>1. PICK c \in Calls : OwnStep(c)
      BY <1>3
    <2>2. /\ UNCHANGED session /\ UNCHANGED told /\ calls' \in [Calls -> Call]
          /\ \A d \in Calls : CallMove(d)
      BY <2>1, OwnSteps
    <2>3. SessionTyped
      BY <2>2, <1>t DEF SessionTyped, Types, session
    <2> QED
      BY <1>1, <2>1, <2>2, <2>3, OwnStepRest DEF SessionMove
  <1>4. CASE SaveStep
    BY <1>1, <1>4, SaveSteps DEF HeadMove
  <1>5. CASE \/ \E r \in Repairs : PrGet(r) \/ Edit(r) \/ Commit(r) \/ Rewrite(r)
             \/ OthersPush \/ Restart
    BY <1>1, <1>5, WorldSteps
  <1> QED
    BY <1>2, <1>3, <1>4, <1>5
       DEF Next, OwnStep, SaveStep, ListChecks, ListWorkflowRuns, GetReviewThread,
           ClassifyFeedback, GetCiFailureEvidence

-----------------------------------------------------------------------------
(* The same for one session: what a step may write into its row.           *)
Change(q, row) ==
  \/ \E s \in States : /\ s \in {"REPAIRING", "BLOCKED"} => s = mem[q].state
                       /\ row = [mem[q] EXCEPT !.state = s]
  \/ CycleStart(q) /\ row = CycleRow(q)
  \/ CycleRefuse(q) /\ row = [mem[q] EXCEPT !.state = "BLOCKED"]
  \/ \E c \in Calls :
       /\ Rep(c) = q
       /\ \/ CompleteSave(c) /\ \E passed \in BOOLEAN : row = CompleteRow(c, passed)
          \/ PushVerify(c) /\ row = PushedRow(c)

RowMove(q) ==
  \/ mem'[q] = mem[q] /\ disk'[q] = disk[q]
  \/ Restart /\ mem'[q] = disk[q] /\ disk'[q] = disk[q]
  \/ /\ ~Exists(q) /\ mem'[q] = disk'[q]
     /\ \E c \in Calls : AttachCreate(c, q) /\ mem'[q] = Created(calls[c].task, remote)
  \/ /\ Exists(q) /\ disk'[q] \in {disk[q], mem'[q]}
     /\ Change(q, mem'[q])

LEMMA Attachments ==
  ASSUME Known, NEW c \in Calls, NEW r \in Repairs, AttachCreate(c, r)
  PROVE  /\ mem' = [mem EXCEPT ![r] = Created(calls[c].task, remote)]
         /\ disk' = [disk EXCEPT ![r] = Created(calls[c].task, remote)]
         /\ calls[c].task \in Tasks
  BY DEF AttachCreate, Save, At, Known, CallsKnown, AttachSteps

LEMMA RowMoves ==
  ASSUME Known, SessionMove, NEW q \in Repairs
  PROVE  RowMove(q)
  <1>t. mem \in [Repairs -> Row] /\ disk \in [Repairs -> Row]
    BY DEF Known, TypeOK
  <1>1. CASE UNCHANGED session
    BY <1>1 DEF session, RowMove
  <1>2. CASE Restart
    BY <1>2 DEF Restart, RowMove
  <1>3. CASE \E c \in Calls, r \in Repairs : AttachCreate(c, r)
    <2>1. PICK c \in Calls, r \in Repairs : AttachCreate(c, r)
      BY <1>3
    <2>2. ~Exists(r)
      BY <2>1 DEF AttachCreate
    <2> QED
      BY <1>t, <2>1, <2>2, Attachments DEF RowMove
  <1>4. ASSUME NEW r \in Repairs, NEW row, Exists(r), Written(r, row), Change(r, row)
        PROVE  RowMove(q)
    <2>1. CASE q = r
      <3>1. mem'[q] = row /\ disk'[q] \in {disk[q], row}
        BY <1>t, <1>4, <2>1 DEF Written
      <3> QED
        BY <1>4, <2>1, <3>1 DEF RowMove
    <2>2. CASE q # r
      BY <1>t, <1>4, <2>2 DEF Written, RowMove
    <2> QED
      BY <2>1, <2>2
  <1>5. CASE \E r \in Repairs :
               /\ Exists(r)
               /\ (Relabelled(r) /\ UNCHANGED told) \/ CycleStart(r) \/ CycleRefuse(r)
    <2>1. PICK r \in Repairs :
               /\ Exists(r)
               /\ Relabelled(r) \/ CycleStart(r) \/ CycleRefuse(r)
      BY <1>5
    <2>2. PICK row : Written(r, row) /\ Change(r, row)
      BY <2>1, CycleUpdates DEF Relabelled, Change
    <2> QED
      BY <1>4, <2>1, <2>2
  <1>6. CASE \E c \in Calls : CompleteSave(c) \/ PushVerify(c)
    <2>1. PICK c \in Calls : CompleteSave(c) \/ PushVerify(c)
      BY <1>6
    <2>2. Rep(c) \in Repairs /\ Exists(Rep(c))
      BY <2>1, CallOfSession DEF CompleteSave, PushVerify, At, AttachSteps
    <2>3. PICK row : Written(Rep(c), row) /\ Change(Rep(c), row)
      BY <2>1, <2>2, OtherUpdates DEF Change
    <2> QED
      BY <1>4, <2>2, <2>3
  <1> QED
    BY <1>1, <1>2, <1>3, <1>5, <1>6 DEF SessionMove

(* What a session never loses: its task and the head it was attached at.   *)
LEMMA ChangeKeeps ==
  ASSUME Known, NEW q \in Repairs, NEW row, Change(q, row)
  PROVE  row.task = mem[q].task /\ row.original = mem[q].original
  <1>1. mem[q] \in Row
    BY DEF Known, TypeOK
  <1> QED
    BY <1>1 DEF Change, CycleRow, CompleteRow, PushedRow, Row

LEMMA SessionKeeps ==
  ASSUME Known, SessionMove, NEW q \in Repairs
  PROVE  /\ Exists(q) => /\ mem'[q].task = mem[q].task
                         /\ mem'[q].original = mem[q].original
         /\ mem'[q].task = disk'[q].task /\ mem'[q].original = disk'[q].original
         /\ Exists(q)' \/ (mem'[q] = NoRow /\ disk'[q] = NoRow)
         /\ Exists(q)' => Exists(q) \/ \E c \in Calls : AttachCreate(c, q)
  <1>1. /\ mem[q].task = disk[q].task /\ mem[q].original = disk[q].original
        /\ ~Exists(q) => mem[q] = NoRow /\ disk[q] = NoRow
    BY DEF Known, RowsAgree
  <1>2. CASE \/ mem'[q] = mem[q] /\ disk'[q] = disk[q]
             \/ Restart /\ mem'[q] = disk[q] /\ disk'[q] = disk[q]
    BY <1>1, <1>2 DEF Exists
  <1>3. CASE ~Exists(q) /\ mem'[q] = disk'[q]
             /\ \E c \in Calls : AttachCreate(c, q) /\ mem'[q] = Created(calls[c].task, remote)
    <2>1. PICK c \in Calls : AttachCreate(c, q) /\ mem'[q] = Created(calls[c].task, remote)
      BY <1>3
    <2>2. calls[c].task # None
      BY <2>1, Attachments, NoneAssumption
    <2> QED
      BY <1>3, <2>1, <2>2 DEF Exists, Created
  <1>4. CASE Exists(q) /\ disk'[q] \in {disk[q], mem'[q]} /\ Change(q, mem'[q])
    BY <1>1, <1>4, ChangeKeeps DEF Exists
  <1> QED
    BY <1>2, <1>3, <1>4, RowMoves DEF RowMove

(* Only a session that exists has a clone.                                 *)
LEMMA ClonesKeep ==
  ASSUME Known, HeadMove, SessionMove, NEW q \in Repairs, ~Exists(q)'
  PROVE  ~HasClone(q)'
  <1>1. ~Exists(q) /\ local[q] = NoSha
    BY SessionKeeps DEF Known, RowsAgree, Exists, HasClone
  <1>2. local \in [Repairs -> Sha \cup {NoSha}]
    BY DEF Known, TypeOK
  <1>3. \A c \in Calls : StartWipe(c) \/ StartClone(c) => Exists(Rep(c))
    BY CallOfSession DEF StartWipe, StartClone, At, AttachSteps
  <1> QED
    BY <1>1, <1>2, <1>3
       DEF HeadMove, StartWipe, StartClone, PushRepair, Commit, Rewrite, OthersPush,
           HasClone, worker

(* How a call gets to the steps that the invariants speak of.              *)
SameRead(c) ==
  calls'[c].rep = calls[c].rep /\ calls'[c].seen = calls[c].seen

CallArrival(c) ==
  /\ calls'[c].at = "attach:get"
       => \/ At(c, "attach:get") /\ calls'[c].task = calls[c].task
          \/ \E t \in Tasks : Attach(c, t) /\ calls'[c].task = t
  /\ calls'[c].at = "attach:task"
       => /\ calls'[c].task = calls[c].task
          /\ At(c, "attach:task") \/ \E r \in Repairs : AttachCreate(c, r)
  /\ calls'[c].at \in CompleteSteps
       => \/ calls[c].at \in CompleteSteps /\ calls'[c].rep = calls[c].rep
          \/ \E r \in Repairs : CycleComplete(c, r) /\ calls'[c].rep = r
  /\ calls'[c].at \in HeadSteps
       => \/ calls[c].at \in HeadSteps /\ SameRead(c)
          \/ /\ CompleteHead(c) /\ calls'[c].rep = calls[c].rep
             /\ calls'[c].seen = local[Rep(c)]
  /\ calls'[c].at = "push:verify"
       => \/ At(c, "push:verify") /\ SameRead(c)
          \/ /\ PushHead(c) /\ calls'[c].rep = calls[c].rep
             /\ calls'[c].seen = local[Rep(c)]
  /\ calls'[c].at \notin AttachSteps \cup {"idle"}
       => calls'[c].rep \in Repairs /\ Exists(calls'[c].rep)

LEMMA CallArrivals ==
  ASSUME Known, NEW c \in Calls, CallMove(c)
  PROVE  CallArrival(c)
  <1>t. /\ calls \in [Calls -> Call] /\ calls[c] \in Call
        /\ calls[c].at \notin AttachSteps \cup {"idle"} => Rep(c) \in Repairs /\ Exists(Rep(c))
    BY DEF Known, TypeOK, CallsKnown
  <1>1. CASE SameCall(c, calls[c])
    BY <1>t, <1>1 DEF SameCall, CallArrival, SameRead, HeadSteps, CompleteSteps,
                      AttachSteps, At, Rep
  <1>2. CASE calls'[c].at = "idle"
    BY <1>2 DEF CallArrival, HeadSteps, CompleteSteps
  <1>3. CASE \E t \in Tasks : Attach(c, t)
    <2>1. PICK t \in Tasks : Attach(c, t)
      BY <1>3
    <2>2. calls'[c].at = "attach:get" /\ calls'[c].task = t
      BY <1>t, <2>1 DEF Attach, Idle
    <2> QED
      BY <2>1, <2>2 DEF CallArrival, HeadSteps, CompleteSteps, AttachSteps
  <1>4. CASE \E r \in Repairs : AttachCreate(c, r)
    <2>1. PICK r \in Repairs : AttachCreate(c, r)
      BY <1>4
    <2>2. SameCall(c, [calls EXCEPT ![c].at = "attach:task"][c])
      BY <2>1, OtherUpdates
    <2>3. calls'[c].at = "attach:task" /\ calls'[c].task = calls[c].task
      BY <1>t, <2>2 DEF SameCall, Call
    <2> QED
      BY <2>1, <2>3 DEF CallArrival, HeadSteps, CompleteSteps, AttachSteps
  <1>5. CASE \E r \in Repairs : WorkspaceStart(c, r) \/ PushRepair(c, r) \/ RefreshCi(c, r)
    <2>1. PICK r \in Repairs : WorkspaceStart(c, r) \/ PushRepair(c, r) \/ RefreshCi(c, r)
      BY <1>5
    <2>2. /\ calls'[c].at \in {"start:wipe", "push:head", "ci"}
          /\ calls'[c].rep = r /\ Exists(r)
      BY <1>t, <2>1 DEF WorkspaceStart, PushRepair, RefreshCi, Begin, Idle
    <2> QED
      BY <2>2 DEF CallArrival, HeadSteps, CompleteSteps, AttachSteps
  <1>6. CASE \E r \in Repairs : CycleComplete(c, r)
    <2>1. PICK r \in Repairs : CycleComplete(c, r)
      BY <1>6
    <2>2. calls'[c].at = "complete:head" /\ calls'[c].rep = r /\ Exists(r)
      BY <1>t, <2>1 DEF CycleComplete, Idle
    <2> QED
      BY <2>1, <2>2 DEF CallArrival, HeadSteps, CompleteSteps, AttachSteps
  <1>7. CASE StartWipe(c) \/ StartClone(c) \/ StartHead(c)
    <2>1. /\ calls'[c].at \in {"start:clone", "start:head", "start:save"}
          /\ calls'[c].rep = Rep(c)
      BY <1>t, <1>7 DEF StartWipe, StartClone, StartHead, Goto, Saw, Call, Rep
    <2>2. Rep(c) \in Repairs /\ Exists(Rep(c))
      BY <1>t, <1>7 DEF StartWipe, StartClone, StartHead, At, AttachSteps
    <2> QED
      BY <2>1, <2>2 DEF CallArrival, HeadSteps, CompleteSteps, AttachSteps
  <1>8. CASE CompleteHead(c) \/ PushHead(c)
    <2>1. /\ CompleteHead(c) => calls'[c].at = "complete:status" /\ At(c, "complete:head")
          /\ PushHead(c) => calls'[c].at = "push:verify"
          /\ calls'[c].rep = calls[c].rep /\ calls'[c].seen = local[Rep(c)]
      BY <1>t, <1>8 DEF CompleteHead, PushHead, Saw, Call
    <2>2. Rep(c) \in Repairs /\ Exists(Rep(c))
      BY <1>t, <1>8 DEF CompleteHead, PushHead, At, AttachSteps
    <2> QED
      BY <1>8, <2>1, <2>2 DEF CallArrival, HeadSteps, CompleteSteps, AttachSteps, At, Rep
  <1>9. CASE CompleteStatus(c)
    <2>1. /\ calls'[c].at = "complete:save" /\ SameRead(c)
          /\ At(c, "complete:status")
      BY <1>t, <1>9 DEF CompleteStatus, SameRead, Call
    <2>2. Rep(c) \in Repairs /\ Exists(Rep(c))
      BY <1>t, <2>1 DEF At, AttachSteps
    <2> QED
      BY <2>1, <2>2 DEF CallArrival, SameRead, HeadSteps, CompleteSteps, AttachSteps, At, Rep
  <1> QED
    BY <1>1, <1>2, <1>3, <1>4, <1>5, <1>6, <1>7, <1>8, <1>9 DEF CallMove

(* What every call may rely on is kept by every step.                      *)
LEMMA KnownInit == Init => Known
  <1> SUFFICES ASSUME Init PROVE Known
    OBVIOUS
  <1>1. NoRow \in Row
    BY NewRow, ShaHist DEF NoRow
  <1>2. TypeOK
    BY <1>1, IdleCall, ShaHist, BoundAssumption DEF Init, TypeOK
  <1>3. CallsKnown
    BY DEF Init, CallsKnown, Idle, AttachSteps, HeadSteps
  <1>4. RowsAgree
    BY DEF Init, RowsAgree, HasClone
  <1> QED
    BY <1>2, <1>3, <1>4 DEF Known

LEMMA KnownStep ==
  ASSUME Known, [Next]_vars
  PROVE  Known'
  <1>1. TypeOK' /\ SessionMove /\ HeadMove /\ \A c \in Calls : CallMove(c)
    BY StepMoves
  <1>2. CallsKnown'
    <2> SUFFICES ASSUME NEW c \in Calls
                 PROVE  /\ calls'[c].at \in AttachSteps => calls'[c].task \in Tasks
                        /\ calls'[c].at \notin AttachSteps \cup {"idle"} =>
                             calls'[c].rep \in Repairs /\ mem'[calls'[c].rep].task # None
                        /\ calls'[c].at \in HeadSteps \cup {"push:verify"} =>
                             calls'[c].seen \in Sha
      BY DEF CallsKnown, Rep, Exists
    <2>1. CallArrival(c)
      BY <1>1, CallArrivals
    <2>2. \A q \in Repairs : Exists(q) => Exists(q)'
      BY <1>1, SessionKeeps DEF Exists
    <2>3. /\ calls[c].at \in AttachSteps => calls[c].task \in Tasks
          /\ calls[c].at \in HeadSteps \cup {"push:verify"} => calls[c].seen \in Sha
      BY DEF Known, CallsKnown
    <2>4. CompleteHead(c) \/ PushHead(c) => local[Rep(c)] \in Sha
      <3>1. CompleteHead(c) \/ PushHead(c) => Rep(c) \in Repairs
        BY CallOfSession DEF CompleteHead, PushHead, At, AttachSteps
      <3>2. \A r \in Repairs : local[r] # NoSha => local[r] \in Sha
        BY DEF Known, TypeOK
      <3> QED
        BY <3>1, <3>2 DEF CompleteHead, PushHead, HasClone
    <2>5. calls'[c].at \in AttachSteps => calls'[c].task \in Tasks
      <3>1. \A r \in Repairs : AttachCreate(c, r) => At(c, "attach:get")
        BY DEF AttachCreate
      <3> QED
        BY <2>1, <2>3, <3>1 DEF CallArrival, AttachSteps, At
    <2>6. calls'[c].at \notin AttachSteps \cup {"idle"}
            => calls'[c].rep \in Repairs /\ mem'[calls'[c].rep].task # None
      BY <2>1, <2>2 DEF CallArrival, Exists
    <2>7. calls'[c].at \in HeadSteps \cup {"push:verify"} => calls'[c].seen \in Sha
      BY <2>1, <2>3, <2>4 DEF CallArrival, SameRead, HeadSteps, At
    <2> QED
      BY <2>5, <2>6, <2>7
  <1>3. RowsAgree'
    <2>1. ASSUME NEW q \in Repairs
          PROVE  /\ mem'[q].task = disk'[q].task /\ mem'[q].original = disk'[q].original
                 /\ ~Exists(q)' => mem'[q] = NoRow /\ disk'[q] = NoRow /\ ~HasClone(q)'
      BY <1>1, SessionKeeps, ClonesKeep
    <2> QED
      BY <2>1 DEF RowsAgree
  <1> QED
    BY <1>1, <1>2, <1>3 DEF Known

(* TypeOK: what the cached and the saved rows, the clones and the calls in *)
(* flight are, through every overlap of the tools, saves that throw and    *)
(* restarts, is what the handlers of phase8-tools.ts take them to be.      *)
THEOREM TypeCorrect == Spec => []TypeOK
  <1>1. Init => Known
    BY KnownInit
  <1>2. Known /\ [Next]_vars => Known'
    BY KnownStep
  <1>3. Known => TypeOK
    BY DEF Known
  <1> QED
    BY <1>1, <1>2, <1>3, PTL DEF Spec

-----------------------------------------------------------------------------
(* CycleAccounts: the account of one session, of its cached row m and its  *)
(* saved row d, the cycles g granted, the pushes a answered and the saves  *)
(* f that threw.                                                           *)
Account(g, a, f, m, d) ==
  /\ g <= d.cycles /\ d.cycles <= m.cycles /\ m.cycles <= CycleLimit
  /\ m.cycles <= g + f
  /\ a <= d.published /\ d.published <= m.published
  /\ m.state = "BLOCKED" => m.cycles = CycleLimit
  /\ d.state = "BLOCKED" => d.cycles = CycleLimit

Accounts ==
  \A r \in Repairs : Account(granted[r], acked[r], faults, mem[r], disk[r])

LEMMA AccountsInit == Init => Accounts
  BY LimitAssumption DEF Init, Accounts, Account, NoRow, Created

(* More faults, and a save that throws, leave the account in order; so     *)
(* does a restart.                                                         *)
LEMMA AccountKeeps ==
  ASSUME NEW g \in Nat, NEW a \in Nat, NEW f \in Nat, NEW h \in Nat, f <= h,
         NEW m \in Row, NEW d \in Row, Account(g, a, f, m, d)
  PROVE  Account(g, a, h, m, d) /\ Account(g, a, h, d, d)
  BY LimitAssumption DEF Account, Row

(* A step that tells nobody anything: rows whose counters stay.            *)
LEMMA AccountRelabel ==
  ASSUME NEW g \in Nat, NEW a \in Nat, NEW f \in Nat, NEW m \in Row, NEW d \in Row,
         Account(g, a, f, m, d),
         NEW n \in Row, n.cycles = m.cycles, n.published = m.published,
         n.state = "BLOCKED" => m.cycles = CycleLimit
  PROVE  Account(g, a, f, n, n) /\ Account(g, a, f, n, d)
  BY LimitAssumption DEF Account, Row

LEMMA AccountsStep ==
  ASSUME Known, Accounts, [Next]_vars
  PROVE  Accounts'
  <1>t. /\ mem \in [Repairs -> Row] /\ disk \in [Repairs -> Row] /\ faults \in Nat
        /\ granted \in [Repairs -> Nat] /\ acked \in [Repairs -> Nat]
    BY BoundAssumption DEF Known, TypeOK
  <1>m. SessionMove
    BY StepMoves
  <1>a. ASSUME NEW q \in Repairs
        PROVE  Account(granted[q], acked[q], faults, mem[q], disk[q])
    BY DEF Accounts
  <1>l. CycleLimit \in Nat
    BY LimitAssumption
  <1>1. CASE UNCHANGED session /\ UNCHANGED told
    BY <1>1 DEF Accounts, session, told
  <1>2. CASE Restart
    <2>1. ASSUME NEW q \in Repairs
          PROVE  Account(granted[q], acked[q], faults, disk[q], disk[q])
      BY <1>t, <1>a, AccountKeeps
    <2> QED
      BY <1>2, <2>1 DEF Restart, Accounts, told
  <1>3. CASE \E c \in Calls, r \in Repairs : AttachCreate(c, r)
    <2>1. PICK c \in Calls, r \in Repairs : AttachCreate(c, r)
      BY <1>3
    <2>2. UNCHANGED <<told, faults>>
      BY <2>1 DEF AttachCreate, Save
    <2>3. Account(granted[r], acked[r], faults, NoRow, NoRow)
      BY <2>1, <1>a DEF Known, RowsAgree, AttachCreate
    <2>4. /\ mem' = [mem EXCEPT ![r] = Created(calls[c].task, remote)]
          /\ disk' = [disk EXCEPT ![r] = Created(calls[c].task, remote)]
      BY <2>1, Attachments
    <2>5. Account(granted[r], acked[r], faults, mem'[r], disk'[r])
      BY <2>3, <2>4, <1>t DEF Account, NoRow, Created
    <2>6. ASSUME NEW q \in Repairs \ {r} PROVE mem'[q] = mem[q] /\ disk'[q] = disk[q]
      BY <2>4, <1>t
    <2> QED
      BY <1>a, <2>2, <2>5, <2>6 DEF Accounts, told
  <1>w. ASSUME NEW r \in Repairs, NEW row \in Row, Written(r, row), UNCHANGED told,
               row.cycles = mem[r].cycles, row.published = mem[r].published,
               row.state = "BLOCKED" => mem[r].cycles = CycleLimit
        PROVE  Accounts'
    <2>1. faults' \in Nat /\ faults <= faults'
      BY <1>t, <1>w DEF Written
    <2>2. /\ mem'[r] = row /\ disk'[r] \in {row, disk[r]}
          /\ \A q \in Repairs \ {r} : mem'[q] = mem[q] /\ disk'[q] = disk[q]
      BY <1>t, <1>w DEF Written
    <2>3. ASSUME NEW q \in Repairs
          PROVE  Account(granted[q], acked[q], faults', mem'[q], disk'[q])
      <3>1. Account(granted[q], acked[q], faults', mem[q], disk[q])
        BY <1>t, <1>a, <2>1, AccountKeeps
      <3>2. CASE q = r
        <4>1. Account(granted[q], acked[q], faults', row, row)
              /\ Account(granted[q], acked[q], faults', row, disk[q])
          BY <1>t, <1>w, <2>1, <3>1, <3>2, AccountRelabel
        <4> QED
          BY <2>2, <3>2, <4>1
      <3> QED
        BY <2>2, <3>1, <3>2
    <2> QED
      BY <1>w, <2>3 DEF Accounts, told
  <1>4. CASE \E r \in Repairs : Exists(r) /\ Relabelled(r) /\ UNCHANGED told
    <2>1. PICK r \in Repairs : Relabelled(r) /\ UNCHANGED told
      BY <1>4
    <2>2. PICK s \in States :
            /\ s \in {"REPAIRING", "BLOCKED"} => s = mem[r].state
            /\ Written(r, [mem[r] EXCEPT !.state = s])
      BY <2>1 DEF Relabelled
    <2> DEFINE row == [mem[r] EXCEPT !.state = s]
    <2>3. row \in Row /\ row.cycles = mem[r].cycles /\ row.published = mem[r].published
          /\ row.state = s
      BY <1>t, RelabelledRow DEF Row
    <2>4. row.state = "BLOCKED" => mem[r].cycles = CycleLimit
      BY <1>a, <2>2, <2>3 DEF Account
    <2> HIDE DEF row
    <2> QED
      BY <1>w, <2>1, <2>2, <2>3, <2>4 DEF row
  <1>5. CASE \E r \in Repairs : CycleRefuse(r)
    <2>1. PICK r \in Repairs : CycleRefuse(r)
      BY <1>5
    <2> DEFINE row == [mem[r] EXCEPT !.state = "BLOCKED"]
    <2>2. Written(r, row) /\ UNCHANGED told
      BY <2>1, CycleUpdates DEF CycleRefuse
    <2>3. row \in Row /\ row.cycles = mem[r].cycles /\ row.published = mem[r].published
      <3>1. "BLOCKED" \in States
        BY DEF States
      <3> QED
        BY <1>t, <3>1, RelabelledRow DEF Row
    <2>4. mem[r].cycles = CycleLimit
      BY <1>t, <1>a, <1>l, <2>1 DEF CycleRefuse, Exhausted, Account, Row
    <2> HIDE DEF row
    <2> QED
      BY <1>w, <2>2, <2>3, <2>4
  <1>6. CASE \E r \in Repairs : CycleStart(r)
    <2>1. PICK r \in Repairs : CycleStart(r)
      BY <1>6
    <2>2. /\ mem[r].cycles < CycleLimit /\ CycleRow(r).cycles = mem[r].cycles + 1
          /\ CycleRow(r).published = mem[r].published
          /\ CycleRow(r).state = "REPAIRING"
      BY <1>t, <1>l, <2>1 DEF CycleStart, Exhausted, CycleRow, Row
    <2>3. \A q \in Repairs \ {r} :
            mem'[q] = mem[q] /\ disk'[q] = disk[q] /\ granted'[q] = granted[q]
      BY <1>t, <2>1 DEF CycleStart, Save, SaveThrows
    <2>4. mem'[r] = CycleRow(r) /\ acked' = acked
      BY <1>t, <2>1 DEF CycleStart, Save, SaveThrows
    <2>5. \/ disk'[r] = CycleRow(r) /\ granted'[r] = granted[r] + 1 /\ faults' = faults
          \/ disk'[r] = disk[r] /\ granted'[r] = granted[r] /\ faults' = faults + 1
      BY <1>t, <2>1 DEF CycleStart, Save, SaveThrows
    <2>6. Account(granted'[r], acked[r], faults', mem'[r], disk'[r])
      BY <1>t, <1>a, <1>l, <2>2, <2>4, <2>5 DEF Account, Row
    <2>7. ASSUME NEW q \in Repairs \ {r}
          PROVE  Account(granted[q], acked[q], faults', mem[q], disk[q])
      <3>1. faults' \in Nat /\ faults <= faults'
        BY <1>t, <2>5
      <3> QED
        BY <1>t, <1>a, <3>1, AccountKeeps
    <2> QED
      BY <2>3, <2>4, <2>6, <2>7 DEF Accounts
  <1>7. CASE \E c \in Calls : CompleteSave(c)
    <2>1. PICK c \in Calls : CompleteSave(c)
      BY <1>7
    <2>2. Rep(c) \in Repairs /\ UNCHANGED told
      BY <2>1, OtherUpdates, CallOfSession DEF CompleteSave, At, AttachSteps
    <2>3. PICK passed \in BOOLEAN : Written(Rep(c), CompleteRow(c, passed))
      BY <2>1, <2>2, OtherUpdates
    <2> DEFINE row == CompleteRow(c, passed)
    <2>4. row \in Row
      BY <2>1, <2>2, WrittenRows DEF CompleteSave
    <2>5. /\ row.cycles = mem[Rep(c)].cycles /\ row.published = mem[Rep(c)].published
          /\ row.state # "BLOCKED"
      BY <1>t, <2>2 DEF CompleteRow, Row
    <2> HIDE DEF row
    <2> QED
      BY <1>w, <2>2, <2>3, <2>4, <2>5 DEF row
  <1>8. CASE \E c \in Calls : PushVerify(c)
    <2>1. PICK c \in Calls : PushVerify(c)
      BY <1>8
    <2> DEFINE r == Rep(c)
    <2>2. r \in Repairs
      BY <2>1, CallOfSession DEF PushVerify, At, AttachSteps
    <2> HIDE DEF r
    <2>3. /\ PushedRow(c).cycles = mem[r].cycles
          /\ PushedRow(c).published = mem[r].published + 1
          /\ PushedRow(c).state = "WAITING_FOR_CI"
      BY <1>t, <2>2 DEF PushedRow, Row, r
    <2>4. \A q \in Repairs \ {r} :
            mem'[q] = mem[q] /\ disk'[q] = disk[q] /\ acked'[q] = acked[q]
      BY <1>t, <2>1, <2>2 DEF PushVerify, Save, SaveThrows, r
    <2>5. mem'[r] = PushedRow(c) /\ granted' = granted
      BY <1>t, <2>1, <2>2 DEF PushVerify, Save, SaveThrows, r
    <2>6. \/ disk'[r] = PushedRow(c) /\ acked'[r] = acked[r] + 1 /\ faults' = faults
          \/ disk'[r] = disk[r] /\ acked'[r] = acked[r] /\ faults' = faults + 1
      BY <1>t, <2>1, <2>2 DEF PushVerify, Save, SaveThrows, r
    <2>7. Account(granted[r], acked'[r], faults', mem'[r], disk'[r])
      BY <1>t, <1>a, <1>l, <2>2, <2>3, <2>5, <2>6 DEF Account, Row
    <2>8. ASSUME NEW q \in Repairs \ {r}
          PROVE  Account(granted[q], acked[q], faults', mem[q], disk[q])
      <3>1. faults' \in Nat /\ faults <= faults'
        BY <1>t, <2>6
      <3> QED
        BY <1>t, <1>a, <3>1, AccountKeeps
    <2> QED
      BY <2>4, <2>5, <2>7, <2>8 DEF Accounts
  <1> QED
    BY <1>m, <1>1, <1>2, <1>3, <1>4, <1>5, <1>6, <1>7, <1>8 DEF SessionMove

(* CycleAccounts: no save that throws, no restart and no overlap of the    *)
(* tools of phase8-tools.ts gives a session more cycles than its limit,    *)
(* forgets a cycle or a push that a client was told of, or leaves it       *)
(* BLOCKED with cycles to spend.                                           *)
THEOREM CyclesAccounted == Spec => []CycleAccounts
  <1>1. Init => Known /\ Accounts
    BY KnownInit, AccountsInit
  <1>2. Known /\ Accounts /\ [Next]_vars => Known' /\ Accounts'
    BY KnownStep, AccountsStep
  <1>3. Accounts => CycleAccounts
    BY DEF Accounts, Account, CycleAccounts
  <1> QED
    BY <1>1, <1>2, <1>3, PTL DEF Spec

-----------------------------------------------------------------------------
(* OneRepairPerTask, from what the lock per task makes of attach.          *)
OneAttach ==
  \A c, d \in Calls :
    /\ calls[c].at \in AttachSteps /\ calls[d].at \in AttachSteps
    /\ calls[c].task = calls[d].task
    => c = d

NotYetSaved ==
  \A c \in Calls :
    At(c, "attach:get") => \A r \in Repairs : disk[r].task # calls[c].task

AlreadySaved ==
  \A c \in Calls :
    At(c, "attach:task") => \E r \in Repairs : disk[r].task = calls[c].task

Attaching == OneAttach /\ NotYetSaved /\ AlreadySaved /\ OneRepairPerTask

LEMMA AttachingInit == Init => Attaching
  BY DEF Init, Attaching, OneAttach, NotYetSaved, AlreadySaved, OneRepairPerTask,
         Idle, At, AttachSteps, Exists, NoRow, Created

(* Only the end of an attach binds a task.                                 *)
LEMMA BoundMoves ==
  ASSUME [Next]_vars
  PROVE  UNCHANGED bound \/ \E c \in Calls : AttachTask(c)
  BY DEF Next, vars, Attach, AttachCreate, WorkspaceStart, CycleComplete, PushRepair,
         RefreshCi, StartWipe, StartClone, StartHead, StartSave, CompleteHead,
         CompleteStatus, CompleteSave, PushHead, PushVerify, CiVerdict, GiveUp, PlanSet,
         CycleStart, CycleRefuse, PrGet, PostReviewResponse, ListReviewThreads,
         ListChecks, ListWorkflowRuns, GetReviewThread, ClassifyFeedback,
         GetCiFailureEvidence, Edit, Commit, Rewrite, OthersPush, Restart

LEMMA AttachingStep ==
  ASSUME Known, Attaching, [Next]_vars
  PROVE  Attaching'
  <1>t. calls \in [Calls -> Call] /\ mem \in [Repairs -> Row] /\ disk \in [Repairs -> Row]
    BY DEF Known, TypeOK
  <1>k. \A q \in Repairs : mem[q].task = disk[q].task
    BY DEF Known, RowsAgree
  <1>m. SessionMove /\ \A c \in Calls : CallMove(c) /\ CallArrival(c)
    BY StepMoves, CallArrivals
  <1>i. OneAttach /\ NotYetSaved /\ AlreadySaved /\ OneRepairPerTask
    BY DEF Attaching
  <1>s. \A q \in Repairs :
          /\ mem'[q].task = disk'[q].task
          /\ Exists(q) => mem'[q].task = mem[q].task
          /\ mem'[q].task # None => Exists(q) \/ \E c \in Calls : AttachCreate(c, q)
    BY <1>m, SessionKeeps DEF Exists
  <1>c. ASSUME NEW c \in Calls, NEW r \in Repairs, AttachCreate(c, r)
        PROVE  /\ mem'[r].task = calls[c].task /\ disk'[r].task = calls[c].task
               /\ \A q \in Repairs \ {r} : mem'[q] = mem[q] /\ disk'[q] = disk[q]
               /\ At(c, "attach:get") /\ calls'[c].at = "attach:task"
    <2>1. SameCall(c, [calls EXCEPT ![c].at = "attach:task"][c])
      BY <1>c, OtherUpdates
    <2>2. calls'[c].at = "attach:task"
      BY <1>t, <2>1 DEF SameCall, Call
    <2>3. At(c, "attach:get")
      BY <1>c DEF AttachCreate
    <2> QED
      BY <1>t, <1>c, <2>2, <2>3, Attachments DEF Created
  <1>a. ASSUME NEW c \in Calls, NEW t \in Tasks, Attach(c, t)
        PROVE  /\ \A d \in Calls \ {c} : calls'[d] = calls[d]
               /\ \A d \in Calls : calls[d].at \in AttachSteps => calls[d].task # t
               /\ \A r \in Repairs : disk[r].task # t /\ disk'[r] = disk[r]
    BY <1>t, <1>a DEF Attach, AttachFree, AttachSteps, session
  <1>b. ASSUME NEW c \in Calls, calls'[c].at \in AttachSteps
        PROVE  \/ calls[c].at \in AttachSteps /\ calls'[c].task = calls[c].task
               \/ \E t \in Tasks : Attach(c, t) /\ calls'[c].task = t
    BY <1>b, <1>c, <1>m DEF CallArrival, AttachSteps, At
  <1>1. OneAttach'
    <2>1. SUFFICES ASSUME NEW c \in Calls, NEW d \in Calls,
                          calls'[c].at \in AttachSteps, calls'[d].at \in AttachSteps,
                          calls'[c].task = calls'[d].task, c # d
                   PROVE  FALSE
      BY DEF OneAttach
    <2>2. ASSUME NEW x \in Calls, NEW y \in Calls, NEW t \in Tasks, Attach(x, t),
                 x # y, calls'[y].at \in AttachSteps, calls'[y].task = t
          PROVE  FALSE
      BY <1>a, <2>2
    <2>3. CASE \/ \E t \in Tasks : Attach(c, t) /\ calls'[c].task = t
               \/ \E t \in Tasks : Attach(d, t) /\ calls'[d].task = t
      BY <2>1, <2>2, <2>3
    <2>4. CASE /\ calls[c].at \in AttachSteps /\ calls'[c].task = calls[c].task
               /\ calls[d].at \in AttachSteps /\ calls'[d].task = calls[d].task
      BY <1>i, <2>1, <2>4 DEF OneAttach
    <2> QED
      BY <1>b, <2>1, <2>3, <2>4
  <1>2. NotYetSaved'
    <2>1. SUFFICES ASSUME NEW c \in Calls, calls'[c].at = "attach:get",
                          NEW r \in Repairs, disk'[r].task = calls'[c].task
                   PROVE  FALSE
      BY DEF NotYetSaved, At
    <2>2. CASE \E t \in Tasks : Attach(c, t) /\ calls'[c].task = t
      BY <1>a, <2>1, <2>2
    <2>3. CASE At(c, "attach:get") /\ calls'[c].task = calls[c].task
      <3>1. calls[c].task \in Tasks /\ disk[r].task # calls[c].task
        BY <1>i, <2>3 DEF NotYetSaved, Known, CallsKnown, AttachSteps, At
      <3>2. PICK d \in Calls : AttachCreate(d, r)
        BY <1>s, <1>k, <2>1, <2>3, <3>1, NoneAssumption DEF Exists
      <3>3. c # d /\ calls[d].task = calls[c].task /\ At(d, "attach:get")
        BY <1>c, <2>1, <2>3, <3>2
      <3> QED
        BY <1>i, <2>3, <3>3 DEF OneAttach, At, AttachSteps
    <2> QED
      BY <1>m, <2>1, <2>2, <2>3 DEF CallArrival
  <1>3. AlreadySaved'
    <2>1. SUFFICES ASSUME NEW c \in Calls, calls'[c].at = "attach:task"
                   PROVE  \E r \in Repairs : disk'[r].task = calls'[c].task
      BY DEF AlreadySaved, At
    <2>2. /\ calls'[c].task = calls[c].task
          /\ At(c, "attach:task") \/ \E r \in Repairs : AttachCreate(c, r)
      BY <1>m, <2>1 DEF CallArrival
    <2>3. CASE At(c, "attach:task")
      <3>1. PICK r \in Repairs : disk[r].task = calls[c].task
        BY <1>i, <2>3 DEF AlreadySaved
      <3>2. calls[c].task # None
        BY <2>3, NoneAssumption DEF Known, CallsKnown, AttachSteps, At
      <3> QED
        BY <1>k, <1>s, <2>2, <3>1, <3>2 DEF Exists
    <2> QED
      BY <1>c, <2>2, <2>3
  <1>4. OneRepairPerTask'
    <2>1. ASSUME NEW r \in Repairs, NEW q \in Repairs,
                 mem'[r].task # None, mem'[q].task # None, mem'[r].task = mem'[q].task
          PROVE  r = q
      <3>1. CASE Exists(r) /\ Exists(q)
        BY <1>i, <1>s, <2>1, <3>1 DEF OneRepairPerTask
      <3>2. ASSUME NEW x \in Repairs, NEW y \in Repairs, NEW c \in Calls,
                   AttachCreate(c, x), x # y, mem'[x].task = mem'[y].task
            PROVE  FALSE
        BY <1>c, <1>i, <1>k, <3>2 DEF NotYetSaved
      <3> QED
        BY <1>s, <2>1, <3>1, <3>2
    <2>2. ASSUME NEW t \in bound' PROVE \E r \in Repairs : disk'[r].task = t
      <3>1. \E r \in Repairs : disk[r].task = t
        <4>1. CASE t \in bound
          BY <1>i, <4>1 DEF OneRepairPerTask
        <4>2. CASE \E c \in Calls : AttachTask(c) /\ t = calls[c].task
          BY <1>i, <4>2 DEF AttachTask, AlreadySaved
        <4> QED
          BY <2>2, <4>1, <4>2, BoundMoves DEF AttachTask
      <3>2. t # None
        <4>1. t \in Tasks
          BY <2>2, StepMoves DEF TypeOK
        <4> QED
          BY <4>1, NoneAssumption
      <3> QED
        BY <1>k, <1>s, <3>1, <3>2 DEF Exists
    <2> QED
      BY <2>1, <2>2 DEF OneRepairPerTask, Exists
  <1> QED
    BY <1>1, <1>2, <1>3, <1>4 DEF Attaching

(* OneRepairPerTask: however attaches overlap, and whatever fails between  *)
(* the row that createPRRepair saves and the update of the task, no task   *)
(* gets two repair sessions, and none names a session that is not on disk. *)
THEOREM OneRepair == Spec => []OneRepairPerTask
  <1>1. Init => Known /\ Attaching
    BY KnownInit, AttachingInit
  <1>2. Known /\ Attaching /\ [Next]_vars => Known' /\ Attaching'
    BY KnownStep, AttachingStep
  <1>3. Attaching => OneRepairPerTask
    BY DEF Attaching
  <1> QED
    BY <1>1, <1>2, <1>3, PTL DEF Spec

-----------------------------------------------------------------------------
(* CreatedOvershoot, from what each session has left to spend: K creations *)
(* while it is REPAIRING, when calls may still start completing, and       *)
(* otherwise one for each call that is.                                    *)
K == Cardinality(Calls)

Completing(r) == {c \in Calls : calls[c].at \in CompleteSteps /\ Rep(c) = r}

Spare(row) ==
  /\ row.created <= K * row.cycles
  /\ row.state = "REPAIRING" => row.created + K <= K * row.cycles

Pending(row, n) ==
  row.state # "REPAIRING" => row.created + n <= K * row.cycles

Overshoot ==
  \A r \in Repairs :
    Spare(mem[r]) /\ Spare(disk[r]) /\ Pending(mem[r], Cardinality(Completing(r)))

LEMMA KNat ==
  /\ K \in Nat /\ \A n \in Nat : K * n \in Nat /\ K * (n + 1) = K * n + K
  BY CallsAssumption, FS_CardinalityType DEF K

LEMMA CardinalityOfCalls ==
  ASSUME NEW S \in SUBSET Calls, NEW T \in SUBSET S
  PROVE  /\ Cardinality(S) \in Nat /\ Cardinality(S) <= K
         /\ Cardinality(T) \in Nat /\ Cardinality(T) <= Cardinality(S)
         /\ \A c \in S : c \notin T => Cardinality(T) + 1 <= Cardinality(S)
  <1>1. IsFiniteSet(S) /\ Cardinality(S) <= K
    BY CallsAssumption, FS_Subset DEF K
  <1>2. IsFiniteSet(T) /\ Cardinality(T) <= Cardinality(S)
    BY <1>1, FS_Subset
  <1>3. ASSUME NEW c \in S, c \notin T PROVE Cardinality(T) + 1 <= Cardinality(S)
    <2>1. Cardinality(S \ {c}) = Cardinality(S) - 1 /\ IsFiniteSet(S \ {c})
      BY <1>1, FS_RemoveElement
    <2>2. Cardinality(T) <= Cardinality(S \ {c})
      BY <1>3, <2>1, FS_Subset
    <2> QED
      BY <1>1, <1>2, <2>1, <2>2, FS_CardinalityType
  <1> QED
    BY <1>1, <1>2, <1>3, FS_CardinalityType

(* Calls start completing only while the session is REPAIRING; a call that *)
(* has saved, and every call that a restart ends, is completing no more.   *)
LEMMA CompletingMoves ==
  ASSUME Known, [Next]_vars, NEW r \in Repairs
  PROVE  /\ mem[r].state # "REPAIRING" => Completing(r)' \subseteq Completing(r)
         /\ ~Exists(r) => Completing(r)' = {}
         /\ Restart => Completing(r)' = {}
         /\ \A c \in Calls : CompleteSave(c) /\ Rep(c) = r
              => /\ Completing(r)' \subseteq Completing(r)
                 /\ c \in Completing(r) /\ c \notin Completing(r)'
  <1>1. \A c \in Calls : CallArrival(c)
    BY StepMoves, CallArrivals
  <1>2. ASSUME NEW c \in Completing(r)'
        PROVE  /\ c \in Completing(r) \/ CycleComplete(c, r)
               /\ Exists(r)
    <2>1. c \in Calls /\ calls'[c].at \in CompleteSteps /\ calls'[c].rep = r
      BY <1>2 DEF Completing, Rep
    <2>2. c \in Completing(r) \/ CycleComplete(c, r)
      BY <1>1, <2>1 DEF CallArrival, Completing, Rep
    <2>3. calls'[c].at \notin AttachSteps \cup {"idle"}
      BY <2>1 DEF CompleteSteps, AttachSteps
    <2> QED
      BY <1>1, <2>1, <2>2, <2>3 DEF CallArrival
  <1>3. mem[r].state # "REPAIRING" => Completing(r)' \subseteq Completing(r)
    BY <1>2 DEF CycleComplete, InCycle
  <1>4. ~Exists(r) => Completing(r)' = {}
    BY <1>2
  <1>5. Restart => Completing(r)' = {}
    BY DEF Restart, Completing, CompleteSteps, Idle
  <1>6. ASSUME NEW c \in Calls, CompleteSave(c), Rep(c) = r
        PROVE  /\ Completing(r)' \subseteq Completing(r)
               /\ c \in Completing(r) /\ c \notin Completing(r)'
    <2>1. \A d \in Calls : SameCall(d, Finished(c)[d])
      BY <1>6, OtherUpdates
    <2>2. Finished(c)[c] = Idle /\ \A d \in Calls \ {c} : Finished(c)[d] = calls[d]
      BY DEF Finished, Known, TypeOK
    <2>3. c \notin Completing(r)'
      BY <2>1, <2>2 DEF SameCall, Completing, Idle, CompleteSteps
    <2>4. Completing(r)' \subseteq Completing(r)
      BY <2>1, <2>2, <2>3 DEF SameCall, Completing, Rep
    <2>5. c \in Completing(r)
      BY <1>6 DEF CompleteSave, Completing, CompleteSteps, At
    <2> QED
      BY <2>3, <2>4, <2>5
  <1> QED
    BY <1>3, <1>4, <1>5, <1>6

LEMMA OvershootInit == Init => Overshoot
  <1> SUFFICES ASSUME Init, NEW r \in Repairs
               PROVE  Spare(mem[r]) /\ Spare(disk[r])
                      /\ Pending(mem[r], Cardinality(Completing(r)))
    BY DEF Overshoot
  <1>1. Completing(r) = {}
    BY DEF Init, Completing, Idle, CompleteSteps
  <1>2. Cardinality(Completing(r)) = 0
    BY <1>1, FS_EmptySet
  <1> QED
    BY <1>2, KNat DEF Init, NoRow, Created, Spare, Pending

(* What a step may write into a row, with n calls completing before and o  *)
(* after it.                                                               *)
LEMMA SpareKept ==
  ASSUME NEW row \in Row, NEW new \in Row, NEW n \in Nat, NEW o \in Nat,
         n <= K, o <= K, Spare(row), Pending(row, n),
         \/ /\ new.cycles = row.cycles /\ new.created = row.created
            /\ new.state = "REPAIRING" => row.state = "REPAIRING"
            /\ row.state # "REPAIRING" => o <= n
         \/ /\ new.cycles = row.cycles + 1 /\ new.created = row.created
            /\ row.state # "REPAIRING" /\ new.state = "REPAIRING"
         \/ /\ new.cycles = row.cycles /\ new.created \in {row.created, row.created + 1}
            /\ new.state # "REPAIRING" /\ o + 1 <= n
  PROVE  Spare(new) /\ Pending(new, o)
  <1> DEFINE k == K * row.cycles
  <1>1. /\ row.created \in Nat /\ row.cycles \in Nat
        /\ new.created \in Nat /\ new.cycles \in Nat
    BY DEF Row
  <1>2. k \in Nat /\ K \in Nat /\ K * (row.cycles + 1) = k + K
    BY <1>1, KNat
  <1> HIDE DEF k
  <1>4. /\ row.created <= k
        /\ row.state = "REPAIRING" => row.created + K <= k
        /\ row.state # "REPAIRING" => row.created + n <= k
    BY DEF Spare, Pending, k
  <1>5. /\ new.cycles = row.cycles => K * new.cycles = k
        /\ new.cycles = row.cycles + 1 => K * new.cycles = k + K
    BY <1>2 DEF k
  <1>6. new.created <= K * new.cycles
    BY <1>1, <1>2, <1>4, <1>5
  <1>7. new.state = "REPAIRING" => new.created + K <= K * new.cycles
    BY <1>1, <1>2, <1>4, <1>5
  <1>8. new.state # "REPAIRING" => new.created + o <= K * new.cycles
    BY <1>1, <1>2, <1>4, <1>5
  <1> QED
    BY <1>6, <1>7, <1>8 DEF Spare, Pending

(* What a change makes of the fields that the budget of creations reads.   *)
LEMMA ChangeSpends ==
  ASSUME Known, NEW q \in Repairs, NEW row, Change(q, row)
  PROVE  /\ row \in Row
         /\ \/ /\ row.cycles = mem[q].cycles /\ row.created = mem[q].created
               /\ row.state = "REPAIRING" => mem[q].state = "REPAIRING"
            \/ /\ row.cycles = mem[q].cycles + 1 /\ row.created = mem[q].created
               /\ mem[q].state # "REPAIRING" /\ row.state = "REPAIRING"
            \/ /\ row.cycles = mem[q].cycles
               /\ row.created \in {mem[q].created, mem[q].created + 1}
               /\ row.state # "REPAIRING"
               /\ \E c \in Calls : CompleteSave(c) /\ Rep(c) = q
  <1>t. mem[q] \in Row
    BY DEF Known, TypeOK
  <1>1. CASE \E s \in States : /\ s \in {"REPAIRING", "BLOCKED"} => s = mem[q].state
                               /\ row = [mem[q] EXCEPT !.state = s]
    BY <1>t, <1>1, RelabelledRow DEF Row
  <1>2. CASE CycleStart(q) /\ row = CycleRow(q)
    <2>1. row \in Row
      BY <1>2, WrittenRows
    <2> QED
      BY <1>t, <1>2, <2>1 DEF CycleStart, CycleRow, Row
  <1>3. CASE CycleRefuse(q) /\ row = [mem[q] EXCEPT !.state = "BLOCKED"]
    <2>1. "BLOCKED" \in States
      BY DEF States
    <2> QED
      BY <1>t, <1>3, <2>1, RelabelledRow DEF Row
  <1>4. ASSUME NEW c \in Calls, Rep(c) = q, CompleteSave(c),
               NEW passed \in BOOLEAN, row = CompleteRow(c, passed)
        PROVE  /\ row \in Row /\ row.cycles = mem[q].cycles
               /\ row.created \in {mem[q].created, mem[q].created + 1}
               /\ row.state # "REPAIRING"
    <2>1. row \in Row
      BY <1>4, WrittenRows DEF CompleteSave
    <2>2. row.created \in {mem[q].created, mem[q].created + 1}
      BY <1>t, <1>4 DEF CompleteRow, Row
    <2> QED
      BY <1>t, <1>4, <2>1, <2>2 DEF CompleteRow, Row
  <1>5. ASSUME NEW c \in Calls, Rep(c) = q, PushVerify(c), row = PushedRow(c)
        PROVE  /\ row \in Row /\ row.cycles = mem[q].cycles
               /\ row.created = mem[q].created /\ row.state # "REPAIRING"
    <2>1. row \in Row
      BY <1>5, WrittenRows DEF PushVerify
    <2> QED
      BY <1>t, <1>5, <2>1 DEF PushedRow, Row
  <1> QED
    BY <1>1, <1>2, <1>3, <1>4, <1>5 DEF Change

LEMMA OvershootStep ==
  ASSUME Known, Overshoot, [Next]_vars
  PROVE  Overshoot'
  <1> SUFFICES ASSUME NEW r \in Repairs
               PROVE  /\ Spare(mem'[r]) /\ Spare(disk'[r])
                      /\ Pending(mem'[r], Cardinality(Completing(r)'))
    BY DEF Overshoot, Spare, Pending
  <1> DEFINE n == Cardinality(Completing(r))
             o == Cardinality(Completing(r)')
  <1>t. mem[r] \in Row /\ disk[r] \in Row /\ mem'[r] \in Row
    BY StepMoves DEF Known, TypeOK
  <1>i. Spare(mem[r]) /\ Spare(disk[r]) /\ Pending(mem[r], n)
    BY DEF Overshoot
  <1>n. n \in Nat /\ n <= K /\ o \in Nat /\ o <= K
    <2>1. Completing(r) \in SUBSET Calls /\ Completing(r)' \in SUBSET Calls
      BY DEF Completing
    <2> QED
      BY <2>1, CardinalityOfCalls
  <1>o. Completing(r)' \subseteq Completing(r) => o <= n
    <2>1. Completing(r) \in SUBSET Calls
      BY DEF Completing
    <2> QED
      BY <2>1, CardinalityOfCalls
  <1>s. ASSUME NEW c \in Calls, CompleteSave(c), Rep(c) = r PROVE o + 1 <= n
    <2>1. Completing(r) \in SUBSET Calls
      BY DEF Completing
    <2>2. /\ Completing(r)' \in SUBSET Completing(r)
          /\ c \in Completing(r) /\ c \notin Completing(r)'
      BY <1>s, CompletingMoves
    <2> QED
      BY <2>1, <2>2, CardinalityOfCalls
  <1>p. mem[r].state # "REPAIRING" => o <= n
    BY <1>o, CompletingMoves
  <1>z. Restart \/ ~Exists(r) => o = 0
    BY CompletingMoves, FS_EmptySet
  <1> HIDE DEF n, o
  <1>1. CASE mem'[r] = mem[r] /\ disk'[r] = disk[r]
    <2>1. Spare(mem'[r]) /\ Pending(mem'[r], o)
      BY <1>t, <1>i, <1>n, <1>p, <1>1, SpareKept
    <2> QED
      BY <1>1, <1>i, <2>1 DEF o
  <1>2. CASE Restart /\ mem'[r] = disk[r] /\ disk'[r] = disk[r]
    <2>1. Pending(disk[r], 0)
      <3>1. disk[r].created \in Nat
        BY <1>t DEF Row
      <3> QED
        BY <1>i, <3>1 DEF Spare, Pending
    <2> QED
      BY <1>2, <1>i, <1>z, <2>1 DEF o
  <1>3. CASE ~Exists(r) /\ mem'[r] = disk'[r]
             /\ \E c \in Calls : mem'[r] = Created(calls[c].task, remote)
    BY <1>3, <1>z, KNat DEF Created, Spare, Pending, o
  <1>4. CASE Exists(r) /\ disk'[r] \in {disk[r], mem'[r]} /\ Change(r, mem'[r])
    <2>1. Spare(mem'[r]) /\ Pending(mem'[r], o)
      BY <1>t, <1>i, <1>n, <1>p, <1>s, <1>4, ChangeSpends, SpareKept
    <2> QED
      BY <1>4, <1>i, <2>1 DEF o
  <1> QED
    BY <1>1, <1>2, <1>3, <1>4, RowMoves, StepMoves DEF RowMove

(* CreatedOvershoot: for any number of calls in flight, completes that     *)
(* overlap a cycle, or the next one, count at most once per call and cycle.*)
THEOREM CreatedBounded == Spec => []CreatedOvershoot
  <1>1. Init => Known /\ Overshoot
    BY KnownInit, OvershootInit
  <1>2. Known /\ Overshoot /\ [Next]_vars => Known' /\ Overshoot'
    BY KnownStep, OvershootStep
  <1>3. Overshoot => CreatedOvershoot
    BY DEF Overshoot, Spare, K, CreatedOvershoot
  <1> QED
    BY <1>1, <1>2, <1>3, PTL DEF Spec

-----------------------------------------------------------------------------
(* RecordedWasRemote: what is recorded is in the history of the branch,    *)
(* and the head a session was attached at in all that its tools read of a  *)
(* clone that was never reset.                                             *)
HeadsOf(row, tip) ==
  /\ IsPrefix(row.original, row.latest) /\ IsPrefix(row.latest, tip)
  /\ row.ci # NoSha => row.ci = row.latest

OfAttached(row) == IsPrefix(row.original, row.current)

Heads ==
  /\ \A r \in Repairs :
       /\ HeadsOf(mem[r], remote) /\ HeadsOf(disk[r], remote)
       /\ history[r] = "kept" => OfAttached(mem[r]) /\ OfAttached(disk[r])
       /\ HasClone(r) /\ history[r] # "rewritten" =>
            IsPrefix(mem[r].original, local[r])
  /\ \A c \in Calls :
       calls[c].at \in HeadSteps /\ history[Rep(c)] = "kept" =>
         IsPrefix(mem[Rep(c)].original, calls[c].seen)

(* What a step may make of one clone.                                      *)
Reset(q) ==
  /\ Rewrite(q) /\ local[q] \in Sha /\ local'[q] \in Sha
  /\ IsPrefix(local'[q], local[q]) /\ history'[q] = "rewritten"

CloneMove(q) ==
  \/ local'[q] = local[q] /\ history'[q] = history[q]
  \/ local'[q] = NoSha /\ history'[q] = history[q]
  \/ /\ Exists(q) /\ local'[q] = remote /\ remote' = remote
     /\ history'[q] = "kept" => history[q] = "kept"
  \/ /\ Commit(q) /\ local[q] \in Sha /\ local'[q] = Append(local[q], commits + 1)
     /\ history'[q] = history[q]
  \/ Reset(q)

LEMMA CloneMoves ==
  ASSUME Known, HeadMove, NEW q \in Repairs
  PROVE  CloneMove(q)
  <1>t. local \in [Repairs -> Sha \cup {NoSha}] /\ history \in Histories
    BY DEF Known, TypeOK, Histories
  <1>1. CASE \E c \in Calls : StartWipe(c) \/ StartClone(c)
    <2>1. PICK c \in Calls : StartWipe(c) \/ StartClone(c)
      BY <1>1
    <2>2. Rep(c) \in Repairs /\ Exists(Rep(c))
      BY <2>1, CallOfSession DEF StartWipe, StartClone, At, AttachSteps
    <2>3. CASE StartWipe(c)
      BY <1>t, <2>2, <2>3 DEF StartWipe, CloneMove
    <2>4. CASE StartClone(c)
      BY <1>t, <2>2, <2>4 DEF StartClone, CloneMove, Histories
    <2> QED
      BY <2>1, <2>3, <2>4
  <1>2. CASE \E r \in Repairs : Commit(r)
    BY <1>t, <1>2 DEF Commit, CloneMove
  <1>3. CASE \/ UNCHANGED <<remote, local, history, commits>>
             \/ \E c \in Calls, r \in Repairs : PushRepair(c, r)
             \/ OthersPush
    BY <1>3 DEF PushRepair, OthersPush, worker, CloneMove
  <1>4. CASE \E r \in Repairs : Rewrite(r)
    <2>1. PICK r \in Repairs : Rewrite(r)
      BY <1>4
    <2>2. PICK n \in 0..(Len(local[r]) - 1) :
            local' = [local EXCEPT ![r] = SubSeq(@, 1, n)]
      BY <2>1 DEF Rewrite
    <2>3. /\ local[r] \in Sha /\ local'[r] = SubSeq(local[r], 1, n)
          /\ history'[r] = "rewritten"
      BY <1>t, <2>1, <2>2 DEF Rewrite, Histories
    <2>4. local'[r] \in Sha
      BY <2>3, Shortened DEF Sha
    <2>5. IsPrefix(local'[r], local[r])
      BY <2>3, ShaHist, PrefixShortened
    <2>6. CASE q = r
      BY <2>1, <2>3, <2>4, <2>5, <2>6 DEF CloneMove, Reset
    <2>7. CASE q # r
      BY <1>t, <2>1, <2>2, <2>7 DEF Rewrite, CloneMove, Histories
    <2> QED
      BY <2>6, <2>7
  <1> QED
    BY <1>1, <1>2, <1>3, <1>4 DEF HeadMove

(* A step that writes a row leaves branch and clones alone.                *)
LEMMA HeadOrSession ==
  ASSUME HeadMove
  PROVE  UNCHANGED <<remote, local, history, commits>> \/ UNCHANGED session
  BY DEF HeadMove, StartWipe, StartClone, PushRepair, Commit, Rewrite, OthersPush

(* The branch only ever moves forward.                                     *)
LEMMA RemoteGrows ==
  ASSUME Known, HeadMove
  PROVE  remote \in Hist /\ remote' \in Hist /\ IsPrefix(remote, remote')
  <1>t. /\ remote \in Hist /\ commits \in Nat
        /\ \A r \in Repairs : local[r] \in Hist
    BY ShaHist, BoundAssumption DEF Known, TypeOK
  <1>1. CASE \E c \in Calls, r \in Repairs : PushRepair(c, r)
    BY <1>t, <1>1 DEF PushRepair, FastForward
  <1>2. CASE OthersPush
    <2>1. remote' = Append(remote, commits + 1)
      BY <1>2 DEF OthersPush
    <2>2. remote' \in Hist
      BY <1>t, <2>1 DEF Hist
    <2> QED
      BY <1>t, <2>1, <2>2, PrefixReflexive, PrefixAppend
  <1>3. CASE \/ UNCHANGED <<remote, local, history, commits>>
             \/ \E c \in Calls : StartWipe(c) \/ StartClone(c)
             \/ \E r \in Repairs : Commit(r) \/ Rewrite(r)
    <2>1. remote' = remote
      BY <1>3 DEF StartWipe, StartClone, Commit, Rewrite
    <2> QED
      BY <1>t, <2>1, PrefixReflexive
  <1> QED
    BY <1>1, <1>2, <1>3 DEF HeadMove

LEMMA RowHist ==
  ASSUME NEW row \in Row
  PROVE  row.original \in Hist /\ row.current \in Hist /\ row.latest \in Hist
  BY ShaHist DEF Row

LEMMA HeadsOfGrow ==
  ASSUME NEW row \in Row, NEW tip \in Hist, NEW new \in Hist,
         HeadsOf(row, tip), IsPrefix(tip, new)
  PROVE  HeadsOf(row, new)
  BY RowHist, PrefixTransitive DEF HeadsOf

(* What a change writes as heads.                                          *)
LEMMA ChangeHeads ==
  ASSUME Known, NEW q \in Repairs, NEW row, Change(q, row)
  PROVE  /\ row \in Row /\ row.original = mem[q].original
         /\ \/ /\ row.latest = mem[q].latest /\ row.ci = mem[q].ci
               /\ \/ row.current = mem[q].current
                  \/ \E c \in Calls : /\ CompleteSave(c) /\ Rep(c) = q
                                      /\ row.current = calls[c].seen
            \/ /\ row.current = mem[q].current
               /\ \E c \in Calls : /\ PushVerify(c) /\ Rep(c) = q
                                   /\ row.latest = calls[c].seen
                                   /\ row.ci = calls[c].seen
  <1>t. mem[q] \in Row
    BY DEF Known, TypeOK
  <1>1. row \in Row /\ row.original = mem[q].original
    BY ChangeSpends, ChangeKeeps
  <1>2. CASE \/ \E s \in States : row = [mem[q] EXCEPT !.state = s]
             \/ row = CycleRow(q)
    BY <1>t, <1>1, <1>2 DEF CycleRow, Row
  <1>3. ASSUME NEW c \in Calls, Rep(c) = q, NEW passed \in BOOLEAN,
               row = CompleteRow(c, passed)
        PROVE  /\ row.latest = mem[q].latest /\ row.ci = mem[q].ci
               /\ row.current = calls[c].seen
    BY <1>t, <1>3 DEF CompleteRow, Row
  <1>4. ASSUME NEW c \in Calls, Rep(c) = q, row = PushedRow(c)
        PROVE  /\ row.current = mem[q].current
               /\ row.latest = calls[c].seen /\ row.ci = calls[c].seen
    BY <1>t, <1>4 DEF PushedRow, Row
  <1>5. "BLOCKED" \in States
    BY DEF States
  <1> QED
    BY <1>1, <1>2, <1>3, <1>4, <1>5 DEF Change

LEMMA HeadsInit == Init => Heads
  <1>1. IsPrefix(<<>>, <<>>)
    BY ShaHist, PrefixReflexive
  <1> QED
    BY <1>1 DEF Init, Heads, HeadsOf, OfAttached, NoRow, Created, HasClone, Idle, HeadSteps

LEMMA HeadsStep ==
  ASSUME Known, Heads, [Next]_vars
  PROVE  Heads'
  <1>m. /\ SessionMove /\ HeadMove /\ TypeOK'
        /\ \A c \in Calls : CallArrival(c)
    BY StepMoves, CallArrivals
  <1>t. /\ \A r \in Repairs : mem[r] \in Row /\ disk[r] \in Row /\ mem'[r] \in Row
        /\ \A r \in Repairs : local[r] \in Hist
    BY <1>m, ShaHist DEF Known, TypeOK
  <1>g. remote \in Hist /\ remote' \in Hist /\ IsPrefix(remote, remote')
    BY <1>m, RemoteGrows
  <1>i. \A r \in Repairs :
          /\ HeadsOf(mem[r], remote) /\ HeadsOf(disk[r], remote)
          /\ history[r] = "kept" => OfAttached(mem[r]) /\ OfAttached(disk[r])
          /\ HasClone(r) /\ history[r] # "rewritten" =>
               IsPrefix(mem[r].original, local[r])
    BY DEF Heads
  <1>c. ASSUME NEW c \in Calls, calls[c].at \in HeadSteps, history[Rep(c)] = "kept"
        PROVE  IsPrefix(mem[Rep(c)].original, calls[c].seen)
    BY <1>c DEF Heads
  <1>1. ASSUME NEW r \in Repairs
        PROVE  HeadsOf(mem'[r], remote') /\ HeadsOf(disk'[r], remote')
    <2>1. HeadsOf(mem[r], remote') /\ HeadsOf(disk[r], remote')
      BY <1>t, <1>g, <1>i, HeadsOfGrow
    <2>2. CASE \/ mem'[r] = mem[r] /\ disk'[r] = disk[r]
               \/ mem'[r] = disk[r] /\ disk'[r] = disk[r]
      BY <2>1, <2>2
    <2>3. CASE /\ mem'[r] = disk'[r]
               /\ \E c \in Calls : mem'[r] = Created(calls[c].task, remote)
      BY <1>g, <2>3, PrefixReflexive DEF HeadsOf, Created
    <2>4. CASE disk'[r] \in {disk[r], mem'[r]} /\ Change(r, mem'[r])
      <3> DEFINE row == mem'[r]
      <3>1. row \in Row /\ row.original = mem[r].original
        BY <2>4, ChangeHeads
      <3>2. ASSUME row.latest = mem[r].latest, row.ci = mem[r].ci
            PROVE  HeadsOf(row, remote')
        BY <2>1, <3>1, <3>2 DEF HeadsOf
      <3>4. ASSUME NEW c \in Calls, PushVerify(c),
                   row.latest = calls[c].seen, row.ci = calls[c].seen
            PROVE  HeadsOf(row, remote')
        <4>1. calls[c].seen = remote
          BY <3>4 DEF PushVerify, TipVerified
        <4>2. IsPrefix(mem[r].original, remote)
          BY <1>t, <1>g, <1>i, RowHist, PrefixTransitive DEF HeadsOf
        <4> QED
          BY <1>g, <2>1, <3>1, <3>4, <4>1, <4>2 DEF HeadsOf
      <3>5. HeadsOf(row, remote')
        BY <2>4, <3>2, <3>4, ChangeHeads
      <3> QED
        BY <2>1, <2>4, <3>5
    <2> QED
      BY <1>m, <2>2, <2>3, <2>4, RowMoves DEF RowMove
  <1>4. ASSUME NEW r \in Repairs, history'[r] = "kept"
        PROVE  OfAttached(mem'[r]) /\ OfAttached(disk'[r])
    <2>1. history[r] = "kept"
      BY <1>4, <1>m, CloneMoves DEF CloneMove, Reset
    <2>2. OfAttached(mem[r]) /\ OfAttached(disk[r])
      BY <1>i, <2>1
    <2>3. CASE \/ mem'[r] = mem[r] /\ disk'[r] = disk[r]
               \/ mem'[r] = disk[r] /\ disk'[r] = disk[r]
      BY <2>2, <2>3
    <2>4. CASE /\ mem'[r] = disk'[r]
               /\ \E c \in Calls : mem'[r] = Created(calls[c].task, remote)
      BY <1>g, <2>4, PrefixReflexive DEF OfAttached, Created
    <2>5. CASE disk'[r] \in {disk[r], mem'[r]} /\ Change(r, mem'[r])
      <3>1. mem'[r].original = mem[r].original
        BY <2>5, ChangeHeads
      <3>2. CASE mem'[r].current = mem[r].current
        BY <2>2, <2>5, <3>1, <3>2 DEF OfAttached
      <3>3. CASE \E c \in Calls : /\ CompleteSave(c) /\ Rep(c) = r
                                 /\ mem'[r].current = calls[c].seen
        <4>1. PICK c \in Calls : /\ CompleteSave(c) /\ Rep(c) = r
                                 /\ mem'[r].current = calls[c].seen
          BY <3>3
        <4>2. IsPrefix(mem[r].original, calls[c].seen)
          BY <1>c, <2>1, <4>1 DEF CompleteSave, At, HeadSteps
        <4> QED
          BY <2>2, <2>5, <3>1, <4>1, <4>2 DEF OfAttached
      <3> QED
        BY <2>5, <3>2, <3>3, ChangeHeads
    <2> QED
      BY <1>m, <2>3, <2>4, <2>5, RowMoves DEF RowMove
  <1>2. ASSUME NEW r \in Repairs, HasClone(r)', history'[r] # "rewritten"
        PROVE  IsPrefix(mem'[r].original, local'[r])
    <2>1. CASE HasClone(r) /\ local'[r] = local[r] /\ history'[r] = history[r]
      <3>1. Exists(r)
        BY <2>1 DEF Known, RowsAgree
      <3> QED
        BY <1>2, <1>i, <1>m, <2>1, <3>1, SessionKeeps
    <2>2. CASE Exists(r) /\ local'[r] = remote
      <3>1. mem'[r].original = mem[r].original
        BY <1>m, <2>2, SessionKeeps
      <3>2. IsPrefix(mem[r].original, remote)
        BY <1>t, <1>g, <1>i, RowHist, PrefixTransitive DEF HeadsOf
      <3> QED
        BY <2>2, <3>1, <3>2
    <2>3. CASE /\ Commit(r) /\ local'[r] = Append(local[r], commits + 1)
               /\ history'[r] = history[r]
      <3>1. HasClone(r) /\ mem' = mem
        BY <2>3 DEF Commit, HasClone, session
      <3>2. commits + 1 \in Nat
        BY BoundAssumption DEF Known, TypeOK
      <3> QED
        BY <1>2, <1>t, <1>i, <2>3, <3>1, <3>2, RowHist, PrefixAppend
    <2> QED
      BY <1>2, <1>m, <2>1, <2>2, <2>3, CloneMoves DEF CloneMove, Reset, HasClone
  <1>3. ASSUME NEW c \in Calls, calls'[c].at \in HeadSteps,
               history'[calls'[c].rep] = "kept"
        PROVE  IsPrefix(mem'[calls'[c].rep].original, calls'[c].seen)
    <2>1. CASE calls[c].at \in HeadSteps /\ SameRead(c)
      <3>1. Rep(c) \in Repairs /\ Exists(Rep(c))
        BY <2>1, CallOfSession DEF HeadSteps, AttachSteps, At
      <3>2. mem'[Rep(c)].original = mem[Rep(c)].original
        BY <1>m, <3>1, SessionKeeps
      <3>3. history[Rep(c)] = "kept"
        BY <1>3, <1>m, <2>1, <3>1, CloneMoves DEF CloneMove, Reset, SameRead, Rep
      <3> QED
        BY <1>c, <2>1, <3>2, <3>3 DEF SameRead, Rep
    <2>2. CASE /\ CompleteHead(c) /\ calls'[c].rep = calls[c].rep
               /\ calls'[c].seen = local[Rep(c)]
      <3>1. /\ Rep(c) \in Repairs /\ HasClone(Rep(c)) /\ mem' = mem
            /\ history' = history
        BY <2>2, CallOfSession DEF CompleteHead, AttachSteps, At, session, worker
      <3> QED
        BY <1>3, <1>i, <2>2, <3>1 DEF Rep
    <2> QED
      BY <1>3, <1>m, <2>1, <2>2 DEF CallArrival
  <1> QED
    BY <1>1, <1>2, <1>3, <1>4 DEF Heads, Rep, HasClone

(* RecordedWasRemote: the head that a session records as pushed, in memory *)
(* or on disk, was the head of the branch, and the head that is handed off *)
(* has the head the session was attached at in its history unless a shell  *)
(* took commits off the clone.                                             *)
THEOREM RecordedHeadsWereRemote == Spec => []RecordedWasRemote
  <1>1. Init => Known /\ Heads
    BY KnownInit, HeadsInit
  <1>2. Known /\ Heads /\ [Next]_vars => Known' /\ Heads'
    BY KnownStep, HeadsStep
  <1>3. Heads => RecordedWasRemote
    BY DEF Heads, HeadsOf, OfAttached, RecordedWasRemote, RecordedHeads, FinalHandoff
  <1> QED
    BY <1>1, <1>2, <1>3, PTL DEF Spec

-----------------------------------------------------------------------------
(* PreflightIsSafe.  Own: another clone has this history only if the       *)
(* branch has it.  OwnWork: so it is of every part of a history, and a     *)
(* reset leaves a part.                                                    *)
Fresh ==
  /\ remote \in Seq(1..commits)
  /\ \A r \in Repairs : HasClone(r) => local[r] \in Seq(1..commits)
  /\ \A c \in Calls : At(c, "push:verify") => calls[c].seen \in Seq(1..commits)

Own(r, p) ==
  \A q \in Repairs \ {r} :
    HasClone(q) /\ IsPrefix(p, local[q]) => IsPrefix(p, remote)

OwnWork(r, s) == \A p \in Seq(1..commits) : IsPrefix(p, s) => Own(r, p)

Clones ==
  /\ \A r \in Repairs : HasClone(r) =>
       /\ history[r] # "rewritten" =>
            IsPrefix(mem[r].latest, local[r]) /\ IsPrefix(disk[r].latest, local[r])
       /\ OwnWork(r, local[r])
  /\ \A c \in Calls : At(c, "push:verify") =>
       /\ OwnWork(Rep(c), calls[c].seen)
       /\ HasClone(Rep(c)) /\ history[Rep(c)] # "rewritten"
            /\ IsPrefix(calls[c].seen, remote)
            => IsPrefix(calls[c].seen, local[Rep(c)])

Pushing == Heads /\ Fresh /\ Clones

LEMMA FreshInit == Init => Fresh /\ Clones
  BY DEF Init, Fresh, Clones, HasClone, At, Idle

LEMMA FreshStep ==
  ASSUME Known, Fresh, [Next]_vars
  PROVE  Fresh'
  <1>m. HeadMove /\ \A c \in Calls : CallArrival(c)
    BY StepMoves, CallArrivals
  <1>t. commits \in Nat
    BY BoundAssumption DEF Known, TypeOK
  <1>g. \/ commits' = commits
        \/ commits' = commits + 1
    BY <1>m DEF HeadMove, StartWipe, StartClone, PushRepair, Commit, Rewrite, OthersPush
  <1>o. \A s \in Seq(1..commits) : s \in Seq(1..commits')
    BY <1>t, <1>g
  <1>a. \A s \in Seq(1..commits) : Append(s, commits + 1) \in Seq(1..(commits + 1))
    BY <1>t
  <1>1. remote' \in Seq(1..commits')
    <2>1. CASE OthersPush
      BY <2>1, <1>a DEF OthersPush, Fresh
    <2>2. CASE \E c \in Calls, r \in Repairs : PushRepair(c, r)
      BY <2>2, <1>o DEF PushRepair, FastForward, Fresh, HasClone
    <2>3. CASE remote' = remote
      BY <2>3, <1>o DEF Fresh
    <2> QED
      BY <1>m, <2>1, <2>2, <2>3 DEF HeadMove, StartWipe, StartClone, Commit, Rewrite
  <1>2. ASSUME NEW r \in Repairs, HasClone(r)' PROVE local'[r] \in Seq(1..commits')
    <2>1. CASE local'[r] = local[r]
      BY <1>2, <1>o, <2>1 DEF Fresh, HasClone
    <2>2. CASE local'[r] = remote
      BY <1>o, <2>2 DEF Fresh
    <2>3. CASE Commit(r) /\ local'[r] = Append(local[r], commits + 1)
      BY <1>a, <2>3 DEF Fresh, Commit, HasClone
    <2>4. CASE Rewrite(r)
      <3>1. PICK n \in 0..(Len(local[r]) - 1) :
              local' = [local EXCEPT ![r] = SubSeq(@, 1, n)]
        BY <2>4 DEF Rewrite
      <3>2. local[r] \in Seq(1..commits) /\ local'[r] = SubSeq(local[r], 1, n)
        BY <2>4, <3>1 DEF Fresh, Rewrite, HasClone, Known, TypeOK
      <3> QED
        BY <1>o, <3>2, Shortened
    <2> QED
      BY <1>2, <1>m, <2>1, <2>2, <2>3, <2>4, CloneMoves DEF CloneMove, Reset, HasClone
  <1>3. ASSUME NEW c \in Calls, calls'[c].at = "push:verify"
        PROVE  calls'[c].seen \in Seq(1..commits')
    <2>1. CASE At(c, "push:verify") /\ SameRead(c)
      BY <1>o, <2>1 DEF Fresh, SameRead
    <2>2. CASE PushHead(c) /\ calls'[c].seen = local[Rep(c)]
      <3>1. Rep(c) \in Repairs
        BY <2>2, CallOfSession DEF PushHead, AttachSteps, At
      <3> QED
        BY <1>o, <2>2, <3>1 DEF Fresh, PushHead, HasClone
    <2> QED
      BY <1>m, <1>3, <2>1, <2>2 DEF CallArrival
  <1> QED
    BY <1>1, <1>2, <1>3 DEF Fresh, At

(* A history that the other clones have only if the branch has it stays    *)
(* one: a clone is made of the branch, a commit is new, a reset leaves     *)
(* less, and the branch grows.                                             *)
LEMMA OwnKept ==
  ASSUME Known, HeadMove, NEW r \in Repairs, NEW s \in Seq(1..commits), Own(r, s)
  PROVE  Own(r, s)'
  <1> SUFFICES ASSUME NEW q \in Repairs \ {r}, HasClone(q)', IsPrefix(s, local'[q])
               PROVE  IsPrefix(s, remote')
    BY DEF Own
  <1>t. s \in Hist /\ local[q] \in Hist /\ commits \in Nat
    BY ShaHist, BoundAssumption DEF Known, TypeOK, Hist
  <1>g. remote \in Hist /\ remote' \in Hist /\ IsPrefix(remote, remote')
    BY RemoteGrows
  <1>1. IsPrefix(s, remote)
    <2>1. CASE local'[q] = local[q]
      BY <2>1 DEF Own, HasClone
    <2>2. CASE local'[q] = remote
      BY <2>2
    <2>3. CASE Commit(q) /\ local'[q] = Append(local[q], commits + 1)
      <3>1. IsPrefix(s, local[q])
        BY <1>t, <2>3, PrefixOfFresh
      <3> QED
        BY <2>3, <3>1 DEF Own, Commit, HasClone
    <2>4. CASE Reset(q)
      <3>1. local[q] # NoSha /\ local'[q] \in Hist
        BY <2>4, ShaHist DEF Reset
      <3>2. IsPrefix(s, local[q])
        BY <1>t, <2>4, <3>1, PrefixTransitive DEF Reset
      <3> QED
        BY <3>1, <3>2 DEF Own, HasClone
    <2> QED
      BY <2>1, <2>2, <2>3, <2>4, CloneMoves DEF CloneMove, HasClone
  <1> QED
    BY <1>t, <1>g, <1>1, PrefixTransitive

(* A part of a history knows no other commits.                             *)
LEMMA PartOf ==
  ASSUME NEW n \in Nat, NEW p \in Hist, NEW s \in Seq(1..n), IsPrefix(p, s)
  PROVE  p \in Seq(1..n)
  <1>1. s \in Hist
    BY DEF Hist
  <1>2. Len(p) <= Len(s) /\ \A i \in 1..Len(p) : p[i] = s[i]
    BY <1>1, PrefixElements
  <1>3. Len(p) \in Nat /\ Len(s) \in Nat /\ p = [i \in 1..Len(p) |-> p[i]]
    BY <1>1 DEF Hist
  <1>4. \A i \in 1..Len(p) : p[i] \in 1..n
    BY <1>2, <1>3
  <1> QED
    BY <1>3, <1>4

(* What is committed after a history was read is no part of it.            *)
LEMMA OwnWorkKept ==
  ASSUME Known, HeadMove, NEW r \in Repairs, NEW s \in Seq(1..commits), OwnWork(r, s)
  PROVE  OwnWork(r, s)'
  <1> SUFFICES ASSUME NEW p \in Seq(1..commits'), IsPrefix(p, s)
               PROVE  Own(r, p)'
    BY DEF OwnWork
  <1>1. commits \in Nat /\ commits' \in Nat
    BY BoundAssumption
       DEF Known, TypeOK, HeadMove, StartWipe, StartClone, PushRepair, Commit, Rewrite,
           OthersPush
  <1>2. p \in Hist /\ s \in Hist
    BY <1>1 DEF Hist
  <1>4. p \in Seq(1..commits)
    BY <1>1, <1>2, PartOf
  <1> QED
    BY <1>4, OwnKept DEF OwnWork

LEMMA ClonesStep ==
  ASSUME Known, Pushing, [Next]_vars
  PROVE  Clones'
  <1>m. /\ SessionMove /\ HeadMove /\ TypeOK'
        /\ \A c \in Calls : CallArrival(c)
    BY StepMoves, CallArrivals
  <1>t. /\ \A r \in Repairs : mem[r] \in Row /\ disk[r] \in Row
        /\ \A r \in Repairs : local[r] \in Hist /\ local'[r] \in Hist
        /\ commits \in Nat
    BY <1>m, ShaHist, BoundAssumption DEF Known, TypeOK
  <1>g. remote \in Hist /\ remote' \in Hist /\ IsPrefix(remote, remote')
    BY <1>m, RemoteGrows
  <1>h. \A r \in Repairs : IsPrefix(mem[r].latest, remote) /\ IsPrefix(disk[r].latest, remote)
    BY DEF Pushing, Heads, HeadsOf
  <1>i. \A r \in Repairs : HasClone(r) =>
          /\ history[r] # "rewritten" =>
               IsPrefix(mem[r].latest, local[r]) /\ IsPrefix(disk[r].latest, local[r])
          /\ OwnWork(r, local[r])
    BY DEF Pushing, Clones
  <1>c. ASSUME NEW c \in Calls, At(c, "push:verify")
        PROVE  /\ OwnWork(Rep(c), calls[c].seen)
               /\ HasClone(Rep(c)) /\ history[Rep(c)] # "rewritten"
                    /\ IsPrefix(calls[c].seen, remote)
                    => IsPrefix(calls[c].seen, local[Rep(c)])
               /\ calls[c].seen \in Seq(1..commits) /\ calls[c].seen \in Hist
               /\ Rep(c) \in Repairs
    <2>1. calls[c].seen \in Seq(1..commits) /\ Rep(c) \in Repairs
      BY <1>c, CallOfSession DEF Pushing, Fresh, At, AttachSteps
    <2> QED
      BY <1>c, <1>t, <2>1 DEF Pushing, Clones, Hist
  <1>w. ASSUME NEW r \in Repairs, NEW s \in Seq(1..commits), OwnWork(r, s)
        PROVE  \A p \in Seq(1..commits') : IsPrefix(p, s) =>
                 \A q \in Repairs \ {r} :
                   local'[q] # NoSha /\ IsPrefix(p, local'[q]) => IsPrefix(p, remote')
    <2>1. OwnWork(r, s)'
      BY <1>m, <1>w, OwnWorkKept
    <2> QED
      BY <2>1 DEF OwnWork, Own, HasClone
  <1>f. /\ remote \in Seq(1..commits)
        /\ \A r \in Repairs : HasClone(r) => local[r] \in Seq(1..commits)
    BY DEF Pushing, Fresh
  <1>1. ASSUME NEW r \in Repairs, HasClone(r)', history'[r] # "rewritten"
        PROVE  IsPrefix(mem'[r].latest, local'[r]) /\ IsPrefix(disk'[r].latest, local'[r])
    <2>1. CASE UNCHANGED <<remote, local, history, commits>>
      <3>1. /\ HasClone(r) /\ local'[r] = local[r] /\ Exists(r)
            /\ history[r] # "rewritten"
        BY <1>1, <2>1 DEF HasClone, Known, RowsAgree
      <3>2. CASE disk'[r] \in {disk[r], mem'[r]} /\ Change(r, mem'[r])
        <4>1. CASE mem'[r].latest = mem[r].latest
          BY <1>i, <3>1, <3>2, <4>1
        <4>2. ASSUME NEW c \in Calls, PushVerify(c), Rep(c) = r,
                     mem'[r].latest = calls[c].seen
              PROVE  IsPrefix(mem'[r].latest, local[r])
          <5>1. At(c, "push:verify") /\ calls[c].seen = remote
            BY <4>2 DEF PushVerify, TipVerified
          <5> QED
            BY <1>c, <1>g, <3>1, <4>2, <5>1, PrefixReflexive
        <4>3. IsPrefix(mem'[r].latest, local[r])
          BY <1>i, <3>1, <3>2, <4>2, ChangeHeads
        <4> QED
          BY <1>i, <3>1, <3>2, <4>3
      <3> QED
        BY <1>i, <1>m, <3>1, <3>2, RowMoves DEF RowMove
    <2>2. CASE UNCHANGED session
      <3>1. mem'[r] = mem[r] /\ disk'[r] = disk[r]
        BY <2>2 DEF session
      <3>2. CASE local'[r] = local[r] /\ history'[r] = history[r]
        BY <1>1, <1>i, <3>1, <3>2 DEF HasClone
      <3>3. CASE local'[r] = remote
        BY <1>h, <3>1, <3>3
      <3>4. CASE /\ Commit(r) /\ local'[r] = Append(local[r], commits + 1)
                 /\ history'[r] = history[r]
        <4>1. HasClone(r) /\ commits + 1 \in Nat
          BY <1>t, <3>4 DEF Commit, HasClone
        <4>2. /\ IsPrefix(mem[r].latest, Append(local[r], commits + 1))
              /\ IsPrefix(disk[r].latest, Append(local[r], commits + 1))
          BY <1>1, <1>t, <1>i, <3>4, <4>1, RowHist, PrefixAppend
        <4> QED
          BY <3>1, <3>4, <4>2
      <3> QED
        BY <1>1, <1>m, <3>2, <3>3, <3>4, CloneMoves DEF CloneMove, Reset, HasClone
    <2> QED
      BY <1>m, <2>1, <2>2, HeadOrSession
  <1>2. ASSUME NEW r \in Repairs, HasClone(r)' PROVE OwnWork(r, local[r])'
    <2>1. CASE local'[r] = local[r]
      <3>1. /\ HasClone(r) /\ local[r] \in Seq(1..commits) /\ OwnWork(r, local[r])
        BY <1>2, <1>f, <1>i, <2>1 DEF HasClone
      <3> DEFINE s == local[r]
      <3>2. s \in Seq(1..commits) /\ OwnWork(r, s)
        BY <3>1
      <3> HIDE DEF s
      <3>3. \A p \in Seq(1..commits') : IsPrefix(p, s) => Own(r, p)'
        BY <1>m, <3>2, OwnWorkKept DEF OwnWork
      <3> QED
        BY <2>1, <3>3 DEF OwnWork, s
    <2>2. CASE local'[r] = remote /\ remote' = remote
      BY <2>2 DEF OwnWork, Own
    <2>3. CASE Commit(r) /\ local'[r] = Append(local[r], commits + 1)
      <3>1. /\ \A q \in Repairs \ {r} : local'[q] = local[q]
            /\ remote' = remote /\ commits' = commits + 1 /\ HasClone(r)
        BY <2>3 DEF Commit, Known, TypeOK, HasClone
      <3> SUFFICES ASSUME NEW p \in Seq(1..(commits + 1)), IsPrefix(p, local'[r]),
                          NEW q \in Repairs \ {r}, HasClone(q), IsPrefix(p, local[q])
                   PROVE  IsPrefix(p, remote)
        BY <3>1 DEF OwnWork, Own, HasClone
      <3>2. p \in Hist /\ commits + 1 \in Nat
        BY <1>t DEF Hist
      <3>3. p # Append(local[r], commits + 1)
        BY <1>f, <1>t, FreshIsNoPrefix
      <3>4. IsPrefix(p, local[r])
        BY <1>t, <2>3, <3>2, <3>3, PrefixOfAppend
      <3>5. p \in Seq(1..commits)
        BY <1>f, <1>t, <3>1, <3>2, <3>4, PartOf
      <3> QED
        BY <1>i, <3>1, <3>4, <3>5 DEF OwnWork, Own
    <2>4. CASE Reset(r)
      <3>1. /\ \A q \in Repairs \ {r} : local'[q] = local[q]
            /\ remote' = remote /\ commits' = commits /\ HasClone(r)
        BY <2>4 DEF Reset, Rewrite, Known, TypeOK, HasClone
      <3>2. ASSUME NEW p \in Seq(1..commits), IsPrefix(p, local'[r])
            PROVE  Own(r, p)
        <4>1. p \in Hist
          BY <1>t, <3>2 DEF Hist
        <4>2. IsPrefix(p, local[r])
          BY <1>t, <2>4, <3>2, <4>1, PrefixTransitive DEF Reset
        <4> QED
          BY <1>i, <3>1, <3>2, <4>2 DEF OwnWork
      <3> QED
        BY <3>1, <3>2 DEF OwnWork, Own, HasClone
    <2> QED
      BY <1>2, <1>m, <2>1, <2>2, <2>3, <2>4, CloneMoves DEF CloneMove, HasClone
  <1>3. ASSUME NEW c \in Calls, calls'[c].at = "push:verify"
        PROVE  /\ OwnWork(Rep(c), calls[c].seen)'
               /\ HasClone(Rep(c))' /\ history'[calls'[c].rep] # "rewritten"
                    /\ IsPrefix(calls'[c].seen, remote')
                    => IsPrefix(calls'[c].seen, local'[calls'[c].rep])
    <2>1. CASE At(c, "push:verify") /\ SameRead(c)
      <3> DEFINE r == Rep(c)
                 s == calls[c].seen
      <3>1. /\ r \in Repairs /\ s \in Seq(1..commits) /\ s \in Hist /\ OwnWork(r, s)
            /\ HasClone(r) /\ history[r] # "rewritten" /\ IsPrefix(s, remote)
                 => IsPrefix(s, local[r])
        BY <1>c, <2>1
      <3>2. calls'[c].rep = r /\ calls'[c].seen = s
        BY <2>1 DEF SameRead, Rep
      <3> HIDE DEF r, s
      <3>3. OwnWork(Rep(c), calls[c].seen)'
        <4>1. OwnWork(r, s) /\ r \in Repairs /\ s \in Seq(1..commits)
          BY <3>1
        <4>2. \A p \in Seq(1..commits') : IsPrefix(p, s) =>
                \A q \in Repairs \ {r} :
                  local'[q] # NoSha /\ IsPrefix(p, local'[q]) => IsPrefix(p, remote')
          BY <1>w, <4>1
        <4> QED
          BY <3>2, <4>2 DEF OwnWork, Own, HasClone, Rep
      <3>4. ASSUME local'[r] # NoSha, history'[r] # "rewritten", IsPrefix(s, remote')
            PROVE  IsPrefix(s, local'[r])
        <4>1. CASE UNCHANGED <<remote, local, history, commits>>
          BY <3>1, <3>4, <4>1 DEF HasClone
        <4>2. CASE \E d \in Calls : StartWipe(d) \/ StartClone(d)
          <5>1. remote' = remote
            BY <4>2 DEF StartWipe, StartClone
          <5>2. CASE local'[r] = local[r] /\ history'[r] = history[r]
            BY <3>1, <3>4, <5>1, <5>2 DEF HasClone
          <5>3. ~Commit(r)
            BY <1>t, <4>2 DEF StartWipe, StartClone, Commit
          <5> QED
            BY <1>m, <3>1, <3>4, <5>1, <5>2, <5>3, CloneMoves DEF CloneMove, Reset
        <4>3. CASE \E d \in Calls, q \in Repairs : PushRepair(d, q)
          <5>1. PICK q \in Repairs : remote' = local[q] /\ local' = local /\ HasClone(q)
            BY <4>3 DEF PushRepair, FastForward, worker, HasClone
          <5>2. CASE q = r
            BY <3>4, <5>1, <5>2
          <5>3. CASE q # r
            <6>1. IsPrefix(s, s) /\ history' = history
              BY <3>1, <4>3, PrefixReflexive DEF PushRepair, worker
            <6>2. IsPrefix(s, remote)
              BY <3>1, <3>4, <5>1, <5>3, <6>1 DEF OwnWork, Own, HasClone
            <6> QED
              BY <3>1, <3>4, <5>1, <6>1, <6>2 DEF HasClone
          <5> QED
            BY <5>2, <5>3
        <4>4. CASE \E q \in Repairs : Commit(q)
          <5>1. PICK q \in Repairs : Commit(q)
            BY <4>4
          <5>2. remote' = remote /\ history' = history
            BY <5>1 DEF Commit
          <5>3. CASE q = r
            <6>1. HasClone(r) /\ local'[r] = Append(local[r], commits + 1)
              BY <3>1, <5>1, <5>3 DEF Commit, HasClone, Known, TypeOK
            <6>2. commits + 1 \in Nat
              BY <1>t
            <6> QED
              BY <1>t, <3>1, <3>4, <5>2, <6>1, <6>2, PrefixAppend
          <5>4. CASE q # r
            <6>1. local'[r] = local[r]
              BY <3>1, <5>1, <5>4 DEF Commit, Known, TypeOK
            <6> QED
              BY <3>1, <3>4, <5>2, <6>1 DEF HasClone
          <5> QED
            BY <5>3, <5>4
        <4>5. CASE OthersPush
          <5>1. local' = local /\ history' = history /\ remote' = Append(remote, commits + 1)
            BY <4>5 DEF OthersPush, worker
          <5>2. IsPrefix(s, remote)
            BY <1>g, <1>t, <3>1, <3>4, <5>1, PrefixOfFresh
          <5> QED
            BY <3>1, <3>4, <5>1, <5>2 DEF HasClone
        <4>6. CASE \E q \in Repairs : Rewrite(q)
          <5>1. PICK q \in Repairs : Rewrite(q)
            BY <4>6
          <5>2. q # r
            BY <3>1, <3>4, <5>1 DEF Rewrite, Known, TypeOK
          <5>3. local'[r] = local[r] /\ history'[r] = history[r] /\ remote' = remote
            BY <3>1, <5>1, <5>2 DEF Rewrite, Known, TypeOK
          <5> QED
            BY <3>1, <3>4, <5>3 DEF HasClone
        <4> QED
          BY <1>m, <4>1, <4>2, <4>3, <4>4, <4>5, <4>6 DEF HeadMove
      <3>5. calls'[c].rep = r /\ calls'[c].seen = s
        BY <3>2
      <3>6. HasClone(Rep(c))' => local'[r] # NoSha
        BY <3>5 DEF HasClone, Rep
      <3>7. HasClone(Rep(c))' /\ history'[calls'[c].rep] # "rewritten"
              /\ IsPrefix(calls'[c].seen, remote')
              => IsPrefix(calls'[c].seen, local'[calls'[c].rep])
        BY <3>4, <3>5, <3>6
      <3> QED
        BY <3>3, <3>7
    <2>2. CASE /\ PushHead(c) /\ calls'[c].rep = calls[c].rep
               /\ calls'[c].seen = local[Rep(c)]
      <3>1. /\ Rep(c) \in Repairs /\ HasClone(Rep(c))
            /\ remote' = remote /\ local' = local
        BY <2>2, CallOfSession DEF PushHead, AttachSteps, At, HasClone, worker
      <3>2. OwnWork(Rep(c), local[Rep(c)]) /\ IsPrefix(local[Rep(c)], local[Rep(c)])
        BY <1>i, <1>t, <3>1, PrefixReflexive
      <3>3. commits' = commits
        BY <2>2 DEF PushHead
      <3>4. calls'[c].rep = Rep(c) /\ calls'[c].seen = local[Rep(c)]
        BY <2>2 DEF Rep
      <3>5. OwnWork(Rep(c), calls[c].seen)'
        BY <3>1, <3>2, <3>3, <3>4 DEF OwnWork, Own, HasClone, Rep
      <3>6. IsPrefix(calls'[c].seen, local'[calls'[c].rep])
        BY <3>1, <3>2, <3>4
      <3> QED
        BY <3>5, <3>6
    <2> QED
      BY <1>m, <1>3, <2>1, <2>2 DEF CallArrival
  <1> QED
    BY <1>1, <1>2, <1>3 DEF Clones, At, Rep

(* PreflightIsSafe: for any number of sessions and calls, whatever was     *)
(* pushed, cloned again or recorded since, a session that preflight calls  *)
(* ready has all that is on the branch, unless its clone was reset.        *)
THEOREM PreflightSafe == Spec => []PreflightIsSafe
  <1>1. Init => Known /\ Pushing
    BY KnownInit, HeadsInit, FreshInit DEF Pushing
  <1>2. Known /\ Pushing /\ [Next]_vars => Known' /\ Pushing'
    BY KnownStep, HeadsStep, FreshStep, ClonesStep DEF Pushing
  <1>3. Known /\ Pushing => PreflightIsSafe
    <2>1. SUFFICES ASSUME Known, Pushing, NEW r \in Repairs, PreflightReady(r),
                          history[r] # "rewritten"
                   PROVE  FastForward(r)
      BY DEF PreflightIsSafe
    <2>2. /\ HasClone(r) /\ remote \in {mem[r].original, mem[r].latest}
          /\ IsPrefix(mem[r].original, local[r]) /\ IsPrefix(mem[r].latest, local[r])
      BY <2>1 DEF PreflightReady, KnownTip, Pushing, Heads, Clones
    <2> QED
      BY <2>2 DEF FastForward, HasClone
  <1> QED
    BY <1>1, <1>2, <1>3, PTL DEF Spec
=============================================================================
