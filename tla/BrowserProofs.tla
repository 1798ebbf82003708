--------------------------- MODULE BrowserProofs ----------------------------
(***************************************************************************)
(* The browser, for any number of sessions, calls, pages, listeners, list  *)
(* entries, snapshots and cycles.                                          *)
(*                                                                         *)
(* BrowserSessions: every Chromium that runs can be found and closed, or   *)
(* closing it was tried and failed; no session stays in a state that only  *)
(* a call in flight could end; the chain of a session implements the first *)
(* come, first served lock; the sessions in use exceed the limit by less   *)
(* than the calls there are.                                               *)
(* PageEvidence: which errors an assertion overlooks, what a reader with a *)
(* cursor misses, which references resolve.  VerificationCycles: the       *)
(* status of a cycle is what the last report on it said.                   *)
(***************************************************************************)
EXTENDS BrowserSessions, PageEvidence, VerificationCycles, FiniteSetTheorems,
        SequenceTheorems, WellFoundedInduction, TLAPS

-----------------------------------------------------------------------------
(* BrowserSessions: each action moves one call and changes the state of    *)
(* that call's session.                                                    *)
TypesOfUse ==
  /\ calls \in [Calls -> Call]
  /\ state \in [Sessions -> States]
  /\ listed \subseteq Sessions
  /\ opened \in [Sessions -> 0..MaxOpened]
  /\ \A c \in Calls : calls[c].at # "idle" => calls[c].session \in Sessions

UseInv == TypesOfUse /\ NoLeakedBrowser /\ NoStuckState

LEMMA UseInitial == Init => UseInv
BY BoundAssumption
   DEF Init, UseInv, TypesOfUse, NoLeakedBrowser, chromium, NoStuckState, Call, Idle,
       Steps, States

LEMMA BeginKeeps ==
  ASSUME UseInv, NEW c \in Calls, NEW step, NEW s, NEW p,
         Begin(c, step, s, p), UNCHANGED <<listed, state, chromium>>
  PROVE  NoLeakedBrowser' /\ NoStuckState'
<1>1. \A d \in Calls : calls[d].at # "idle" => calls'[d] = calls[d]
  BY DEF UseInv, TypesOfUse, At, Begin
<1>2. NoLeakedBrowser'
  BY <1>1 DEF UseInv, NoLeakedBrowser, chromium, On, Of
<1>3. NoStuckState'
  BY <1>1 DEF UseInv, NoStuckState, On, Of, Closing
<1> QED BY <1>2, <1>3

LEMMA OpenKeeps ==
  ASSUME UseInv, NEW c \in Calls, NEW s \in Sessions, Open(c, s)
  PROVE  UseInv'
<1>1. TypesOfUse'
  BY BoundAssumption DEF UseInv, TypesOfUse, At, Call, Steps, Waiting,
     Inside, Closing, States, Page, tabs, Open, Begin
<1>2. Begin(c, "open:launch", s, 0) /\ UNCHANGED <<listed, state, chromium>>
  BY DEF Open
<1>3. NoLeakedBrowser' /\ NoStuckState'
  BY <1>2, BeginKeeps
<1> QED BY <1>1, <1>3 DEF UseInv

LEMMA CreatePageKeeps ==
  ASSUME UseInv, NEW c \in Calls, NEW s \in Sessions, CreatePage(c, s)
  PROVE  UseInv'
<1>1. TypesOfUse'
  BY BoundAssumption DEF UseInv, TypesOfUse, At, Call, Steps, Waiting,
     Inside, Closing, States, Page, tabs, CreatePage, Join, Begin, Usable
<1>2. Begin(c, "page:line", s, 0) /\ UNCHANGED <<listed, state, chromium>>
  BY DEF CreatePage, Join
<1>3. NoLeakedBrowser' /\ NoStuckState'
  BY <1>2, BeginKeeps
<1> QED BY <1>1, <1>3 DEF UseInv

LEMMA CloseSessionKeeps ==
  ASSUME UseInv, NEW c \in Calls, NEW s \in Sessions, CloseSession(c, s)
  PROVE  UseInv'
<1>1. TypesOfUse'
  BY BoundAssumption DEF UseInv, TypesOfUse, At, Call, Steps, Waiting,
     Inside, Closing, States, Page, tabs, CloseSession, Begin, SetState
<1>2. NoLeakedBrowser'
  BY <1>1 DEF UseInv, TypesOfUse, NoLeakedBrowser, chromium, On, Of, At, Call,
     CloseSession, Begin, SetState
<1>3. NoStuckState'
  BY <1>1 DEF UseInv, TypesOfUse, NoStuckState, On, Of, At, Call, Closing,
     CloseSession, Begin, SetState
<1> QED BY <1>1, <1>2, <1>3 DEF UseInv

LEMMA TraceStartKeeps ==
  ASSUME UseInv, NEW c \in Calls, NEW s \in Sessions, TraceStart(c, s)
  PROVE  UseInv'
<1>1. TypesOfUse'
  BY BoundAssumption DEF UseInv, TypesOfUse, At, Call, Steps, Waiting,
     Inside, Closing, States, Page, tabs, TraceStart, Begin, Usable
<1>2. Begin(c, "trace:start", s, 0) /\ UNCHANGED <<listed, state, chromium>>
  BY DEF TraceStart
<1>3. NoLeakedBrowser' /\ NoStuckState'
  BY <1>2, BeginKeeps
<1> QED BY <1>1, <1>3 DEF UseInv

LEMMA TraceStopKeeps ==
  ASSUME UseInv, NEW c \in Calls, NEW s \in Sessions, TraceStop(c, s)
  PROVE  UseInv'
<1>1. TypesOfUse'
  BY BoundAssumption DEF UseInv, TypesOfUse, At, Call, Steps, Waiting,
     Inside, Closing, States, Page, tabs, TraceStop, Begin, Usable
<1>2. Begin(c, "trace:stop", s, 0) /\ UNCHANGED <<listed, state, chromium>>
  BY DEF TraceStop
<1>3. NoLeakedBrowser' /\ NoStuckState'
  BY <1>2, BeginKeeps
<1> QED BY <1>1, <1>3 DEF UseInv

LEMMA ClosePageKeeps ==
  ASSUME UseInv, NEW c \in Calls, NEW s \in Sessions, NEW p \in Page,
         ClosePage(c, s, p)
  PROVE  UseInv'
<1>1. TypesOfUse'
  BY BoundAssumption DEF UseInv, TypesOfUse, At, Call, Steps, Waiting,
     Inside, Closing, States, Page, tabs, ClosePage, Join, Begin, Usable
<1>2. Begin(c, "shut:line", s, p) /\ UNCHANGED <<listed, state, chromium>>
  BY DEF ClosePage, Join
<1>3. NoLeakedBrowser' /\ NoStuckState'
  BY <1>2, BeginKeeps
<1> QED BY <1>1, <1>3 DEF UseInv

LEMMA NavigateKeeps ==
  ASSUME UseInv, NEW c \in Calls, NEW s \in Sessions, NEW p \in Page,
         Navigate(c, s, p)
  PROVE  UseInv'
<1>1. TypesOfUse'
  BY BoundAssumption DEF UseInv, TypesOfUse, At, Call, Steps, Waiting,
     Inside, Closing, States, Page, tabs, Navigate, Join, Begin, Usable
<1>2. Begin(c, "navigate:line", s, p) /\ UNCHANGED <<listed, state, chromium>>
  BY DEF Navigate, Join
<1>3. NoLeakedBrowser' /\ NoStuckState'
  BY <1>2, BeginKeeps
<1> QED BY <1>1, <1>3 DEF UseInv

LEMMA LaunchedKeeps ==
  ASSUME UseInv, NEW c \in Calls, Launched(c)
  PROVE  UseInv'
<1>1. TypesOfUse'
  BY BoundAssumption DEF UseInv, TypesOfUse, At, Of, Call, Steps, Waiting,
     Inside, Closing, States, Page, tabs, Launched, Goto
<1>2. NoLeakedBrowser'
  BY <1>1 DEF UseInv, TypesOfUse, NoLeakedBrowser, chromium, On, Of, At, Call,
     Launched, Goto
<1>3. NoStuckState'
  BY <1>1 DEF UseInv, TypesOfUse, NoStuckState, On, Of, At, Call, Closing,
     Launched, Goto
<1> QED BY <1>1, <1>2, <1>3 DEF UseInv

LEMMA OpenedKeeps ==
  ASSUME UseInv, NEW c \in Calls, Opened(c)
  PROVE  UseInv'
<1>1. TypesOfUse'
  BY BoundAssumption DEF UseInv, TypesOfUse, At, Of, Call, Steps, Waiting,
     Inside, Closing, States, Page, tabs, Opened, Return, SetState, Idle
<1>2. NoLeakedBrowser'
  BY <1>1 DEF UseInv, TypesOfUse, NoLeakedBrowser, chromium, On, Of, At, Call, Opened,
     Return, SetState, Idle
<1>3. NoStuckState'
  BY <1>1 DEF UseInv, TypesOfUse, NoStuckState, On, Of, At, Call, Closing,
     Opened, Return, SetState, Idle
<1> QED BY <1>1, <1>2, <1>3 DEF UseInv

LEMMA OpenFailsKeeps ==
  ASSUME UseInv, NEW c \in Calls, OpenFails(c)
  PROVE  UseInv'
<1>1. TypesOfUse'
  BY BoundAssumption DEF UseInv, TypesOfUse, At, Of, Call, Steps, Waiting,
     Inside, Closing, States, Page, tabs, OpenFails, BrowserClosed, Return,
     Idle
<1>2. NoLeakedBrowser'
  BY <1>1 DEF UseInv, TypesOfUse, NoLeakedBrowser, chromium, On, Of, At, Call,
     OpenFails, BrowserClosed, Return, Idle
<1>3. NoStuckState'
  BY <1>1 DEF UseInv, TypesOfUse, NoStuckState, On, Of, At, Call, Closing,
     OpenFails, BrowserClosed, Return, Idle
<1> QED BY <1>1, <1>2, <1>3 DEF UseInv

LEMMA CreatePageTurnKeeps ==
  ASSUME UseInv, NEW c \in Calls, CreatePageTurn(c)
  PROVE  UseInv'
<1>1. TypesOfUse'
  BY BoundAssumption DEF UseInv, TypesOfUse, At, Of, Call, Steps, Waiting,
     Inside, Closing, States, Page, tabs, CreatePageTurn, LeaveByThrow,
     Leave, Return, Goto, Idle
<1>2. NoLeakedBrowser'
  BY <1>1 DEF UseInv, TypesOfUse, NoLeakedBrowser, chromium, On, Of, At, Call,
     CreatePageTurn, LeaveByThrow, Leave, Return, Goto, Idle
<1>3. NoStuckState'
  BY <1>1 DEF UseInv, TypesOfUse, NoStuckState, On, Of, At, Call, Closing,
     CreatePageTurn, LeaveByThrow, Leave, Return, Goto, Idle
<1> QED BY <1>1, <1>2, <1>3 DEF UseInv

LEMMA PageCreatedKeeps ==
  ASSUME UseInv, NEW c \in Calls, PageCreated(c)
  PROVE  UseInv'
<1>1. TypesOfUse'
  BY BoundAssumption DEF UseInv, TypesOfUse, At, Of, Call, Steps, Waiting,
     Inside, Closing, States, Page, tabs, PageCreated, Leave, Return, Idle
<1>2. NoLeakedBrowser'
  BY <1>1 DEF UseInv, TypesOfUse, NoLeakedBrowser, chromium, On, Of, At, Call,
     PageCreated, Leave, Return, Idle
<1>3. NoStuckState'
  BY <1>1 DEF UseInv, TypesOfUse, NoStuckState, On, Of, At, Call, Closing,
     PageCreated, Leave, Return, Idle
<1> QED BY <1>1, <1>2, <1>3 DEF UseInv

LEMMA CreatePageFailsKeeps ==
  ASSUME UseInv, NEW c \in Calls, CreatePageFails(c)
  PROVE  UseInv'
<1>1. TypesOfUse'
  BY BoundAssumption DEF UseInv, TypesOfUse, At, Of, Call, Steps, Waiting,
     Inside, Closing, States, Page, tabs, CreatePageFails, LeaveByThrow,
     Leave, Return, Idle
<1>2. NoLeakedBrowser'
  BY <1>1 DEF UseInv, TypesOfUse, NoLeakedBrowser, chromium, On, Of, At, Call,
     CreatePageFails, LeaveByThrow, Leave, Return, Idle
<1>3. NoStuckState'
  BY <1>1 DEF UseInv, TypesOfUse, NoStuckState, On, Of, At, Call, Closing,
     CreatePageFails, LeaveByThrow, Leave, Return, Idle
<1> QED BY <1>1, <1>2, <1>3 DEF UseInv

LEMMA ClosePageTurnKeeps ==
  ASSUME UseInv, NEW c \in Calls, ClosePageTurn(c)
  PROVE  UseInv'
<1>1. TypesOfUse'
  BY BoundAssumption DEF UseInv, TypesOfUse, At, Of, Call, Steps, Waiting,
     Inside, Closing, States, Page, tabs, ClosePageTurn, Leave, Return, Goto,
     Idle
<1>2. NoLeakedBrowser'
  BY <1>1 DEF UseInv, TypesOfUse, NoLeakedBrowser, chromium, On, Of, At, Call,
     ClosePageTurn, Leave, Return, Goto, Idle
<1>3. NoStuckState'
  BY <1>1 DEF UseInv, TypesOfUse, NoStuckState, On, Of, At, Call, Closing,
     ClosePageTurn, Leave, Return, Goto, Idle
<1> QED BY <1>1, <1>2, <1>3 DEF UseInv

LEMMA PageClosedKeeps ==
  ASSUME UseInv, NEW c \in Calls, PageClosed(c)
  PROVE  UseInv'
<1>1. TypesOfUse'
  BY BoundAssumption DEF UseInv, TypesOfUse, At, Of, Call, Steps, Waiting,
     Inside, Closing, States, Page, tabs, PageClosed, Leave, Return, Idle
<1>2. NoLeakedBrowser'
  BY <1>1 DEF UseInv, TypesOfUse, NoLeakedBrowser, chromium, On, Of, At, Call,
     PageClosed, Leave, Return, Idle
<1>3. NoStuckState'
  BY <1>1 DEF UseInv, TypesOfUse, NoStuckState, On, Of, At, Call, Closing,
     PageClosed, Leave, Return, Idle
<1> QED BY <1>1, <1>2, <1>3 DEF UseInv

LEMMA NavigateTurnKeeps ==
  ASSUME UseInv, NEW c \in Calls, NavigateTurn(c)
  PROVE  UseInv'
<1>1. TypesOfUse'
  BY BoundAssumption DEF UseInv, TypesOfUse, At, Of, Call, Steps, Waiting,
     Inside, Closing, States, Page, tabs, NavigateTurn, LeaveByThrow, Leave,
     Return, Goto, SetState, Idle
<1>2. NoLeakedBrowser'
  BY <1>1 DEF UseInv, TypesOfUse, NoLeakedBrowser, chromium, On, Of, At, Call,
     NavigateTurn, LeaveByThrow, Leave, Return, Goto, SetState, Idle
<1>3. NoStuckState'
  <2>1. \A d \in Calls : calls[d].at # "navigate:line" => calls'[d] = calls[d]
    BY DEF UseInv, TypesOfUse, At, NavigateTurn, LeaveByThrow, Leave, Return, Goto
  <2>2. CASE UNCHANGED state
    BY <2>1, <2>2 DEF UseInv, NoStuckState, On, Of, Closing, NavigateTurn
  <2>3. CASE SetState(Of(c), "NAVIGATING") /\ Goto(c, "navigate:goto")
    <3>1. /\ calls'[c].at = "navigate:goto" /\ calls'[c].session = Of(c)
          /\ state' = [state EXCEPT ![Of(c)] = "NAVIGATING"] /\ listed' = listed
      BY <2>3 DEF UseInv, TypesOfUse, Of, Call, Goto, SetState, NavigateTurn
    <3> QED BY <2>1, <3>1 DEF UseInv, TypesOfUse, NoStuckState, On, Of, Closing
  <2> QED BY <2>2, <2>3 DEF NavigateTurn
<1> QED BY <1>1, <1>2, <1>3 DEF UseInv

LEMMA NavigatedKeeps ==
  ASSUME UseInv, NEW c \in Calls, Navigated(c)
  PROVE  UseInv'
<1>1. TypesOfUse'
  BY BoundAssumption DEF UseInv, TypesOfUse, At, Of, Call, Steps, Waiting,
     Inside, Closing, States, Page, tabs, Navigated, Leave, Return, SetState,
     Idle
<1>2. NoLeakedBrowser'
  BY <1>1 DEF UseInv, TypesOfUse, NoLeakedBrowser, chromium, On, Of, At, Call,
     Navigated, Leave, Return, SetState, Idle
<1>3. NoStuckState'
  BY <1>1 DEF UseInv, TypesOfUse, NoStuckState, On, Of, At, Call, Closing,
     Navigated, Leave, Return, SetState, Idle
<1> QED BY <1>1, <1>2, <1>3 DEF UseInv

LEMMA NavigateFailsKeeps ==
  ASSUME UseInv, NEW c \in Calls, NavigateFails(c)
  PROVE  UseInv'
<1>1. TypesOfUse'
  BY BoundAssumption DEF UseInv, TypesOfUse, At, Of, Call, Steps, Waiting,
     Inside, Closing, States, Page, tabs, NavigateFails, MarkFailed,
     SetState, LeaveByThrow, Leave, Return, Idle
<1>2. NoLeakedBrowser'
  BY <1>1 DEF UseInv, TypesOfUse, NoLeakedBrowser, chromium, On, Of, At, Call,
     NavigateFails, MarkFailed, SetState, LeaveByThrow, Leave, Return, Idle
<1>3. NoStuckState'
  BY <1>1 DEF UseInv, TypesOfUse, NoStuckState, On, Of, At, Call, Closing,
     NavigateFails, MarkFailed, SetState, LeaveByThrow, Leave, Return, Idle
<1> QED BY <1>1, <1>2, <1>3 DEF UseInv

LEMMA PagesClosedKeeps ==
  ASSUME UseInv, NEW c \in Calls, PagesClosed(c)
  PROVE  UseInv'
<1>1. TypesOfUse'
  BY BoundAssumption DEF UseInv, TypesOfUse, At, Of, Call, Steps, Waiting,
     Inside, Closing, States, Page, tabs, PagesClosed, Goto
<1>2. NoLeakedBrowser'
  BY <1>1 DEF UseInv, TypesOfUse, NoLeakedBrowser, chromium, On, Of, At, Call,
     PagesClosed, Goto
<1>3. NoStuckState'
  BY <1>1 DEF UseInv, TypesOfUse, NoStuckState, On, Of, At, Call, Closing,
     PagesClosed, Goto
<1> QED BY <1>1, <1>2, <1>3 DEF UseInv

LEMMA SessionClosedKeeps ==
  ASSUME UseInv, NEW c \in Calls, SessionClosed(c)
  PROVE  UseInv'
<1>1. TypesOfUse'
  BY BoundAssumption DEF UseInv, TypesOfUse, At, Of, Call, Steps, Waiting,
     Inside, Closing, States, Page, tabs, SessionClosed, SetState, Return,
     Idle
<1>2. NoLeakedBrowser'
  BY <1>1 DEF UseInv, TypesOfUse, NoLeakedBrowser, On, Of, At, Call,
     SessionClosed, BrowserClosed, SetState, Return, Idle
<1>3. NoStuckState'
  BY <1>1 DEF UseInv, TypesOfUse, NoStuckState, On, Of, At, Call, Closing,
     SessionClosed, SetState, Return, Idle
<1> QED BY <1>1, <1>2, <1>3 DEF UseInv

LEMMA TraceStartedKeeps ==
  ASSUME UseInv, NEW c \in Calls, TraceStarted(c)
  PROVE  UseInv'
<1>1. TypesOfUse'
  BY BoundAssumption DEF UseInv, TypesOfUse, At, Of, Call, Steps, Waiting,
     Inside, Closing, States, Page, tabs, TraceStarted, SetState, Return,
     Idle
<1>2. NoLeakedBrowser'
  BY <1>1 DEF UseInv, TypesOfUse, NoLeakedBrowser, chromium, On, Of, At, Call,
     TraceStarted, SetState, Return, Idle
<1>3. NoStuckState'
  BY <1>1 DEF UseInv, TypesOfUse, NoStuckState, On, Of, At, Call, Closing,
     TraceStarted, SetState, Return, Idle
<1> QED BY <1>1, <1>2, <1>3 DEF UseInv

LEMMA TraceStoppedKeeps ==
  ASSUME UseInv, NEW c \in Calls, TraceStopped(c)
  PROVE  UseInv'
<1>1. TypesOfUse'
  BY BoundAssumption DEF UseInv, TypesOfUse, At, Of, Call, Steps, Waiting,
     Inside, Closing, States, Page, tabs, TraceStopped, SetState, Return,
     Idle
<1>2. NoLeakedBrowser'
  BY <1>1 DEF UseInv, TypesOfUse, NoLeakedBrowser, chromium, On, Of, At, Call,
     TraceStopped, SetState, Return, Idle
<1>3. NoStuckState'
  BY <1>1 DEF UseInv, TypesOfUse, NoStuckState, On, Of, At, Call, Closing,
     TraceStopped, SetState, Return, Idle
<1> QED BY <1>1, <1>2, <1>3 DEF UseInv

LEMMA TraceFailsKeeps ==
  ASSUME UseInv, NEW c \in Calls, TraceFails(c)
  PROVE  UseInv'
<1>1. TypesOfUse'
  BY BoundAssumption DEF UseInv, TypesOfUse, At, Of, Call, Steps, Waiting,
     Inside, Closing, States, Page, tabs, TraceFails, Return, Idle
<1>2. NoLeakedBrowser'
  BY <1>1 DEF UseInv, TypesOfUse, NoLeakedBrowser, chromium, On, Of, At, Call,
     TraceFails, Return, Idle
<1>3. NoStuckState'
  BY <1>1 DEF UseInv, TypesOfUse, NoStuckState, On, Of, At, Call, Closing,
     TraceFails, Return, Idle
<1> QED BY <1>1, <1>2, <1>3 DEF UseInv

LEMMA RequestKeeps ==
  ASSUME UseInv, NEW c \in Calls, Request(c)
  PROVE  UseInv'
<1>1. ASSUME NEW s \in Sessions, NEW p \in 1..opened[s],
             ClosePage(c, s, p) \/ Navigate(c, s, p)
      PROVE  UseInv'
  <2>0. p \in Page
    BY BoundAssumption, <1>1 DEF UseInv, TypesOfUse, Page
  <2>1. CASE ClosePage(c, s, p)
    BY <2>0, <2>1, ClosePageKeeps
  <2>2. CASE Navigate(c, s, p)
    BY <2>0, <2>2, NavigateKeeps
  <2> QED BY <1>1, <2>1, <2>2
<1> QED BY <1>1, OpenKeeps, CreatePageKeeps, CloseSessionKeeps, TraceStartKeeps,
           TraceStopKeeps DEF Request

LEMMA AnswerKeeps ==
  ASSUME UseInv, NEW c \in Calls, Answer(c)
  PROVE  UseInv'
BY LaunchedKeeps, OpenedKeeps, OpenFailsKeeps, CreatePageTurnKeeps,
   PageCreatedKeeps, CreatePageFailsKeeps, ClosePageTurnKeeps, PageClosedKeeps,
   NavigateTurnKeeps, NavigatedKeeps, NavigateFailsKeeps, PagesClosedKeeps,
   SessionClosedKeeps, TraceStartedKeeps, TraceStoppedKeeps, TraceFailsKeeps
   DEF Answer

LEMMA UseInductive == UseInv /\ [Next]_vars => UseInv'
<1> SUFFICES ASSUME UseInv, [Next]_vars PROVE UseInv'
  OBVIOUS
<1>1. CASE UNCHANGED vars
  BY <1>1 DEF vars, tabs, UseInv, TypesOfUse, NoLeakedBrowser, chromium, NoStuckState,
     On, Of
<1>2. CASE Next
  BY <1>2, RequestKeeps, AnswerKeeps DEF Next
<1> QED BY <1>1, <1>2

LEMMA UseInvariant == Spec => []UseInv
BY UseInitial, UseInductive, PTL DEF Spec

(* Every Chromium that runs is one that closeSession can find, or a call   *)
(* in flight will list it or try to close it, or closing it was tried and  *)
(* rejected.                                                               *)
THEOREM NothingLeaks == Spec => []NoLeakedBrowser
<1>1. UseInv => NoLeakedBrowser
  BY DEF UseInv
<1> QED BY <1>1, UseInvariant, PTL

(* A listed session is NAVIGATING or CLOSING only while a call is at it.   *)
THEOREM NothingSticks == Spec => []NoStuckState
<1>1. UseInv => NoStuckState
  BY DEF UseInv
<1> QED BY <1>1, UseInvariant, PTL

-----------------------------------------------------------------------------
(* The steps, by what they do to the map, to a session's chain and to the  *)
(* one call c they move.                                                   *)
Opening == {"open:launch", "open:page"}
Tracing == {"trace:start", "trace:stop"}

(* Nothing but c and the session s changes, and no session loses its past. *)
Only(c, s) ==
  /\ \A d \in Calls \ {c} : calls'[d] = calls[d]
  /\ calls'[c] = Idle \/ (calls'[c].session = s /\ calls'[c].at # "idle")
  /\ \A t \in Sessions \ {s} : state'[t] = state[t] /\ (t \in listed' <=> t \in listed)
  /\ \A t \in Sessions : opened[t] > 0 => opened'[t] > 0

Opens(c, s) ==
  /\ At(c, "idle") /\ Room /\ opened[s] = 0 /\ ~On(s, Steps)
  /\ calls'[c].at = "open:launch"
  /\ UNCHANGED <<listed, state, chain>>

Comes(c, s) ==
  /\ At(c, "idle") /\ s \in listed
  /\ \/ Usable(s) /\ UNCHANGED state /\ calls'[c].at \in Tracing \cup Waiting
     \/ calls'[c].at \in Closing
  /\ UNCHANGED listed
  /\ chain' = IF calls'[c].at \in Waiting
              THEN [chain EXCEPT ![s] = Append(chain[s], c)] ELSE chain

Launches(c, s) ==
  /\ calls[c].at \in Opening
  /\ \/ calls'[c].at \in Opening /\ UNCHANGED <<listed, opened>>
     \/ calls'[c] = Idle /\ (s \in listed' => s \in listed \/ opened'[s] > 0)
  /\ UNCHANGED chain

Enters(c, s) ==
  /\ calls[c].at \in Waiting /\ MyTurn(c) /\ calls'[c].at \in Inside
  /\ UNCHANGED <<listed, chain>>

Leaves(c, s) ==
  /\ (calls[c].at \in Waiting /\ MyTurn(c)) \/ calls[c].at \in Inside
  /\ calls'[c] = Idle
  /\ chain' = [chain EXCEPT ![s] = Tail(chain[s])]
  /\ UNCHANGED listed

Traces(c, s) ==
  /\ calls[c].at \in Tracing /\ calls'[c] = Idle
  /\ UNCHANGED <<listed, chain>>

Closes(c, s) ==
  /\ calls[c].at \in Closing
  /\ \/ calls'[c].at \in Closing /\ UNCHANGED listed
     \/ calls'[c] = Idle /\ listed' = listed \ {s}
  /\ UNCHANGED chain

Continues(c, s) ==
  /\ Of(c) = s
  /\ \/ Launches(c, s) \/ Enters(c, s) \/ Leaves(c, s)
     \/ Traces(c, s) \/ Closes(c, s)

LEMMA RequestMoves ==
  ASSUME TypesOfUse, NEW c \in Calls, Request(c)
  PROVE  \E s \in Sessions : Only(c, s) /\ (Opens(c, s) \/ Comes(c, s))
<1>1. PICK s \in Sessions :
        \/ Open(c, s) \/ CreatePage(c, s) \/ CloseSession(c, s)
        \/ TraceStart(c, s) \/ TraceStop(c, s)
        \/ \E p \in 1..opened[s] : ClosePage(c, s, p) \/ Navigate(c, s, p)
  BY DEF Request
<1>2. CASE Open(c, s)
  <2>1. Only(c, s)
    BY <1>2 DEF TypesOfUse, Only, Open, Begin, tabs
  <2>2. Opens(c, s)
    BY <1>2 DEF TypesOfUse, Opens, Open, Begin
  <2> QED BY <2>1, <2>2
<1>3. CASE CloseSession(c, s)
  <2>1. Only(c, s)
    BY <1>3 DEF TypesOfUse, Only, CloseSession, SetState, Begin, tabs
  <2>2. Comes(c, s)
    BY <1>3 DEF TypesOfUse, Comes, CloseSession, Begin, Closing, Waiting
  <2> QED BY <2>1, <2>2
<1>4. CASE TraceStart(c, s) \/ TraceStop(c, s)
  <2>1. Only(c, s)
    BY <1>4 DEF TypesOfUse, Only, TraceStart, TraceStop, Begin, tabs
  <2>2. Comes(c, s)
    BY <1>4 DEF TypesOfUse, Comes, TraceStart, TraceStop, Begin, Tracing,
       Waiting, Usable
  <2> QED BY <2>1, <2>2
<1>5. ASSUME NEW step \in Waiting, NEW p, Join(c, step, s, p)
      PROVE  Only(c, s) /\ Comes(c, s)
  <2>1. Only(c, s)
    BY <1>5 DEF TypesOfUse, Only, Join, Begin, tabs, Waiting
  <2>2. Comes(c, s)
    BY <1>5 DEF TypesOfUse, Comes, Join, Begin, Waiting, Usable
  <2> QED BY <2>1, <2>2
<1>6. {"page:line", "shut:line", "navigate:line"} = Waiting
  BY DEF Waiting
<1>. QED BY <1>1, <1>2, <1>3, <1>4, <1>5, <1>6
         DEF CreatePage, ClosePage, Navigate

LEMMA AnswerMoves ==
  ASSUME TypesOfUse, chain \in [Sessions -> Seq(Calls)], NEW c \in Calls, Answer(c)
  PROVE  Of(c) \in Sessions /\ Only(c, Of(c)) /\ Continues(c, Of(c))
<1> DEFINE s == Of(c)
<1>1. Of(c) \in Sessions
  BY DEF TypesOfUse, Of, At, Answer, Launched, Opened, OpenFails, CreatePageTurn,
     PageCreated, CreatePageFails, ClosePageTurn, PageClosed, NavigateTurn, Navigated,
     NavigateFails, PagesClosed, SessionClosed, TraceStarted, TraceStopped, TraceFails
<1>2. CASE Launched(c) \/ Opened(c) \/ OpenFails(c)
  <2>1. CASE Launched(c)
    <3>1. Only(c, s)
      BY <1>1, <2>1 DEF TypesOfUse, Only, Of, At, Launched, Goto, Call, tabs
    <3>2. Launches(c, s)
      BY <1>1, <2>1 DEF TypesOfUse, Launches, At, Launched, Goto, Opening, Call, tabs
    <3> QED BY <1>1, <3>1, <3>2 DEF Continues
  <2>2. CASE Opened(c)
    <3>1. opened' = [opened EXCEPT ![s] = 1] /\ opened'[s] = 1
      BY <1>1, <2>2 DEF TypesOfUse, Opened
    <3>2. \A t \in Sessions : opened[t] > 0 => opened'[t] > 0
      BY <3>1 DEF TypesOfUse
    <3>3. Only(c, s)
      BY <1>1, <2>2, <3>2 DEF TypesOfUse, Only, Of, Opened, SetState, Return
    <3>4. Launches(c, s)
      BY <1>1, <2>2, <3>1 DEF TypesOfUse, Launches, At, Opened, Return, Opening
    <3> QED BY <1>1, <3>3, <3>4 DEF Continues
  <2>3. CASE OpenFails(c)
    <3>1. Only(c, s)
      BY <1>1, <2>3 DEF TypesOfUse, Only, Of, OpenFails, Return, tabs
    <3>2. Launches(c, s)
      BY <1>1, <2>3 DEF TypesOfUse, Launches, At, OpenFails, Return, Opening, tabs
    <3> QED BY <1>1, <3>1, <3>2 DEF Continues
  <2> QED BY <1>2, <2>1, <2>2, <2>3
<1>3. CASE CreatePageTurn(c) \/ ClosePageTurn(c) \/ NavigateTurn(c)
  <2>1. Only(c, s)
    BY <1>1, <1>3 DEF TypesOfUse, Only, Of, At, CreatePageTurn, ClosePageTurn,
       NavigateTurn, LeaveByThrow, Leave, SetState, Goto, Return, Idle, Call, tabs
  <2>2. Enters(c, s) \/ Leaves(c, s)
    BY <1>1, <1>3 DEF TypesOfUse, Enters, Leaves, At, CreatePageTurn, ClosePageTurn,
       NavigateTurn, LeaveByThrow, Leave, Goto, Return, Waiting, Inside, Call
  <2> QED BY <1>1, <2>1, <2>2 DEF Continues
<1>4. CASE PageCreated(c) \/ CreatePageFails(c) \/ PageClosed(c) \/ Navigated(c)
           \/ NavigateFails(c)
  <2>1. Only(c, s)
    BY <1>1, <1>4 DEF TypesOfUse, Only, Of, At, PageCreated, CreatePageFails,
       PageClosed, Navigated, NavigateFails, MarkFailed, LeaveByThrow, Leave,
       SetState, Return, tabs
  <2>2. Leaves(c, s)
    BY <1>1, <1>4 DEF TypesOfUse, Leaves, At, PageCreated, CreatePageFails,
       PageClosed, Navigated, NavigateFails, LeaveByThrow, Leave, Return, Inside
  <2> QED BY <1>1, <2>1, <2>2 DEF Continues
<1>5. CASE PagesClosed(c) \/ SessionClosed(c)
  <2>1. Only(c, s)
    BY <1>1, <1>5 DEF TypesOfUse, Only, Of, At, PagesClosed, SessionClosed,
       SetState, Goto, Return, Idle, Call, tabs
  <2>2. Closes(c, s)
    BY <1>1, <1>5 DEF TypesOfUse, Closes, At, PagesClosed, SessionClosed, Goto,
       Return, Closing, Call
  <2> QED BY <1>1, <2>1, <2>2 DEF Continues
<1>6. CASE TraceStarted(c) \/ TraceStopped(c) \/ TraceFails(c)
  <2>1. Only(c, s)
    BY <1>1, <1>6 DEF TypesOfUse, Only, Of, TraceStarted, TraceStopped, TraceFails,
       SetState, Return, tabs
  <2>2. Traces(c, s)
    BY <1>1, <1>6 DEF TypesOfUse, Traces, At, TraceStarted, TraceStopped, TraceFails,
       Return, Tracing
  <2> QED BY <1>1, <2>1, <2>2 DEF Continues
<1>. QED BY <1>2, <1>3, <1>4, <1>5, <1>6 DEF Answer

-----------------------------------------------------------------------------
(* Whoever opens a session is alone with it, and it is not in the map yet. *)
OpeningInv ==
  /\ \A c \in Calls : calls[c].at = "idle" => calls[c] = Idle
  /\ \A s \in listed : opened[s] > 0
  /\ \A c \in Calls : calls[c].at \in Opening =>
       Of(c) \notin listed /\ \A d \in Calls \ {c} : Of(d) # Of(c)

(* A chain is the calls on its session, each once, and a call that is      *)
(* inside is the first of them.                                            *)
LineInv ==
  /\ chain \in [Sessions -> Seq(Calls)]
  /\ \A s \in Sessions : \A i \in 1..Len(chain[s]) :
       /\ Of(chain[s][i]) = s
       /\ calls[chain[s][i]].at \in Waiting \cup Inside
       /\ \A j \in 1..Len(chain[s]) : chain[s][i] = chain[s][j] => i = j
  /\ \A c \in Calls : calls[c].at \in Waiting =>
       \E i \in 1..Len(chain[Of(c)]) : chain[Of(c)][i] = c
  /\ \A c \in Calls : calls[c].at \in Inside =>
       chain[Of(c)] # <<>> /\ Head(chain[Of(c)]) = c

LEMMA OpeningInitial == Init => OpeningInv
BY DEF Init, OpeningInv, Idle, Opening

LEMMA LineInitial == Init => LineInv
BY DEF Init, LineInv, Idle, Waiting, Inside

LEMMA IdleIsNowhere ==
  ASSUME OpeningInv, NEW c \in Calls, calls[c].at = "idle", NEW s \in Sessions
  PROVE  Of(c) # s
BY NoneAssumption DEF OpeningInv, Idle, Of

LEMMA OpensKeepsOpening ==
  ASSUME TypesOfUse, OpeningInv, NEW c \in Calls, NEW s \in Sessions,
         Only(c, s), Opens(c, s)
  PROVE  OpeningInv'
<1>1. s \notin listed /\ \A d \in Calls : Of(d) # s
  BY DEF TypesOfUse, OpeningInv, Opens, On, Of, Call
<1>2. calls'[c].session = s /\ calls'[c].at = "open:launch" /\ listed' = listed
  BY DEF Only, Opens, Idle
<1>3. \A t \in listed' : opened'[t] > 0
  BY <1>2 DEF TypesOfUse, OpeningInv, Only
<1>4. \A d \in Calls : calls'[d].at = "idle" => calls'[d] = Idle
  BY <1>2 DEF OpeningInv, Only
<1>5. ASSUME NEW d \in Calls, calls'[d].at \in Opening
      PROVE  Of(d)' \notin listed' /\ \A e \in Calls \ {d} : Of(e)' # Of(d)'
  BY <1>1, <1>2, <1>5 DEF OpeningInv, Only, Of
<1> QED BY <1>3, <1>4, <1>5 DEF OpeningInv

LEMMA ComesKeepsOpening ==
  ASSUME TypesOfUse, OpeningInv, NEW c \in Calls, NEW s \in Sessions,
         Only(c, s), Comes(c, s)
  PROVE  OpeningInv'
<1>1. calls'[c].session = s /\ calls'[c].at \notin Opening \cup {"idle"} /\ listed' = listed
  BY DEF Only, Comes, Idle, Opening, Waiting, Tracing, Closing
<1>2. s \in listed
  BY DEF Comes
<1>3. \A t \in listed' : opened'[t] > 0
  BY <1>1 DEF TypesOfUse, OpeningInv, Only
<1>4. \A d \in Calls : calls'[d].at = "idle" => calls'[d] = Idle
  BY <1>1 DEF OpeningInv, Only
<1>5. ASSUME NEW d \in Calls, calls'[d].at \in Opening
      PROVE  Of(d)' \notin listed' /\ \A e \in Calls \ {d} : Of(e)' # Of(d)'
  BY <1>1, <1>2, <1>5 DEF OpeningInv, Only, Of
<1> QED BY <1>3, <1>4, <1>5 DEF OpeningInv

LEMMA ContinuesKeepsOpening ==
  ASSUME TypesOfUse, TypesOfUse', OpeningInv, NEW c \in Calls, NEW s \in Sessions,
         Only(c, s), Continues(c, s)
  PROVE  OpeningInv'
<1>1. Of(c) = s
  BY DEF Continues
<1>2. calls'[c] = Idle \/ (calls'[c].session = s /\ calls'[c].at # "idle")
  BY DEF Only
<1>3. \A d \in Calls : calls'[d].at = "idle" => calls'[d] = Idle
  BY <1>2 DEF OpeningInv, Only
<1>4. \A t \in listed' : t \in listed \/ (t = s /\ opened'[s] > 0)
  BY DEF TypesOfUse, Only, Continues, Launches, Enters, Leaves, Traces, Closes
<1>5. \A t \in listed' : opened'[t] > 0
  BY <1>4 DEF TypesOfUse, OpeningInv, Only
<1>6. CASE calls'[c].at \in Opening
  <2>1. Launches(c, s) /\ listed' = listed
    BY <1>6 DEF Continues, Launches, Enters, Leaves, Traces, Closes, Idle, Opening,
       Inside, Closing
  <2>2. calls[c].at \in Opening /\ calls'[c].session = s
    BY <1>2, <1>6, <2>1 DEF Launches, Idle, Opening
  <2>3. \A d \in Calls \ {c} : Of(d)' # s
    BY <1>1, <2>2 DEF OpeningInv, Only, Of
  <2>4. ASSUME NEW d \in Calls, calls'[d].at \in Opening
        PROVE  Of(d)' \notin listed' /\ \A e \in Calls \ {d} : Of(e)' # Of(d)'
    BY <1>1, <2>1, <2>2, <2>3, <2>4 DEF OpeningInv, Only, Of
  <2> QED BY <1>3, <1>5, <2>4 DEF OpeningInv
<1>7. CASE calls'[c].at \notin Opening
  <2>1. ASSUME NEW d \in Calls, calls'[d].at \in Opening
        PROVE  Of(d)' \notin listed' /\ \A e \in Calls \ {d} : Of(e)' # Of(d)'
    <3>1. d # c /\ calls'[d] = calls[d] /\ Of(d) \notin listed /\ Of(d) # s
      BY <1>1, <1>7, <2>1 DEF OpeningInv, Only, Of
    <3>2. Of(d)' = Of(d) /\ Of(d) \notin listed'
      BY <1>4, <3>1 DEF Of
    <3>3. Of(d) \in Sessions
      BY <2>1, <3>1 DEF TypesOfUse, Opening, Of
    <3>4. ASSUME NEW e \in Calls \ {d} PROVE Of(e)' # Of(d)'
      BY <1>2, <2>1, <3>1, <3>2, <3>3, NoneAssumption DEF OpeningInv, Only, Of, Idle
    <3> QED BY <3>2, <3>4
  <2> QED BY <1>3, <1>5, <2>1 DEF OpeningInv
<1> QED BY <1>6, <1>7

InLine == Waiting \cup Inside

(* The call moved is not in the line, before and after.                    *)
StaysOut(c) ==
  /\ calls[c].at \notin InLine /\ calls'[c].at \notin InLine
  /\ UNCHANGED chain

Joins(c, s) ==
  /\ calls[c].at = "idle"
  /\ calls'[c].at \in Waiting /\ calls'[c].session = s
  /\ chain' = [chain EXCEPT ![s] = Append(chain[s], c)]

LEMMA ComesInLine ==
  ASSUME NEW c \in Calls, NEW s \in Sessions, Only(c, s), Opens(c, s) \/ Comes(c, s)
  PROVE  StaysOut(c) \/ Joins(c, s)
BY DEF Only, Opens, Comes, StaysOut, Joins, At, InLine, Waiting, Inside, Tracing,
   Closing, Idle

LEMMA ContinuesInLine ==
  ASSUME NEW c \in Calls, NEW s \in Sessions, Only(c, s), Continues(c, s)
  PROVE  Of(c) = s /\ (StaysOut(c) \/ Enters(c, s) \/ Leaves(c, s))
BY DEF Only, Continues, Launches, Traces, Closes, StaysOut, At, InLine, Waiting,
   Inside, Tracing, Closing, Opening, Idle

LEMMA InLineOut ==
  ASSUME LineInv, NEW c \in Calls, calls[c].at \notin InLine
  PROVE  \A s \in Sessions : \A i \in 1..Len(chain[s]) :
           chain[s][i] # c /\ chain[s][i] \in Calls
BY ElementOfSeq DEF LineInv, InLine

LEMMA StaysOutKeepsLine ==
  ASSUME TypesOfUse, LineInv, NEW c \in Calls, NEW s \in Sessions, Only(c, s), StaysOut(c)
  PROVE  LineInv'
<1>1. chain' = chain /\ \A d \in Calls \ {c} : calls'[d] = calls[d]
  BY DEF StaysOut, Only
<1>2. \A t \in Sessions : \A i \in 1..Len(chain[t]) :
        chain[t][i] # c /\ chain[t][i] \in Calls
  BY InLineOut DEF StaysOut
<1>3. calls[c].at \notin Waiting \cup Inside /\ calls'[c].at \notin Waiting \cup Inside
  BY DEF StaysOut, InLine
<1>4. chain' \in [Sessions -> Seq(Calls)]
  BY <1>1 DEF LineInv
<1>5. ASSUME NEW t \in Sessions, NEW i \in 1..Len(chain'[t])
      PROVE  /\ Of(chain[t][i])' = t
             /\ calls'[chain'[t][i]].at \in Waiting \cup Inside
             /\ \A j \in 1..Len(chain'[t]) : chain'[t][i] = chain'[t][j] => i = j
  BY <1>1, <1>2 DEF LineInv, Of
<1>6. ASSUME NEW d \in Calls, calls'[d].at \in Waiting
      PROVE  \E i \in 1..Len(chain[Of(d)])' : chain'[Of(d)'][i] = d
  <2>1. d # c /\ calls'[d] = calls[d] /\ Of(d)' = Of(d)
    BY <1>1, <1>3, <1>6 DEF Of
  <2> QED BY <1>1, <1>6, <2>1 DEF LineInv
<1>7. ASSUME NEW d \in Calls, calls'[d].at \in Inside
      PROVE  chain'[Of(d)'] # <<>> /\ Head(chain'[Of(d)']) = d
  <2>1. d # c /\ calls'[d] = calls[d] /\ Of(d)' = Of(d)
    BY <1>1, <1>3, <1>7 DEF Of
  <2> QED BY <1>1, <1>7, <2>1 DEF LineInv
<1> QED BY <1>4, <1>5, <1>6, <1>7 DEF LineInv

LEMMA EntersKeepsLine ==
  ASSUME TypesOfUse, LineInv, NEW c \in Calls, NEW s \in Sessions, Of(c) = s,
         Only(c, s), Enters(c, s)
  PROVE  LineInv'
<1>1. chain' = chain /\ \A d \in Calls \ {c} : calls'[d] = calls[d]
  BY DEF Enters, Only
<1>2. calls'[c].session = s /\ calls'[c].at \in Inside /\ calls[c].at \in Waiting
  BY DEF Enters, Only, Idle, Inside
<1>3. chain[s] # <<>> /\ Head(chain[s]) = c
  BY DEF Enters, MyTurn, LineInv
<1>4. chain' \in [Sessions -> Seq(Calls)]
  BY <1>1 DEF LineInv
<1>5. \A d \in Calls : /\ Of(d)' = Of(d)
                       /\ calls[d].at \in InLine <=> calls'[d].at \in InLine
                       /\ calls'[d].at \in Waiting => calls[d].at \in Waiting
                       /\ d # c => (calls'[d].at \in Inside <=> calls[d].at \in Inside)
  BY <1>1, <1>2 DEF Of, InLine, Waiting, Inside
<1>6. ASSUME NEW t \in Sessions, NEW i \in 1..Len(chain'[t])
      PROVE  /\ Of(chain[t][i])' = t
             /\ calls'[chain'[t][i]].at \in Waiting \cup Inside
             /\ \A j \in 1..Len(chain'[t]) : chain'[t][i] = chain'[t][j] => i = j
  <2>1. chain[t][i] \in Calls
    BY <1>1, ElementOfSeq DEF LineInv
  <2> QED BY <1>1, <1>5, <2>1 DEF LineInv, InLine
<1>7. ASSUME NEW d \in Calls, calls'[d].at \in Waiting
      PROVE  \E i \in 1..Len(chain[Of(d)])' : chain'[Of(d)'][i] = d
  BY <1>1, <1>5, <1>7 DEF LineInv
<1>8. ASSUME NEW d \in Calls, calls'[d].at \in Inside
      PROVE  chain'[Of(d)'] # <<>> /\ Head(chain'[Of(d)']) = d
  BY <1>1, <1>3, <1>5, <1>8 DEF LineInv
<1> QED BY <1>4, <1>6, <1>7, <1>8 DEF LineInv

LEMMA JoinsKeepsLine ==
  ASSUME TypesOfUse, LineInv, NEW c \in Calls, NEW s \in Sessions,
         Only(c, s), Joins(c, s)
  PROVE  LineInv'
<1> DEFINE line == chain[s]
<1>1. /\ line \in Seq(Calls) /\ Len(line) \in Nat
      /\ chain' = [chain EXCEPT ![s] = Append(line, c)]
      /\ \A d \in Calls \ {c} : calls'[d] = calls[d]
  BY DEF Joins, Only, LineInv
<1>2. /\ Len(Append(line, c)) = Len(line) + 1
      /\ Append(line, c)[Len(line) + 1] = c
      /\ \A i \in 1..Len(line) : Append(line, c)[i] = line[i]
      /\ Append(line, c) \in Seq(Calls)
  BY <1>1, AppendProperties
<1>3. chain' \in [Sessions -> Seq(Calls)] /\ chain'[s] = Append(line, c)
      /\ \A t \in Sessions \ {s} : chain'[t] = chain[t]
  BY <1>1, <1>2 DEF LineInv
<1>4. calls[c].at \notin InLine /\ calls'[c].at \in Waiting /\ Of(c)' = s
      /\ calls'[c].at \notin Inside
  BY DEF Joins, Of, InLine, Waiting, Inside
<1>5. \A t \in Sessions : \A i \in 1..Len(chain[t]) :
        chain[t][i] # c /\ chain[t][i] \in Calls
  BY <1>4, InLineOut
<1>6. ASSUME NEW t \in Sessions, NEW i \in 1..Len(chain'[t])
      PROVE  /\ Of(chain[t][i])' = t
             /\ calls'[chain'[t][i]].at \in Waiting \cup Inside
             /\ \A j \in 1..Len(chain'[t]) : chain'[t][i] = chain'[t][j] => i = j
  <2>1. CASE t # s
    BY <1>1, <1>3, <1>5, <2>1 DEF LineInv, Of
  <2>2. CASE t = s /\ i = Len(line) + 1
    <3>1. chain'[t][i] = c /\ \A j \in 1..Len(line) : chain'[t][j] = line[j] /\ line[j] # c
      BY <1>2, <1>3, <1>5, <2>2
    <3>2. \A j \in 1..Len(chain'[t]) : j \in 1..Len(line) \/ j = i
      BY <1>1, <1>2, <1>3, <2>2
    <3>3. chain'[t][i] = c /\ calls'[chain'[t][i]].at \in Waiting /\ Of(chain[t][i])' = t
      BY <1>4, <2>2, <3>1 DEF Of
    <3> QED BY <3>1, <3>2, <3>3
  <2>3. CASE t = s /\ i \in 1..Len(line)
    <3>1. chain'[t][i] = line[i] /\ line[i] # c /\ line[i] \in Calls
      BY <1>2, <1>3, <1>5, <2>3
    <3>2. \A j \in 1..Len(chain'[t]) : (j \in 1..Len(line) /\ chain'[t][j] = line[j])
                                        \/ chain'[t][j] = c
      BY <1>1, <1>2, <1>3, <2>3
    <3>3. /\ Of(line[i]) = s /\ calls[line[i]].at \in Waiting \cup Inside
          /\ \A j \in 1..Len(line) : line[i] = line[j] => i = j
      BY <2>3 DEF LineInv
    <3>4. calls'[line[i]] = calls[line[i]]
      BY <1>1, <3>1
    <3> QED BY <2>3, <3>1, <3>2, <3>3, <3>4 DEF Of
  <2> QED BY <1>1, <1>2, <1>3, <2>1, <2>2, <2>3
<1>7. ASSUME NEW d \in Calls, calls'[d].at \in Waiting
      PROVE  \E i \in 1..Len(chain[Of(d)])' : chain'[Of(d)'][i] = d
  <2>1. CASE d = c
    <3>1. Len(line) + 1 \in 1..Len(chain'[s]) /\ chain'[s][Len(line) + 1] = c
      BY <1>1, <1>2, <1>3
    <3> QED BY <1>4, <2>1, <3>1
  <2>2. CASE d # c
    <3>1. calls'[d] = calls[d] /\ Of(d)' = Of(d) /\ Of(d) \in Sessions
      BY <1>1, <1>7, <2>2 DEF Of, TypesOfUse, Waiting
    <3>2. PICK i \in 1..Len(chain[Of(d)]) : chain[Of(d)][i] = d
      BY <1>7, <3>1 DEF LineInv
    <3>3. i \in 1..Len(chain'[Of(d)]) /\ chain'[Of(d)][i] = d
      BY <1>1, <1>2, <1>3, <3>1, <3>2
    <3> QED BY <3>1, <3>3
  <2> QED BY <2>1, <2>2
<1>8. ASSUME NEW d \in Calls, calls'[d].at \in Inside
      PROVE  chain'[Of(d)'] # <<>> /\ Head(chain'[Of(d)']) = d
  <2>1. calls'[d] = calls[d] /\ Of(d)' = Of(d) /\ Of(d) \in Sessions
    BY <1>1, <1>4, <1>8 DEF Of, TypesOfUse, Inside
  <2>2. chain[Of(d)] # <<>> /\ Head(chain[Of(d)]) = d
    BY <1>8, <2>1 DEF LineInv
  <2>3. CASE Of(d) = s
    <3>1. Append(line, c) # <<>> /\ Head(Append(line, c)) = Head(line)
      BY <1>1, <1>2, <2>2, <2>3
    <3> QED BY <1>3, <2>1, <2>2, <2>3, <3>1
  <2>4. CASE Of(d) # s
    BY <1>3, <2>1, <2>2, <2>4
  <2> QED BY <2>3, <2>4
<1> QED BY <1>3, <1>6, <1>7, <1>8 DEF LineInv

LEMMA LeavesKeepsLine ==
  ASSUME TypesOfUse, LineInv, NEW c \in Calls, NEW s \in Sessions, Of(c) = s,
         Only(c, s), Leaves(c, s)
  PROVE  LineInv'
<1> DEFINE line == chain[s]
           rest == Tail(line)
<1>1. /\ line \in Seq(Calls) /\ Len(line) \in Nat /\ calls'[c] = Idle
      /\ chain' = [chain EXCEPT ![s] = rest]
      /\ \A d \in Calls \ {c} : calls'[d] = calls[d]
  BY DEF Leaves, Only, LineInv
<1>2. line # <<>> /\ Head(line) = c
  BY DEF Leaves, MyTurn, LineInv
<1>3. /\ Len(rest) = Len(line) - 1 /\ rest \in Seq(Calls) /\ line[1] = c
      /\ \A i \in 1..Len(rest) : rest[i] = line[i + 1]
  BY <1>1, <1>2, HeadTailProperties
<1>4. chain' \in [Sessions -> Seq(Calls)] /\ chain'[s] = rest
      /\ \A t \in Sessions \ {s} : chain'[t] = chain[t]
  BY <1>1, <1>3 DEF LineInv
<1>5. calls'[c].at \notin Waiting \cup Inside
  BY <1>1 DEF Idle, Waiting, Inside
<1>6. \A i \in 1..Len(line) : line[i] = c => i = 1
  BY <1>1, <1>2, <1>3 DEF LineInv
<1>7. ASSUME NEW t \in Sessions, NEW i \in 1..Len(chain'[t])
      PROVE  /\ Of(chain[t][i])' = t
             /\ calls'[chain'[t][i]].at \in Waiting \cup Inside
             /\ \A j \in 1..Len(chain'[t]) : chain'[t][i] = chain'[t][j] => i = j
  <2>1. CASE t # s
    <3>1. chain[t][i] \in Calls /\ Of(chain[t][i]) = t /\ chain'[t] = chain[t]
      BY <1>4, <2>1, ElementOfSeq DEF LineInv
    <3>2. chain[t][i] # c
      BY <2>1, <3>1
    <3> QED BY <1>1, <1>4, <2>1, <3>1, <3>2 DEF LineInv, Of
  <2>2. CASE t = s
    <3>1. /\ i + 1 \in 1..Len(line) /\ chain'[t][i] = line[i + 1] /\ i + 1 # 1
          /\ \A j \in 1..Len(chain'[t]) : j + 1 \in 1..Len(line) /\ chain'[t][j] = line[j + 1]
      BY <1>1, <1>3, <1>4, <2>2
    <3>2. line[i + 1] # c /\ line[i + 1] \in Calls
      BY <1>1, <1>6, <3>1, ElementOfSeq
    <3>3. /\ Of(line[i + 1]) = s /\ calls[line[i + 1]].at \in Waiting \cup Inside
          /\ \A j \in 1..Len(line) : line[i + 1] = line[j] => i + 1 = j
      BY <3>1 DEF LineInv
    <3>4. calls'[line[i + 1]] = calls[line[i + 1]]
      BY <1>1, <3>2
    <3>5. \A j \in 1..Len(chain'[t]) : chain'[t][i] = chain'[t][j] => i = j
      BY <1>3, <1>4, <2>2, <3>1, <3>3
    <3> QED BY <2>2, <3>1, <3>3, <3>4, <3>5 DEF Of
  <2> QED BY <2>1, <2>2
<1>8. ASSUME NEW d \in Calls, calls'[d].at \in Waiting
      PROVE  \E i \in 1..Len(chain[Of(d)])' : chain'[Of(d)'][i] = d
  <2>1. d # c /\ calls'[d] = calls[d] /\ Of(d)' = Of(d) /\ Of(d) \in Sessions
    BY <1>1, <1>5, <1>8 DEF Of, TypesOfUse, Waiting
  <2>2. PICK i \in 1..Len(chain[Of(d)]) : chain[Of(d)][i] = d
    BY <1>8, <2>1 DEF LineInv
  <2>3. CASE Of(d) = s
    <3>1. i # 1 /\ i - 1 \in 1..Len(rest) /\ rest[i - 1] = d
      BY <1>1, <1>3, <2>1, <2>2, <2>3
    <3> QED BY <1>4, <2>1, <2>3, <3>1
  <2>4. CASE Of(d) # s
    BY <1>4, <2>1, <2>2, <2>4
  <2> QED BY <2>3, <2>4
<1>9. ASSUME NEW d \in Calls, calls'[d].at \in Inside
      PROVE  chain'[Of(d)'] # <<>> /\ Head(chain'[Of(d)']) = d
  <2>1. d # c /\ calls'[d] = calls[d] /\ Of(d)' = Of(d) /\ Of(d) \in Sessions
    BY <1>1, <1>5, <1>9 DEF Of, TypesOfUse, Inside
  <2>2. chain[Of(d)] # <<>> /\ Head(chain[Of(d)]) = d
    BY <1>9, <2>1 DEF LineInv
  <2>3. Of(d) # s
    BY <1>2, <2>1, <2>2
  <2> QED BY <1>4, <2>1, <2>2, <2>3
<1> QED BY <1>4, <1>7, <1>8, <1>9 DEF LineInv

(* What is true of every reachable state of the sessions.                  *)
SessionsInv == UseInv /\ OpeningInv /\ LineInv

LEMMA NextMoves ==
  ASSUME SessionsInv, Next
  PROVE  \E c \in Calls, s \in Sessions :
           Only(c, s) /\ (Opens(c, s) \/ Comes(c, s) \/ Continues(c, s))
<1>1. TypesOfUse /\ chain \in [Sessions -> Seq(Calls)]
  BY DEF SessionsInv, UseInv, LineInv
<1> QED BY <1>1, RequestMoves, AnswerMoves DEF Next

LEMMA SessionsStep == SessionsInv /\ [Next]_vars => SessionsInv'
<1> SUFFICES ASSUME SessionsInv, [Next]_vars PROVE OpeningInv' /\ LineInv' /\ UseInv'
  BY DEF SessionsInv
<1>1. UseInv'
  BY UseInductive DEF SessionsInv
<1>2. CASE UNCHANGED vars
  BY <1>1, <1>2 DEF vars, tabs, SessionsInv, OpeningInv, LineInv, Of
<1>3. CASE Next
  <2>1. PICK c \in Calls, s \in Sessions :
          Only(c, s) /\ (Opens(c, s) \/ Comes(c, s) \/ Continues(c, s))
    BY <1>3, NextMoves
  <2>2. TypesOfUse /\ TypesOfUse' /\ OpeningInv /\ LineInv
    BY <1>1 DEF SessionsInv, UseInv
  <2>3. CASE Opens(c, s) \/ Comes(c, s)
    BY <1>1, <2>1, <2>2, <2>3, OpensKeepsOpening, ComesKeepsOpening, ComesInLine,
       StaysOutKeepsLine, JoinsKeepsLine
  <2>4. CASE Continues(c, s)
    BY <1>1, <2>1, <2>2, <2>4, ContinuesKeepsOpening, ContinuesInLine,
       StaysOutKeepsLine, EntersKeepsLine, LeavesKeepsLine
  <2> QED BY <2>1, <2>3, <2>4
<1> QED BY <1>2, <1>3

LEMMA SessionsInvariant == Spec => []SessionsInv
<1>1. Init => SessionsInv
  BY UseInitial, OpeningInitial, LineInitial DEF SessionsInv
<1> QED BY <1>1, SessionsStep, PTL DEF Spec

(* Whoever waits is on the chain, and the first of a chain is a call in    *)
(* flight that will leave it: nobody waits for a call that has gone.       *)
THEOREM ChainsMove == Spec => []ChainMoves
<1>1. LineInv => ChainMoves
  <2> SUFFICES ASSUME LineInv, NEW s \in Sessions
               PROVE  /\ \A i \in DOMAIN chain[s] :
                           /\ Of(chain[s][i]) = s
                           /\ calls[chain[s][i]].at \in Waiting \cup Inside
                      /\ \A c \in Calls : calls[c].at \in Waiting /\ Of(c) = s =>
                           \E i \in DOMAIN chain[s] : chain[s][i] = c
    BY DEF ChainMoves
  <2>1. DOMAIN chain[s] = 1..Len(chain[s])
    BY DEF LineInv
  <2> QED BY <2>1 DEF LineInv
<1>2. SessionsInv => ChainMoves
  BY <1>1 DEF SessionsInv
<1> QED BY <1>2, SessionsInvariant, PTL

-----------------------------------------------------------------------------
(* The chains as a first come, first served lock: who is in line and who   *)
(* holds it.                                                               *)
LineOf(s) == IF Entered(s) # {} THEN Tail(chain[s]) ELSE chain[s]
HolderOf(s) ==
  IF Entered(s) # {} THEN CHOOSE c \in Entered(s) : TRUE ELSE None

LEMMA EnteredIsFirst ==
  ASSUME LineInv, NEW s \in Sessions, NEW c \in Entered(s)
  PROVE  /\ chain[s] # <<>> /\ Head(chain[s]) = c
         /\ Entered(s) = {c} /\ HolderOf(s) = c
<1>1. \A d \in Entered(s) : chain[s] # <<>> /\ Head(chain[s]) = d
  BY DEF LineInv, Entered
<1>2. Entered(s) = {c}
  BY <1>1
<1> QED BY <1>1, <1>2 DEF HolderOf

LEMMA FirstIsWaiting ==
  ASSUME LineInv, NEW s \in Sessions, NEW c \in Calls, Of(c) = s, MyTurn(c),
         calls[c].at \in Waiting
  PROVE  /\ chain[s] # <<>> /\ Head(chain[s]) = c
         /\ Entered(s) = {} /\ HolderOf(s) = None /\ LineOf(s) = chain[s]
<1>1. chain[s] # <<>> /\ Head(chain[s]) = c
  BY DEF LineInv, MyTurn
<1>2. \A d \in Entered(s) : d = c /\ calls[c].at \in Inside
  BY <1>1 DEF LineInv, Entered
<1>3. Entered(s) = {}
  BY <1>2 DEF Waiting, Inside
<1> QED BY <1>1, <1>3 DEF HolderOf, LineOf

LEMMA OthersInLine ==
  ASSUME NEW c \in Calls, NEW s \in Sessions, NEW t \in Sessions \ {s}, Only(c, s),
         chain'[t] = chain[t], calls[c].at \in InLine => Of(c) = s
  PROVE  LineOf(t)' = LineOf(t) /\ HolderOf(t)' = HolderOf(t)
<1>1. calls[c].at \notin Inside \/ Of(c) # t
  BY DEF InLine
<1>2. calls'[c].at \notin Inside \/ Of(c)' # t
  BY DEF Only, Idle, Inside, Of
<1>3. Entered(t)' = Entered(t)
  BY <1>1, <1>2 DEF Entered, Only, Of
<1> QED BY <1>3 DEF LineOf, HolderOf

LEMMA StaysOutInLine ==
  ASSUME NEW c \in Calls, NEW s \in Sessions, Only(c, s), StaysOut(c)
  PROVE  \A t \in Sessions : LineOf(t)' = LineOf(t) /\ HolderOf(t)' = HolderOf(t)
<1>1. \A t \in Sessions : Entered(t)' = Entered(t)
  BY DEF Entered, Only, Of, StaysOut, InLine
<1>2. UNCHANGED chain
  BY DEF StaysOut
<1>3. ASSUME NEW t \in Sessions
      PROVE  LineOf(t)' = LineOf(t) /\ HolderOf(t)' = HolderOf(t)
  <2>1. Entered(t)' = Entered(t) /\ chain'[t] = chain[t]
    BY <1>1, <1>2
  <2> QED BY <2>1 DEF LineOf, HolderOf
<1> QED BY <1>3

LEMMA JoinsTheLine ==
  ASSUME LineInv, NEW c \in Calls, NEW s \in Sessions, Only(c, s), Joins(c, s)
  PROVE  /\ LineOf(s)' = Append(LineOf(s), c) /\ HolderOf(s)' = HolderOf(s)
         /\ \A t \in Sessions :
              HolderOf(t) # c /\ \A i \in DOMAIN LineOf(t) : LineOf(t)[i] # c
<1>1. calls[c].at \notin InLine /\ calls'[c].at \notin Inside
  BY DEF Joins, InLine, Waiting, Inside
<1>2. Entered(s)' = Entered(s)
  BY <1>1 DEF Entered, Only, Of, InLine
<1>3. chain[s] \in Seq(Calls) /\ chain'[s] = Append(chain[s], c)
  BY DEF LineInv, Joins
<1>4. LineOf(s)' = Append(LineOf(s), c)
  <2>1. CASE Entered(s) = {}
    BY <1>2, <1>3, <2>1 DEF LineOf
  <2>2. CASE Entered(s) # {}
    <3>1. chain[s] # <<>>
      BY <2>2, EnteredIsFirst
    <3>2. Tail(Append(chain[s], c)) = Append(Tail(chain[s]), c)
      BY <1>3, <3>1
    <3> QED BY <1>2, <1>3, <2>2, <3>2 DEF LineOf
  <2> QED BY <2>1, <2>2
<1>5. HolderOf(s)' = HolderOf(s)
  BY <1>2 DEF HolderOf
<1>6. ASSUME NEW t \in Sessions PROVE HolderOf(t) # c
  <2>1. c \notin Entered(t)
    BY <1>1 DEF Entered, InLine
  <2> QED BY <2>1, EnteredIsFirst, NoneAssumption DEF HolderOf
<1>7. ASSUME NEW t \in Sessions, NEW i \in DOMAIN LineOf(t) PROVE LineOf(t)[i] # c
  <2>1. chain[t] \in Seq(Calls) /\ \A j \in 1..Len(chain[t]) : chain[t][j] # c
    BY <1>1, InLineOut DEF LineInv
  <2>2. CASE Entered(t) = {}
    BY <2>1, <2>2 DEF LineOf
  <2>3. CASE Entered(t) # {}
    <3>1. chain[t] # <<>> /\ LineOf(t) = Tail(chain[t])
      BY <2>3, EnteredIsFirst DEF LineOf
    <3>2. i \in 1..(Len(chain[t]) - 1) /\ LineOf(t)[i] = chain[t][i + 1]
      BY <2>1, <3>1
    <3> QED BY <2>1, <3>2
  <2> QED BY <2>2, <2>3
<1> QED BY <1>4, <1>5, <1>6, <1>7

LEMMA EntersFromTheLine ==
  ASSUME LineInv, LineInv', NEW c \in Calls, NEW s \in Sessions, Of(c) = s,
         Only(c, s), Enters(c, s)
  PROVE  /\ HolderOf(s) = None /\ LineOf(s) # <<>>
         /\ HolderOf(s)' = Head(LineOf(s)) /\ LineOf(s)' = Tail(LineOf(s))
<1>1. /\ LineOf(s) = chain[s] /\ chain[s] # <<>> /\ Head(chain[s]) = c
      /\ HolderOf(s) = None /\ Entered(s) = {}
  BY FirstIsWaiting DEF Enters
<1>2. Entered(s)' = {c}
  BY <1>1 DEF Enters, Only, Entered, Of, Idle, Inside
<1>3. HolderOf(s)' = c /\ LineOf(s)' = Tail(chain[s])
  BY <1>2 DEF HolderOf, LineOf, Enters
<1> QED BY <1>1, <1>3

LEMMA LeavesTheLine ==
  ASSUME LineInv, NEW c \in Calls, NEW s \in Sessions, Of(c) = s,
         Only(c, s), Leaves(c, s)
  PROVE  \/ /\ HolderOf(s) = None /\ LineOf(s) # <<>> /\ HolderOf(s)' = None
            /\ LineOf(s)' = Tail(LineOf(s))
         \/ HolderOf(s) # None /\ HolderOf(s)' = None /\ LineOf(s)' = LineOf(s)
<1>1. calls'[c] = Idle /\ chain'[s] = Tail(chain[s])
  BY DEF Leaves, LineInv
<1>2. Entered(s)' \subseteq Entered(s) \ {c}
  BY <1>1 DEF Only, Entered, Of, Idle, Inside
<1>3. CASE calls[c].at \in Waiting
  <2>1. MyTurn(c)
    BY <1>3 DEF Leaves, Waiting, Inside
  <2>2. /\ chain[s] # <<>> /\ Entered(s) = {} /\ HolderOf(s) = None
        /\ LineOf(s) = chain[s]
    BY <1>3, <2>1, FirstIsWaiting
  <2>3. Entered(s)' = {}
    BY <1>2, <2>2
  <2> QED BY <1>1, <2>2, <2>3 DEF HolderOf, LineOf
<1>4. CASE calls[c].at \in Inside
  <2>1. c \in Entered(s)
    BY <1>4 DEF Entered
  <2>2. Entered(s) = {c} /\ HolderOf(s) = c
    BY <2>1, EnteredIsFirst
  <2>3. Entered(s)' = {}
    BY <1>2, <2>2
  <2> QED BY <1>1, <2>2, <2>3, NoneAssumption DEF HolderOf, LineOf
<1> QED BY <1>3, <1>4 DEF Leaves

Lines == [s \in Sessions |-> LineOf(s)]
Holders == [s \in Sessions |-> HolderOf(s)]

LEMMA FifoStep == SessionsInv /\ [Next]_vars => [Fifo!Next]_(Fifo!lock)
<1> SUFFICES ASSUME SessionsInv, [Next]_vars PROVE [Fifo!Next]_(Fifo!lock)
  OBVIOUS
<1>1. /\ Fifo!lock = <<Lines, Holders>> /\ Fifo!lock' = <<Lines', Holders'>>
  BY DEF Fifo!lock, Lines, Holders, LineOf, HolderOf
<1>2. CASE UNCHANGED vars
  <2>1. Lines' = Lines /\ Holders' = Holders
    BY <1>2 DEF vars, Lines, Holders, LineOf, HolderOf, Entered, Of
  <2> QED BY <1>1, <2>1
<1>3. CASE Next
  <2>1. PICK c \in Calls, s \in Sessions :
          Only(c, s) /\ (Opens(c, s) \/ Comes(c, s) \/ Continues(c, s))
    BY <1>3, NextMoves
  <2>2. LineInv /\ LineInv'
    BY SessionsStep DEF SessionsInv
  <2>3. CASE StaysOut(c)
    <3>1. Lines' = Lines /\ Holders' = Holders
      BY <2>1, <2>3, StaysOutInLine DEF Lines, Holders
    <3> QED BY <1>1, <3>1
  <2>4. ASSUME chain' = [chain EXCEPT ![s] = chain'[s]],
               calls[c].at \in InLine => Of(c) = s
        PROVE  /\ Lines' = [Lines EXCEPT ![s] = LineOf(s)']
               /\ Holders' = [Holders EXCEPT ![s] = HolderOf(s)']
    <3>1. \A t \in Sessions \ {s} : LineOf(t)' = LineOf(t) /\ HolderOf(t)' = HolderOf(t)
      BY <2>1, <2>2, <2>4, OthersInLine DEF LineInv
    <3> QED BY <3>1 DEF Lines, Holders
  <2>5. CASE Joins(c, s)
    <3>1. /\ Lines' = [Lines EXCEPT ![s] = LineOf(s)']
          /\ Holders' = [Holders EXCEPT ![s] = HolderOf(s)']
      BY <2>2, <2>4, <2>5 DEF Joins, InLine, Waiting, Inside, LineInv
    <3>2. /\ LineOf(s)' = Append(LineOf(s), c) /\ HolderOf(s)' = HolderOf(s)
          /\ \A t \in Sessions :
               HolderOf(t) # c /\ \A i \in DOMAIN LineOf(t) : LineOf(t)[i] # c
      BY <2>1, <2>2, <2>5, JoinsTheLine
    <3>3. /\ \A t \in Sessions : Holders[t] # c /\ \A i \in DOMAIN Lines[t] : Lines[t][i] # c
          /\ Lines' = [Lines EXCEPT ![s] = Append(Lines[s], c)]
          /\ Holders' = Holders
      BY <3>1, <3>2 DEF Lines, Holders
    <3>4. Fifo!Join(c, s)
      BY <3>3 DEF Fifo!Join, Lines, Holders, LineOf, HolderOf
    <3> QED BY <3>4 DEF Fifo!Next
  <2>6. CASE Of(c) = s /\ Enters(c, s)
    <3>1. /\ Lines' = [Lines EXCEPT ![s] = LineOf(s)']
          /\ Holders' = [Holders EXCEPT ![s] = HolderOf(s)']
      BY <2>2, <2>4, <2>6 DEF Enters, LineInv
    <3>2. /\ HolderOf(s) = None /\ LineOf(s) # <<>>
          /\ HolderOf(s)' = Head(LineOf(s)) /\ LineOf(s)' = Tail(LineOf(s))
      BY <2>1, <2>2, <2>6, EntersFromTheLine
    <3>3. Fifo!Grant(s)
      BY <3>1, <3>2 DEF Fifo!Grant, Lines, Holders, LineOf, HolderOf
    <3> QED BY <3>3 DEF Fifo!Next
  <2>7. CASE Of(c) = s /\ Leaves(c, s)
    <3>1. /\ Lines' = [Lines EXCEPT ![s] = LineOf(s)']
          /\ Holders' = [Holders EXCEPT ![s] = HolderOf(s)']
      BY <2>2, <2>4, <2>7 DEF Leaves, LineInv
    <3>2. \/ /\ HolderOf(s) = None /\ LineOf(s) # <<>> /\ HolderOf(s)' = None
             /\ LineOf(s)' = Tail(LineOf(s))
          \/ HolderOf(s) # None /\ HolderOf(s)' = None /\ LineOf(s)' = LineOf(s)
      BY <2>1, <2>2, <2>7, LeavesTheLine
    <3>3. \/ /\ Holders[s] = None /\ Lines[s] # <<>>
             /\ Lines' = [Lines EXCEPT ![s] = Tail(Lines[s])]
             /\ Holders' = Holders
          \/ /\ Holders[s] # None /\ Holders' = [Holders EXCEPT ![s] = None]
             /\ Lines' = Lines
      BY <3>1, <3>2 DEF Lines, Holders
    <3>4. Fifo!Pass(s) \/ Fifo!Release(s)
      BY <3>3 DEF Fifo!Pass, Fifo!Release, Lines, Holders, LineOf, HolderOf
    <3> QED BY <3>4 DEF Fifo!Next
  <2> QED BY <2>1, <2>3, <2>5, <2>6, <2>7, ComesInLine, ContinuesInLine
<1> QED BY <1>2, <1>3

(* The calls that wait on a session's chain take effect one at a time and  *)
(* in the order they were made.                                            *)
THEOREM ServedInOrder == Spec => OneAtATime
<1>1. Init => Fifo!Init
  BY DEF Init, Fifo!Init, Entered, Idle, Inside
<1> QED BY <1>1, FifoStep, SessionsInvariant, PTL DEF Spec, OneAtATime, Fifo!Spec

-----------------------------------------------------------------------------
(* The sessions in use, and those that a call in flight may still make so: *)
(* only openSession adds one, and it counts them all but the latter.       *)
Working == {"page:line", "shut:line", "navigate:line", "page:new", "shut:close",
            "navigate:goto", "trace:start", "trace:stop"}
Held(s) == On(s, Opening) \/ (s \in listed /\ On(s, Working))
Live(s) == ~On(s, Closing) /\ (Usable(s) \/ Held(s))
LiveSessions == {s \in Sessions : Live(s)}
LiveInv == Cardinality(LiveSessions) <= MaxSessions + Cardinality(Calls) - 1

LEMMA OtherSessionsStay ==
  ASSUME NEW c \in Calls, NEW s \in Sessions, NEW t \in Sessions \ {s}, Only(c, s),
         calls[c] = Idle \/ Of(c) = s
  PROVE  Live(t)' = Live(t)
<1>1. \A steps : On(t, steps)' = On(t, steps)
  BY NoneAssumption DEF Only, On, Of, Idle
<1>2. Usable(t)' = Usable(t)
  BY DEF Only, Usable
<1>3. t \in listed' <=> t \in listed
  BY DEF Only
<1>4. /\ On(t, Opening)' = On(t, Opening) /\ On(t, Working)' = On(t, Working)
      /\ On(t, Closing)' = On(t, Closing)
  BY <1>1
<1> QED BY <1>2, <1>3, <1>4 DEF Live, Held

LEMMA ComesToLive ==
  ASSUME OpeningInv, NEW c \in Calls, NEW s \in Sessions, Only(c, s), Comes(c, s), Live(s)'
  PROVE  Live(s)
<1>1. calls[c] = Idle /\ Of(c) # s
  BY IdleIsNowhere DEF Comes, At, OpeningInv
<1>2. calls'[c].session = s /\ calls'[c].at # "idle"
  BY DEF Only, Comes, Idle, Tracing, Waiting, Closing
<1>3. calls'[c].at \notin Closing
  BY <1>2 DEF Live, On, Of
<1>4. Usable(s)
  BY <1>3 DEF Comes
<1>5. ~On(s, Closing)
  BY <1>1 DEF Live, On, Of, Only
<1> QED BY <1>4, <1>5 DEF Live

LEMMA ContinuesToLive ==
  ASSUME OpeningInv, NEW c \in Calls, NEW s \in Sessions, Only(c, s), Continues(c, s), Live(s)'
  PROVE  Live(s)
<1>1. Of(c) = s
  BY DEF Continues
<1>2. \A d \in Calls : Of(d)' = s => Of(d) = s
  BY <1>1 DEF Only, Of
<1>3. CASE Launches(c, s)
  <2>1. On(s, Opening)
    BY <1>1, <1>3 DEF Launches, On
  <2>2. \A d \in Calls : Of(d) = s => d = c
    BY <1>1, <1>3 DEF Launches, OpeningInv
  <2>3. ~On(s, Closing)
    BY <1>3, <2>2 DEF Launches, On, Opening, Closing
  <2> QED BY <2>1, <2>3 DEF Live, Held
<1>4. CASE calls[c].at \in Working /\ calls'[c].at \notin Closing /\ listed' = listed
           /\ calls'[c].at \notin Opening
  <2>1. On(s, Working)
    BY <1>1, <1>4 DEF On
  <2>2. ~On(s, Closing)
    <3>1. SUFFICES ASSUME NEW d \in Calls, Of(d) = s, calls[d].at \in Closing PROVE FALSE
      BY DEF On
    <3>2. d # c
      BY <1>4, <3>1 DEF Working, Closing
    <3>3. Of(d)' = s /\ calls'[d].at \in Closing
      BY <3>1, <3>2 DEF Only, Of
    <3> QED BY <3>3 DEF Live, On
  <2>3. s \in listed
    <3>1. CASE Usable(s)'
      BY <1>4, <3>1 DEF Usable
    <3>2. CASE On(s, Opening)'
      <4>1. PICK d \in Calls : Of(d)' = s /\ calls'[d].at \in Opening
        BY <3>2 DEF On
      <4>2. d # c /\ calls[d].at \in Opening /\ Of(d) = s
        BY <1>4, <4>1 DEF Only, Of
      <4> QED BY <1>1, <4>2 DEF OpeningInv
    <3>3. CASE s \in listed'
      BY <1>4, <3>3
    <3> QED BY <3>1, <3>2, <3>3 DEF Live, Held
  <2> QED BY <2>1, <2>2, <2>3 DEF Live, Held
<1>5. CASE Closes(c, s)
  <2>1. calls'[c] = Idle /\ s \notin listed'
    BY <1>5 DEF Closes, Only, Live, On, Of, Idle, Closing
  <2>2. On(s, Opening)'
    BY <2>1 DEF Live, Held, Usable
  <2>3. PICK d \in Calls : Of(d)' = s /\ calls'[d].at \in Opening
    BY <2>2 DEF On
  <2>4. d # c /\ calls[d].at \in Opening /\ Of(d) = s
    BY <2>1, <2>3 DEF Only, Of, Idle, Opening
  <2> QED BY <1>1, <2>4 DEF OpeningInv
<1>6. CASE Enters(c, s) \/ Leaves(c, s) \/ Traces(c, s)
  BY <1>4, <1>6 DEF Enters, Leaves, Traces, Working, Waiting, Inside, Tracing, Idle,
     Closing, Opening
<1> QED BY <1>3, <1>5, <1>6 DEF Continues

LEMMA OpensToLive ==
  ASSUME TypesOfUse, OpeningInv, NEW c \in Calls, NEW s \in Sessions, Only(c, s),
         Opens(c, s)
  PROVE  LiveInv'
<1> DEFINE used == {t \in Sessions : Usable(t)}
           held == {Of(d) : d \in Calls \ {c}}
<1>1. IsFiniteSet(Calls) /\ IsFiniteSet(Sessions) /\ MaxSessions \in Nat
  BY FiniteAssumption, LimitAssumption
<1>2. calls[c] = Idle /\ Of(c) # s
  BY IdleIsNowhere DEF Opens, At, OpeningInv
<1>3. LiveSessions \subseteq used \cup held
  <2> SUFFICES ASSUME NEW t \in Sessions, Live(t), ~Usable(t)
               PROVE  \E d \in Calls \ {c} : Of(d) = t
    BY DEF LiveSessions
  <2>1. PICK d \in Calls : Of(d) = t
    BY DEF Live, Held, On
  <2>2. d # c
    BY <1>2, <2>1, NoneAssumption DEF Of, Idle
  <2> QED BY <2>1, <2>2
<1>4. LiveSessions' \subseteq used \cup held \cup {s}
  <2>1. \A t \in Sessions \ {s} : Live(t)' = Live(t)
    BY <1>2, OtherSessionsStay
  <2> QED BY <1>3, <2>1 DEF LiveSessions
<1>5. IsFiniteSet(used) /\ Cardinality(used) \in Nat /\ Cardinality(used) <= MaxSessions - 1
  <2>1. IsFiniteSet(used)
    BY <1>1, FS_Subset
  <2>2. Cardinality(used) < MaxSessions
    BY DEF Opens, Room, Counted
  <2> QED BY <1>1, <2>1, <2>2, FS_CardinalityType
<1>6. /\ IsFiniteSet(Calls \ {c}) /\ Cardinality(Calls \ {c}) = Cardinality(Calls) - 1
      /\ Cardinality(Calls) \in Nat
  BY <1>1, FS_RemoveElement, FS_CardinalityType
<1>7. /\ IsFiniteSet(held) /\ Cardinality(held) \in Nat
      /\ Cardinality(held) <= Cardinality(Calls) - 1
  <2> DEFINE of == [d \in Calls \ {c} |-> Of(d)]
  <2>0. of \in Surjection(Calls \ {c}, held)
    BY DEF Surjection
  <2>1. IsFiniteSet(held) /\ Cardinality(held) <= Cardinality(Calls \ {c})
    BY ONLY <1>6, <2>0, FS_Surjection
  <2> QED BY <1>6, <2>1, FS_CardinalityType
<1>8. /\ IsFiniteSet(used \cup held) /\ Cardinality(used \cup held) \in Nat
      /\ Cardinality(used \cup held) <= MaxSessions + Cardinality(Calls) - 2
  <2>1. /\ IsFiniteSet(used \cup held)
        /\ Cardinality(used \cup held) =
             Cardinality(used) + Cardinality(held) - Cardinality(used \cap held)
    BY <1>5, <1>7, FS_Union
  <2>2. Cardinality(used \cap held) \in Nat
    BY <1>5, FS_Intersection, FS_CardinalityType
  <2>3. Cardinality(used \cup held) \in Nat
    BY <2>1, FS_CardinalityType
  <2> QED BY <1>1, <1>5, <1>6, <1>7, <2>1, <2>2, <2>3
<1>9. /\ IsFiniteSet(used \cup held \cup {s})
      /\ Cardinality(used \cup held \cup {s}) <= Cardinality(used \cup held) + 1
      /\ Cardinality(used \cup held \cup {s}) \in Nat
  <2> HIDE DEF used, held
  <2>1. /\ IsFiniteSet(used \cup held \cup {s})
        /\ Cardinality(used \cup held \cup {s}) =
             IF s \in used \cup held THEN Cardinality(used \cup held)
             ELSE Cardinality(used \cup held) + 1
    BY <1>8, FS_AddElement
  <2> QED BY <1>8, <2>1
<1>10. /\ Cardinality(LiveSessions') <= Cardinality(used \cup held \cup {s})
       /\ Cardinality(LiveSessions') \in Nat
  BY <1>4, <1>9, FS_Subset, FS_CardinalityType
<1>11. Cardinality(LiveSessions') <= MaxSessions + Cardinality(Calls) - 1
  BY <1>1, <1>6, <1>8, <1>9, <1>10
<1> QED BY <1>11 DEF LiveInv

LEMMA LiveStep == SessionsInv /\ LiveInv /\ [Next]_vars => LiveInv'
<1> SUFFICES ASSUME SessionsInv, LiveInv, [Next]_vars PROVE LiveInv'
  OBVIOUS
<1>1. TypesOfUse /\ OpeningInv
  BY DEF SessionsInv, UseInv
<1>2. ASSUME LiveSessions' \subseteq LiveSessions PROVE LiveInv'
  <2>1. IsFiniteSet(LiveSessions)
    BY FiniteAssumption, FS_Subset DEF LiveSessions
  <2>2. /\ Cardinality(LiveSessions') <= Cardinality(LiveSessions)
        /\ Cardinality(LiveSessions') \in Nat /\ Cardinality(LiveSessions) \in Nat
    BY <1>2, <2>1, FS_Subset, FS_CardinalityType
  <2>3. MaxSessions + Cardinality(Calls) - 1 \in Int
    BY FiniteAssumption, LimitAssumption, FS_CardinalityType
  <2>4. Cardinality(LiveSessions') <= MaxSessions + Cardinality(Calls) - 1
    BY <2>2, <2>3 DEF LiveInv
  <2> QED BY <2>4 DEF LiveInv
<1>3. CASE UNCHANGED vars
  <2>1. LiveSessions' = LiveSessions
    BY <1>3 DEF vars, tabs, LiveSessions, Live, Held, Usable, On, Of
  <2> QED BY <1>2, <2>1
<1>4. CASE Next
  <2>1. PICK c \in Calls, s \in Sessions :
          Only(c, s) /\ (Opens(c, s) \/ Comes(c, s) \/ Continues(c, s))
    BY <1>4, NextMoves
  <2>2. CASE Opens(c, s)
    BY <1>1, <2>1, <2>2, OpensToLive
  <2>3. CASE Comes(c, s) \/ Continues(c, s)
    <3>1. calls[c] = Idle \/ Of(c) = s
      BY <1>1, <2>3 DEF Comes, Continues, At, OpeningInv
    <3>2. \A t \in Sessions \ {s} : Live(t)' = Live(t)
      BY <2>1, <3>1, OtherSessionsStay
    <3>3. Live(s)' => Live(s)
      BY <1>1, <2>1, <2>3, ComesToLive, ContinuesToLive
    <3> QED BY <1>2, <3>2, <3>3 DEF LiveSessions
  <2> QED BY <2>1, <2>2, <2>3
<1> QED BY <1>3, <1>4

(* However many calls race past the limit: the sessions in use exceed it   *)
(* by less than the calls there are.                                       *)
THEOREM Overshoot == Spec => []SessionOvershoot
<1>1. Init => LiveInv
  <2> SUFFICES ASSUME Init PROVE LiveInv
    OBVIOUS
  <2>1. LiveSessions = {}
    BY NoneAssumption DEF Init, LiveSessions, Live, Held, Usable, On, Of, Idle
  <2>2. Cardinality(LiveSessions) = 0 /\ Cardinality(Calls) \in Nat
    BY <2>1, FS_EmptySet, FiniteAssumption, FS_CardinalityType
  <2> QED BY <2>2, LimitAssumption DEF LiveInv
<1>2. LiveInv => SessionOvershoot
  <2> SUFFICES ASSUME LiveInv PROVE SessionOvershoot
    OBVIOUS
  <2> DEFINE inUse == {s \in Sessions : InUse(s)}
  <2>1. inUse \subseteq LiveSessions
    BY DEF InUse, LiveSessions, Live
  <2>2. IsFiniteSet(LiveSessions)
    BY FiniteAssumption, FS_Subset DEF LiveSessions
  <2>3. /\ Cardinality(inUse) <= Cardinality(LiveSessions)
        /\ Cardinality(inUse) \in Nat /\ Cardinality(LiveSessions) \in Nat
    BY <2>1, <2>2, FS_Subset, FS_CardinalityType
  <2>4. MaxSessions + Cardinality(Calls) - 1 \in Int
    BY FiniteAssumption, LimitAssumption, FS_CardinalityType
  <2>5. Cardinality(inUse) <= MaxSessions + Cardinality(Calls) - 1
    BY <2>3, <2>4 DEF LiveInv
  <2> QED BY <2>5 DEF SessionOvershoot
<1> QED BY <1>1, <1>2, LiveStep, SessionsInvariant, PTL DEF Spec

-----------------------------------------------------------------------------
(* Induction over the naturals, by the least number that has a property.   *)
Less == {pair \in Nat \X Nat : pair[1] < pair[2]}

LEMMA LeastNumber ==
  ASSUME NEW S, S \subseteq Nat, S # {}
  PROVE  \E m \in S : \A k \in S : m <= k
<1>1. IsWellFoundedOn(Less, Nat)
  BY NatLessThanWellFounded DEF OpToRel, Less
<1>2. \E m \in S : \A k \in S : <<k, m>> \notin Less
  BY <1>1, WFMin
<1>3. \A k, m \in S : k < m => <<k, m>> \in Less
  BY DEF Less
<1>4. PICK m \in S : \A k \in S : ~(k < m)
  BY <1>2, <1>3
<1> QED BY <1>4

(* A list of the last k of n entries.                                      *)
Run(n, k) == [i \in 1..k |-> n - k + i]
Kept(n) == IF Len(list) + n <= MaxItems THEN Len(list) + n ELSE MaxItems

LEMMA RunIsSeq ==
  ASSUME NEW n \in Nat, NEW k \in 0..n
  PROVE  Run(n, k) \in Seq(1..n) /\ Len(Run(n, k)) = k
<1>1. Run(n, k) \in [1..k -> 1..n]
  BY DEF Run
<1> QED BY <1>1 DEF Run

LEMMA PushOnRun ==
  ASSUME NEW n \in Nat, NEW k \in 0..n, k <= MaxItems
  PROVE  Push(Run(n, k), n + 1) =
           Run(n + 1, IF k + 1 <= MaxItems THEN k + 1 ELSE MaxItems)
<1>1. MaxItems \in Nat \ {0} /\ k \in Nat
  BY ItemsAssumption
<1>2. Run(n, k) \in Seq(1..n) /\ Len(Run(n, k)) = k
  BY RunIsSeq
<1>3. CASE k < MaxItems
  <2>1. Push(Run(n, k), n + 1) = Append(Run(n, k), n + 1)
    BY <1>1, <1>2, <1>3 DEF Push
  <2>2. Append(Run(n, k), n + 1) = Run(n + 1, k + 1)
    BY <1>1, <1>2 DEF Run
  <2> QED BY <1>1, <1>3, <2>1, <2>2
<1>4. CASE k = MaxItems
  <2>1. Push(Run(n, k), n + 1) = Append(Tail(Run(n, k)), n + 1)
    BY <1>1, <1>2, <1>4 DEF Push
  <2>2. Tail(Run(n, k)) = [i \in 1..(k - 1) |-> n - k + 1 + i]
    BY <1>1, <1>2, <1>4 DEF Run
  <2> DEFINE rest == [i \in 1..(k - 1) |-> n - k + 1 + i]
  <2>3. rest \in Seq(Int) /\ Len(rest) = k - 1
    BY <1>1, <1>4
  <2>4. Append(rest, n + 1) = [i \in 1..k |-> IF i = k THEN n + 1 ELSE rest[i]]
    BY <1>1, <1>4, <2>3, AppendProperties
  <2>5. Append(rest, n + 1) = Run(n + 1, k)
    BY <1>1, <1>4, <2>4 DEF Run
  <2>6. (IF k + 1 <= MaxItems THEN k + 1 ELSE MaxItems) = k
    BY <1>1, <1>4
  <2>7. Push(Run(n, k), n + 1) = Append(rest, n + 1)
    BY <2>1, <2>2
  <2> QED BY <2>5, <2>6, <2>7
<1> QED BY <1>1, <1>3, <1>4

ListInv ==
  /\ recorded \in 0..MaxRecorded /\ attached \in 0..MaxAttached
  /\ bad \subseteq 1..recorded
  /\ \E k \in 0..recorded : /\ list = Run(recorded, k)
                            /\ k = IF recorded <= MaxItems THEN recorded ELSE MaxItems

(* What the listeners leave of a list, for any number of them.             *)
LEMMA HeardIsRun ==
  ASSUME ListInv, NEW n \in Nat
  PROVE  Heard[n] = Run(recorded + n, IF recorded + n <= MaxItems THEN recorded + n
                                      ELSE MaxItems)
<1> DEFINE Size(m) == IF m <= MaxItems THEN m ELSE MaxItems
           run == [m \in Nat |-> Run(recorded + m, Size(recorded + m))]
           Step(f) == [m \in Nat |-> IF m = 0 THEN list ELSE Push(f[m - 1], recorded + m)]
<1>1. /\ MaxItems \in Nat \ {0} /\ recorded \in Nat
      /\ list = Run(recorded, Size(recorded))
  BY ItemsAssumption, PageBoundAssumption DEF ListInv
<1>2. \A m \in Nat \ {0} : run[m] = Push(run[m - 1], recorded + m)
  <2> SUFFICES ASSUME NEW m \in Nat \ {0}
               PROVE  run[m] = Push(run[m - 1], recorded + m)
    OBVIOUS
  <2> DEFINE past == recorded + (m - 1)
  <2>1. /\ past \in Nat /\ Size(past) \in 0..past /\ Size(past) <= MaxItems
        /\ past + 1 = recorded + m /\ m - 1 \in Nat
    BY <1>1
  <2>2. Push(Run(past, Size(past)), past + 1) =
          Run(past + 1, IF Size(past) + 1 <= MaxItems THEN Size(past) + 1 ELSE MaxItems)
    BY <2>1, PushOnRun
  <2>3. (IF Size(past) + 1 <= MaxItems THEN Size(past) + 1 ELSE MaxItems) = Size(past + 1)
    BY <1>1, <2>1
  <2> QED BY <2>1, <2>2, <2>3
<1>3. run[0] = list
  BY <1>1
<1>4. run = Step(run)
  BY <1>2, <1>3
<1>5. Heard = Step(Heard)
  <2> HIDE DEF run
  <2>1. Heard = CHOOSE f : f = Step(f)
    BY DEF Heard
  <2> QED BY <1>4, <2>1
<1>6. Heard[0] = list /\ \A m \in Nat \ {0} : Heard[m] = Push(Heard[m - 1], recorded + m)
  <2> HIDE DEF run
  <2>1. \A m \in Nat : Heard[m] = IF m = 0 THEN list ELSE Push(Heard[m - 1], recorded + m)
    BY <1>5
  <2> QED BY <2>1
<1>7. \A m \in Nat : Heard[m] = run[m]
  <2> HIDE DEF run
  <2> DEFINE wrong == {m \in Nat : Heard[m] # run[m]}
  <2>1. SUFFICES ASSUME wrong # {} PROVE FALSE
    OBVIOUS
  <2>2. PICK m \in wrong : \A k \in wrong : m <= k
    BY <2>1, LeastNumber
  <2>3. m # 0
    BY <1>3, <1>6, <2>2
  <2>4. m - 1 \in Nat /\ m - 1 \notin wrong
    BY <2>2, <2>3
  <2>5. Heard[m - 1] = run[m - 1]
    BY <2>4
  <2> QED BY <1>2, <1>6, <2>2, <2>3, <2>5
<1> QED BY <1>7

LEMMA EmitKeepsList ==
  ASSUME ListInv, NEW isBad \in BOOLEAN, Emit(isBad)
  PROVE  /\ ListInv' /\ recorded' = recorded + attached
         /\ Len(list') = IF recorded' <= MaxItems THEN recorded' ELSE MaxItems
<1>1. recorded \in Nat /\ attached \in Nat /\ MaxRecorded \in Nat /\ MaxItems \in Nat
  BY ItemsAssumption, PageBoundAssumption DEF ListInv
<1>2. recorded' = recorded + attached /\ recorded' \in 0..MaxRecorded
      /\ attached' = attached
  BY <1>1 DEF Emit, ListInv
<1>3. bad' \subseteq 1..recorded'
  BY <1>1, <1>2 DEF Emit, ListInv
<1> DEFINE k == IF recorded' <= MaxItems THEN recorded' ELSE MaxItems
<1>4. k \in 0..recorded' /\ list' = Run(recorded', k)
  BY <1>1, <1>2, HeardIsRun DEF Emit
<1>5. Len(list') = k
  BY <1>2, <1>4, RunIsSeq
<1> QED BY <1>2, <1>3, <1>4, <1>5 DEF ListInv

(* What a client that reads from cursor to cursor has been given: all that *)
(* the list had lost by then and the entries before the cursor.            *)
ReaderInv ==
  \/ reader.cursor = NoCursor
  \/ /\ reader.cursor \in 1..Len(list) /\ reader.gone \in 0..Dropped
     /\ reader.upTo = reader.gone + reader.cursor

LEMMA ListFacts ==
  ASSUME ListInv
  PROVE  /\ recorded \in Nat /\ MaxItems \in Nat \ {0} /\ MaxRecorded \in Nat
         /\ recorded <= MaxRecorded
         /\ list \in Seq(1..recorded) /\ Len(list) \in 0..recorded
         /\ Len(list) = IF recorded <= MaxItems THEN recorded ELSE MaxItems
         /\ Dropped \in Nat /\ Dropped = recorded - Len(list)
         /\ \A i \in 1..Len(list) : list[i] = Dropped + i
<1>1. /\ recorded \in Nat /\ MaxItems \in Nat \ {0} /\ MaxRecorded \in Nat
      /\ recorded <= MaxRecorded
  BY ItemsAssumption, PageBoundAssumption DEF ListInv
<1>2. PICK k \in 0..recorded : /\ list = Run(recorded, k)
                               /\ k = IF recorded <= MaxItems THEN recorded ELSE MaxItems
  BY DEF ListInv
<1>3. list \in Seq(1..recorded) /\ Len(list) = k
  BY <1>1, <1>2, RunIsSeq
<1>4. Dropped = recorded - k /\ \A i \in 1..k : list[i] = recorded - k + i
  BY <1>2, <1>3 DEF Dropped, Run
<1> QED BY <1>1, <1>2, <1>3, <1>4

(* An entry the list still has is at its place.                            *)
LEMMA InTheList ==
  ASSUME ListInv, NEW n \in 1..recorded, ~PushedOut(n)
  PROVE  n - Dropped \in 1..Len(list) /\ list[n - Dropped] = n
<1>1. n > Dropped /\ n <= Dropped + Len(list) /\ Dropped \in Nat /\ Len(list) \in Nat
  BY ListFacts DEF PushedOut
<1>2. n - Dropped \in 1..Len(list)
  BY <1>1
<1>3. list[n - Dropped] = Dropped + (n - Dropped)
  BY <1>2, ListFacts
<1> QED BY <1>1, <1>2, <1>3

LEMMA SliceFacts ==
  ASSUME ListInv, NEW from \in 0..Len(list), NEW limit \in Nat \ {0}
  PROVE  LET end == IF from + limit <= Len(list) THEN from + limit ELSE Len(list)
             slice == Slice(from, limit)
         IN  /\ slice \in Seq(1..recorded) /\ Len(slice) = end - from
             /\ \A i \in 1..(end - from) : slice[i] = Dropped + from + i
<1> DEFINE end == IF from + limit <= Len(list) THEN from + limit ELSE Len(list)
<1>1. Len(list) \in Nat /\ from \in Nat /\ end \in from..Len(list)
  BY ListFacts
<1>2. Min({from + limit, Len(list)}) = end
  <2>1. \E x \in {from + limit, Len(list)} : \A y \in {from + limit, Len(list)} : x <= y
    BY <1>1
  <2> QED BY <1>1, <2>1 DEF Min
<1>3. Slice(from, limit) = SubSeq(list, from + 1, end)
  BY <1>2 DEF Slice
<1>4. /\ SubSeq(list, from + 1, end) \in Seq(1..recorded)
      /\ Len(SubSeq(list, from + 1, end)) = end - from
      /\ \A i \in 1..(end - from) : SubSeq(list, from + 1, end)[i] = list[from + i]
  <2>1. \A i \in (from + 1)..end : list[i] \in 1..recorded
    BY <1>1, ListFacts, ElementOfSeq
  <2>2. from + 1 \in Int /\ end \in Int
    BY <1>1
  <2> HIDE DEF end
  <2>3. /\ SubSeq(list, from + 1, end) \in Seq(1..recorded)
        /\ Len(SubSeq(list, from + 1, end)) =
             IF from + 1 <= end THEN end - (from + 1) + 1 ELSE 0
        /\ \A i \in 1..(end - (from + 1) + 1) :
             SubSeq(list, from + 1, end)[i] = list[from + 1 + i - 1]
    BY <2>1, <2>2, SubSeqProperties
  <2> QED BY <1>1, <2>3
<1>5. \A i \in 1..(end - from) : list[from + i] = Dropped + from + i
  BY <1>1, ListFacts
<1> QED BY <1>3, <1>4, <1>5

LEMMA ReadKeepsReader ==
  ASSUME ListInv, NEW cursor, cursor = NoCursor \/ cursor \in 1..Len(list), Read(cursor)
  PROVE  ReaderInv'
<1> DEFINE from == First(cursor)
           slice == Slice(from, ReadLimit)
<1>1. ReadLimit \in Nat \ {0} /\ Len(list) \in Nat /\ Dropped \in Nat
  BY ListFacts, WindowAssumption
<1>2. from \in 0..Len(list)
  BY <1>1 DEF First
<1>3. /\ slice \in Seq(1..recorded)
      /\ Len(slice) = IF from + ReadLimit <= Len(list) THEN ReadLimit ELSE Len(list) - from
      /\ \A i \in 1..Len(slice) : slice[i] = Dropped + from + i
  <2> DEFINE end == IF from + ReadLimit <= Len(list) THEN from + ReadLimit ELSE Len(list)
  <2>1. /\ slice \in Seq(1..recorded) /\ Len(slice) = end - from
        /\ \A i \in 1..(end - from) : slice[i] = Dropped + from + i
    BY <1>1, <1>2, SliceFacts
  <2>2. end - from = IF from + ReadLimit <= Len(list) THEN ReadLimit ELSE Len(list) - from
    BY <1>1, <1>2
  <2> QED BY <2>1, <2>2
<1>4. /\ reader' = [cursor |-> NextCursor(from, slice), upTo |-> Last(slice), gone |-> Dropped]
      /\ slice # <<>> /\ Len(list)' = Len(list) /\ Dropped' = Dropped
  BY DEF Read, evidence, Dropped
<1>5. Len(slice) \in Nat \ {0}
  BY <1>3, <1>4
<1>6. Last(slice) = Dropped + (from + Len(slice))
  BY <1>1, <1>2, <1>3, <1>5 DEF Last
<1>7. CASE from + Len(slice) < Len(list)
  <2>1. reader'.cursor = from + Len(slice)
    BY <1>4, <1>7 DEF NextCursor
  <2>2. from + Len(slice) \in 1..Len(list)
    BY <1>1, <1>2, <1>5, <1>7
  <2>3. reader'.gone = Dropped /\ reader'.upTo = Dropped + (from + Len(slice))
    BY <1>4, <1>6
  <2>4. Dropped \in 0..Dropped
    BY <1>1
  <2>5. /\ reader'.cursor \in 1..Len(list)' /\ reader'.gone \in 0..Dropped'
        /\ reader'.upTo = reader'.gone + reader'.cursor
    BY <1>4, <2>1, <2>2, <2>3, <2>4
  <2> QED BY <2>5 DEF ReaderInv
<1>8. CASE ~(from + Len(slice) < Len(list))
  BY <1>4, <1>8 DEF NextCursor, ReaderInv, NoCursor
<1> QED BY <1>7, <1>8

(* Every map holds the references of its own snapshot or none, and the     *)
(* page's map is that of the snapshot begun last.                          *)
RefsInv ==
  /\ started \in 0..MaxSnapshots /\ registry = started
  /\ awaiting \subseteq {<<s, s>> : s \in Snapshot}
  /\ maps \in [Snapshot -> SUBSET Snapshot]
  /\ \A m \in Snapshot : maps[m] \subseteq {m}

PageInv == ListInv /\ ReaderInv /\ RefsInv

LEMMA PageInitial == PageInit => PageInv
<1> SUFFICES ASSUME PageInit PROVE PageInv
  OBVIOUS
<1>1. Run(0, 0) = <<>>
  <2>1. Run(0, 0) \in Seq(1..0) /\ Len(Run(0, 0)) = 0
    BY RunIsSeq
  <2> QED BY <2>1
<1>2. ListInv
  <2>1. recorded = 0 /\ attached = 0 /\ list = Run(recorded, 0) /\ bad = {}
    BY <1>1 DEF PageInit
  <2>2. 0 \in 0..0 /\ 0 = IF 0 <= MaxItems THEN 0 ELSE MaxItems
    BY ItemsAssumption
  <2> QED BY <2>1, <2>2, PageBoundAssumption DEF ListInv
<1>3. ReaderInv
  BY DEF PageInit, Fresh, ReaderInv
<1>4. RefsInv
  BY PageBoundAssumption DEF PageInit, RefsInv
<1> QED BY <1>2, <1>3, <1>4 DEF PageInv

LEMMA AttachKeeps == PageInv /\ Attach => PageInv'
BY PageBoundAssumption DEF PageInv, ListInv, ReaderInv, RefsInv, Attach, references, Dropped

LEMMA EmitKeeps ==
  ASSUME PageInv, NEW isBad \in BOOLEAN, Emit(isBad)
  PROVE  PageInv'
<1>1. ListInv'
  BY EmitKeepsList DEF PageInv
<1>2. /\ recorded' >= recorded /\ reader' = reader
      /\ UNCHANGED references
  BY PageBoundAssumption DEF Emit, PageInv, ListInv
<1>3. /\ Len(list) \in Nat /\ Len(list)' \in Nat /\ Len(list) <= Len(list)'
      /\ Dropped \in Nat /\ Dropped' \in Nat /\ Dropped <= Dropped'
  <2>1. /\ recorded \in Nat /\ MaxItems \in Nat /\ Dropped \in Nat /\ Len(list) \in Nat
        /\ Len(list) = IF recorded <= MaxItems THEN recorded ELSE MaxItems
        /\ Dropped = recorded - Len(list)
    BY ListFacts DEF PageInv
  <2>2. /\ recorded' = recorded + attached /\ attached \in Nat
        /\ Len(list') = IF recorded' <= MaxItems THEN recorded' ELSE MaxItems
    BY EmitKeepsList, PageBoundAssumption DEF PageInv, ListInv
  <2>3. Dropped' = recorded' - Len(list')
    BY DEF Dropped
  <2> QED BY <2>1, <2>2, <2>3
<1>4. ReaderInv'
  BY <1>2, <1>3 DEF PageInv, ReaderInv, NoCursor
<1>5. RefsInv'
  BY <1>2 DEF PageInv, RefsInv, references
<1> QED BY <1>1, <1>4, <1>5 DEF PageInv

LEMMA CloseKeeps ==
  ASSUME PageInv, CloseThePage \/ CloseItsSession
  PROVE  PageInv'
<1>1. CASE CloseItsSession
  BY <1>1 DEF PageInv, ListInv, ReaderInv, RefsInv, CloseItsSession, evidence, references,
     Dropped
<1>2. CASE CloseThePage
  <2>1. /\ recorded' = 0 /\ list' = <<>> /\ bad' = {} /\ attached' = attached
        /\ reader' = Fresh /\ UNCHANGED references
    BY <1>2 DEF CloseThePage
  <2>2. Run(0, 0) = <<>>
    <3>1. Run(0, 0) \in Seq(1..0) /\ Len(Run(0, 0)) = 0
      BY RunIsSeq
    <3> QED BY <3>1
  <2>3. 0 \in 0..0 /\ 0 = IF 0 <= MaxItems THEN 0 ELSE MaxItems
    BY ItemsAssumption
  <2>4. ListInv'
    BY <2>1, <2>2, <2>3, PageBoundAssumption DEF PageInv, ListInv
  <2>5. ReaderInv'
    BY <2>1 DEF ReaderInv, Fresh
  <2>6. RefsInv'
    BY <2>1 DEF PageInv, RefsInv, references
  <2> QED BY <2>4, <2>5, <2>6 DEF PageInv
<1> QED BY <1>1, <1>2

LEMMA ReadKeeps ==
  ASSUME PageInv, ReadAnew \/ ReadOn
  PROVE  PageInv'
<1>1. PICK cursor : Read(cursor) /\ (cursor = NoCursor \/ cursor \in 1..Len(list))
  BY DEF PageInv, ReaderInv, ReadAnew, ReadOn
<1>2. ReaderInv'
  BY <1>1, ReadKeepsReader DEF PageInv
<1>3. ListInv' /\ RefsInv'
  BY <1>1 DEF PageInv, ListInv, RefsInv, Read, evidence, references
<1> QED BY <1>2, <1>3 DEF PageInv

LEMMA TakeSnapshotKeeps == PageInv /\ TakeSnapshot => PageInv'
<1> SUFFICES ASSUME PageInv, TakeSnapshot PROVE PageInv'
  OBVIOUS
<1>1. ListInv' /\ ReaderInv'
  BY DEF PageInv, ListInv, ReaderInv, TakeSnapshot, evidence, Dropped
<1>2. /\ started' = started + 1 /\ registry' = started + 1 /\ started < MaxSnapshots
      /\ awaiting' = awaiting \cup {<<started + 1, registry'>>} /\ maps' = maps
  BY DEF TakeSnapshot, InvalidatePageRefs, RefMapForPage
<1>3. started + 1 \in Snapshot
  BY <1>2, PageBoundAssumption DEF PageInv, RefsInv, Snapshot
<1>4. RefsInv'
  BY <1>2, <1>3, PageBoundAssumption DEF PageInv, RefsInv, Snapshot
<1> QED BY <1>1, <1>4 DEF PageInv

LEMMA SnapshotEndsKeeps ==
  ASSUME PageInv, NEW s \in Snapshot, NEW m \in Snapshot,
         SnapshotTaken(s, m) \/ SnapshotFails(s, m)
  PROVE  PageInv'
<1>1. ListInv' /\ ReaderInv'
  BY DEF PageInv, ListInv, ReaderInv, SnapshotTaken, SnapshotFails, evidence, Dropped
<1>2. m = s
  BY DEF PageInv, RefsInv, SnapshotTaken, SnapshotFails
<1>3. RefsInv'
  BY <1>2 DEF PageInv, RefsInv, SnapshotTaken, SnapshotFails
<1> QED BY <1>1, <1>3 DEF PageInv

LEMMA PageStep == PageInv /\ [PageNext]_pageVars => PageInv'
<1> SUFFICES ASSUME PageInv, [PageNext]_pageVars PROVE PageInv'
  OBVIOUS
<1>1. CASE UNCHANGED pageVars
  BY <1>1 DEF pageVars, evidence, references, PageInv, ListInv, ReaderInv, RefsInv, Dropped
<1>2. CASE PageNext
  BY <1>2, AttachKeeps, EmitKeeps, CloseKeeps, ReadKeeps, TakeSnapshotKeeps,
     SnapshotEndsKeeps DEF PageNext
<1> QED BY <1>1, <1>2

LEMMA PageInvariant == PageSpec => []PageInv
BY PageInitial, PageStep, PTL DEF PageSpec

(* A reference resolves exactly when it is of the snapshot begun last,     *)
(* whatever the page still answers to earlier ones.                        *)
THEOREM LatestRefs == PageSpec => []RefsOfTheLatest
<1>1. PageInv => RefsOfTheLatest
  <2> SUFFICES ASSUME RefsInv, NEW s \in 1..started
               PROVE  Resolves(s) <=> s = started /\ Answered(s)
    BY DEF PageInv, RefsOfTheLatest
  <2>1. Resolves(s) <=> s \in maps[started]
    BY DEF RefsInv, Resolves
  <2>2. \A m \in Snapshot : s \in maps[m] => m = s
    BY DEF RefsInv
  <2>3. Answered(s) => s \in maps[s]
    BY <2>2 DEF Answered
  <2>4. s \in maps[started] => s = started /\ Answered(s)
    <3> SUFFICES ASSUME s \in maps[started] PROVE s = started /\ Answered(s)
      OBVIOUS
    <3>1. started \in Snapshot
      BY PageBoundAssumption DEF RefsInv, Snapshot
    <3> QED BY <2>2, <3>1 DEF Answered
  <2> QED BY <2>1, <2>3, <2>4
<1> QED BY <1>1, PageInvariant, PTL

(* An assertion overlooks an error only if as many entries as the list     *)
(* holds came after it, or a window full of entries is older than it.      *)
THEOREM ErrorsOverlooked == PageSpec => []OverlookedErrors
<1>1. PageInv => OverlookedErrors
  <2> SUFFICES ASSUME ListInv, NEW n \in bad, ~PushedOut(n)
               PROVE  ~NoneInList /\ (NoneInWindow => BehindWindow(n))
    BY DEF PageInv, OverlookedErrors
  <2> DEFINE i == n - Dropped
  <2>1. n \in 1..recorded
    BY DEF ListInv
  <2>2. i \in 1..Len(list) /\ list[i] = n
    BY <2>1, InTheList
  <2>3. ~NoneInList
    BY <2>2, ListFacts DEF NoneInList
  <2>4. ASSUME NoneInWindow, ~BehindWindow(n) PROVE FALSE
    <3>1. i <= Window /\ Window \in Nat \ {0} /\ Len(list) \in Nat
      BY <2>1, <2>4, ListFacts, WindowAssumption DEF BehindWindow
    <3> DEFINE end == IF 0 + Window <= Len(list) THEN 0 + Window ELSE Len(list)
    <3>2. /\ Slice(0, Window) \in Seq(1..recorded) /\ Len(Slice(0, Window)) = end - 0
          /\ \A j \in 1..(end - 0) : Slice(0, Window)[j] = Dropped + 0 + j
      BY <3>1, SliceFacts
    <3>3. i \in 1..(end - 0) /\ i \in DOMAIN Slice(0, Window)
      BY <2>2, <3>1, <3>2
    <3> QED BY <2>2, <2>4, <3>3 DEF NoneInWindow
  <2> QED BY <2>3, <2>4
<1> QED BY <1>1, PageInvariant, PTL

(* Who reads on from a cursor gets nothing twice, and misses only what the *)
(* list lost in between.                                                   *)
THEOREM ReadingOn == PageSpec => ReadsOn
<1>1. ASSUME PageInv, ReadOn
      PROVE  LET next == Slice(First(reader.cursor), ReadLimit)[1]
             IN  next > reader.upTo /\
                 next - reader.upTo - 1 <= Dropped - reader.gone
  <2> DEFINE from == reader.cursor
  <2>1. /\ from \in 1..Len(list) /\ reader.gone \in 0..Dropped
        /\ reader.upTo = reader.gone + from /\ First(reader.cursor) = from
    BY <1>1 DEF PageInv, ReaderInv, ReadOn, First
  <2>2. ListInv /\ ReadLimit \in Nat \ {0} /\ Len(list) \in Nat /\ Dropped \in Nat
        /\ Slice(from, ReadLimit) # <<>>
    BY <1>1, <2>1, ListFacts, WindowAssumption DEF PageInv, ReadOn, Read
  <2> DEFINE end == IF from + ReadLimit <= Len(list) THEN from + ReadLimit ELSE Len(list)
  <2>3. /\ Slice(from, ReadLimit) \in Seq(1..recorded)
        /\ Len(Slice(from, ReadLimit)) = end - from
        /\ \A i \in 1..(end - from) : Slice(from, ReadLimit)[i] = Dropped + from + i
    <3>1. from \in 0..Len(list)
      BY <2>1, <2>2
    <3> QED BY <2>2, <3>1, SliceFacts
  <2>4. 1 \in 1..(end - from)
    BY <2>1, <2>2, <2>3
  <2>5. Slice(from, ReadLimit)[1] = Dropped + from + 1
    BY <2>3, <2>4
  <2> QED BY <2>1, <2>2, <2>5
<1>2. PageInv /\ [PageNext]_pageVars =>
        [ReadOn => LET next == Slice(First(reader.cursor), ReadLimit)[1]
                   IN  next > reader.upTo /\
                       next - reader.upTo - 1 <= Dropped - reader.gone]_pageVars
  BY <1>1
<1> QED BY <1>2, PageInvariant, PTL DEF PageSpec, ReadsOn

-----------------------------------------------------------------------------
(* VerificationCycles *)
(* A status and the last report on the cycle say the same. *)
StatusIsReported(cycle, said) ==
  /\ cycle.status = "in-progress" => said = <<>>
  /\ cycle.status = "passed" =>
       /\ said # <<>>
       /\ said[Len(said)] = [head |-> cycle.head, failures |-> FALSE]

CyclesInv ==
  /\ CyclesTypeOK
  /\ Len(reports) = Len(cycles)
  /\ \A i \in DOMAIN cycles : StatusIsReported(cycles[i], reports[i])

Cycle == [head : Heads, status : Statuses]
Report == [head : Heads, failures : BOOLEAN]

LEMMA CyclesInitial == CyclesInit => CyclesInv
BY DEF CyclesInit, CyclesInv, CyclesTypeOK

LEMMA StartKeeps ==
  ASSUME CyclesInv, NEW head \in Heads, StartCycle(head)
  PROVE  CyclesInv'
<1> DEFINE new == [head |-> head, status |-> "in-progress"]
<1>1. /\ cycles \in Seq(Cycle) /\ reports \in Seq(Seq(Report))
      /\ new \in Cycle /\ <<>> \in Seq(Report)
  BY DEF CyclesInv, CyclesTypeOK, Cycle, Report, Statuses
<1>2. cycles' = Append(cycles, new) /\ reports' = Append(reports, <<>>)
  BY DEF StartCycle
<1>3. cycles' \in Seq(Cycle) /\ reports' \in Seq(Seq(Report))
  BY <1>1, <1>2
<1>4. Len(reports') = Len(cycles')
  BY <1>1, <1>2 DEF CyclesInv
<1>5. ASSUME NEW i \in DOMAIN cycles'
      PROVE  StatusIsReported(cycles'[i], reports'[i])
  <2>1. CASE i \in DOMAIN cycles
    <3>1. cycles'[i] = cycles[i] /\ reports'[i] = reports[i]
      BY <1>1, <1>2, <2>1 DEF CyclesInv
    <3> QED BY <2>1, <3>1 DEF CyclesInv
  <2>2. CASE i = Len(cycles) + 1
    <3>1. cycles'[i] = new /\ reports'[i] = <<>>
      BY <1>1, <1>2, <2>2 DEF CyclesInv
    <3> QED BY <3>1 DEF StatusIsReported
  <2>3. DOMAIN cycles = 1..Len(cycles) /\ DOMAIN cycles' = 1..(Len(cycles) + 1)
    BY <1>1, <1>2
  <2> QED BY <1>1, <1>5, <2>1, <2>2, <2>3
<1> QED BY <1>3, <1>4, <1>5 DEF CyclesInv, CyclesTypeOK, Cycle, Report

LEMMA CompleteKeeps ==
  ASSUME CyclesInv, NEW i \in Nat, NEW head \in Heads, NEW failures \in BOOLEAN,
         CompleteCycle(i, head, failures)
  PROVE  CyclesInv'
<1> DEFINE verdict == Verdict(cycles[i], head, failures)
           report == [head |-> head, failures |-> failures]
<1>1. /\ cycles \in Seq(Cycle) /\ reports \in Seq(Seq(Report))
      /\ i \in 1..Len(cycles) /\ Len(reports) = Len(cycles)
  BY DEF CyclesInv, CyclesTypeOK, Cycle, Report, CompleteCycle
<1>2. /\ cycles' = [cycles EXCEPT ![i].status = verdict]
      /\ reports' = [reports EXCEPT ![i] = Append(reports[i], report)]
  BY DEF CompleteCycle
<1>3. /\ verdict \in Statuses /\ report \in Report
      /\ cycles[i] \in Cycle /\ reports[i] \in Seq(Report)
  BY <1>1 DEF Verdict, Statuses, Report
<1>4. Append(reports[i], report) \in Seq(Report)
  BY <1>3
<1>5. [cycles[i] EXCEPT !.status = verdict] \in Cycle
  BY <1>3 DEF Cycle
<1>6. cycles' \in Seq(Cycle) /\ reports' \in Seq(Seq(Report))
  BY <1>1, <1>2, <1>4, <1>5
<1>7. Len(cycles') = Len(cycles) /\ Len(reports') = Len(reports)
  BY <1>1, <1>2
<1>8. ASSUME NEW j \in DOMAIN cycles'
      PROVE  StatusIsReported(cycles'[j], reports'[j])
  <2>1. j \in 1..Len(cycles)
    BY <1>6, <1>7
  <2>2. CASE j # i
    <3>1. cycles'[j] = cycles[j] /\ reports'[j] = reports[j]
      BY <1>1, <1>2, <2>1, <2>2
    <3> QED BY <1>1, <2>1, <3>1 DEF CyclesInv
  <2>3. CASE j = i
    <3>1. /\ cycles'[j] = [cycles[i] EXCEPT !.status = verdict]
          /\ reports'[j] = Append(reports[i], report)
      BY <1>1, <1>2, <2>3
    <3>2. cycles'[j].status = verdict /\ cycles'[j].head = cycles[i].head
      BY <1>3, <3>1 DEF Cycle
    <3>3. reports'[j] # <<>> /\ reports'[j][Len(reports'[j])] = report
      BY <1>3, <3>1
    <3>4. verdict # "in-progress"
      BY DEF Verdict
    <3>5. verdict = "passed" => cycles[i].head = head /\ failures = FALSE
      BY DEF Verdict
    <3> QED BY <3>2, <3>3, <3>4, <3>5 DEF StatusIsReported
  <2> QED BY <2>2, <2>3
<1> QED BY <1>1, <1>6, <1>7, <1>8 DEF CyclesInv, CyclesTypeOK, Cycle, Report

LEMMA CyclesInductive == CyclesInv /\ [CyclesNext]_cycleVars => CyclesInv'
<1> SUFFICES ASSUME CyclesInv, [CyclesNext]_cycleVars PROVE CyclesInv'
  OBVIOUS
<1>1. CASE UNCHANGED cycleVars
  BY <1>1 DEF cycleVars, CyclesInv, CyclesTypeOK, StatusIsReported
<1>2. CASE CyclesNext
  <2>1. PICK head \in Heads :
          \/ StartCycle(head)
          \/ \E i \in 1..MaxCycles, failures \in BOOLEAN :
               CompleteCycle(i, head, failures)
    BY <1>2 DEF CyclesNext
  <2>2. CASE StartCycle(head)
    BY <2>2, StartKeeps
  <2>3. ASSUME NEW i \in 1..MaxCycles, NEW failures \in BOOLEAN,
               CompleteCycle(i, head, failures)
        PROVE  CyclesInv'
    BY <2>3, CompleteKeeps
  <2> QED BY <2>1, <2>2, <2>3
<1> QED BY <1>1, <1>2

LEMMA CyclesInvariant == CyclesSpec => []CyclesInv
BY CyclesInitial, CyclesInductive, PTL DEF CyclesSpec

(* Records and reports keep their types: no cycle has a status of its own. *)
THEOREM CyclesTyped == CyclesSpec => []CyclesTypeOK
<1>1. CyclesInv => CyclesTypeOK
  BY DEF CyclesInv
<1> QED BY <1>1, CyclesInvariant, PTL

(* What verifies a task is the last word on its latest cycle, for any      *)
(* number of cycles completed any number of times.                         *)
THEOREM VerdictIsLatest == CyclesSpec => []VerifiedByLatest
<1>1. CyclesInv => VerifiedByLatest
  <2> SUFFICES ASSUME CyclesInv, NEW head \in Heads \cup {NoHead},
                      HasPassedCycle(head)
               PROVE  /\ reports[Len(reports)] # <<>>
                      /\ reports[Len(reports)][Len(reports[Len(reports)])]
                           = [head |-> Latest.head, failures |-> FALSE]
                      /\ head \in {NoHead, Latest.head}
    BY DEF VerifiedByLatest
  <2>1. cycles # <<>> /\ head \in {NoHead, Latest.head}
    BY DEF HasPassedCycle, IsStale
  <2>2. cycles \in Seq(Cycle) /\ Len(reports) = Len(cycles)
    BY DEF CyclesInv, CyclesTypeOK, Cycle
  <2>3. Len(cycles) \in DOMAIN cycles
    BY <2>1, <2>2
  <2>4. StatusIsReported(Latest, reports[Len(reports)])
    BY <2>2, <2>3 DEF CyclesInv, Latest
  <2>5. Latest.status = "passed"
    BY DEF HasPassedCycle
  <2> QED BY <2>1, <2>4, <2>5 DEF StatusIsReported
<1> QED BY <1>1, CyclesInvariant, PTL
=============================================================================
