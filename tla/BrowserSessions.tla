-------------------------- MODULE BrowserSessions ---------------------------
(***************************************************************************)
(* The browser sessions of one workspace: BrowserSessionManager            *)
(* (src/src/browser/browser-session-manager.ts) under the tools            *)
(* browser_session_*, browser_page_*, browser_navigate and browser_trace_* *)
(* (src/src/mcp/tools/phase6-tools.ts).                                    *)
(*                                                                         *)
(* createPage, closePage and navigate of a session run one after the other *)
(* on the session's promise chain; opening, closing and tracing do not     *)
(* wait for it.  Each await on Chromium is the end of a step.  A session   *)
(* is looked up before the wait and not again after it.                    *)
(*                                                                         *)
(* Ids are never drawn twice: a page is the number of pages its session    *)
(* had before it, plus one.  A call that is refused at once is no step.    *)
(* Every operation of Chromium may fail, also for ever after a crash, and  *)
(* so may closing it.                                                      *)
(***************************************************************************)
EXTENDS Naturals, Sequences, FiniteSets

CONSTANTS
  Sessions,     \* session ids
  Calls,        \* tool calls in flight
  None,         \* no call, no session
  MaxSessions,  \* config.maxSessionsPerWorkspace
  MaxPages,     \* config.maxPagesPerSession
  MaxOpened     \* bound of the instance: pages a session ever has

ASSUME NoneAssumption == None \notin Calls \cup Sessions
ASSUME FiniteAssumption == IsFiniteSet(Sessions) /\ IsFiniteSet(Calls)
ASSUME LimitAssumption == MaxSessions \in Nat \ {0} /\ MaxPages \in Nat \ {0}
ASSUME BoundAssumption == MaxOpened \in Nat \ {0}

VARIABLES
  listed,    \* the keys of activeSessions
  state,     \* record.state of each session
  pages,     \* handle.pages of each session
  opened,    \* how many pages each session has had
  chain,     \* handle.lock: the calls in the order they took their place
  up,        \* the sessions whose Chromium runs
  swallowed, \* ghost: the sessions whose browser.close() was rejected
  traced,    \* record.traceActive
  calls      \* the tool calls in flight

tabs == <<pages, opened>>
chromium == <<up, swallowed>>
vars == <<listed, state, tabs, chain, chromium, traced, calls>>

States == {"CREATING", "READY", "NAVIGATING", "TRACING", "FAILED", "CLOSING",
           "CLOSED"}
Page == 1..MaxOpened

Waiting == {"page:line", "shut:line", "navigate:line"}
Inside == {"page:new", "shut:close", "navigate:goto"}
Closing == {"close:pages", "close:browser"}
Steps == Waiting \cup Inside \cup Closing \cup
         {"idle", "open:launch", "open:page", "trace:start", "trace:stop"}
Call == [at : Steps, session : Sessions \cup {None}, page : Page \cup {0}]
Idle == [at |-> "idle", session |-> None, page |-> 0]

Init ==
  /\ listed = {}
  /\ state = [s \in Sessions |-> "CREATING"]
  /\ pages = [s \in Sessions |-> {}]
  /\ opened = [s \in Sessions |-> 0]
  /\ chain = [s \in Sessions |-> <<>>]
  /\ up = {}
  /\ swallowed = {}
  /\ traced = {}
  /\ calls = [c \in Calls |-> Idle]

At(c, step) == calls[c].at = step
Of(c) == calls[c].session
On(s, steps) == \E c \in Calls : Of(c) = s /\ calls[c].at \in steps
Goto(c, step) == calls' = [calls EXCEPT ![c].at = step]
Return(c) == calls' = [calls EXCEPT ![c] = Idle]
Begin(c, step, s, p) ==
  /\ At(c, "idle")
  /\ calls' = [calls EXCEPT ![c] = [at |-> step, session |-> s, page |-> p]]

SetState(s, new) == state' = [state EXCEPT ![s] = new]

(* getSessionHandle *)
Usable(s) == s \in listed /\ state[s] \notin {"CLOSED", "FAILED"}

-----------------------------------------------------------------------------
(* openSession: the limit, Chromium and its first page, the map.           *)
Counted == {s \in Sessions : Usable(s)}

(* Mutant: the limit is refused only when it is exceeded. *)
RoomBeyond == Cardinality(Counted) <= MaxSessions
Room == Cardinality(Counted) < MaxSessions

Open(c, s) ==
  /\ Room
  /\ opened[s] = 0 /\ s \notin up /\ ~On(s, Steps)
  /\ Begin(c, "open:launch", s, 0)
  /\ UNCHANGED <<listed, state, tabs, chain, chromium, traced>>

Launched(c) ==
  /\ At(c, "open:launch")
  /\ up' = up \cup {Of(c)}
  /\ Goto(c, "open:page")
  /\ UNCHANGED <<listed, state, tabs, chain, swallowed, traced>>

Opened(c) ==
  /\ At(c, "open:page") /\ Of(c) \in up
  /\ SetState(Of(c), "READY")
  /\ pages' = [pages EXCEPT ![Of(c)] = {1}]
  /\ opened' = [opened EXCEPT ![Of(c)] = 1]
  /\ listed' = listed \cup {Of(c)}
  /\ Return(c)
  /\ UNCHANGED <<chain, chromium, traced>>

(* browser.close().catch(() => {}): where it is rejected Chromium runs on  *)
(* and nobody is told.                                                     *)
(* Mutant: the browser is left alone.                                      *)
BrowserLeft(s) == UNCHANGED chromium
BrowserClosed(s) ==
  \/ up' = up \ {s} /\ UNCHANGED swallowed
  \/ s \in up /\ swallowed' = swallowed \cup {s} /\ UNCHANGED up

OpenFails(c) ==
  /\ At(c, "open:launch") \/ At(c, "open:page")
  /\ BrowserClosed(Of(c))
  /\ Return(c)
  /\ UNCHANGED <<listed, state, tabs, chain, traced>>

-----------------------------------------------------------------------------
(* acquireLock: a place on the chain, the turn, and the release.           *)
Join(c, step, s, p) ==
  /\ Usable(s)
  /\ Begin(c, step, s, p)
  /\ chain' = [chain EXCEPT ![s] = Append(chain[s], c)]
  /\ UNCHANGED <<listed, state, tabs, chromium, traced>>

(* Mutant: a call waits for no other. *)
AnyTurn(c) == TRUE
MyTurn(c) == Head(chain[Of(c)]) = c

(* Only a call that has its turn leaves, so it leaves the first place.     *)
Leave(c) == chain' = [chain EXCEPT ![Of(c)] = Tail(@)] /\ Return(c)

(* Mutant: a function that throws does not release. *)
LeaveLocked(c) == Return(c) /\ UNCHANGED chain
LeaveByThrow(c) == Leave(c)

(* createPage *)
CreatePage(c, s) == Join(c, "page:line", s, 0)

PageRoom(s) == Cardinality(pages[s]) < MaxPages

CreatePageTurn(c) ==
  /\ At(c, "page:line") /\ MyTurn(c)
  /\ \/ ~PageRoom(Of(c)) /\ LeaveByThrow(c)
     \/ /\ PageRoom(Of(c))
        /\ Goto(c, "page:new") /\ UNCHANGED chain
  /\ UNCHANGED <<listed, state, tabs, chromium, traced>>

PageCreated(c) ==
  LET s == Of(c)
  IN  /\ At(c, "page:new") /\ s \in up /\ opened[s] < MaxOpened
      /\ opened' = [opened EXCEPT ![s] = @ + 1]
      /\ pages' = [pages EXCEPT ![s] = @ \cup {opened[s] + 1}]
      /\ Leave(c)
      /\ UNCHANGED <<listed, state, chromium, traced>>

CreatePageFails(c) ==
  /\ At(c, "page:new")
  /\ LeaveByThrow(c)
  /\ UNCHANGED <<listed, state, tabs, chromium, traced>>

(* closePage: an error of page.close() is swallowed. *)
ClosePage(c, s, p) == Join(c, "shut:line", s, p)

ClosePageTurn(c) ==
  /\ At(c, "shut:line") /\ MyTurn(c)
  /\ \/ calls[c].page \notin pages[Of(c)] /\ Leave(c)
     \/ /\ calls[c].page \in pages[Of(c)]
        /\ Goto(c, "shut:close") /\ UNCHANGED chain
  /\ UNCHANGED <<listed, state, tabs, chromium, traced>>

PageClosed(c) ==
  /\ At(c, "shut:close")
  /\ pages' = [pages EXCEPT ![Of(c)] = @ \ {calls[c].page}]
  /\ Leave(c)
  /\ UNCHANGED <<listed, state, opened, chromium, traced>>

(* navigate: an unknown page or a refused URL leaves the state alone. *)
Navigate(c, s, p) == Join(c, "navigate:line", s, p)

NavigateTurn(c) ==
  /\ At(c, "navigate:line") /\ MyTurn(c)
  /\ \/ LeaveByThrow(c) /\ UNCHANGED state
     \/ /\ calls[c].page \in pages[Of(c)]
        /\ SetState(Of(c), "NAVIGATING")
        /\ Goto(c, "navigate:goto") /\ UNCHANGED chain
  /\ UNCHANGED <<listed, tabs, chromium, traced>>

Navigated(c) ==
  /\ At(c, "navigate:goto") /\ Of(c) \in up
  /\ SetState(Of(c), "READY")
  /\ Leave(c)
  /\ UNCHANGED <<listed, tabs, chromium, traced>>

(* Mutant: a navigation that fails leaves the state as it is. *)
StillNavigating(s) == UNCHANGED state
MarkFailed(s) == SetState(s, "FAILED")

NavigateFails(c) ==
  /\ At(c, "navigate:goto")
  /\ MarkFailed(Of(c))
  /\ LeaveByThrow(c)
  /\ UNCHANGED <<listed, tabs, chromium, traced>>

-----------------------------------------------------------------------------
(* closeSession: also for sessions that are no longer usable.              *)
CloseSession(c, s) ==
  /\ s \in listed
  /\ Begin(c, "close:pages", s, 0)
  /\ SetState(s, "CLOSING")
  /\ UNCHANGED <<listed, tabs, chain, chromium, traced>>

PagesClosed(c) ==
  /\ At(c, "close:pages")
  /\ pages' = [pages EXCEPT ![Of(c)] = {}]
  /\ Goto(c, "close:browser")
  /\ UNCHANGED <<listed, state, opened, chain, chromium, traced>>

SessionClosed(c) ==
  /\ At(c, "close:browser")
  /\ SetState(Of(c), "CLOSED")
  /\ BrowserClosed(Of(c))
  /\ listed' = listed \ {Of(c)}
  /\ Return(c)
  /\ UNCHANGED <<tabs, chain, traced>>

-----------------------------------------------------------------------------
(* browser_trace_start and browser_trace_stop *)
TraceStart(c, s) ==
  /\ Usable(s) /\ s \notin traced
  /\ Begin(c, "trace:start", s, 0)
  /\ UNCHANGED <<listed, state, tabs, chain, chromium, traced>>

(* A context that records already refuses to start. *)
TraceStarted(c) ==
  /\ At(c, "trace:start") /\ Of(c) \in up /\ Of(c) \notin traced
  /\ traced' = traced \cup {Of(c)}
  /\ SetState(Of(c), "TRACING")
  /\ Return(c)
  /\ UNCHANGED <<listed, tabs, chain, chromium>>

TraceStop(c, s) ==
  /\ Usable(s) /\ s \in traced
  /\ Begin(c, "trace:stop", s, 0)
  /\ UNCHANGED <<listed, state, tabs, chain, chromium, traced>>

TraceStopped(c) ==
  /\ At(c, "trace:stop") /\ Of(c) \in traced
  /\ traced' = traced \ {Of(c)}
  /\ SetState(Of(c), "READY")
  /\ Return(c)
  /\ UNCHANGED <<listed, tabs, chain, chromium>>

(* After a stop that failed the flag stays, whatever the context does.     *)
TraceFails(c) ==
  /\ At(c, "trace:start") \/ At(c, "trace:stop")
  /\ Return(c)
  /\ UNCHANGED <<listed, state, tabs, chain, chromium, traced>>

-----------------------------------------------------------------------------
Request(c) ==
  \E s \in Sessions :
    \/ Open(c, s) \/ CreatePage(c, s) \/ CloseSession(c, s)
    \/ TraceStart(c, s) \/ TraceStop(c, s)
    \/ \E p \in 1..opened[s] : ClosePage(c, s, p) \/ Navigate(c, s, p)

Answer(c) ==
  \/ Launched(c) \/ Opened(c) \/ OpenFails(c)
  \/ CreatePageTurn(c) \/ PageCreated(c) \/ CreatePageFails(c)
  \/ ClosePageTurn(c) \/ PageClosed(c)
  \/ NavigateTurn(c) \/ Navigated(c) \/ NavigateFails(c)
  \/ PagesClosed(c) \/ SessionClosed(c)
  \/ TraceStarted(c) \/ TraceStopped(c) \/ TraceFails(c)

Next == \E c \in Calls : Request(c) \/ Answer(c)

Spec == Init /\ [][Next]_vars

-----------------------------------------------------------------------------
TypeOK ==
  /\ listed \subseteq Sessions
  /\ state \in [Sessions -> States]
  /\ pages \in [Sessions -> SUBSET Page]
  /\ opened \in [Sessions -> 0..MaxOpened]
  /\ chain \in [Sessions -> Seq(Calls)]
  /\ up \subseteq Sessions /\ swallowed \subseteq Sessions
  /\ traced \subseteq Sessions
  /\ calls \in [Calls -> Call]

(* The limit on sessions is tested before Chromium is launched, and a      *)
(* session in state FAILED, which is not counted, may be used again by a   *)
(* call that was in flight.  So more sessions than the limit are in use    *)
(* only by one for each other call that was in flight.                     *)
InUse(s) == Usable(s) /\ ~On(s, Closing)
SessionOvershoot ==
  Cardinality({s \in Sessions : InUse(s)}) <= MaxSessions + Cardinality(Calls) - 1

(* Every Chromium that runs belongs to a session in the map, where         *)
(* closeSession finds it, or to a call that is still opening it, or its    *)
(* close was attempted and rejected: no failure of a launch, a context, a  *)
(* page or a navigation, and no overlap of closes, loses one otherwise.    *)
NoLeakedBrowser ==
  \A s \in up : s \in listed \/ On(s, {"open:page"}) \/ s \in swallowed

(* A state that only a call in flight can end has such a call.             *)
NoStuckState ==
  \A s \in listed :
    /\ state[s] = "NAVIGATING" => On(s, {"navigate:goto"})
    /\ state[s] = "CLOSING" => On(s, Closing)

(* The first of a chain is a call in flight on that session, waiting for   *)
(* its turn or having it, and whoever waits is on the chain: nobody waits  *)
(* for a call that will never release it.                                  *)
ChainMoves ==
  \A s \in Sessions :
    /\ \A i \in DOMAIN chain[s] :
         LET c == chain[s][i] IN Of(c) = s /\ calls[c].at \in Waiting \cup Inside
    /\ \A c \in Calls : calls[c].at \in Waiting /\ Of(c) = s =>
         \E i \in DOMAIN chain[s] : chain[s][i] = c

(* The chain is a first come, first served lock: calls on a session take   *)
(* effect one at a time and in the order they were made.                   *)
Entered(s) == {c \in Calls : Of(c) = s /\ calls[c].at \in Inside}
Fifo == INSTANCE FifoLock
  WITH Callers <- Calls, Keys <- Sessions,
       line <- [s \in Sessions |->
         IF Entered(s) # {} THEN Tail(chain[s]) ELSE chain[s]],
       holder <- [s \in Sessions |->
         IF Entered(s) # {} THEN CHOOSE c \in Entered(s) : TRUE ELSE None]
OneAtATime == Fifo!Spec
=============================================================================
