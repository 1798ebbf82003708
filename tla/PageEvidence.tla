---------------------------- MODULE PageEvidence -----------------------------
(***************************************************************************)
(* What the controller keeps of one page of a browser session: the bounded *)
(* lists of EvidenceCollector (src/src/browser/evidence-collector.ts), the *)
(* element references of PageInspector (page-inspector.ts), and the        *)
(* assertions that read them (browser-assertions.ts), under the tools      *)
(* browser_navigate, browser_snapshot, browser_assert, browser_*_read and  *)
(* browser_page_close (src/src/mcp/tools/phase6-tools.ts).                 *)
(*                                                                         *)
(* The entries recorded for a page are numbered as they come.  One list    *)
(* stands for the three: console, page errors and failed requests are kept *)
(* alike, and an entry is bad when an assertion of its list counts it.     *)
(*                                                                         *)
(* Names carry the page's name, as this module is checked in one run with  *)
(* BrowserSessions, with which it shares no state.                         *)
(***************************************************************************)
EXTENDS Naturals, Sequences, SequencesExt

CONSTANTS
  MaxItems,      \* config.consoleBufferMaxItems, networkBufferMaxItems, ...
  Window,        \* the default limit of getNetworkFailures and getPageErrors
  ReadLimit,     \* the limit a reader passes
  MaxAttached,   \* bound of the instance: browser_navigate calls for the page
  MaxRecorded,   \* bound of the instance: entries
  MaxSnapshots   \* bound of the instance: browser_snapshot calls

ASSUME ItemsAssumption == MaxItems \in Nat \ {0}
ASSUME WindowAssumption == Window \in Nat \ {0} /\ ReadLimit \in Nat \ {0}
ASSUME PageBoundAssumption ==
  MaxAttached \in Nat /\ MaxRecorded \in Nat /\ MaxSnapshots \in Nat

VARIABLES
  shown,      \* the page is open
  attached,   \* how often the collector listens to it
  list,       \* the page's list: the numbers of entries, oldest first
  recorded,   \* how many entries were recorded since the list was cleared
  bad,        \* history: which of them were bad
  reader,     \* a client that reads the list from cursor to cursor
  started,    \* browser_snapshot calls so far
  awaiting,   \* the snapshots that await the page, with the map they write to
  maps,       \* the maps of references: whose references each one has
  registry    \* elementRefRegistry: the map of the page, 0 for none

evidence == <<attached, list, recorded, bad>>
references == <<started, awaiting, maps, registry>>
pageVars == <<shown, evidence, reader, references>>

Entry == 1..MaxRecorded
Snapshot == 1..MaxSnapshots
NoCursor == MaxRecorded + 1

\* cursor: nextCursor of its last read; upTo: the last entry it was given;
\* gone: history, the entries the list had lost by then.
Fresh == [cursor |-> NoCursor, upTo |-> 0, gone |-> 0]

PageInit ==
  /\ shown = TRUE
  /\ attached = 0 /\ list = <<>> /\ recorded = 0 /\ bad = {}
  /\ reader = Fresh
  /\ started = 0 /\ awaiting = {} /\ registry = 0
  /\ maps = [m \in Snapshot |-> {}]

-----------------------------------------------------------------------------
(* browser_navigate listens to the page anew, each time it is called.      *)
Attach ==
  /\ shown /\ attached < MaxAttached
  /\ attached' = attached + 1
  /\ UNCHANGED <<shown, list, recorded, bad, reader, references>>

(* pushToRingBuffer *)
(* Mutant: a full list loses its newest entry instead of its oldest. *)
PushOverNewest(buffer, entry) ==
  IF Len(buffer) >= MaxItems THEN Append(Front(buffer), entry)
  ELSE Append(buffer, entry)
Push(buffer, entry) ==
  IF Len(buffer) >= MaxItems THEN Append(Tail(buffer), entry)
  ELSE Append(buffer, entry)

(* The page logs, throws or fails to load something: every listener        *)
(* records an entry of its own, one after the other in the same stretch.   *)
Heard[n \in Nat] == IF n = 0 THEN list ELSE Push(Heard[n - 1], recorded + n)

Emit(isBad) ==
  /\ shown /\ recorded + attached <= MaxRecorded
  /\ list' = Heard[attached]
  /\ recorded' = recorded + attached
  /\ bad' = IF isBad THEN bad \cup ((recorded + 1)..recorded') ELSE bad
  /\ UNCHANGED <<shown, attached, reader, references>>

(* browser_page_close clears the list when the page has been closed; when  *)
(* its session is closed, nothing does.                                    *)
CloseThePage ==
  /\ shown /\ shown' = FALSE
  /\ list' = <<>> /\ recorded' = 0 /\ bad' = {}
  /\ reader' = Fresh
  /\ UNCHANGED <<attached, references>>

CloseItsSession ==
  /\ shown /\ shown' = FALSE
  /\ UNCHANGED <<evidence, reader, references>>

-----------------------------------------------------------------------------
(* getConsoleEntries, getPageErrors: a cursor is an index into the list as *)
(* it is when it is used.                                                  *)
First(cursor) == IF cursor = NoCursor THEN 0 ELSE cursor
Slice(from, limit) == SubSeq(list, from + 1, Min({from + limit, Len(list)}))

(* Mutant: the next page begins one entry late. *)
NextCursorLate(from, slice) ==
  IF from + Len(slice) < Len(list) THEN from + Len(slice) + 1 ELSE NoCursor
NextCursor(from, slice) ==
  IF from + Len(slice) < Len(list) THEN from + Len(slice) ELSE NoCursor

Dropped == recorded - Len(list)

(* The client reads from the start, or goes on where its last read ended;  *)
(* a list that was cleared has nothing more for it.                        *)
Read(cursor) ==
  LET from == First(cursor)
      slice == Slice(from, ReadLimit)
  IN  /\ slice # <<>>
      /\ reader' = [cursor |-> NextCursor(from, slice),
                    upTo |-> Last(slice), gone |-> Dropped]
      /\ UNCHANGED <<shown, evidence, references>>

ReadAnew == Read(NoCursor)
ReadOn == reader.cursor # NoCursor /\ Read(reader.cursor)

-----------------------------------------------------------------------------
(* captureSnapshot: a new map is registered, the page is asked for its     *)
(* title and its elements, and their references are put into that map.     *)
(* Mutant: the references of earlier snapshots are kept. *)
KeepPageRefs == registry
InvalidatePageRefs == 0
RefMapForPage(registered, s) == IF registered = 0 THEN s ELSE registered

TakeSnapshot ==
  LET s == started + 1
  IN  /\ shown /\ started < MaxSnapshots
      /\ started' = s
      /\ registry' = RefMapForPage(InvalidatePageRefs, s)
      /\ awaiting' = awaiting \cup {<<s, registry'>>}
      /\ UNCHANGED <<shown, evidence, reader, maps>>

SnapshotTaken(s, m) ==
  /\ <<s, m>> \in awaiting /\ shown
  /\ maps' = [maps EXCEPT ![m] = @ \cup {s}]
  /\ awaiting' = awaiting \ {<<s, m>>}
  /\ UNCHANGED <<shown, evidence, reader, started, registry>>

SnapshotFails(s, m) ==
  /\ <<s, m>> \in awaiting
  /\ awaiting' = awaiting \ {<<s, m>>}
  /\ UNCHANGED <<shown, evidence, reader, started, maps, registry>>

(* resolveLocator: whether a reference of snapshot s is found. *)
Resolves(s) == registry # 0 /\ s \in maps[registry]

-----------------------------------------------------------------------------
(* evaluate: no-console-errors looks at the whole list (getConsoleErrors); *)
(* no-page-errors, no-failed-requests and http-status-below look at what   *)
(* one read returns, the oldest entries of the list.                       *)
NoneInList == \A i \in DOMAIN list : list[i] \notin bad
NoneInWindow == \A i \in DOMAIN Slice(0, Window) : list[i] \notin bad

-----------------------------------------------------------------------------
PageNext ==
  \/ Attach
  \/ \E isBad \in BOOLEAN : Emit(isBad)
  \/ CloseThePage \/ CloseItsSession
  \/ ReadAnew \/ ReadOn
  \/ TakeSnapshot
  \/ \E s, m \in Snapshot : SnapshotTaken(s, m) \/ SnapshotFails(s, m)

PageSpec == PageInit /\ [][PageNext]_pageVars

-----------------------------------------------------------------------------
PageTypeOK ==
  /\ shown \in BOOLEAN /\ attached \in 0..MaxAttached
  /\ list \in Seq(Entry) /\ Len(list) <= MaxItems
  /\ recorded \in 0..MaxRecorded /\ bad \subseteq Entry
  /\ reader \in [cursor : 0..NoCursor, upTo : 0..MaxRecorded, gone : 0..MaxRecorded]
  /\ started \in 0..MaxSnapshots /\ registry \in 0..MaxSnapshots
  /\ awaiting \subseteq Snapshot \X Snapshot
  /\ maps \in [Snapshot -> SUBSET Snapshot]

(* An assertion that finds no error although there was one overlooks it    *)
(* for one of two reasons: as many entries as the list holds came after it *)
(* (each message counts once for every listener), or, for the assertions   *)
(* that read a window, a window full of other entries is older than it.    *)
PushedOut(n) == recorded - n >= MaxItems
BehindWindow(n) == n - Dropped > Window
OverlookedErrors ==
  /\ NoneInList => \A n \in bad : PushedOut(n)
  /\ NoneInWindow => \A n \in bad : PushedOut(n) \/ BehindWindow(n)

(* Whoever reads on from the cursor of the last read gets no entry twice   *)
(* and misses only entries: those the list lost in between, one each.      *)
ReadsOn ==
  [][ReadOn => LET next == Slice(First(reader.cursor), ReadLimit)[1]
               IN  next > reader.upTo /\
                   next - reader.upTo - 1 <= Dropped - reader.gone]_pageVars

(* A reference resolves exactly if it is of the snapshot begun last: an    *)
(* older one that the page answers later is never served, and does not     *)
(* take the references of the newer one away.                              *)
Answered(s) == \E m \in Snapshot : s \in maps[m]
RefsOfTheLatest ==
  \A s \in 1..started : Resolves(s) <=> s = started /\ Answered(s)
=============================================================================
