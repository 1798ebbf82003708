----------------------------- MODULE Terminals ------------------------------
(***************************************************************************)
(* A coding workspace with its worker and its terminals:                   *)
(* CodingWorkspaceOrchestrator                                             *)
(* (src/src/workspace/workspace-orchestrator.ts), TerminalSessionManager   *)
(* (src/src/terminal/terminal-manager.ts) and PtyBuffer (pty-buffer.ts)    *)
(* under the tools coding_workspace_* and terminal_*                       *)
(* (src/src/mcp/tools/phase4-tools.ts).                                    *)
(*                                                                         *)
(* The id of a workspace is drawn by startWorkspace and told when it       *)
(* returns, so workspaces do not meet and one of them is modelled.  The    *)
(* tools pass no sandbox: only the initial terminal, number 1, has a PTY,  *)
(* the others echo what is written to them, and opening or closing those   *)
(* awaits nothing.                                                         *)
(*                                                                         *)
(* Output is a sequence of bytes: "a" is a character of one byte, "h" and  *)
(* "t" are head and tail of a character of two.  A client reads terminal 1 *)
(* with the cursor its last read gave it.                                  *)
(***************************************************************************)
EXTENDS Naturals, Sequences, FiniteSets

CONSTANTS
  Calls,         \* tool calls in flight
  MaxTerminals,  \* config.maxTerminalsPerWorkspace
  Capacity,      \* bytes a PtyBuffer keeps
  MaxBytes,      \* bytes one read asks for
  Nowhere,       \* no cursor yet
  MaxOpened,     \* bound of the instance: terminals ever opened
  MaxOutput      \* bound of the instance: bytes of output

ASSUME LimitAssumption ==
  MaxTerminals \in Nat \ {0} /\ Capacity \in Nat \ {0} /\ MaxBytes \in Nat \ {0}
ASSUME NowhereAssumption == Nowhere \notin Nat
ASSUME BoundAssumption == MaxOpened \in Nat \ {0} /\ MaxOutput \in Nat

VARIABLES
  state,    \* state of the workspace
  noted,    \* startWorkspace knows the session it would have to destroy
  worker,   \* the worker of the session
  terms,    \* the terminals in the map of the workspace
  shut,     \* terminal 1 has state closed
  opened,   \* how many terminals there have been
  pty,      \* the PTY of terminal 1
  killing,  \* closeAllTerminals waits for that PTY to be killed
  ignored,  \* ghost: an error of destroySession or kill was swallowed
  buffer,   \* the PtyBuffer of terminal 1
  min,      \* its minAvailableCursor
  text,     \* ghost: all the output of terminal 1; its length is headCursor
  cursor,   \* where the client's next read starts, or nowhere yet
  due,      \* ghost: the output the client was given, or told that it missed
  cut,      \* ghost: bytes of cut characters in the client's last read
  calls     \* what each tool call in flight waits for

workspace == <<state, noted, worker>>
terminals == <<terms, shut, opened, pty, killing>>
output == <<buffer, min, text>>
client == <<cursor, due, cut>>
vars == <<workspace, terminals, ignored, output, client, calls>>

States == {"none", "CREATING", "BOOTSTRAPPING", "READY", "FAILED",
           "DESTROYING", "DESTROYED"}
Steps == {"idle", "start:create", "start:clone", "start:pty", "start:undo",
          "destroy", "close"}
Byte == {"a", "h", "t"}
Chunk == {<<"a">>, <<"h", "t">>}

Init ==
  /\ state = "none" /\ noted = FALSE /\ worker = "none"
  /\ terms = {} /\ shut = FALSE /\ opened = 0 /\ pty = "none" /\ killing = FALSE
  /\ ignored = FALSE
  /\ buffer = <<>> /\ min = 0 /\ text = <<>>
  /\ cursor = Nowhere /\ due = 0 /\ cut = 0
  /\ calls = [c \in Calls |-> "idle"]

Go(c, from, to) == calls[c] = from /\ calls' = [calls EXCEPT ![c] = to]

-----------------------------------------------------------------------------
(* closeAllTerminals: the map is dropped at once, the PTY is killed later. *)
CloseAll ==
  /\ terms' = {}
  /\ killing' = (killing \/ (1 \in terms /\ pty = "live"))
  /\ shut' = (shut \/ 1 \in terms)

Killed ==
  /\ killing
  /\ killing' = FALSE
  /\ \/ pty' = "dead" /\ UNCHANGED ignored
     \/ ignored' = TRUE /\ UNCHANGED pty
  /\ UNCHANGED <<workspace, terms, shut, opened, output, client, calls>>

(* destroySession, whose errors are swallowed.  With the worker its        *)
(* processes are gone.                                                     *)
DestroySession ==
  \/ /\ worker' = "gone"
     /\ pty' = IF pty = "live" THEN "dead" ELSE pty
     /\ UNCHANGED ignored
  \/ ignored' = TRUE /\ UNCHANGED <<worker, pty>>

-----------------------------------------------------------------------------
(* startWorkspace *)
Start(c) ==
  /\ state = "none"
  /\ Go(c, "idle", "start:create")
  /\ state' = "CREATING"
  /\ UNCHANGED <<noted, worker, terminals, ignored, output, client>>

(* Mutant: the session is noted when the workspace is ready.               *)
NoteLater == UNCHANGED noted
Note == noted' = TRUE

WorkerCreated(c) ==
  /\ Go(c, "start:create", "start:clone")
  /\ worker' = "live"
  /\ Note
  /\ state' = "BOOTSTRAPPING"
  /\ UNCHANGED <<terminals, ignored, output, client>>

(* Whether it was cloned or not (a failure is a warning), the workspace is *)
(* ready and its initial terminal, if one is wanted, is opened.            *)
Cloned(c) ==
  /\ Go(c, "start:clone", "idle") \/ Go(c, "start:clone", "start:pty")
  /\ state' = "READY"
  /\ UNCHANGED <<noted, worker, terminals, ignored, output, client>>

(* A PTY that could not be created leaves a terminal that only echoes.     *)
PtyCreated(c) ==
  /\ Go(c, "start:pty", "idle")
  /\ terms' = terms \cup {1} /\ opened' = 1
  /\ pty' \in {"live", "none"}
  /\ UNCHANGED <<workspace, shut, killing, ignored, output, client>>

(* No worker, or the skills of the image cannot be read: roll back.        *)
StartFails(c) ==
  /\ state' = "FAILED"
  /\ \/ calls[c] \in {"start:create", "start:clone"} /\ noted
        /\ calls' = [calls EXCEPT ![c] = "start:undo"]
        /\ UNCHANGED <<terms, shut, killing>>
     \/ calls[c] \in {"start:create", "start:clone"} /\ ~noted
        /\ calls' = [calls EXCEPT ![c] = "idle"]
        /\ CloseAll
  /\ UNCHANGED <<noted, worker, opened, pty, ignored, output, client>>

RolledBack(c) ==
  /\ Go(c, "start:undo", "idle")
  /\ DestroySession
  /\ CloseAll
  /\ UNCHANGED <<state, noted, opened, output, client>>

Known == state \in {"READY", "DESTROYING", "DESTROYED"}
         /\ \A c \in Calls : calls[c] # "start:pty"

(* destroyWorkspace, also while another destroyWorkspace is under way.     *)
Destroy(c) ==
  /\ Known /\ state # "DESTROYED"
  /\ Go(c, "idle", "destroy")
  /\ state' = "DESTROYING"
  /\ CloseAll
  /\ UNCHANGED <<noted, worker, opened, pty, ignored, output, client>>

Destroyed(c) ==
  /\ Go(c, "destroy", "idle")
  /\ DestroySession
  /\ state' = "DESTROYED"
  /\ UNCHANGED <<noted, terms, shut, opened, killing, output, client>>

-----------------------------------------------------------------------------
(* terminal_open looks for the workspace, not at its state.                *)
OpenTerminal ==
  /\ Known
  /\ Cardinality(terms) < MaxTerminals
  /\ opened' = (IF opened = 0 THEN 2 ELSE opened + 1) /\ opened' <= MaxOpened
  /\ terms' = terms \cup {opened'}
  /\ UNCHANGED <<workspace, shut, pty, killing, ignored, output, client, calls>>

(* terminal_close: without a PTY there is nothing to wait for. *)
CloseTerminal(c, t) ==
  /\ Known /\ t \in terms
  /\ IF t = 1 /\ pty # "none"
     THEN Go(c, "idle", "close") /\ shut' = TRUE /\ UNCHANGED terms
     ELSE terms' = terms \ {t} /\ UNCHANGED <<shut, calls>>
  /\ UNCHANGED <<workspace, opened, pty, killing, ignored, output, client>>

(* Mutant: a terminal whose PTY was killed stays in the map. *)
KeepTerminal == terms
DropTerminal == terms \ {1}

TerminalClosed(c) ==
  /\ Go(c, "close", "idle")
  /\ terms' = DropTerminal
  /\ \/ pty' = "dead" /\ UNCHANGED ignored
     \/ ignored' = TRUE /\ UNCHANGED pty
  /\ UNCHANGED <<workspace, shut, opened, killing, output, client>>

-----------------------------------------------------------------------------
(* PtyBuffer.append *)
Overflow(new) == IF Len(new) > Capacity THEN Len(new) - Capacity ELSE 0
MinAfter(new) == min + Overflow(new)

Append1(chunk) ==
  LET new == buffer \o chunk
  IN  /\ text' = text \o chunk
      /\ buffer' = SubSeq(new, Overflow(new) + 1, Len(new))
      /\ min' = MinAfter(new)

(* The PTY writes bytes, in chunks that may end anywhere.  terminal_write   *)
(* echoes whole characters, also beside a PTY: the tools pass no sandbox,  *)
(* and a handle need not take input.                                       *)
Open1 == 1 \in terms /\ ~shut
Piece == {<<byte>> : byte \in Byte}
Output ==
  /\ \E chunk \in Piece \cup Chunk :
       /\ \/ chunk \in Piece /\ pty = "live"
          \/ chunk \in Chunk /\ Open1
       /\ Len(text) + Len(chunk) <= MaxOutput
       /\ Append1(chunk)
  /\ UNCHANGED <<workspace, terminals, ignored, client, calls>>

(* PtyBuffer.read decodes what it reads: each byte of a cut character is   *)
(* replaced by U+FFFD, which has three bytes, and the cursor moves by the  *)
(* length of the decoded text.                                             *)
Stray(bytes) ==
  {i \in DOMAIN bytes :
     \/ bytes[i] = "h" /\ (i = Len(bytes) \/ bytes[i + 1] # "t")
     \/ bytes[i] = "t" /\ (i = 1 \/ bytes[i - 1] # "h")}
Decoded(bytes) == Len(bytes) + 2 * Cardinality(Stray(bytes))

(* Mutant: the cursor is the head of the buffer. *)
ToHead(start, bytes) == Len(text)
NextCursor(start, bytes) == start + Decoded(bytes)

(* readTerminal also reads a terminal that is closed. *)
Readable(t) == t \in terms
Read ==
  /\ Readable(1)
  /\ LET from == IF cursor = Nowhere THEN min ELSE cursor
         start == IF from < min THEN min ELSE from
         bytes == SubSeq(buffer, start - min + 1,
                    IF start - min + MaxBytes < Len(buffer)
                    THEN start - min + MaxBytes ELSE Len(buffer))
     IN  IF start >= Len(text)
         THEN cursor' = Len(text) /\ due' = Len(text) /\ cut' = 0
         ELSE /\ cursor' = NextCursor(start, bytes)
              /\ due' = start + Len(bytes)
              /\ cut' = Cardinality(Stray(bytes))
  /\ UNCHANGED <<workspace, terminals, ignored, output, calls>>

-----------------------------------------------------------------------------
Next ==
  \/ \E c \in Calls :
       \/ Start(c) \/ WorkerCreated(c) \/ Cloned(c) \/ PtyCreated(c)
       \/ StartFails(c) \/ RolledBack(c)
       \/ Destroy(c) \/ Destroyed(c)
       \/ \E t \in 1..MaxOpened : CloseTerminal(c, t)
       \/ TerminalClosed(c)
  \/ Killed \/ OpenTerminal \/ Output \/ Read

Spec == Init /\ [][Next]_vars

-----------------------------------------------------------------------------
TypeOK ==
  /\ state \in States /\ noted \in BOOLEAN /\ worker \in {"none", "live", "gone"}
  /\ terms \subseteq 1..MaxOpened /\ shut \in BOOLEAN /\ opened \in 0..MaxOpened
  /\ pty \in {"none", "live", "dead"} /\ killing \in BOOLEAN
  /\ ignored \in BOOLEAN
  /\ buffer \in Seq(Byte) /\ min \in Nat /\ text \in Seq(Byte)
  /\ cursor \in Nat \cup {Nowhere} /\ due \in Nat /\ cut \in Nat
  /\ calls \in [Calls -> Steps]

Quiet == calls = [c \in Calls |-> "idle"] /\ ~killing

(* Unless an error was swallowed, a worker that runs when nothing is in    *)
(* flight is that of a workspace that is ready, and a PTY that runs is     *)
(* that of a terminal in the map: each can still be destroyed or closed.   *)
NothingStranded ==
  Quiet /\ ~ignored =>
    /\ worker = "live" => state = "READY"
    /\ pty = "live" => 1 \in terms

(* A terminal in state closed, which counts against the limit and can      *)
(* neither be written to nor signalled, is on its way out of the map.      *)
ClosedIsForgotten == shut /\ 1 \in terms => \E c \in Calls : calls[c] = "close"

(* A client that follows its cursors is given no byte twice, and misses    *)
(* bytes it is not told about only after a read that cut characters: then  *)
(* at most two for each byte of a cut character.  It is never ahead of the *)
(* output: what overflowed and what is kept add up to all there was.       *)
ReadsFollowOn ==
  cursor # Nowhere =>
    due <= Len(text) /\ due <= cursor /\ cursor <= due + 2 * cut
=============================================================================
