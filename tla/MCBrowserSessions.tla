------------------------- MODULE MCBrowserSessions --------------------------
(***************************************************************************)
(* Instances of BrowserSessions, PageEvidence and VerificationCycles for   *)
(* TLC.  The three share no state and no property relates them, so that a  *)
(* behaviour interleaving them shows no more than its three parts: here    *)
(* each behaviour is one of the three, chosen at the start.                *)
(***************************************************************************)
EXTENDS BrowserSessions, PageEvidence, VerificationCycles, TLC

VARIABLE part
Parts == {"sessions", "page", "cycles"}
allVars == <<vars, pageVars, cycleVars, part>>

BrowserInit == Init /\ PageInit /\ CyclesInit /\ part \in Parts
BrowserNext ==
  /\ UNCHANGED part
  /\ \/ part = "sessions" /\ Next /\ UNCHANGED <<pageVars, cycleVars>>
     \/ part = "page" /\ PageNext /\ UNCHANGED <<vars, cycleVars>>
     \/ part = "cycles" /\ CyclesNext /\ UNCHANGED <<vars, pageVars>>
BrowserSpec == BrowserInit /\ [][BrowserNext]_allVars

Symmetry == Permutations(Sessions) \cup Permutations(Calls)

(* A session that has left the map, or whose open failed with Chromium     *)
(* left running, and that has no call in flight is never looked at again:  *)
(* what it was does not tell states apart.                                 *)
Gone(s) == s \notin listed /\ (opened[s] > 0 \/ s \in up) /\ ~On(s, Steps)
Known(S) == S \ {s \in Sessions : Gone(s)}
Leaked == {s \in up \ swallowed : Gone(s)}
SessionsView == <<listed, Known(up), Known(swallowed), Leaked, chain, calls,
                  Known(traced),
                  [s \in Sessions |-> IF Gone(s) THEN "CLOSED"
                                     ELSE <<state[s], pages[s], opened[s]>>]>>
View == <<part, IF part = "sessions" THEN SessionsView ELSE <<pageVars, cycleVars>>>>
=============================================================================
