---------------------------- MODULE DomMailbox ----------------------------
(***************************************************************************)
(* The one-line file dom_cmd.txt by which a driver program outside Wine    *)
(* commands the library injected into the game (dom_replay.c). The library *)
(* polls the file, carries out a line it has not just seen and writes a    *)
(* line to its log. A driver writes with open("w") and a close: the file   *)
(* is empty in between, and what was in it is gone whether it was seen or  *)
(* not. The game and its window are external.                              *)
(***************************************************************************)
EXTENDS ShiftHistory

CONSTANTS
  Leftovers,      \* bound: what the file may hold before the run
  MaxAttaches     \* bound: how often the library is injected

ASSUME MailAssumption == MaxAttaches \in Nat

VARIABLES
  file,           \* what dom_cmd.txt holds, or None
  writing,        \* the line a driver is about to put there, or None
  lastSeen,       \* last_seen of the poll loop
  dll,            \* "off", "idle" or "busy" with a line
  canvas,         \* whether the game shows its window
  dlog,           \* the outcomes in dom_replay.log
  done,           \* the lines carried out on the game, in order
  attaches        \* how often the library was injected

mailVars == <<file, writing, lastSeen, dll, canvas, dlog, done, attaches>>

Lines == Leftovers \cup {None}

(* The log is appended to: it may end with a line of an earlier session. *)
MailInit ==
  /\ file \in Lines
  /\ writing = None /\ lastSeen = None /\ dll = "off" /\ canvas = FALSE
  /\ dlog \in {<<>>, <<[op |-> "resize", ok |-> TRUE]>>}
  /\ done = <<>> /\ attaches = 0

-----------------------------------------------------------------------------
(* The two halves of a driver's write. *)
OpenFile(line) ==
  /\ file' = None /\ writing' = line
  /\ UNCHANGED <<lastSeen, dll, canvas, dlog, done, attaches>>

CloseFile ==
  /\ file' = writing /\ writing' = None
  /\ UNCHANGED <<lastSeen, dll, canvas, dlog, done, attaches>>

(* DllMain and the start of poll_loop, in a game that has just started. *)
Attach ==
  /\ dll = "off" /\ attaches < MaxAttaches
  /\ dll' = "idle" /\ lastSeen' = None
  /\ attaches' = attaches + 1
  /\ UNCHANGED <<file, writing, canvas, dlog, done>>

(* The game ends. *)
Detach ==
  /\ dll # "off" /\ attaches < MaxAttaches
  /\ dll' = "off" /\ canvas' = FALSE
  /\ UNCHANGED <<file, writing, lastSeen, dlog, done, attaches>>

CanvasAppears ==
  /\ dll # "off" /\ ~canvas
  /\ canvas' = TRUE
  /\ UNCHANGED <<file, writing, lastSeen, dll, dlog, done, attaches>>

(* Mutant: the library does not remember what it has seen. *)
PollForgets ==
  /\ dll = "idle" /\ file # None
  /\ lastSeen' = IF file = lastSeen THEN None ELSE file
  /\ dll' = IF file = lastSeen THEN "idle" ELSE "busy"
  /\ UNCHANGED <<file, writing, canvas, dlog, done, attaches>>

Poll ==
  /\ dll = "idle" /\ file # None /\ file # lastSeen
  /\ lastSeen' = file /\ dll' = "busy"
  /\ UNCHANGED <<file, writing, canvas, dlog, done, attaches>>

(* process_command: resize and the clicks need the window. *)
ClickOps == {"click_post", "click_dbl"}
NeedsCanvas(line) == line.op \in ClickOps \cup {"resize"}

Process ==
  /\ dll = "busy"
  /\ dll' = "idle"
  /\ LET ok == canvas \/ ~NeedsCanvas(lastSeen)
     IN  /\ dlog' = Append(dlog, [op |-> lastSeen.op, ok |-> ok])
         /\ done' = IF ok THEN Append(done, lastSeen) ELSE done
  /\ UNCHANGED <<file, writing, lastSeen, canvas, attaches>>

Library == Attach \/ Detach \/ Poll \/ Process

(* The library has nothing left to do with the file as it is. *)
Quiet == dll = "off" \/ (dll = "idle" /\ file \in {None, lastSeen})

MailTypeOK ==
  /\ dll \in {"off", "idle", "busy"} /\ canvas \in BOOLEAN
  /\ attaches \in 0..MaxAttaches
  /\ dll = "busy" => lastSeen # None
=============================================================================
