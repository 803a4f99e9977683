------------------------------ MODULE Recorder ------------------------------
(***************************************************************************)
(* The recorder (recorder/host_recording_stream_v2.py): the threads that   *)
(* share one JsonlWriter.  The sniffer turns captured frames into lines    *)
(* and opens the input gate; the mouse and the keyboard listener record    *)
(* what happens in the foreground window; the patch worker saves an image  *)
(* per mouse press; main starts all of them, waits, and shuts down.        *)
(*                                                                         *)
(* A line is its kind.  emit() numbers and writes a line under the         *)
(* writer's lock, so it is one step and the seq of a line is its place in  *)
(* the file less one.  After close(), emit() raises in whatever thread     *)
(* calls it.  The file and the manifest are written through at once: what  *)
(* an invariant says of them holds wherever the process is killed.         *)
(***************************************************************************)
EXTENDS Integers, Sequences, FiniteSets

CONSTANTS
  Rects,          \* client rectangles the vmconnect window can have
  Listeners,      \* the listeners that run
  PatchSupport,   \* what the worker's imports come to: TRUE, FALSE or both
  QueueMax,       \* PATCH_QUEUE_MAX
  MaxFrames,      \* bound on the frames captured
  MaxCalls,       \* bound on the callbacks of the listeners
  MaxSignals,     \* bound on SIGINT and SIGTERM
  MaxErrors       \* bound on the lines that report an outside failure

ASSUME RecorderAssumption ==
  /\ QueueMax \in Nat
  /\ Listeners \subseteq {"mouse", "keyboard"}
  /\ PatchSupport \subseteq BOOLEAN
  /\ "out" \notin Rects /\ "none" \notin Rects

Callers == {"mouse", "keyboard", "main"}

(* "trigger" is a net line with the server list response; "press" is a     *)
(* mouse-down line that names a patch, "input" any other input line.       *)
Kinds == {"session_start", "net", "trigger", "gate_opened", "focus_gained",
          "focus_lost", "viewport", "input", "press", "error", "session_stop"}

VARIABLES
  file,       \* the kinds of the lines
  closed,     \* the writer is closed
  manifest,   \* "initial", or the exit_reason of the one written at the end
  gate,       \* gate_evt
  stop,       \* stop_evt
  reason,     \* exit_reason
  mpc,        \* main: boot, init, prime (prime_initial_viewport), wait, crash
              \*   (exit_reason was "clean"), joinSniffer,
              \*   joinWorker, close, manifest, exited
  signals,
  npc,        \* sniffer: new, read, gate, gateLine, ended
  frames,
  diedAlone,  \* history: the sniffer ended although stop was not set
  ipc,        \* caller: off, idle, focus, focusLine, view, viewLine, input,
              \*   enqueue
  info,       \* its foreground_info: a rectangle, or "out"
  calls,
  inVmc,      \* _in_vmconnect
  lastView,   \* _last_viewport
  hand,       \* the seq of the press the mouse listener is to enqueue
  ppc,        \* patch worker: new, loop, capture, ended
  q,          \* its queue of seqs
  taking,     \* the seq it captures
  patchOk,    \* its imports succeeded
  dropWarned, \* _drop_warned
  saved,      \* the seqs whose image exists
  excused,    \* history: dropped, failed with an error line, or no client area
  late        \* history: enqueued when the worker had left

fileVars  == <<file, closed, manifest>>
mainVars  == <<stop, reason, mpc, signals>>
sniffVars == <<npc, frames, diedAlone>>
inputVars == <<ipc, info, calls, inVmc, lastView, hand>>
patchVars == <<ppc, q, taking, patchOk, dropWarned, saved, excused, late>>
vars      == <<fileVars, gate, mainVars, sniffVars, inputVars, patchVars>>

TypeOK ==
  /\ file \in Seq(Kinds) /\ closed \in BOOLEAN
  /\ manifest \in {"initial", "clean", "signal", "crash"}
  /\ gate \in BOOLEAN /\ stop \in BOOLEAN
  /\ reason \in {"clean", "signal", "crash"}
  /\ mpc \in {"boot", "init", "prime", "wait", "crash", "joinSniffer",
              "joinWorker", "close", "manifest", "exited"}
  /\ npc \in {"new", "read", "gate", "gateLine", "ended"}
  /\ ipc \in [Callers -> {"off", "idle", "focus", "focusLine", "view", "viewLine",
                          "input", "enqueue"}]
  /\ info \in [Callers -> Rects \cup {"out"}]
  /\ inVmc \in BOOLEAN /\ lastView \in Rects \cup {"none"}
  /\ ppc \in {"new", "loop", "capture", "ended"}
  /\ hand \in Nat /\ taking \in Nat
  /\ q \in Seq(Nat) /\ Len(q) <= QueueMax
  /\ patchOk \in BOOLEAN /\ dropWarned \in BOOLEAN /\ diedAlone \in BOOLEAN
  /\ saved \subseteq Nat /\ excused \subseteq Nat /\ late \subseteq Nat
  /\ signals \in Nat /\ frames \in Nat /\ calls \in Nat

Init ==
  /\ file = <<"session_start">> /\ closed = FALSE /\ manifest = "initial"
  /\ gate = FALSE /\ stop = FALSE /\ reason = "clean"
  /\ mpc = "boot" /\ signals = 0
  /\ npc = "new" /\ frames = 0 /\ diedAlone = FALSE
  /\ ipc = [t \in Callers |-> "off"] /\ info = [t \in Callers |-> "out"] /\ calls = 0
  /\ inVmc = FALSE /\ lastView = "none" /\ hand = 0
  /\ ppc = "new" /\ q = <<>> /\ taking = 0
  /\ patchOk \in PatchSupport /\ dropWarned = FALSE
  /\ saved = {} /\ excused = {} /\ late = {}

(* emit *)
Emit(kind) ==
  /\ file' = IF closed THEN file ELSE Append(file, kind)
  /\ UNCHANGED <<closed, manifest>>

Count(kind) == Cardinality({k \in DOMAIN file : file[k] = kind})

EmitError == Count("error") < MaxErrors /\ Emit("error")

-----------------------------------------------------------------------------
(* The sniffer.  It looks at the stop event between packets; a packet      *)
(* holds any number of frames, so all that does is end the thread.         *)

SnifferEnds ==
  /\ npc' = "ended"
  /\ diedAlone' = (diedAlone \/ ~stop)
  /\ UNCHANGED frames

(* The stop event is set, or tshark is gone. *)
SnifferLeaves ==
  /\ npc = "read"
  /\ SnifferEnds
  /\ UNCHANGED <<fileVars, gate, mainVars, inputVars, patchVars>>

(* tshark cannot be started, its output is no pcap, the loop raises. *)
SnifferFails ==
  /\ npc = "read"
  /\ EmitError
  /\ SnifferEnds
  /\ UNCHANGED <<gate, mainVars, inputVars, patchVars>>

(* The next frame. *)
EmitFrame(kind) ==
  /\ npc = "read" /\ ~closed
  /\ frames < MaxFrames
  /\ Emit(kind)
  /\ frames' = frames + 1
  /\ npc' = IF kind = "trigger" /\ ~gate THEN "gate" ELSE "read"
  /\ UNCHANGED <<diedAlone, gate, mainVars, inputVars, patchVars>>

(* _maybe_open_gate: the event is set ... *)
OpenGate ==
  /\ npc = "gate"
  /\ gate' = TRUE
  /\ npc' = "gateLine"
  /\ UNCHANGED <<frames, diedAlone, fileVars, mainVars, inputVars, patchVars>>

(* ... and then the line is written. *)
EmitGateOpened ==
  /\ npc = "gateLine"
  /\ Emit("gate_opened")
  /\ npc' = "read"
  /\ UNCHANGED <<frames, diedAlone, gate, mainVars, inputVars, patchVars>>

-----------------------------------------------------------------------------
(* The callbacks of the listeners, and prime_initial_viewport of main. *)

Goes(t, place) ==
  /\ ipc' = [ipc EXCEPT ![t] = place]
  /\ info' = [info EXCEPT ![t] = IF place \in {"idle", "off"} THEN "out" ELSE @]

(* After an emit: emit() raised if the writer was closed, which ends the   *)
(* listener.                                                               *)
GoesOn(t, place) == Goes(t, IF closed THEN "off" ELSE place)

AfterFocus(t) == IF info[t] = "out" THEN "idle" ELSE "view"
AfterView(t)  == IF t = "main" THEN "idle" ELSE "input"

Called(t) ==
  /\ \E i \in Rects \cup {"out"} : info' = [info EXCEPT ![t] = i]
  /\ ipc' = [ipc EXCEPT ![t] = "focus"]

Callback(t) ==
  /\ ipc[t] = "idle"
  /\ mpc # "prime"
  /\ calls < MaxCalls
  /\ calls' = calls + 1
  /\ Called(t)
  /\ UNCHANGED <<inVmc, lastView, hand, fileVars, gate, mainVars, sniffVars, patchVars>>

(* Mutant: the focus is reported whether it changed or not. *)
CheckFocusAlways(t) ==
  /\ ipc[t] = "focus"
  /\ inVmc' = IF gate THEN info[t] # "out" ELSE inVmc
  /\ Goes(t, IF gate THEN "focusLine" ELSE AfterFocus(t))
  /\ UNCHANGED <<calls, lastView, hand, fileVars, gate, mainVars, sniffVars, patchVars>>

(* _check_focus_change: the cache is compared and set under a lock ... *)
CheckFocus(t) ==
  /\ ipc[t] = "focus"
  /\ LET flipped == gate /\ inVmc # (info[t] # "out")
     IN  /\ inVmc' = IF flipped THEN ~inVmc ELSE inVmc
         /\ Goes(t, IF flipped THEN "focusLine" ELSE AfterFocus(t))
  /\ UNCHANGED <<calls, lastView, hand, fileVars, gate, mainVars, sniffVars, patchVars>>

(* ... and the line is written without it. *)
EmitFocus(t) ==
  /\ ipc[t] = "focusLine"
  /\ Emit(IF info[t] = "out" THEN "focus_lost" ELSE "focus_gained")
  /\ GoesOn(t, AfterFocus(t))
  /\ UNCHANGED <<calls, inVmc, lastView, hand, gate, mainVars, sniffVars, patchVars>>

(* _maybe_emit_viewport, in the same way. *)
CheckViewport(t) ==
  /\ ipc[t] = "view"
  /\ LET changed == gate /\ info[t] # lastView
     IN  /\ lastView' = IF changed THEN info[t] ELSE lastView
         /\ Goes(t, IF changed THEN "viewLine" ELSE AfterView(t))
  /\ UNCHANGED <<calls, inVmc, hand, fileVars, gate, mainVars, sniffVars, patchVars>>

EmitViewport(t) ==
  /\ ipc[t] = "viewLine"
  /\ Emit("viewport")
  /\ GoesOn(t, AfterView(t))
  /\ UNCHANGED <<calls, inVmc, lastView, hand, gate, mainVars, sniffVars, patchVars>>

(* Nothing is recorded: the gate is closed, the cursor is outside the      *)
(* window, or the move is too small.                                       *)
DropInput(t) ==
  /\ ipc[t] = "input"
  /\ t = "mouse" \/ ~gate
  /\ Goes(t, "idle")
  /\ UNCHANGED <<calls, inVmc, lastView, hand, fileVars, gate, mainVars, sniffVars, patchVars>>

(* Mutant: the gate is not looked at. *)
EmitInputUngated(t) ==
  /\ ipc[t] = "input"
  /\ Emit("input")
  /\ GoesOn(t, "idle")
  /\ UNCHANGED <<calls, inVmc, lastView, hand, gate, mainVars, sniffVars, patchVars>>

EmitInput(t) ==
  /\ ipc[t] = "input"
  /\ gate
  /\ Emit("input")
  /\ GoesOn(t, "idle")
  /\ UNCHANGED <<calls, inVmc, lastView, hand, gate, mainVars, sniffVars, patchVars>>

(* A mouse press: emit_with_patch writes the line with the name of its     *)
(* patch ...                                                               *)
EmitPress ==
  /\ ipc["mouse"] = "input"
  /\ gate
  /\ Emit("press")
  /\ hand' = Len(file)
  /\ GoesOn("mouse", "enqueue")
  /\ UNCHANGED <<calls, inVmc, lastView, gate, mainVars, sniffVars, patchVars>>

(* Mutant: the writer's counter is read again outside the lock. *)
EnqueueLastSeq ==
  /\ ipc["mouse"] = "enqueue"
  /\ q' = Append(q, Len(file) - 1)
  /\ Goes("mouse", "idle")
  /\ UNCHANGED <<calls, inVmc, lastView, hand, ppc, taking, patchOk, dropWarned, saved,
                 excused, late, fileVars, gate, mainVars, sniffVars>>

(* Mutant: the size of the queue is not looked at. *)
EnqueueAnyway ==
  /\ ipc["mouse"] = "enqueue"
  /\ q' = Append(q, hand)
  /\ Goes("mouse", "idle")
  /\ hand' = 0
  /\ UNCHANGED <<calls, inVmc, lastView, ppc, taking, patchOk, dropWarned, saved,
                 excused, late, fileVars, gate, mainVars, sniffVars>>

(* ... and then enqueues the grab, unless capture is disabled ... *)
Enqueue ==
  /\ ipc["mouse"] = "enqueue"
  /\ IF patchOk
     THEN /\ Len(q) < QueueMax
          /\ q' = Append(q, hand)
          /\ late' = IF ppc = "ended" THEN late \cup {hand} ELSE late
          /\ UNCHANGED excused
     ELSE excused' = excused \cup {hand} /\ UNCHANGED <<q, late>>
  /\ Goes("mouse", "idle")
  /\ hand' = 0
  /\ UNCHANGED <<calls, inVmc, lastView, ppc, taking, patchOk, dropWarned, saved,
                 fileVars, gate, mainVars, sniffVars>>

(* ... or the queue is full, which is reported once. *)
EnqueueDrops ==
  /\ ipc["mouse"] = "enqueue"
  /\ patchOk /\ Len(q) >= QueueMax
  /\ excused' = excused \cup {hand}
  /\ dropWarned' = TRUE
  /\ IF dropWarned THEN Goes("mouse", "idle") /\ UNCHANGED fileVars
                   ELSE GoesOn("mouse", "idle") /\ Emit("error")
  /\ hand' = 0
  /\ UNCHANGED <<calls, inVmc, lastView, ppc, q, taking, patchOk, saved, late,
                 gate, mainVars, sniffVars>>

(* stop() of a listener only asks its thread to end. *)
ListenerEnds(t) ==
  /\ ipc[t] = "idle"
  /\ mpc \in {"joinSniffer", "joinWorker", "close", "manifest"}
  /\ Goes(t, "off")
  /\ UNCHANGED <<calls, inVmc, lastView, hand, fileVars, gate, mainVars, sniffVars, patchVars>>

-----------------------------------------------------------------------------
(* The patch worker. *)

WorkerDisabled ==
  /\ ppc = "loop" /\ ~patchOk
  /\ Emit("error")
  /\ ppc' = "ended"
  /\ UNCHANGED <<q, taking, patchOk, dropWarned, saved, excused, late, gate, mainVars,
                 sniffVars, inputVars>>

WorkerTakes ==
  /\ ppc = "loop" /\ patchOk
  /\ q # <<>>
  /\ taking' = Head(q)
  /\ q' = Tail(q)
  /\ ppc' = "capture"
  /\ UNCHANGED <<patchOk, dropWarned, saved, excused, late, fileVars, gate, mainVars,
                 sniffVars, inputVars>>

(* Mutant: the rest of the queue is left. *)
WorkerLeavesRest ==
  /\ ppc = "loop" /\ patchOk
  /\ stop
  /\ ppc' = "ended"
  /\ UNCHANGED <<q, taking, patchOk, dropWarned, saved, excused, late, fileVars, gate,
                 mainVars, sniffVars, inputVars>>

WorkerLeaves ==
  /\ ppc = "loop" /\ patchOk
  /\ stop /\ q = <<>>
  /\ ppc' = "ended"
  /\ UNCHANGED <<q, taking, patchOk, dropWarned, saved, excused, late, fileVars, gate,
                 mainVars, sniffVars, inputVars>>

CaptureSaves ==
  /\ ppc = "capture"
  /\ saved' = saved \cup {taking}
  /\ taking' = 0
  /\ ppc' = "loop"
  /\ UNCHANGED <<q, patchOk, dropWarned, excused, late, fileVars, gate, mainVars,
                 sniffVars, inputVars>>

(* The window has no client area, or the grab fails with an error line. *)
CaptureFails ==
  /\ ppc = "capture"
  /\ excused' = excused \cup {taking}
  /\ taking' = 0
  /\ \/ ppc' = "loop" /\ UNCHANGED fileVars
     \/ ppc' = (IF closed THEN "ended" ELSE "loop") /\ EmitError
  /\ UNCHANGED <<q, patchOk, dropWarned, saved, late, gate, mainVars, sniffVars,
                 inputVars>>

-----------------------------------------------------------------------------
(* main. *)

MainGoes(place) == mpc' = place /\ UNCHANGED <<stop, reason, signals>>

(* The mirror tshark may be missing; the sniffer and the worker start. *)
Boot ==
  /\ mpc = "boot"
  /\ EmitError \/ UNCHANGED fileVars
  /\ npc' = "read" /\ ppc' = "loop"
  /\ MainGoes("init")
  /\ UNCHANGED <<frames, diedAlone, q, taking, patchOk, dropWarned, saved, excused, late,
                 gate, inputVars>>

(* InputRecorder() fails, or prime_initial_viewport begins. *)
InitRecorder ==
  /\ mpc = "init"
  /\ \/ EmitError /\ MainGoes("wait") /\ UNCHANGED inputVars
     \/ /\ Called("main") /\ MainGoes("prime")
        /\ UNCHANGED <<calls, inVmc, lastView, hand, fileVars>>
  /\ UNCHANGED <<gate, sniffVars, patchVars>>

StartListeners ==
  /\ mpc = "prime"
  /\ ipc["main"] = "idle"
  /\ ipc' = [t \in Callers |-> IF t \in Listeners THEN "idle" ELSE "off"]
  /\ MainGoes("wait")
  /\ UNCHANGED <<info, calls, inVmc, lastView, hand, fileVars, gate, sniffVars, patchVars>>

(* The wait loop leaves on the stop event ... *)
SeeStop ==
  /\ mpc = "wait"
  /\ stop
  /\ MainGoes("joinSniffer")
  /\ UNCHANGED <<fileVars, gate, sniffVars, inputVars, patchVars>>

(* Mutant: the reason is not looked at. *)
SeeSnifferGoneAny ==
  /\ mpc = "wait"
  /\ npc = "ended"
  /\ MainGoes("crash")
  /\ UNCHANGED <<fileVars, gate, sniffVars, inputVars, patchVars>>

(* ... or, after its sleep, when the sniffer is gone: exit_reason is       *)
(* looked at ...                                                           *)
SeeSnifferGone ==
  /\ mpc = "wait"
  /\ npc = "ended"
  /\ mpc' = IF reason = "clean" THEN "crash" ELSE "joinSniffer"
  /\ stop' = (reason # "clean" \/ stop)
  /\ UNCHANGED <<reason, signals, fileVars, gate, sniffVars, inputVars, patchVars>>

(* ... and set. *)
RecordCrash ==
  /\ mpc = "crash"
  /\ reason' = "crash"
  /\ stop' = TRUE
  /\ mpc' = "joinSniffer"
  /\ UNCHANGED <<signals, fileVars, gate, sniffVars, inputVars, patchVars>>

(* Mutant: no timeout. *)
JoinSnifferForever ==
  /\ mpc = "joinSniffer"
  /\ npc = "ended"
  /\ MainGoes("joinWorker")
  /\ UNCHANGED <<fileVars, gate, sniffVars, inputVars, patchVars>>

(* The shutdown has begun: tshark is terminated, the listeners are asked   *)
(* to end.  The sniffer is joined, in vain when it takes too long ...      *)
JoinSniffer ==
  /\ mpc = "joinSniffer"
  /\ MainGoes("joinWorker")
  /\ UNCHANGED <<fileVars, gate, sniffVars, inputVars, patchVars>>

(* ... and so is the worker. *)
EmitStop ==
  /\ mpc = "joinWorker"
  /\ Emit("session_stop")
  /\ MainGoes("close")
  /\ UNCHANGED <<gate, sniffVars, inputVars, patchVars>>

Close ==
  /\ mpc = "close"
  /\ closed' = TRUE
  /\ MainGoes("manifest")
  /\ UNCHANGED <<file, manifest, gate, sniffVars, inputVars, patchVars>>

(* Mutant: the manifest is written before the file is complete. *)
WriteManifestFirst ==
  /\ mpc \in {"joinWorker", "manifest"}
  /\ manifest' = reason
  /\ MainGoes(IF mpc = "manifest" THEN "exited" ELSE mpc)
  /\ UNCHANGED <<file, closed, gate, sniffVars, inputVars, patchVars>>

WriteManifest ==
  /\ mpc = "manifest"
  /\ manifest' = reason
  /\ MainGoes("exited")
  /\ UNCHANGED <<file, closed, gate, sniffVars, inputVars, patchVars>>

(* _shutdown, run by main between two of its instructions. *)
Signal ==
  /\ signals < MaxSignals
  /\ signals' = signals + 1
  /\ reason' = "signal"
  /\ stop' = TRUE
  /\ UNCHANGED <<mpc, fileVars, gate, sniffVars, inputVars, patchVars>>

-----------------------------------------------------------------------------
Running == mpc # "exited"

Sniffer ==
  \/ SnifferLeaves \/ SnifferFails \/ OpenGate \/ EmitGateOpened
  \/ \E kind \in {"net", "trigger"} : EmitFrame(kind)

CallerStep(t) ==
  \/ CheckFocus(t) \/ EmitFocus(t) \/ CheckViewport(t) \/ EmitViewport(t)

Input ==
  \/ \E t \in Callers : CallerStep(t)
  \/ \E t \in Listeners : Callback(t) \/ DropInput(t) \/ EmitInput(t) \/ ListenerEnds(t)
  \/ EmitPress \/ Enqueue \/ EnqueueDrops

Worker == WorkerDisabled \/ WorkerTakes \/ WorkerLeaves \/ CaptureSaves \/ CaptureFails

Main ==
  \/ Boot \/ InitRecorder \/ StartListeners \/ SeeStop \/ SeeSnifferGone
  \/ RecordCrash \/ JoinSniffer \/ EmitStop \/ Close
  \/ WriteManifest

Next == Running /\ (Sniffer \/ Input \/ Worker \/ Main \/ Signal)

Spec == Init /\ [][Next]_vars

(* main is scheduled; nothing is assumed of the other threads, of tshark   *)
(* or of the signals.                                                      *)
FairSpec ==
  /\ Spec
  /\ WF_vars(Running /\ Main)
  /\ WF_vars(Running /\ CallerStep("main"))

-----------------------------------------------------------------------------
(* Until the server list response is in the file, no input, viewport or    *)
(* focus line is, whatever the threads do.                                 *)
GatedKinds == {"gate_opened", "focus_gained", "focus_lost", "viewport", "input", "press"}

InputAfterTrigger ==
  \A k \in DOMAIN file : file[k] \in GatedKinds =>
    \E j \in DOMAIN file : j < k /\ file[j] = "trigger"

(* A saved patch is named after the press it shows. *)
PatchOfPress == \A s \in saved : s + 1 \in DOMAIN file /\ file[s + 1] = "press"

(* Until the writer is closed, the patch a press names is saved, on its    *)
(* way, or missing for one of three reasons: dropped, failed, or enqueued  *)
(* when the worker had left.                                               *)
PatchAccounted ==
  ~closed => \A k \in DOMAIN file : file[k] = "press" =>
    \/ k - 1 \in saved \cup excused \cup late
    \/ ipc["mouse"] = "enqueue" /\ hand = k - 1
    \/ ppc # "ended" /\ \E i \in DOMAIN q : q[i] = k - 1
    \/ ppc = "capture" /\ taking = k - 1

(* With no focus line on its way, the focus lines add up to the cache.     *)
FocusBalanced ==
  ~closed /\ (\A t \in Callers : ipc[t] # "focusLine") =>
    Count("focus_gained") = Count("focus_lost") + (IF inVmc THEN 1 ELSE 0)

(* A crash is recorded only when the sniffer ended before anyone asked it  *)
(* to.                                                                     *)
CrashIsReal == reason = "crash" => diedAlone

(* The final manifest vouches for a complete file, wherever the process is *)
(* killed: session_stop was written, once, and nothing can follow.         *)
ManifestLast ==
  manifest # "initial" =>
    /\ closed /\ manifest # "clean"
    /\ \E k \in DOMAIN file :
         \A j \in DOMAIN file : (file[j] = "session_stop") <=> (j = k)

(* Once the stop event is set, main ends, with tshark hanging or a         *)
(* callback stuck.                                                         *)
StopEnds == stop ~> ~Running

-----------------------------------------------------------------------------
(* What the code says of itself. *)

(* main: "Drain pending patches before closing the writer", here only for  *)
(* the case that the join of the worker did not time out.                  *)
DrainedBeforeClose == closed /\ ppc = "ended" => q = <<>>
=============================================================================
