-------------------------- MODULE Recorder_proofs --------------------------
(***************************************************************************)
(* What the threads of the recorder guarantee together, for any window,    *)
(* any queue length and any number of frames, callbacks and signals.       *)
(***************************************************************************)
EXTENDS Recorder, TLAPS, FiniteSetTheorems

-----------------------------------------------------------------------------
(* Which group of variables a thread leaves alone.                         *)

LEMMA SnifferFrame ==
  ASSUME Sniffer
  PROVE  UNCHANGED <<mainVars, inputVars, patchVars>> /\ UNCHANGED <<closed, manifest>>
BY DEF Sniffer, SnifferLeaves, SnifferFails, OpenGate, EmitGateOpened, EmitFrame,
       EmitError, Emit, fileVars

LEMMA InputFrame ==
  ASSUME Input
  PROVE  UNCHANGED <<gate, mainVars, sniffVars>> /\ UNCHANGED <<closed, manifest>>
BY DEF Input, CallerStep, CheckFocus, EmitFocus, CheckViewport, EmitViewport, Callback,
       DropInput, EmitInput, ListenerEnds, EmitPress, Enqueue, EnqueueDrops, Emit, fileVars

LEMMA WorkerFrame ==
  ASSUME Worker
  PROVE  UNCHANGED <<gate, mainVars, sniffVars, inputVars>> /\ UNCHANGED <<closed, manifest>>
BY DEF Worker, WorkerDisabled, WorkerTakes, WorkerLeaves, CaptureSaves, CaptureFails,
       EmitError, Emit, fileVars

-----------------------------------------------------------------------------
(* Type correctness.  The viewport cache keeps a rectangle because a caller *)
(* that comes to look at it found the window in the foreground.            *)

Inside == \A t \in Callers : ipc[t] \in {"view", "viewLine", "input"} => info[t] # "out"

ITypeOK == TypeOK /\ Inside

Places == {"off", "idle", "focus", "focusLine", "view", "viewLine", "input", "enqueue"}

LEMMA TypesGrow ==
  ASSUME file \in Seq(Kinds), NEW kind \in Kinds, Emit(kind)
  PROVE  file' \in Seq(Kinds)
BY DEF Emit

LEMMA TypesGo ==
  ASSUME ITypeOK, NEW t \in Callers, NEW place \in Places, Goes(t, place),
         place \in {"view", "viewLine", "input"} => info[t] # "out"
  PROVE  ipc' \in [Callers -> Places] /\ info' \in [Callers -> Rects \cup {"out"}] /\ Inside'
<1>1. ipc' \in [Callers -> Places] /\ info' \in [Callers -> Rects \cup {"out"}]
  BY DEF ITypeOK, TypeOK, Goes, Places
<1>2. ASSUME NEW u \in Callers, ipc'[u] \in {"view", "viewLine", "input"}
      PROVE  info'[u] # "out"
  BY <1>2 DEF ITypeOK, TypeOK, Inside, Goes
<1>. QED
  BY <1>1, <1>2 DEF Inside

LEMMA SnifferTypes == ASSUME TypeOK, Sniffer PROVE TypeOK'
<1>1. CASE SnifferLeaves
  BY <1>1 DEF TypeOK, SnifferLeaves, SnifferEnds, fileVars, mainVars, inputVars, patchVars
<1>2. CASE SnifferFails
  <2>1. file' \in Seq(Kinds)
    BY <1>2, TypesGrow DEF TypeOK, SnifferFails, EmitError, Kinds
  <2>. QED
    BY <1>2, <2>1 DEF TypeOK, SnifferFails, EmitError, Emit, SnifferEnds, mainVars,
                      inputVars, patchVars
<1>3. CASE OpenGate
  BY <1>3 DEF TypeOK, OpenGate, fileVars, mainVars, inputVars, patchVars
<1>4. CASE EmitGateOpened
  <2>1. file' \in Seq(Kinds)
    BY <1>4, TypesGrow DEF TypeOK, EmitGateOpened, Kinds
  <2>. QED
    BY <1>4, <2>1 DEF TypeOK, EmitGateOpened, Emit, mainVars, inputVars, patchVars
<1>5. CASE \E kind \in {"net", "trigger"} : EmitFrame(kind)
  <2>. PICK kind \in {"net", "trigger"} : EmitFrame(kind)
    BY <1>5
  <2>1. file' \in Seq(Kinds)
    BY TypesGrow DEF TypeOK, EmitFrame, Kinds
  <2>. QED
    BY <2>1 DEF TypeOK, EmitFrame, Emit, mainVars, inputVars, patchVars
<1>. QED
  BY <1>1, <1>2, <1>3, <1>4, <1>5 DEF Sniffer

LEMMA CallerTypes == ASSUME ITypeOK, NEW t \in Callers, CallerStep(t) PROVE ITypeOK'
<1>1. CASE CheckFocus(t)
  <2>1. \E place \in {"focusLine", "idle", "view"} :
          Goes(t, place) /\ (place = "view" => info[t] # "out")
    BY <1>1 DEF CheckFocus, AfterFocus
  <2>2. inVmc' = inVmc \/ inVmc' = ~inVmc
    BY <1>1, Zenon DEF CheckFocus
  <2>3. inVmc' \in BOOLEAN
    BY <2>2, Zenon DEF ITypeOK, TypeOK
  <2>. QED
    BY <1>1, <2>1, <2>3, TypesGo DEF ITypeOK, TypeOK, Places, CheckFocus, fileVars, mainVars,
                                     sniffVars, patchVars
<1>2. CASE EmitFocus(t)
  <2>1. \E place \in {"off", "idle", "view"} :
          Goes(t, place) /\ (place = "view" => info[t] # "out")
    BY <1>2 DEF EmitFocus, GoesOn, AfterFocus
  <2>2. file' \in Seq(Kinds)
    BY <1>2, TypesGrow DEF ITypeOK, TypeOK, EmitFocus, Kinds
  <2>. QED
    BY <1>2, <2>1, <2>2, TypesGo DEF ITypeOK, TypeOK, Places, EmitFocus, Emit, mainVars,
                                     sniffVars, patchVars
<1>3. CASE CheckViewport(t)
  <2>1. \E place \in {"viewLine", "idle", "input"} : Goes(t, place)
    BY <1>3 DEF CheckViewport, AfterView
  <2>2. info[t] \in Rects
    BY <1>3 DEF CheckViewport, ITypeOK, TypeOK, Inside
  <2>3. lastView' \in Rects \cup {"none"}
    BY <1>3, <2>2 DEF CheckViewport, ITypeOK, TypeOK
  <2>. QED
    BY <1>3, <2>1, <2>2, <2>3, TypesGo, RecorderAssumption, SMTT(60)
    DEF ITypeOK, TypeOK, Places, CheckViewport, fileVars, mainVars, sniffVars, patchVars
<1>4. CASE EmitViewport(t)
  <2>1. \E place \in {"off", "idle", "input"} : Goes(t, place)
    BY <1>4 DEF EmitViewport, GoesOn, AfterView
  <2>2. file' \in Seq(Kinds)
    BY <1>4, TypesGrow DEF ITypeOK, TypeOK, EmitViewport, Kinds
  <2>3. info[t] # "out"
    BY <1>4 DEF EmitViewport, ITypeOK, Inside
  <2>. QED
    BY <1>4, <2>1, <2>2, <2>3, TypesGo DEF ITypeOK, TypeOK, Places, EmitViewport, Emit,
                                           mainVars, sniffVars, patchVars
<1>. QED
  BY <1>1, <1>2, <1>3, <1>4 DEF CallerStep

LEMMA InputTypes == ASSUME ITypeOK, Input PROVE ITypeOK'
<1>1. CASE \E t \in Callers : CallerStep(t)
  BY <1>1, CallerTypes
<1>2. ASSUME NEW t \in Listeners, Callback(t) PROVE ITypeOK'
  <2>0. t \in Callers
    BY RecorderAssumption DEF Callers
  <2>1. /\ ipc' \in [Callers -> Places] /\ info' \in [Callers -> Rects \cup {"out"}]
        /\ Inside'
    BY <1>2, <2>0 DEF Callback, Called, ITypeOK, TypeOK, Inside, Places
  <2>. QED
    BY <1>2, <2>1 DEF Callback, Called, ITypeOK, TypeOK, Places, fileVars, mainVars,
                      sniffVars, patchVars
<1>3. ASSUME NEW t \in Listeners, DropInput(t) \/ ListenerEnds(t) PROVE ITypeOK'
  <2>1. t \in Callers
    BY RecorderAssumption DEF Callers
  <2>2. \E place \in {"idle", "off"} : Goes(t, place)
    BY <1>3 DEF DropInput, ListenerEnds
  <2>3. UNCHANGED <<calls, inVmc, lastView, hand, fileVars, gate, mainVars, sniffVars, patchVars>>
    BY <1>3 DEF DropInput, ListenerEnds
  <2>. QED
    BY <2>1, <2>2, <2>3, TypesGo DEF ITypeOK, TypeOK, Places, fileVars, mainVars, sniffVars,
                                     patchVars
<1>4. ASSUME NEW t \in Listeners, EmitInput(t) PROVE ITypeOK'
  <2>1. t \in Callers
    BY RecorderAssumption DEF Callers
  <2>2. \E place \in {"idle", "off"} : Goes(t, place)
    BY <1>4 DEF EmitInput, GoesOn
  <2>3. file' \in Seq(Kinds)
    BY <1>4, TypesGrow DEF ITypeOK, TypeOK, EmitInput, Kinds
  <2>. QED
    BY <1>4, <2>1, <2>2, <2>3, TypesGo DEF ITypeOK, TypeOK, Places, EmitInput, Emit,
                                           mainVars, sniffVars, patchVars
<1>5. CASE EmitPress
  <2>1. "mouse" \in Callers /\ \E place \in {"enqueue", "off"} : Goes("mouse", place)
    BY <1>5 DEF EmitPress, GoesOn, Callers
  <2>2. file' \in Seq(Kinds) /\ hand' \in Nat
    BY <1>5, TypesGrow DEF ITypeOK, TypeOK, EmitPress, Kinds
  <2>. QED
    BY <1>5, <2>1, <2>2, TypesGo DEF ITypeOK, TypeOK, Places, EmitPress, Emit, mainVars,
                                     sniffVars, patchVars
<1>6. CASE Enqueue
  <2>1. "mouse" \in Callers /\ Goes("mouse", "idle")
    BY <1>6 DEF Enqueue, Callers
  <2>2. q' \in Seq(Nat) /\ Len(q') <= QueueMax
    <3>1. q' = q \/ (Len(q) < QueueMax /\ q' = Append(q, hand))
      BY <1>6 DEF Enqueue
    <3>2. Append(q, hand) \in Seq(Nat) /\ Len(Append(q, hand)) = Len(q) + 1
      BY DEF ITypeOK, TypeOK
    <3>. QED
      BY <3>1, <3>2, RecorderAssumption DEF ITypeOK, TypeOK
  <2>3. late' \subseteq Nat /\ excused' \subseteq Nat
    BY <1>6 DEF Enqueue, ITypeOK, TypeOK
  <2>. QED
    BY <1>6, <2>1, <2>2, <2>3, TypesGo, SMTT(60)
    DEF ITypeOK, TypeOK, Places, Enqueue, fileVars, mainVars, sniffVars
<1>7. CASE EnqueueDrops
  <2>1. "mouse" \in Callers /\ \E place \in {"idle", "off"} : Goes("mouse", place)
    BY <1>7 DEF EnqueueDrops, GoesOn, Callers
  <2>2. file' \in Seq(Kinds) /\ UNCHANGED <<closed, manifest>>
    BY <1>7, TypesGrow DEF ITypeOK, TypeOK, EnqueueDrops, Kinds, Emit, fileVars
  <2>3. excused' \subseteq Nat
    BY <1>7 DEF EnqueueDrops, ITypeOK, TypeOK
  <2>. QED
    BY <1>7, <2>1, <2>2, <2>3, TypesGo DEF ITypeOK, TypeOK, Places, EnqueueDrops, mainVars,
                                           sniffVars
<1>. QED
  BY <1>1, <1>2, <1>3, <1>4, <1>5, <1>6, <1>7 DEF Input

LEMMA WorkerTypes == ASSUME TypeOK, Worker PROVE TypeOK'
<1>1. CASE WorkerDisabled
  <2>1. file' \in Seq(Kinds)
    BY <1>1, TypesGrow DEF TypeOK, WorkerDisabled, Kinds
  <2>. QED
    BY <1>1, <2>1 DEF TypeOK, WorkerDisabled, Emit, mainVars, sniffVars, inputVars
<1>2. CASE WorkerTakes
  <2>1. taking' \in Nat /\ q' \in Seq(Nat) /\ Len(q') <= QueueMax
    BY <1>2, RecorderAssumption DEF TypeOK, WorkerTakes
  <2>. QED
    BY <1>2, <2>1 DEF TypeOK, WorkerTakes, fileVars, mainVars, sniffVars, inputVars
<1>3. CASE WorkerLeaves
  BY <1>3 DEF TypeOK, WorkerLeaves, fileVars, mainVars, sniffVars, inputVars
<1>4. CASE CaptureSaves
  BY <1>4 DEF TypeOK, CaptureSaves, fileVars, mainVars, sniffVars, inputVars
<1>5. CASE CaptureFails
  <2>1. file' \in Seq(Kinds) /\ UNCHANGED <<closed, manifest>>
    BY <1>5, TypesGrow DEF TypeOK, CaptureFails, EmitError, Emit, fileVars, Kinds
  <2>. QED
    BY <1>5, <2>1 DEF TypeOK, CaptureFails, mainVars, sniffVars, inputVars
<1>. QED
  BY <1>1, <1>2, <1>3, <1>4, <1>5 DEF Worker

LEMMA MainTypes == ASSUME ITypeOK, Main PROVE ITypeOK'
<1>1. CASE Boot
  <2>1. file' \in Seq(Kinds) /\ UNCHANGED <<closed, manifest>>
    BY <1>1, TypesGrow DEF ITypeOK, TypeOK, Boot, EmitError, Emit, fileVars, Kinds
  <2>. QED
    BY <1>1, <2>1 DEF ITypeOK, TypeOK, Inside, Boot, MainGoes, inputVars
<1>2. CASE InitRecorder
  <2>1. file' \in Seq(Kinds) /\ UNCHANGED <<closed, manifest>>
    BY <1>2, TypesGrow DEF ITypeOK, TypeOK, InitRecorder, EmitError, Emit, fileVars, Kinds
  <2>2. CASE Called("main") /\ UNCHANGED <<calls, inVmc, lastView, hand>>
    <3>1. "main" \in Callers
      BY DEF Callers
    <3>. QED
      BY <1>2, <2>1, <2>2, <3>1 DEF ITypeOK, TypeOK, Inside, InitRecorder, Called, MainGoes,
                                    sniffVars, patchVars
  <2>3. CASE UNCHANGED inputVars
    BY <1>2, <2>1, <2>3 DEF ITypeOK, TypeOK, Inside, InitRecorder, MainGoes, inputVars,
                            sniffVars, patchVars
  <2>. QED
    BY <1>2, <2>2, <2>3 DEF InitRecorder, fileVars
<1>3. CASE StartListeners
  BY <1>3 DEF ITypeOK, TypeOK, Inside, StartListeners, MainGoes, fileVars, sniffVars, patchVars
<1>4. CASE SeeStop \/ SeeSnifferGone \/ RecordCrash \/ JoinSniffer
  <2>1. UNCHANGED <<signals, fileVars, gate, sniffVars, inputVars, patchVars>>
    BY <1>4 DEF SeeStop, SeeSnifferGone, RecordCrash, JoinSniffer, MainGoes
  <2>2. stop' \in BOOLEAN
    BY <1>4, Zenon DEF ITypeOK, TypeOK, SeeStop, SeeSnifferGone, RecordCrash, JoinSniffer,
                       MainGoes
  <2>3. mpc' \in {"crash", "joinSniffer", "joinWorker"} /\ reason' \in {reason, "crash"}
    BY <1>4 DEF SeeStop, SeeSnifferGone, RecordCrash, JoinSniffer, MainGoes
  <2>. QED
    BY <2>1, <2>2, <2>3 DEF ITypeOK, TypeOK, Inside, fileVars, sniffVars, inputVars, patchVars
<1>5. CASE EmitStop
  <2>1. file' \in Seq(Kinds)
    BY <1>5, TypesGrow DEF ITypeOK, TypeOK, EmitStop, Kinds
  <2>. QED
    BY <1>5, <2>1 DEF ITypeOK, TypeOK, Inside, EmitStop, Emit, MainGoes, sniffVars,
                      inputVars, patchVars
<1>6. CASE Close
  BY <1>6 DEF ITypeOK, TypeOK, Inside, Close, MainGoes, sniffVars, inputVars, patchVars
<1>7. CASE WriteManifest
  BY <1>7 DEF ITypeOK, TypeOK, Inside, WriteManifest, MainGoes, sniffVars, inputVars, patchVars
<1>. QED
  BY <1>1, <1>2, <1>3, <1>4, <1>5, <1>6, <1>7 DEF Main

LEMMA TypeStep == ASSUME ITypeOK, [Next]_vars PROVE ITypeOK'
<1>1. CASE Sniffer
  BY <1>1, SnifferTypes, SnifferFrame DEF ITypeOK, Inside, inputVars
<1>2. CASE Input
  BY <1>2, InputTypes
<1>3. CASE Worker
  BY <1>3, WorkerTypes, WorkerFrame DEF ITypeOK, Inside, inputVars
<1>4. CASE Main
  BY <1>4, MainTypes
<1>5. CASE Signal
  BY <1>5 DEF ITypeOK, TypeOK, Inside, Signal, fileVars, sniffVars, inputVars, patchVars
<1>6. CASE UNCHANGED vars
  BY <1>6 DEF ITypeOK, TypeOK, Inside, vars, fileVars, mainVars, sniffVars, inputVars, patchVars
<1>. QED
  BY <1>1, <1>2, <1>3, <1>4, <1>5, <1>6 DEF Next

LEMMA TypeInit == Init => ITypeOK
<1>. SUFFICES ASSUME Init PROVE ITypeOK
  OBVIOUS
<1>1. file \in Seq(Kinds) /\ q \in Seq(Nat) /\ Len(q) <= QueueMax
  BY RecorderAssumption DEF Init, Kinds
<1>2. patchOk \in BOOLEAN
  BY RecorderAssumption DEF Init
<1>. QED
  BY <1>1, <1>2 DEF Init, ITypeOK, TypeOK, Inside

(* Every variable keeps its type; the patch queue never holds more than    *)
(* PATCH_QUEUE_MAX, although enqueue() looks at its size before it puts.   *)
THEOREM RecorderTypes == Spec => []TypeOK
<1>1. Spec => []ITypeOK
  BY TypeInit, TypeStep, PTL DEF Spec
<1>2. ITypeOK => TypeOK
  BY DEF ITypeOK
<1>. QED
  BY <1>1, <1>2, PTL

-----------------------------------------------------------------------------
(* What a step writes.                                                     *)

Triggered == \E j \in DOMAIN file : file[j] = "trigger"

GateInv ==
  /\ gate => Triggered
  /\ npc \in {"gate", "gateLine"} => Triggered
  /\ \A t \in Callers : ipc[t] \in {"focusLine", "viewLine"} => gate
  /\ InputAfterTrigger

(* At most one line; a gated one only when the trigger was seen; the last  *)
(* one only by main; a press only on the way to the patch queue.           *)
Writes(kind) ==
  /\ ~closed
  /\ file' = Append(file, kind)
  /\ kind \in GatedKinds => gate \/ npc = "gateLine"
  /\ kind = "session_stop" => mpc = "joinWorker" /\ mpc' = "close"
  /\ kind = "press" => ipc["mouse"] = "input" /\ ipc' = [ipc EXCEPT !["mouse"] = "enqueue"]
                       /\ hand' = Len(file)

FileStep == file' = file \/ \E kind \in Kinds : Writes(kind)

LEMMA WritesOneLine ==
  ASSUME ITypeOK, GateInv, [Next]_vars
  PROVE  FileStep
<1>1. CASE Sniffer
  BY <1>1 DEF Sniffer, SnifferLeaves, SnifferFails, OpenGate, EmitGateOpened, EmitFrame,
              EmitError, Emit, fileVars, FileStep, Writes, Kinds, GatedKinds
<1>2. ASSUME NEW t \in Callers, CallerStep(t) PROVE FileStep
  <2>1. CASE EmitFocus(t) \/ EmitViewport(t)
    <3>1. gate
      BY <2>1 DEF EmitFocus, EmitViewport, GateInv
    <3>2. file' = file \/ \E kind \in {"focus_lost", "focus_gained", "viewport"} :
                             ~closed /\ file' = Append(file, kind)
      BY <2>1 DEF EmitFocus, EmitViewport, Emit
    <3>. QED
      BY <3>1, <3>2 DEF FileStep, Writes, Kinds
  <2>. QED
    BY <1>2, <2>1 DEF CallerStep, CheckFocus, CheckViewport, fileVars, FileStep
<1>3. ASSUME NEW t \in Listeners, Callback(t) \/ DropInput(t) \/ EmitInput(t) \/ ListenerEnds(t)
      PROVE  FileStep
  BY <1>3 DEF Callback, DropInput, EmitInput, ListenerEnds, Emit, fileVars, FileStep, Writes,
              Kinds
<1>4. CASE EmitPress
  BY <1>4 DEF EmitPress, GoesOn, Goes, Emit, FileStep, Writes, Kinds
<1>5. CASE Enqueue \/ EnqueueDrops
  BY <1>5 DEF Enqueue, EnqueueDrops, Emit, fileVars, FileStep, Writes, Kinds, GatedKinds
<1>6. CASE Worker
  BY <1>6 DEF Worker, WorkerDisabled, WorkerTakes, WorkerLeaves, CaptureSaves, CaptureFails,
              EmitError, Emit, fileVars, FileStep, Writes, Kinds, GatedKinds
<1>7. CASE Main
  BY <1>7 DEF Main, Boot, InitRecorder, StartListeners, SeeStop, SeeSnifferGone, RecordCrash,
              JoinSniffer, EmitStop, Close, WriteManifest, MainGoes, EmitError, Emit, fileVars,
              FileStep, Writes, Kinds, GatedKinds
<1>8. CASE Signal \/ UNCHANGED vars
  BY <1>8 DEF Signal, vars, fileVars, FileStep
<1>. QED
  BY <1>1, <1>2, <1>3, <1>4, <1>5, <1>6, <1>7, <1>8 DEF Next, Input

LEMMA LinesKept ==
  ASSUME ITypeOK, FileStep
  PROVE  /\ DOMAIN file \subseteq DOMAIN file'
         /\ \A k \in DOMAIN file : file'[k] = file[k]
         /\ \A k \in DOMAIN file' \ DOMAIN file : k = Len(file) + 1 /\ Writes(file'[k])
<1>1. CASE file' = file
  BY <1>1
<1>2. ASSUME NEW kind \in Kinds, Writes(kind)
      PROVE  /\ DOMAIN file \subseteq DOMAIN file'
             /\ \A k \in DOMAIN file : file'[k] = file[k]
             /\ \A k \in DOMAIN file' \ DOMAIN file : k = Len(file) + 1 /\ Writes(file'[k])
  <2>1. file \in Seq(Kinds) /\ file' = Append(file, kind)
    BY <1>2 DEF ITypeOK, TypeOK, Writes
  <2>2. /\ DOMAIN file = 1 .. Len(file) /\ DOMAIN file' = 1 .. (Len(file) + 1)
        /\ Len(file) \in Nat
        /\ \A k \in 1 .. Len(file) : file'[k] = file[k]
        /\ file'[Len(file) + 1] = kind
    BY <2>1
  <2>. QED
    BY <1>2, <2>2
<1>. QED
  BY <1>1, <1>2 DEF FileStep

-----------------------------------------------------------------------------
(* The gate.                                                               *)

LEMMA GateInit == Init => GateInv
BY DEF Init, GateInv, InputAfterTrigger, GatedKinds

LEMMA GateStep == ASSUME ITypeOK, GateInv, [Next]_vars PROVE GateInv'
<1>1. FileStep
  BY WritesOneLine
<1>2. Triggered => Triggered'
  BY <1>1, LinesKept DEF Triggered
<1>3. InputAfterTrigger'
  <2>. SUFFICES ASSUME NEW k \in DOMAIN file', file'[k] \in GatedKinds
                PROVE  \E j \in DOMAIN file' : j < k /\ file'[j] = "trigger"
    BY DEF InputAfterTrigger
  <2>1. CASE k \in DOMAIN file
    BY <1>1, <2>1, LinesKept DEF GateInv, InputAfterTrigger
  <2>2. CASE k \notin DOMAIN file
    <3>1. k = Len(file) + 1 /\ Triggered
      BY <1>1, <2>2, LinesKept DEF Writes, GateInv
    <3>2. \A j \in DOMAIN file : j < Len(file) + 1
      BY DEF ITypeOK, TypeOK
    <3>. QED
      BY <1>1, <3>1, <3>2, LinesKept DEF Triggered
  <2>. QED
    BY <2>1, <2>2
<1>4. (npc' \in {"gate", "gateLine"} => Triggered') /\ (gate' => Triggered')
  <2>1. CASE Sniffer
    <3>1. CASE \E kind \in {"net", "trigger"} : EmitFrame(kind)
      <4>. PICK kind \in {"net", "trigger"} : EmitFrame(kind)
        BY <3>1
      <4>1. file' = Append(file, kind) /\ gate' = gate
        BY DEF EmitFrame, Emit
      <4>2. kind = "trigger" => Triggered'
        <5>1. /\ Len(file) + 1 \in DOMAIN Append(file, kind)
              /\ Append(file, kind)[Len(file) + 1] = kind
          BY DEF ITypeOK, TypeOK
        <5>. QED
          BY <4>1, <5>1 DEF Triggered
      <4>3. kind # "trigger" => npc' = "read"
        BY DEF EmitFrame
      <4>. QED
        BY <1>2, <4>1, <4>2, <4>3 DEF GateInv
    <3>2. CASE ~\E kind \in {"net", "trigger"} : EmitFrame(kind)
      BY <1>2, <2>1, <3>2 DEF Sniffer, SnifferLeaves, SnifferFails, SnifferEnds, OpenGate,
                              EmitGateOpened, GateInv
    <3>. QED
      BY <3>1, <3>2
  <2>2. CASE Input
    BY <1>2, <2>2, InputFrame DEF GateInv, sniffVars
  <2>3. CASE Worker
    BY <1>2, <2>3, WorkerFrame DEF GateInv, sniffVars
  <2>4. CASE Main
    <3>1. gate' = gate /\ (npc' = npc \/ npc' = "read")
      BY <2>4 DEF Main, Boot, InitRecorder, StartListeners, SeeStop, SeeSnifferGone,
                  RecordCrash, JoinSniffer, EmitStop, Close, WriteManifest, sniffVars
    <3>. QED
      BY <1>2, <3>1 DEF GateInv
  <2>5. CASE Signal \/ UNCHANGED vars
    BY <1>2, <2>5 DEF GateInv, Signal, vars, sniffVars
  <2>. QED
    BY <2>1, <2>2, <2>3, <2>4, <2>5 DEF Next
<1>5. gate => gate'
  <2>1. CASE Sniffer
    BY <2>1 DEF Sniffer, SnifferLeaves, SnifferFails, OpenGate, EmitGateOpened, EmitFrame
  <2>2. CASE Input \/ Worker
    BY <2>2, InputFrame, WorkerFrame
  <2>3. CASE Main
    BY <2>3 DEF Main, Boot, InitRecorder, StartListeners, SeeStop, SeeSnifferGone,
                RecordCrash, JoinSniffer, EmitStop, Close, WriteManifest
  <2>4. CASE Signal \/ UNCHANGED vars
    BY <2>4 DEF Signal, vars
  <2>. QED
    BY <2>1, <2>2, <2>3, <2>4 DEF Next
<1>6. ASSUME NEW t \in Callers, ipc'[t] \in {"focusLine", "viewLine"} PROVE gate'
  <2>1. ipc[t] \in {"focusLine", "viewLine"} \/ gate
    <3>1. CASE \E u \in Callers : CallerStep(u)
      BY <1>6, <3>1 DEF CallerStep, CheckFocus, EmitFocus, CheckViewport, EmitViewport, GoesOn,
                        Goes, AfterFocus, AfterView, ITypeOK, TypeOK
    <3>2. CASE \E u \in Listeners : Callback(u) \/ DropInput(u) \/ EmitInput(u) \/ ListenerEnds(u)
      BY <1>6, <3>2 DEF Callback, Called, DropInput, EmitInput, ListenerEnds, GoesOn, Goes,
                        ITypeOK, TypeOK
    <3>3. CASE EmitPress \/ Enqueue \/ EnqueueDrops
      BY <1>6, <3>3 DEF EmitPress, Enqueue, EnqueueDrops, GoesOn, Goes, ITypeOK, TypeOK
    <3>4. CASE Sniffer \/ Worker
      BY <1>6, <3>4, SnifferFrame, WorkerFrame DEF inputVars
    <3>5. CASE Main
      BY <1>6, <3>5 DEF Main, Boot, InitRecorder, StartListeners, SeeStop, SeeSnifferGone,
                  RecordCrash, JoinSniffer, EmitStop, Close, WriteManifest, Called, inputVars,
                  ITypeOK, TypeOK
    <3>6. CASE Signal \/ UNCHANGED vars
      BY <1>6, <3>6 DEF Signal, vars, inputVars
    <3>. QED
      BY <3>1, <3>2, <3>3, <3>4, <3>5, <3>6 DEF Next, Input
  <2>. QED
    BY <1>5, <2>1 DEF GateInv
<1>. QED
  BY <1>3, <1>4, <1>6 DEF GateInv

(* No input, viewport or focus line comes before the server list response, *)
(* although the gate is looked at without a lock and may open in the       *)
(* middle of a callback.                                                   *)
THEOREM NoInputBeforeTrigger == Spec => []InputAfterTrigger
<1>1. Init => ITypeOK /\ GateInv
  BY TypeInit, GateInit
<1>2. ITypeOK /\ GateInv /\ [Next]_vars => (ITypeOK /\ GateInv)'
  BY TypeStep, GateStep
<1>3. ITypeOK /\ GateInv => InputAfterTrigger
  BY DEF GateInv
<1>. QED
  BY <1>1, <1>2, <1>3, PTL DEF Spec

-----------------------------------------------------------------------------
(* Why the recorder ended.  A set stop event always has a reason, so a     *)
(* sniffer found dead while there is none ended by itself.                 *)

CrashInv ==
  /\ reason = "crash" => diedAlone
  /\ mpc = "crash" => diedAlone
  /\ npc = "ended" => diedAlone \/ stop
  /\ stop => reason # "clean"

LEMMA CrashInit == Init => CrashInv
BY DEF Init, CrashInv

LEMMA CrashStep == ASSUME TypeOK, CrashInv, [Next]_vars PROVE CrashInv'
<1>1. CASE Sniffer
  <2>1. CASE SnifferEnds
    <3>1. (diedAlone => diedAlone') /\ (diedAlone' \/ stop)
      BY <2>1, Zenon DEF SnifferEnds, TypeOK
    <3>. QED
      BY <1>1, <3>1, SnifferFrame DEF CrashInv, mainVars
  <2>2. CASE ~SnifferEnds
    BY <1>1, <2>2, SnifferFrame DEF Sniffer, SnifferLeaves, SnifferFails, OpenGate,
                                    EmitGateOpened, EmitFrame, CrashInv, mainVars
  <2>. QED
    BY <2>1, <2>2
<1>2. CASE Input \/ Worker
  BY <1>2, InputFrame, WorkerFrame DEF CrashInv, mainVars, sniffVars
<1>3. CASE Boot
  BY <1>3 DEF Boot, MainGoes, CrashInv
<1>4. CASE SeeSnifferGone
  BY <1>4 DEF SeeSnifferGone, CrashInv, sniffVars
<1>5. CASE RecordCrash
  BY <1>5 DEF RecordCrash, CrashInv, sniffVars
<1>6. CASE InitRecorder \/ StartListeners \/ SeeStop \/ JoinSniffer \/ EmitStop \/ Close
           \/ WriteManifest
  BY <1>6 DEF InitRecorder, StartListeners, SeeStop, JoinSniffer, EmitStop, Close,
              WriteManifest, MainGoes, CrashInv, sniffVars
<1>7. CASE Signal \/ UNCHANGED vars
  BY <1>7 DEF Signal, CrashInv, vars, mainVars, sniffVars
<1>. QED
  BY <1>1, <1>2, <1>3, <1>4, <1>5, <1>6, <1>7 DEF Next, Main

(* A crash is recorded only when the sniffer ended before anyone asked it  *)
(* to, although exit_reason is read and set in two steps and signals come  *)
(* in between.                                                             *)
THEOREM CrashesAreReal == Spec => []CrashIsReal
<1>1. CrashInv => CrashIsReal
  BY DEF CrashInv, CrashIsReal
<1>2. Init => TypeOK /\ CrashInv
  BY TypeInit, CrashInit DEF ITypeOK
<1>. QED
  BY <1>1, <1>2, RecorderTypes, CrashStep, PTL DEF Spec

-----------------------------------------------------------------------------
(* How the file ends.                                                      *)

Stopping == {"joinSniffer", "joinWorker", "close", "manifest", "exited"}

StopLine == \E k \in DOMAIN file : \A j \in DOMAIN file : (file[j] = "session_stop") <=> (j = k)

EndInv ==
  /\ mpc \in {"close", "manifest", "exited"} => StopLine
  /\ mpc \notin {"close", "manifest", "exited"} => \A j \in DOMAIN file : file[j] # "session_stop"
  /\ closed => mpc \in {"manifest", "exited"}
  /\ mpc \in {"manifest", "exited"} => closed
  /\ mpc \in Stopping => reason # "clean"
  /\ manifest # "initial" => mpc = "exited" /\ manifest # "clean"

LEMMA EndInit == Init => EndInv
BY DEF Init, EndInv, Stopping

(* The places main goes through after the wait.                            *)
LEMMA MainPlaces ==
  ASSUME CrashInv, [Next]_vars, mpc # "exited"
  PROVE  /\ mpc' \in Stopping /\ mpc \notin Stopping => reason' # "clean"
         /\ mpc' = "close" => mpc = "close" \/ EmitStop
         /\ mpc' = "manifest" => (mpc = "manifest" /\ UNCHANGED closed) \/ (mpc = "close" /\ closed')
         /\ mpc' = "exited" => mpc = "manifest" /\ manifest' = reason /\ UNCHANGED closed
         /\ mpc' # "exited" => UNCHANGED manifest
         /\ mpc' # "manifest" => UNCHANGED closed
         /\ mpc = "close" => mpc' \in {"close", "manifest"}
         /\ mpc = "manifest" => mpc' \in {"manifest", "exited"}
         /\ mpc \in Stopping => reason' \in {reason, "signal"}
<1>1. CASE Sniffer \/ Input \/ Worker
  BY <1>1, SnifferFrame, InputFrame, WorkerFrame DEF mainVars
<1>2. CASE Main
  BY <1>2 DEF Main, Boot, InitRecorder, StartListeners, SeeStop, SeeSnifferGone, RecordCrash,
              JoinSniffer, EmitStop, Close, WriteManifest, MainGoes, EmitError, Emit, fileVars,
              CrashInv, Stopping
<1>3. CASE Signal \/ UNCHANGED vars
  BY <1>3 DEF Signal, vars, mainVars, fileVars
<1>. QED
  BY <1>1, <1>2, <1>3 DEF Next

LEMMA EndStep ==
  ASSUME ITypeOK, GateInv, CrashInv, EndInv, [Next]_vars
  PROVE  EndInv'
<1>0. CASE mpc = "exited"
  BY <1>0 DEF Next, Running, EndInv, StopLine, vars, fileVars, mainVars
<1>. SUFFICES ASSUME mpc # "exited" PROVE EndInv'
  BY <1>0
<1>1. FileStep
  BY WritesOneLine
<1>2. CASE mpc' = "close" /\ mpc # "close"
  <2>1. EmitStop /\ ~closed /\ mpc = "joinWorker"
    BY <1>2, MainPlaces DEF EmitStop, EndInv
  <2>2. file' = Append(file, "session_stop")
    BY <2>1 DEF EmitStop, Emit
  <2>3. StopLine'
    <3>1. /\ DOMAIN file' = 1 .. (Len(file) + 1) /\ DOMAIN file = 1 .. Len(file)
          /\ file'[Len(file) + 1] = "session_stop"
          /\ \A j \in 1 .. Len(file) : file'[j] = file[j] /\ j # Len(file) + 1
          /\ Len(file) + 1 \in 1 .. (Len(file) + 1)
      BY <2>2 DEF ITypeOK, TypeOK
    <3>2. \A j \in 1 .. Len(file) : file[j] # "session_stop"
      BY <2>1, <3>1 DEF EndInv
    <3>3. \A j \in 1 .. (Len(file) + 1) : j \in 1 .. Len(file) \/ j = Len(file) + 1
      BY DEF ITypeOK, TypeOK
    <3>. QED
      BY <3>1, <3>2, <3>3 DEF StopLine
  <2>. QED
    BY <1>2, <2>1, <2>3, MainPlaces DEF EndInv, Stopping
<1>3. CASE ~(mpc' = "close" /\ mpc # "close")
  <2>1. \A k \in DOMAIN file' \ DOMAIN file : file'[k] # "session_stop"
    BY <1>1, <1>3, LinesKept DEF Writes
  <2>2. /\ StopLine => StopLine'
        /\ (\A j \in DOMAIN file : file[j] # "session_stop")
             => \A j \in DOMAIN file' : file'[j] # "session_stop"
    BY <1>1, <2>1, LinesKept DEF StopLine
  <2>3. mpc' \in {"close", "manifest", "exited"} <=> mpc \in {"close", "manifest", "exited"}
    BY <1>3, MainPlaces
  <2>4. /\ closed' => mpc' \in {"manifest", "exited"}
        /\ mpc' \in {"manifest", "exited"} => closed'
    BY <1>3, MainPlaces DEF EndInv
  <2>5. mpc' \in Stopping => reason' # "clean"
    BY MainPlaces DEF EndInv
  <2>6. manifest' # "initial" => mpc' = "exited" /\ manifest' # "clean"
    BY MainPlaces DEF EndInv, Stopping
  <2>. QED
    BY <2>2, <2>3, <2>4, <2>5, <2>6 DEF EndInv
<1>. QED
  BY <1>2, <1>3

(* Wherever the process is killed, a final manifest means a complete file: *)
(* session_stop was written once and the writer is closed, whatever the    *)
(* threads still do that main gave up waiting for.                         *)
THEOREM ManifestIsLast == Spec => []ManifestLast
<1>. DEFINE Inv == ITypeOK /\ GateInv /\ CrashInv /\ EndInv
<1>1. Init => Inv
  BY TypeInit, GateInit, CrashInit, EndInit
<1>2. Inv /\ [Next]_vars => Inv'
  BY TypeStep, GateStep, CrashStep, EndStep DEF ITypeOK
<1>3. Inv => ManifestLast
  BY DEF EndInv, StopLine, ManifestLast
<1>. QED
  BY <1>1, <1>2, <1>3, PTL DEF Spec

-----------------------------------------------------------------------------
(* Patches.  Whatever is on its way to an image names a press, and every   *)
(* press is on its way, saved, or excused.                                 *)

Named(s) == s + 1 \in DOMAIN file /\ file[s + 1] = "press"

PatchNamed ==
  /\ \A s \in saved : Named(s)
  /\ \A i \in DOMAIN q : Named(q[i])
  /\ ppc = "capture" => Named(taking)
  /\ ipc["mouse"] = "enqueue" => Named(hand)

Accounted(s) ==
  \/ s \in saved \cup excused \cup late
  \/ ipc["mouse"] = "enqueue" /\ hand = s
  \/ ppc # "ended" /\ \E i \in DOMAIN q : q[i] = s
  \/ ppc = "capture" /\ taking = s

(* The listeners come after main's start; without the imports nothing is   *)
(* queued; an unstarted worker holds nothing.                              *)
PatchPlaces ==
  /\ mpc \in {"boot", "init", "prime"} => ipc["mouse"] = "off"
  /\ mpc = "boot" => ppc = "new"
  /\ ~patchOk => q = <<>>

PatchInv == PatchNamed /\ PatchAccounted /\ PatchPlaces

LEMMA PatchInit == Init => PatchInv
BY DEF Init, PatchInv, PatchNamed, PatchAccounted, PatchPlaces, Callers

LEMMA NamedKept ==
  ASSUME ITypeOK, FileStep, NEW s \in Nat, Named(s)
  PROVE  Named(s)'
BY LinesKept DEF Named

(* A step that writes no press and hands nothing on.                       *)
PatchQuiet ==
  /\ UNCHANGED <<q, taking, patchOk, saved, excused, late, hand>>
  /\ ppc' = ppc \/ (ppc = "new" /\ ppc' = "loop")
  /\ ipc'["mouse"] = "enqueue" <=> ipc["mouse"] = "enqueue"
  /\ closed => closed'

LEMMA QuietKeepsNames ==
  ASSUME ITypeOK, PatchNamed, FileStep, PatchQuiet
  PROVE  PatchNamed'
<1>1. hand \in Nat /\ taking \in Nat /\ saved \subseteq Nat /\ \A i \in DOMAIN q : q[i] \in Nat
  BY DEF ITypeOK, TypeOK
<1>2. \A s \in saved' : Named(s)'
  BY <1>1, NamedKept DEF PatchNamed, PatchQuiet
<1>3. \A i \in DOMAIN q : q[i] + 1 \in DOMAIN file' /\ file'[q[i] + 1] = "press"
  BY <1>1, LinesKept DEF PatchNamed, Named
<1>4. ppc' = "capture" => Named(taking)'
  BY <1>1, NamedKept DEF PatchNamed, PatchQuiet
<1>5. ipc'["mouse"] = "enqueue" => Named(hand)'
  BY <1>1, NamedKept DEF PatchNamed, PatchQuiet
<1>. QED
  BY <1>2, <1>3, <1>4, <1>5 DEF PatchNamed, PatchQuiet, Named

(* What a step that is not a press must show of the presses written.       *)
LEMMA AccountKept ==
  ASSUME ITypeOK, PatchAccounted, FileStep, closed => closed', ~EmitPress,
         ipc'["mouse"] # "enqueue" \/ ipc["mouse"] = "enqueue",
         \A s \in Nat : ~closed' /\ Accounted(s) => Accounted(s)'
  PROVE  PatchAccounted'
<1>. SUFFICES ASSUME ~closed', NEW k \in DOMAIN file', file'[k] = "press"
              PROVE  Accounted(k - 1)'
  BY DEF PatchAccounted, Accounted
<1>1. k \in DOMAIN file
  <2>. SUFFICES ASSUME k \notin DOMAIN file PROVE FALSE
    OBVIOUS
  <2>1. Writes("press")
    BY LinesKept
  <2>. QED
    BY <2>1 DEF Writes, ITypeOK, TypeOK, Callers
<1>2. k - 1 \in Nat
  BY <1>1 DEF ITypeOK, TypeOK
<1>3. Accounted(k - 1)
  BY <1>1, LinesKept DEF PatchAccounted, Accounted
<1>. QED
  BY <1>2, <1>3

LEMMA QuietKeepsPatches ==
  ASSUME ITypeOK, PatchNamed, PatchAccounted, FileStep, PatchQuiet, ~EmitPress
  PROVE  PatchNamed' /\ PatchAccounted'
<1>1. \A s \in Nat : Accounted(s) => Accounted(s)'
  BY DEF Accounted, PatchQuiet
<1>. QED
  BY <1>1, QuietKeepsNames, AccountKept DEF PatchQuiet

LEMMA WhoIsQuiet ==
  ASSUME ITypeOK, PatchPlaces, [Next]_vars
  PROVE  EmitPress \/ Enqueue \/ EnqueueDrops \/ Worker \/ (PatchQuiet /\ ~EmitPress)
<1>0. "mouse" \in Callers
  BY DEF Callers
<1>1. CASE Sniffer
  BY <1>1, SnifferFrame DEF PatchQuiet, EmitPress, inputVars, patchVars
<1>2. ASSUME NEW t \in Callers, CallerStep(t) PROVE PatchQuiet
  BY <1>2, <1>0, InputFrame DEF CallerStep, CheckFocus, EmitFocus, CheckViewport, EmitViewport,
           GoesOn, Goes, AfterFocus, AfterView, ITypeOK, TypeOK, PatchQuiet, patchVars, Input
<1>3. ASSUME NEW t \in Listeners,
             Callback(t) \/ DropInput(t) \/ EmitInput(t) \/ ListenerEnds(t)
      PROVE  PatchQuiet
  BY <1>3, <1>0, InputFrame, RecorderAssumption DEF Callback, Called, DropInput, EmitInput,
           ListenerEnds, GoesOn, Goes, ITypeOK, TypeOK, PatchQuiet, patchVars, Input, Callers
<1>4. CASE Main
  <2>1. CASE Boot
    BY <2>1 DEF Boot, inputVars, PatchQuiet, PatchPlaces, EmitError, Emit, fileVars
  <2>2. CASE InitRecorder
    BY <2>2, <1>0 DEF InitRecorder, Called, inputVars, patchVars, PatchQuiet, ITypeOK, TypeOK,
                      EmitError, Emit, fileVars
  <2>3. CASE StartListeners
    BY <2>3, <1>0 DEF StartListeners, patchVars, PatchQuiet, PatchPlaces, fileVars
  <2>4. CASE SeeStop \/ SeeSnifferGone \/ RecordCrash \/ JoinSniffer \/ EmitStop \/ Close
               \/ WriteManifest
    BY <2>4 DEF SeeStop, SeeSnifferGone, RecordCrash, JoinSniffer, EmitStop, Close,
                WriteManifest, Emit, inputVars, patchVars, fileVars, PatchQuiet
  <2>. QED
    BY <1>4, <2>1, <2>2, <2>3, <2>4 DEF Main
<1>5. CASE Signal \/ UNCHANGED vars
  BY <1>5 DEF Signal, vars, fileVars, inputVars, patchVars, PatchQuiet
<1>. QED
  BY <1>1, <1>2, <1>3, <1>4, <1>5 DEF Next, Input, PatchQuiet, EmitPress

LEMMA PressPatches ==
  ASSUME ITypeOK, PatchNamed, PatchAccounted, EmitPress
  PROVE  PatchNamed' /\ PatchAccounted'
<1>0. "mouse" \in Callers
  BY DEF Callers
<1>1. UNCHANGED <<q, taking, saved, excused, late, ppc, closed>> /\ ipc["mouse"] = "input"
  BY DEF EmitPress, patchVars, Emit
<1>2. CASE closed
  <2>1. file' = file /\ closed' /\ ipc'["mouse"] = "off"
    BY <1>0, <1>2 DEF EmitPress, Emit, GoesOn, Goes, ITypeOK, TypeOK
  <2>. QED
    BY <1>1, <2>1 DEF PatchNamed, Named, PatchAccounted
<1>3. CASE ~closed
  <2>1. file' = Append(file, "press") /\ hand' = Len(file) /\ ipc'["mouse"] = "enqueue"
    BY <1>0, <1>3 DEF EmitPress, Emit, GoesOn, Goes, ITypeOK, TypeOK
  <2>2. /\ DOMAIN file' = 1 .. (Len(file) + 1) /\ DOMAIN file = 1 .. Len(file)
        /\ Len(file) \in Nat /\ Len(file) + 1 \in DOMAIN file'
        /\ file'[Len(file) + 1] = "press"
        /\ \A k \in DOMAIN file : k \in DOMAIN file' /\ file'[k] = file[k]
    BY <2>1 DEF ITypeOK, TypeOK
  <2>3. PatchNamed'
    <3>1. Named(hand)'
      BY <2>1, <2>2 DEF Named
    <3>2. \A i \in DOMAIN q : q[i] + 1 \in DOMAIN file' /\ file'[q[i] + 1] = "press"
      BY <2>2 DEF PatchNamed, Named
    <3>. QED
      BY <1>1, <2>2, <3>1, <3>2 DEF PatchNamed, Named
  <2>4. PatchAccounted'
    <3>. SUFFICES ASSUME NEW k \in DOMAIN file', file'[k] = "press"
                  PROVE  Accounted(k - 1)'
      BY DEF PatchAccounted, Accounted
    <3>1. CASE k = Len(file) + 1
      BY <2>1, <2>2, <3>1 DEF Accounted
    <3>2. CASE k # Len(file) + 1
      <4>1. k \in DOMAIN file /\ file[k] = "press"
        BY <2>2, <3>2
      <4>2. Accounted(k - 1)
        BY <1>3, <4>1 DEF PatchAccounted, Accounted
      <4>. QED
        BY <1>1, <4>2 DEF Accounted
    <3>. QED
      BY <3>1, <3>2
  <2>. QED
    BY <2>3, <2>4
<1>. QED
  BY <1>2, <1>3

LEMMA EnqueuePatches ==
  ASSUME ITypeOK, PatchNamed, PatchAccounted, FileStep, Enqueue \/ EnqueueDrops
  PROVE  PatchNamed' /\ PatchAccounted'
<1>0. "mouse" \in Callers
  BY DEF Callers
<1>1. /\ UNCHANGED <<taking, saved, ppc, closed>>
      /\ ipc["mouse"] = "enqueue" /\ ipc'["mouse"] # "enqueue" /\ ~EmitPress
  BY <1>0 DEF Enqueue, EnqueueDrops, GoesOn, Goes, Emit, fileVars, EmitPress, ITypeOK, TypeOK
<1>2. \/ q' = Append(q, hand) /\ excused' = excused
         /\ late' = IF ppc = "ended" THEN late \cup {hand} ELSE late
      \/ q' = q /\ excused' = excused \cup {hand} /\ late' = late
  BY DEF Enqueue, EnqueueDrops
<1>3. /\ q \in Seq(Nat) /\ hand \in Nat /\ taking \in Nat /\ saved \subseteq Nat
      /\ \A i \in DOMAIN q : q[i] \in Nat
  BY DEF ITypeOK, TypeOK
<1>4. /\ DOMAIN q \subseteq DOMAIN Append(q, hand)
      /\ \A i \in DOMAIN q : Append(q, hand)[i] = q[i]
      /\ \A i \in DOMAIN Append(q, hand) : i \in DOMAIN q \/ Append(q, hand)[i] = hand
      /\ \E i \in DOMAIN Append(q, hand) : Append(q, hand)[i] = hand
  <2>1. /\ DOMAIN q = 1 .. Len(q) /\ DOMAIN Append(q, hand) = 1 .. (Len(q) + 1) /\ Len(q) \in Nat
        /\ \A i \in 1 .. Len(q) : Append(q, hand)[i] = q[i]
        /\ Append(q, hand)[Len(q) + 1] = hand
    BY <1>3
  <2>2. Len(q) + 1 \in 1 .. (Len(q) + 1) /\ 1 .. Len(q) \subseteq 1 .. (Len(q) + 1)
    BY <2>1
  <2>3. \A i \in 1 .. (Len(q) + 1) : i \in 1 .. Len(q) \/ i = Len(q) + 1
    BY <2>1
  <2>. QED
    BY <2>1, <2>2, <2>3
<1>5. PatchNamed'
  <2>1. /\ hand + 1 \in DOMAIN file' /\ file'[hand + 1] = "press"
        /\ \A i \in DOMAIN q : q[i] + 1 \in DOMAIN file' /\ file'[q[i] + 1] = "press"
        /\ \A s \in saved : s + 1 \in DOMAIN file' /\ file'[s + 1] = "press"
        /\ ppc = "capture" => taking + 1 \in DOMAIN file' /\ file'[taking + 1] = "press"
    BY <1>1, LinesKept DEF PatchNamed, Named
  <2>2. \A i \in DOMAIN q' : q'[i] + 1 \in DOMAIN file' /\ file'[q'[i] + 1] = "press"
    BY <1>2, <1>4, <2>1
  <2>. QED
    BY <1>1, <2>1, <2>2 DEF PatchNamed, Named
<1>6. \A s \in Nat : Accounted(s) => Accounted(s)'
  <2>. SUFFICES ASSUME NEW s \in Nat, Accounted(s) PROVE Accounted(s)'
    OBVIOUS
  <2>1. CASE s = hand
    <3>1. s \in excused' \/ s \in late' \/ (ppc # "ended" /\ q' = Append(q, hand))
      BY <1>2, <2>1
    <3>. QED
      BY <1>1, <1>4, <2>1, <3>1 DEF Accounted
  <2>2. CASE s # hand
    <3>1. (\E i \in DOMAIN q : q[i] = s) => \E i \in DOMAIN q' : q'[i] = s
      BY <1>2, <1>4
    <3>2. excused \subseteq excused' /\ late \subseteq late'
      BY <1>2
    <3>. QED
      BY <1>1, <2>2, <3>1, <3>2 DEF Accounted
  <2>. QED
    BY <2>1, <2>2
<1>. QED
  BY <1>1, <1>5, <1>6, AccountKept

LEMMA WorkerPatches ==
  ASSUME ITypeOK, PatchInv, FileStep, Worker
  PROVE  PatchNamed' /\ PatchAccounted'
<1>0. UNCHANGED <<closed, ipc, hand>> /\ ~EmitPress
  <2>1. UNCHANGED <<closed, ipc, hand>>
    BY WorkerFrame DEF inputVars
  <2>2. "mouse" \in Callers
    BY DEF Callers
  <2>. QED
    BY <2>1, <2>2 DEF EmitPress, GoesOn, Goes, ITypeOK, TypeOK
<1>1. /\ q \in Seq(Nat) /\ hand \in Nat /\ taking \in Nat /\ saved \subseteq Nat
      /\ \A i \in DOMAIN q : q[i] \in Nat
  BY DEF ITypeOK, TypeOK
<1>2. /\ \A s \in saved : s + 1 \in DOMAIN file' /\ file'[s + 1] = "press"
      /\ \A i \in DOMAIN q : q[i] + 1 \in DOMAIN file' /\ file'[q[i] + 1] = "press"
      /\ ppc = "capture" => taking + 1 \in DOMAIN file' /\ file'[taking + 1] = "press"
      /\ ipc["mouse"] = "enqueue" => hand + 1 \in DOMAIN file' /\ file'[hand + 1] = "press"
  BY LinesKept DEF PatchInv, PatchNamed, Named
<1>3. CASE WorkerDisabled \/ WorkerLeaves
  <2>1. /\ q = <<>> /\ ppc = "loop" /\ ppc' = "ended"
        /\ UNCHANGED <<q, taking, saved, excused, late>>
    BY <1>3 DEF WorkerDisabled, WorkerLeaves, PatchInv, PatchPlaces
  <2>2. \A s \in Nat : Accounted(s) => Accounted(s)'
    BY <1>0, <2>1 DEF Accounted
  <2>3. PatchNamed'
    BY <1>0, <1>2, <2>1 DEF PatchNamed, Named
  <2>. QED
    BY <1>0, <2>2, <2>3, AccountKept DEF PatchInv
<1>4. CASE WorkerTakes
  <2>1. /\ q # <<>> /\ taking' = Head(q) /\ q' = Tail(q) /\ ppc = "loop" /\ ppc' = "capture"
        /\ UNCHANGED <<saved, excused, late>>
    BY <1>4 DEF WorkerTakes
  <2>2. /\ 1 \in DOMAIN q /\ Head(q) = q[1]
        /\ \A i \in DOMAIN Tail(q) : i + 1 \in DOMAIN q /\ Tail(q)[i] = q[i + 1]
        /\ \A i \in DOMAIN q : i = 1 \/ (i - 1 \in DOMAIN Tail(q) /\ Tail(q)[i - 1] = q[i])
    BY <1>1, <2>1, SMTT(60)
  <2>3. PatchNamed'
    <3>1. \A i \in DOMAIN q' : q'[i] + 1 \in DOMAIN file' /\ file'[q'[i] + 1] = "press"
      BY <1>2, <2>1, <2>2
    <3>2. taking' + 1 \in DOMAIN file' /\ file'[taking' + 1] = "press"
      BY <1>2, <2>1, <2>2
    <3>. QED
      BY <1>0, <1>2, <2>1, <3>1, <3>2 DEF PatchNamed, Named
  <2>4. \A s \in Nat : Accounted(s) => Accounted(s)'
    <3>. SUFFICES ASSUME NEW s \in Nat, Accounted(s) PROVE Accounted(s)'
      OBVIOUS
    <3>1. (\E i \in DOMAIN q : q[i] = s) => taking' = s \/ \E i \in DOMAIN q' : q'[i] = s
      BY <2>1, <2>2, ZenonT(60)
    <3>. QED
      BY <1>0, <2>1, <3>1 DEF Accounted
  <2>. QED
    BY <1>0, <2>3, <2>4, AccountKept DEF PatchInv
<1>5. CASE CaptureSaves \/ CaptureFails
  <2>1. /\ ppc = "capture" /\ UNCHANGED <<q, late>> /\ ppc' # "capture"
        /\ saved \subseteq saved' /\ saved' \subseteq saved \cup {taking}
        /\ excused \subseteq excused' /\ taking \in saved' \cup excused'
        /\ closed \/ ppc' # "ended"
    BY <1>5 DEF CaptureSaves, CaptureFails
  <2>2. PatchNamed'
    BY <1>0, <1>2, <2>1 DEF PatchNamed, Named
  <2>3. \A s \in Nat : ~closed' /\ Accounted(s) => Accounted(s)'
    BY <1>0, <2>1 DEF Accounted
  <2>. QED
    BY <1>0, <2>2, <2>3, AccountKept DEF PatchInv
<1>. QED
  BY <1>3, <1>4, <1>5 DEF Worker

LEMMA PatchPlacesStep ==
  ASSUME ITypeOK, PatchPlaces, [Next]_vars
  PROVE  PatchPlaces'
<1>0. "mouse" \in Callers
  BY DEF Callers
<1>1. CASE Sniffer
  BY <1>1, SnifferFrame DEF PatchPlaces, mainVars, inputVars, patchVars
<1>2. ASSUME NEW t \in Callers, CallerStep(t) PROVE PatchPlaces'
  BY <1>2, <1>0, InputFrame DEF CallerStep, CheckFocus, EmitFocus, CheckViewport, EmitViewport,
           GoesOn, Goes, ITypeOK, TypeOK, PatchPlaces, mainVars, patchVars, Input
<1>3. ASSUME NEW t \in Listeners,
             Callback(t) \/ DropInput(t) \/ EmitInput(t) \/ ListenerEnds(t)
      PROVE  PatchPlaces'
  BY <1>3, <1>0, InputFrame, RecorderAssumption DEF Callback, Called, DropInput, EmitInput,
           ListenerEnds, GoesOn, Goes, ITypeOK, TypeOK, PatchPlaces, mainVars, patchVars, Input,
           Callers
<1>4. CASE EmitPress \/ Enqueue \/ EnqueueDrops
  BY <1>4, <1>0, InputFrame DEF EmitPress, Enqueue, EnqueueDrops, GoesOn, Goes, ITypeOK, TypeOK,
           PatchPlaces, mainVars, patchVars, Input
<1>5. CASE Worker
  BY <1>5, WorkerFrame DEF Worker, WorkerDisabled, WorkerTakes, WorkerLeaves, CaptureSaves,
           CaptureFails, PatchPlaces, mainVars, inputVars
<1>6. CASE Main
  BY <1>6, <1>0 DEF Main, Boot, InitRecorder, StartListeners, SeeStop, SeeSnifferGone,
           RecordCrash, JoinSniffer, EmitStop, Close, WriteManifest, MainGoes, Called, ITypeOK,
           TypeOK, PatchPlaces, inputVars, patchVars
<1>7. CASE Signal \/ UNCHANGED vars
  BY <1>7 DEF Signal, vars, mainVars, inputVars, patchVars, PatchPlaces
<1>. QED
  BY <1>1, <1>2, <1>3, <1>4, <1>5, <1>6, <1>7 DEF Next, Input

LEMMA PatchStep ==
  ASSUME ITypeOK, GateInv, PatchInv, [Next]_vars
  PROVE  PatchInv'
<1>1. FileStep
  BY WritesOneLine
<1>2. PatchNamed' /\ PatchAccounted'
  BY <1>1, WhoIsQuiet, PressPatches, EnqueuePatches, WorkerPatches, QuietKeepsPatches
  DEF PatchInv
<1>. QED
  BY <1>2, PatchPlacesStep DEF PatchInv

LEMMA PatchesInvariant == Spec => [](ITypeOK /\ GateInv /\ PatchInv)
<1>1. Init => ITypeOK /\ GateInv /\ PatchInv
  BY TypeInit, GateInit, PatchInit
<1>2. ITypeOK /\ GateInv /\ PatchInv /\ [Next]_vars => (ITypeOK /\ GateInv /\ PatchInv)'
  BY TypeStep, GateStep, PatchStep
<1>. QED
  BY <1>1, <1>2, PTL DEF Spec

(* An image carries the seq of a mouse-down line, although it is enqueued  *)
(* after the lock under which that line was numbered is released.          *)
THEOREM PatchesShowPresses == Spec => []PatchOfPress
<1>1. PatchInv => PatchOfPress
  BY DEF PatchInv, PatchNamed, Named, PatchOfPress
<1>. QED
  BY <1>1, PatchesInvariant, PTL

(* Until the writer is closed no press loses its patch without a reason:   *)
(* it is on its way, saved, dropped, failed, or came after the worker.     *)
THEOREM PatchesAccounted == Spec => []PatchAccounted
<1>1. PatchInv => PatchAccounted
  BY DEF PatchInv
<1>. QED
  BY <1>1, PatchesInvariant, PTL

-----------------------------------------------------------------------------
(* The focus lines.  A caller between the cache and the line owes a line,  *)
(* which the balance of the file and the cache has to count.  No caller is *)
(* there before main has started it.                                       *)

Owes(t) == IF ipc[t] # "focusLine" THEN 0 ELSE IF info[t] = "out" THEN -1 ELSE 1

Owed == Owes("mouse") + Owes("keyboard") + Owes("main")

Asleep ==
  /\ mpc \in {"boot", "init"} => ipc["main"] = "off"
  /\ mpc \in {"boot", "init", "prime"} => ipc["mouse"] = "off" /\ ipc["keyboard"] = "off"

Balance ==
  ~closed => Count("focus_gained") + Owed = Count("focus_lost") + (IF inVmc THEN 1 ELSE 0)

FocusInv == Asleep /\ Balance

LEMMA CountIsNat == ASSUME file \in Seq(Kinds), NEW kind PROVE Count(kind) \in Nat
<1>1. IsFiniteSet(1..Len(file)) /\ DOMAIN file = 1..Len(file)
  BY FS_Interval
<1>2. {k \in DOMAIN file : file[k] = kind} \in SUBSET (1..Len(file))
  BY <1>1
<1>3. IsFiniteSet({k \in DOMAIN file : file[k] = kind})
  BY <1>1, <1>2, FS_Subset, Zenon
<1>. QED
  BY <1>3, FS_CardinalityType DEF Count

LEMMA CountGrows ==
  ASSUME file \in Seq(Kinds), NEW kind \in Kinds, file' = Append(file, kind), NEW k
  PROVE  Count(k)' = Count(k) + (IF k = kind THEN 1 ELSE 0)
<1>. DEFINE Old == {i \in DOMAIN file : file[i] = k}
            New == {i \in DOMAIN file' : file'[i] = k}
<1>1. IsFiniteSet(1..Len(file)) /\ DOMAIN file = 1..Len(file) /\ Len(file) \in Nat
  BY FS_Interval
<1>2. Old \in SUBSET (1..Len(file))
  BY <1>1
<1>3. IsFiniteSet(Old) /\ Len(file) + 1 \notin Old
  BY <1>1, <1>2, FS_Subset
<1>4. /\ DOMAIN file' = 1..(Len(file) + 1) /\ file'[Len(file) + 1] = kind
      /\ \A i \in 1..Len(file) : file'[i] = file[i]
  BY <1>1
<1>5. New = IF k = kind THEN Old \cup {Len(file) + 1} ELSE Old
  BY <1>1, <1>4
<1>6. /\ Cardinality(Old) \in Nat
      /\ Cardinality(Old \cup {Len(file) + 1}) = Cardinality(Old) + 1
  <2>. HIDE DEF Old
  <2>. QED
    BY <1>3, FS_AddElement, FS_CardinalityType
<1>7. Cardinality(New) = Cardinality(Old) + (IF k = kind THEN 1 ELSE 0)
  <2>. HIDE DEF Old, New
  <2>. QED
    BY <1>5, <1>6
<1>. QED
  BY <1>7 DEF Count

(* A step that writes no focus line and moves no caller to or from one.    *)
LEMMA OtherStepsBalance ==
  ASSUME ITypeOK, Balance, inVmc' = inVmc, closed => closed',
         \A t \in Callers : Owes(t)' = Owes(t),
         \/ file' = file
         \/ \E kind \in Kinds \ {"focus_gained", "focus_lost"} : file' = Append(file, kind)
  PROVE  Balance'
<1>1. Owed' = Owed
  BY DEF Owed, Callers
<1>2. /\ Count("focus_gained")' = Count("focus_gained")
      /\ Count("focus_lost")' = Count("focus_lost")
  <2>1. CASE file' = file
    BY <2>1 DEF Count
  <2>2. ASSUME NEW kind \in Kinds \ {"focus_gained", "focus_lost"}, file' = Append(file, kind)
        PROVE  /\ Count("focus_gained")' = Count("focus_gained")
               /\ Count("focus_lost")' = Count("focus_lost")
    BY <2>2, CountGrows, CountIsNat DEF ITypeOK, TypeOK
  <2>. QED
    BY <2>1, <2>2
<1>. QED
  BY <1>1, <1>2 DEF Balance

LEMMA CheckFocusBalances ==
  ASSUME ITypeOK, Balance, NEW t \in Callers, CheckFocus(t)
  PROVE  Balance'
<1>1. /\ ipc' = [ipc EXCEPT ![t] = ipc'[t]] /\ info' = [info EXCEPT ![t] = info'[t]]
      /\ ipc[t] = "focus" /\ file' = file /\ closed' = closed
  BY DEF CheckFocus, Goes, fileVars, ITypeOK, TypeOK
<1>2. \A u \in Callers \ {t} : Owes(u)' = Owes(u)
  BY <1>1 DEF Owes, ITypeOK, TypeOK
<1>3. Owes(t) = 0
  BY <1>1 DEF Owes
<1>4. Owes(t)' = (IF inVmc' THEN 1 ELSE 0) - (IF inVmc THEN 1 ELSE 0)
  <2>1. CASE gate /\ inVmc # (info[t] # "out")
    <3>1. IF info[t] = "out" THEN inVmc /\ ~inVmc' ELSE ~inVmc /\ inVmc'
      BY <2>1 DEF CheckFocus, ITypeOK, TypeOK
    <3>2. ipc'[t] = "focusLine" /\ info'[t] = info[t]
      BY <2>1 DEF CheckFocus, Goes, ITypeOK, TypeOK
    <3>. QED
      BY <3>1, <3>2 DEF Owes
  <2>2. CASE ~(gate /\ inVmc # (info[t] # "out"))
    BY <2>2 DEF CheckFocus, Goes, AfterFocus, Owes, ITypeOK, TypeOK
  <2>. QED
    BY <2>1, <2>2
<1>5. \A u \in Callers : Owes(u) \in Int /\ Owes(u)' \in Int
  BY DEF Owes
<1>6. Owed' = Owed + Owes(t)'
  BY <1>2, <1>3, <1>5 DEF Owed, Callers
<1>7. \A k : Count(k)' = Count(k) /\ Count(k) \in Nat
  BY <1>1, CountIsNat DEF Count, ITypeOK, TypeOK
<1>. QED
  BY <1>1, <1>4, <1>5, <1>6, <1>7 DEF Balance, Owed, Callers

LEMMA EmitFocusBalances ==
  ASSUME ITypeOK, Balance, NEW t \in Callers, EmitFocus(t)
  PROVE  Balance'
<1>. SUFFICES ASSUME ~closed  PROVE Balance'
  BY DEF EmitFocus, Emit, Balance
<1>1. /\ ipc' = [ipc EXCEPT ![t] = ipc'[t]] /\ info' = [info EXCEPT ![t] = info'[t]]
      /\ ipc[t] = "focusLine" /\ closed' = closed /\ inVmc' = inVmc
      /\ file' = Append(file, IF info[t] = "out" THEN "focus_lost" ELSE "focus_gained")
  BY DEF EmitFocus, Emit, GoesOn, Goes, ITypeOK, TypeOK
<1>2. \A u \in Callers \ {t} : Owes(u)' = Owes(u)
  BY <1>1 DEF Owes, ITypeOK, TypeOK
<1>3. Owes(t) = (IF info[t] = "out" THEN -1 ELSE 1) /\ Owes(t)' = 0
  BY <1>1 DEF EmitFocus, GoesOn, Goes, AfterFocus, Owes, ITypeOK, TypeOK
<1>4. \A u \in Callers : Owes(u) \in Int /\ Owes(u)' \in Int
  BY DEF Owes
<1>5. Owed = Owed' + Owes(t) /\ Owed \in Int /\ Owed' \in Int
  BY <1>2, <1>3, <1>4 DEF Owed, Callers
<1>6. /\ Count("focus_gained")' = Count("focus_gained") + (IF info[t] = "out" THEN 0 ELSE 1)
      /\ Count("focus_lost")' = Count("focus_lost") + (IF info[t] = "out" THEN 1 ELSE 0)
      /\ Count("focus_gained") \in Nat /\ Count("focus_lost") \in Nat
  BY <1>1, CountGrows, CountIsNat DEF ITypeOK, TypeOK, Kinds
<1>. QED
  BY <1>1, <1>3, <1>5, <1>6 DEF Balance

LEMMA InputBalances == ASSUME ITypeOK, GateInv, FocusInv, Input PROVE FocusInv'
<1>1. Asleep'
  BY DEF FocusInv, Asleep, Input, CallerStep, CheckFocus, EmitFocus, CheckViewport, EmitViewport,
         Callback, Called, DropInput, EmitInput, ListenerEnds, EmitPress, Enqueue, EnqueueDrops,
         GoesOn, Goes, ITypeOK, TypeOK, Callers, mainVars
<1>2. Balance'
  <2>1. ASSUME NEW t \in Callers, CheckFocus(t) \/ EmitFocus(t) PROVE Balance'
    BY <2>1, CheckFocusBalances, EmitFocusBalances DEF FocusInv
  <2>2. CASE ~\E t \in Callers : CheckFocus(t) \/ EmitFocus(t)
    <3>1. inVmc' = inVmc /\ (closed => closed')
      BY <2>2 DEF Input, CallerStep, CheckViewport, EmitViewport, Callback, DropInput, EmitInput,
                  ListenerEnds, EmitPress, Enqueue, EnqueueDrops, Emit, fileVars
    <3>2. \/ file' = file
          \/ \E kind \in Kinds \ {"focus_gained", "focus_lost"} : file' = Append(file, kind)
      BY <2>2 DEF Input, CallerStep, CheckViewport, EmitViewport, Callback, DropInput, EmitInput,
                  ListenerEnds, EmitPress, Enqueue, EnqueueDrops, Emit, fileVars, Kinds
    <3>3. ASSUME NEW t \in Callers PROVE Owes(t)' = Owes(t)
      BY <2>2 DEF Input, CallerStep, CheckViewport, EmitViewport, Callback, Called, DropInput,
                  EmitInput, ListenerEnds, EmitPress, Enqueue, EnqueueDrops, GoesOn, Goes,
                  AfterView, Owes, ITypeOK, TypeOK
    <3>. QED
      BY <3>1, <3>2, <3>3, OtherStepsBalance DEF FocusInv
  <2>. QED
    BY <2>1, <2>2
<1>. QED
  BY <1>1, <1>2 DEF FocusInv

LEMMA MainBalances == ASSUME ITypeOK, FocusInv, Main PROVE FocusInv'
<1>1. Asleep'
  BY DEF FocusInv, Asleep, Main, Boot, InitRecorder, Called, StartListeners, SeeStop,
         SeeSnifferGone, RecordCrash, JoinSniffer, EmitStop, Close, WriteManifest, MainGoes,
         ITypeOK, TypeOK, Callers, inputVars
<1>2. inVmc' = inVmc /\ (closed => closed')
  BY DEF Main, Boot, InitRecorder, StartListeners, SeeStop, SeeSnifferGone, RecordCrash,
         JoinSniffer, EmitStop, Close, WriteManifest, EmitError, Emit, inputVars, fileVars
<1>3. \/ file' = file
      \/ \E kind \in Kinds \ {"focus_gained", "focus_lost"} : file' = Append(file, kind)
  BY DEF Main, Boot, InitRecorder, StartListeners, SeeStop, SeeSnifferGone, RecordCrash,
         JoinSniffer, EmitStop, Close, WriteManifest, EmitError, Emit, inputVars, fileVars, Kinds
<1>4. ASSUME NEW t \in Callers PROVE Owes(t)' = Owes(t)
  BY DEF FocusInv, Asleep, Main, Boot, InitRecorder, Called, StartListeners, SeeStop,
         SeeSnifferGone, RecordCrash, JoinSniffer, EmitStop, Close, WriteManifest, MainGoes,
         Owes, ITypeOK, TypeOK, Callers, inputVars
<1>. QED
  BY <1>1, <1>2, <1>3, <1>4, OtherStepsBalance DEF FocusInv

LEMMA OthersBalance ==
  ASSUME ITypeOK, FocusInv, Sniffer \/ Worker \/ Signal \/ UNCHANGED vars
  PROVE  FocusInv'
<1>1. UNCHANGED <<inputVars, mpc, closed>>
  BY SnifferFrame, WorkerFrame DEF Signal, vars, fileVars, mainVars
<1>2. \/ file' = file
      \/ \E kind \in Kinds \ {"focus_gained", "focus_lost"} : file' = Append(file, kind)
  BY DEF Sniffer, SnifferLeaves, SnifferFails, OpenGate, EmitGateOpened, EmitFrame, Worker,
         WorkerDisabled, WorkerTakes, WorkerLeaves, CaptureSaves, CaptureFails, Signal, EmitError,
         Emit, vars, fileVars, Kinds
<1>3. \A t \in Callers : Owes(t)' = Owes(t)
  BY <1>1 DEF Owes, inputVars
<1>4. Asleep'
  BY <1>1 DEF FocusInv, Asleep, inputVars
<1>. QED
  BY <1>1, <1>2, <1>3, <1>4, OtherStepsBalance DEF FocusInv, inputVars

LEMMA FocusInit == Init => FocusInv
<1>. SUFFICES ASSUME Init PROVE FocusInv
  OBVIOUS
<1>1. \A k \in {"focus_gained", "focus_lost"} : {i \in DOMAIN file : file[i] = k} = {}
  BY DEF Init
<1>2. Count("focus_gained") = 0 /\ Count("focus_lost") = 0
  BY <1>1, FS_EmptySet DEF Count
<1>. QED
  BY <1>2 DEF Init, FocusInv, Asleep, Balance, Owed, Owes, Callers

(* The focus lines say what the cache says once nobody is between the two, *)
(* though the line is written without the lock the cache is kept under.    *)
THEOREM FocusLinesBalance == Spec => []FocusBalanced
<1>1. Init => ITypeOK /\ GateInv /\ FocusInv
  BY TypeInit, GateInit, FocusInit
<1>2. ITypeOK /\ GateInv /\ FocusInv /\ [Next]_vars => (ITypeOK /\ GateInv /\ FocusInv)'
  BY TypeStep, GateStep, InputBalances, MainBalances, OthersBalance DEF Next
<1>3. ITypeOK /\ FocusInv => FocusBalanced
  <2>. SUFFICES ASSUME ITypeOK, FocusInv, ~closed, \A t \in Callers : ipc[t] # "focusLine"
                PROVE  Count("focus_gained") = Count("focus_lost") + (IF inVmc THEN 1 ELSE 0)
    BY DEF FocusBalanced
  <2>1. Owed = 0
    BY DEF Owed, Owes, Callers
  <2>2. Count("focus_gained") \in Nat
    BY CountIsNat DEF ITypeOK, TypeOK
  <2>. QED
    BY <2>1, <2>2 DEF FocusInv, Balance
<1>. QED
  BY <1>1, <1>2, <1>3, PTL DEF Spec
=============================================================================
