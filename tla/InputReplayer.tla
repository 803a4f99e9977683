--------------------------- MODULE InputReplayer ---------------------------
(***************************************************************************)
(* The input replayer (replay/input_replayer.py): the loop of replay()     *)
(* over the recorded timeline, which dispatches the recorded inputs and    *)
(* blocks at a login net event until the emulator has confirmed it, and    *)
(* the listener thread that keeps the link to the control bus and feeds    *)
(* _on_ack.  Each member of Replayers is one run of the program.           *)
(***************************************************************************)
EXTENDS ControlBus

CONSTANTS
  CtrlSync,         \* --ctrl-host given
  StopAtSeq         \* --stop-at-seq; a value above N when it is not given

ASSUME ReplayerAssumption ==
  /\ CtrlSync \in BOOLEAN
  /\ StopAtSeq \in Nat

VARIABLES
  rpc,        \* off, top (of the loop), paced (past the sleep), wait (for an
              \*   ack), ended
  pos,        \* the timeline event at hand
  stopBy,     \* stop_flag, set as soon as a reason is in it
  acked,      \* acked_seqs
  asserted,   \* spawn_asserted
  fired,      \* history: the inputs dispatched
  late        \* history: the inputs dispatched with stop_flag set

replayerVars == <<rpc, pos, stopBy, acked, asserted, fired, late>>

Reasons == {"desync", "recording_done", "spawn", "sigint"}

ReplayerTypeOK ==
  /\ rpc \in [Replayers -> {"off", "top", "paced", "wait", "ended"}]
  /\ pos \in [Replayers -> 1..(N + 1)]
  /\ stopBy \in [Replayers -> SUBSET Reasons]
  /\ acked \in [Replayers -> SUBSET Seqs]
  /\ asserted \in [Replayers -> BOOLEAN]
  /\ fired \in [Replayers -> SUBSET Seqs]
  /\ late \in [Replayers -> SUBSET Seqs]

ReplayerInit ==
  /\ rpc = [r \in Replayers |-> "off"]
  /\ pos = [r \in Replayers |-> StartIndex]
  /\ stopBy = [r \in Replayers |-> {}]
  /\ acked = [r \in Replayers |-> {}]
  /\ asserted = [r \in Replayers |-> FALSE]
  /\ fired = [r \in Replayers |-> {}]
  /\ late = [r \in Replayers |-> {}]

Running(r) == rpc[r] \in {"top", "paced", "wait"}
Stopped(r) == stopBy[r] # {}

-----------------------------------------------------------------------------
(* The loop of replay(). *)

(* One run at a time drives the window.  It ends at once when there is no  *)
(* input to play or the window has no area.                                *)
Start(r) ==
  /\ rpc[r] = "off"
  /\ \A q \in Replayers : ~Running(q)
  /\ \E v \in {"top", "ended"} : /\ pos[r] = N + 1 => v = "ended"
                               /\ rpc' = [rpc EXCEPT ![r] = v]
  /\ announced' = [announced EXCEPT ![r] = {}]
  /\ UNCHANGED <<link, toReplayer, toBus, doneMsgs, serverVars, boundVars,
                 pos, stopBy, acked, asserted, fired, late>>

SendProgress(r) ==
  toBus' = IF link[r] = "down" THEN toBus
                               ELSE [toBus EXCEPT ![r] = Append(@, pos[r])]

(* The head of an iteration: leave on the stop flag, else report the seq,  *)
(* leave past stop-at-seq, and sleep until the event is due.               *)
LeaveStopped(r) ==
  /\ rpc[r] = "top"
  /\ pos[r] \in Seqs
  /\ Stopped(r)
  /\ rpc' = [rpc EXCEPT ![r] = "ended"]
  /\ UNCHANGED <<busVars, pos, stopBy, acked, asserted, fired, late>>

(* Mutant: the stop flag is not looked at. *)
AdvanceUnchecked(r) ==
  /\ rpc[r] = "top"
  /\ pos[r] \in Seqs
  /\ SendProgress(r)
  /\ rpc' = [rpc EXCEPT ![r] = "paced"]
  /\ UNCHANGED <<link, toReplayer, doneMsgs, serverVars, boundVars, announced,
                 pos, stopBy, acked, asserted, fired, late>>

Advance(r) ==
  /\ rpc[r] = "top"
  /\ pos[r] \in Seqs
  /\ ~Stopped(r)
  /\ SendProgress(r)
  /\ rpc' = [rpc EXCEPT ![r] = IF pos[r] > StopAtSeq THEN "ended" ELSE "paced"]
  /\ UNCHANGED <<link, toReplayer, doneMsgs, serverVars, boundVars, announced,
                 pos, stopBy, acked, asserted, fired, late>>

NextEvent(r) ==
  /\ pos' = [pos EXCEPT ![r] = @ + 1]
  /\ rpc' = [rpc EXCEPT ![r] = "top"]

(* A net event to be confirmed. *)
AwaitAck(r) ==
  /\ rpc[r] = "paced"
  /\ CtrlSync /\ MustAck(pos[r])
  /\ rpc' = [rpc EXCEPT ![r] = "wait"]
  /\ UNCHANGED <<busVars, pos, stopBy, acked, asserted, fired, late>>

(* Mutant: inputs fall into the skip branch. *)
PassOverInputs(r) ==
  /\ rpc[r] = "paced"
  /\ ~MustAck(pos[r])
  /\ NextEvent(r)
  /\ UNCHANGED <<busVars, stopBy, acked, asserted, fired, late>>

(* Keepalives, world ports and other kinds of events; every net event when *)
(* there is no control bus.                                                *)
PassOver(r) ==
  /\ rpc[r] = "paced"
  /\ pos[r] \notin InputSeqs
  /\ ~(CtrlSync /\ MustAck(pos[r]))
  /\ NextEvent(r)
  /\ UNCHANGED <<busVars, stopBy, acked, asserted, fired, late>>

(* Mutant: any ack ends the wait. *)
ConfirmedByAny(r) ==
  /\ rpc[r] = "wait"
  /\ acked[r] # {}
  /\ NextEvent(r)
  /\ UNCHANGED <<busVars, stopBy, acked, asserted, fired, late>>

Confirmed(r) ==
  /\ rpc[r] = "wait"
  /\ pos[r] \in acked[r]
  /\ NextEvent(r)
  /\ UNCHANGED <<busVars, stopBy, acked, asserted, fired, late>>

(* Mutant: the timeout goes on with the next event. *)
HaltGoesOn(r) ==
  /\ rpc[r] = "wait"
  /\ pos[r] \notin acked[r]
  /\ NextEvent(r)
  /\ UNCHANGED <<busVars, stopBy, acked, asserted, fired, late>>

(* Mutant: the wait has no timeout. *)
HaltOnStop(r) ==
  /\ rpc[r] = "wait"
  /\ Stopped(r)
  /\ pos[r] \notin acked[r]
  /\ rpc' = [rpc EXCEPT ![r] = "ended"]
  /\ UNCHANGED <<busVars, pos, stopBy, acked, asserted, fired, late>>

(* net_timeout is over, or the stop flag ends the wait: HALT. *)
Halt(r) ==
  /\ rpc[r] = "wait"
  /\ pos[r] \notin acked[r]
  /\ rpc' = [rpc EXCEPT ![r] = "ended"]
  /\ UNCHANGED <<busVars, pos, stopBy, acked, asserted, fired, late>>

(* An input is dispatched; the stop flag is not looked at again. *)
Fire(r) ==
  /\ rpc[r] = "paced"
  /\ pos[r] \in InputSeqs
  /\ fired' = [fired EXCEPT ![r] = @ \cup {pos[r]}]
  /\ late' = [late EXCEPT ![r] = IF Stopped(r) THEN @ \cup {pos[r]} ELSE @]
  /\ NextEvent(r)
  /\ UNCHANGED <<busVars, stopBy, acked, asserted>>

(* Before the first click the window is looked at again: HALT when it is   *)
(* gone or minimized.                                                      *)
HaltWindow(r) ==
  /\ rpc[r] = "paced"
  /\ Recording[pos[r]].kind = "button"
  /\ \A s \in fired[r] : Recording[s].kind # "button"
  /\ rpc' = [rpc EXCEPT ![r] = "ended"]
  /\ UNCHANGED <<busVars, pos, stopBy, acked, asserted, fired, late>>

(* The timeline is exhausted: input_done goes out on a new connection,     *)
(* which may fail.  Here too the stop flag is not looked at.               *)
Finish(r) ==
  /\ rpc[r] = "top"
  /\ pos[r] = N + 1
  /\ rpc' = [rpc EXCEPT ![r] = "ended"]
  /\ doneMsgs' \in IF CtrlSync THEN {doneMsgs, doneMsgs \cup {r}} ELSE {doneMsgs}
  /\ UNCHANGED <<link, toReplayer, toBus, serverVars, boundVars, announced,
                 pos, stopBy, acked, asserted, fired, late>>

(* SIGINT sets the stop flag. *)
Interrupt(r) ==
  /\ Running(r)
  /\ sigints < MaxSigints
  /\ sigints' = sigints + 1
  /\ stopBy' = [stopBy EXCEPT ![r] = @ \cup {"sigint"}]
  /\ UNCHANGED <<link, toReplayer, toBus, doneMsgs, serverVars, drops,
                 announced, rpc, pos, acked, asserted, fired, late>>

-----------------------------------------------------------------------------
(* The listener thread. *)

Connect(r) ==
  /\ CtrlSync /\ Running(r) /\ ~Stopped(r)
  /\ link[r] = "down"
  /\ ~stopEvt
  /\ link' = [link EXCEPT ![r] = "backlog"]
  /\ UNCHANGED <<toReplayer, toBus, doneMsgs, serverVars, boundVars,
                 announced, replayerVars>>

(* _on_ack.  The first spawn-bearing frame to be confirmed is compared     *)
(* with the manifest's spawn.                                              *)
OnAck(r, msg) ==
  IF msg.event # "ack"
  THEN /\ stopBy' = [stopBy EXCEPT ![r] = @ \cup {msg.event}]
       /\ UNCHANGED <<acked, asserted>>
  ELSE LET spawn == IF Recording[msg.seq].port = SpawnPort /\ ~asserted[r]
                    THEN Recording[msg.seq].spawn ELSE "none"
       IN  /\ acked' = [acked EXCEPT ![r] = @ \cup {msg.seq}]
           /\ asserted' = [asserted EXCEPT ![r] = @ \/ spawn # "none"]
           /\ stopBy' = [stopBy EXCEPT ![r] = IF spawn = "other" THEN @ \cup {"spawn"}
                                                                 ELSE @]

Deliver(r) ==
  /\ Running(r)
  /\ toReplayer[r] # <<>>
  /\ OnAck(r, Head(toReplayer[r]))
  /\ toReplayer' = [toReplayer EXCEPT ![r] = Tail(@)]
  /\ UNCHANGED <<link, toBus, doneMsgs, serverVars, boundVars, announced, rpc,
                 pos, fired, late>>

(* The listener leaves on the stop flag, and dies with the program. *)
Disconnect(r) ==
  /\ link[r] # "down"
  /\ Stopped(r) \/ ~Running(r)
  /\ link' = [link EXCEPT ![r] = "down"]
  /\ toReplayer' = [toReplayer EXCEPT ![r] = <<>>]
  /\ UNCHANGED <<toBus, doneMsgs, serverVars, boundVars, announced,
                 replayerVars>>

-----------------------------------------------------------------------------
ReplayLoop(r) ==
  \/ LeaveStopped(r) \/ Advance(r) \/ AwaitAck(r) \/ PassOver(r)
  \/ Confirmed(r) \/ Halt(r) \/ Fire(r) \/ HaltWindow(r) \/ Finish(r)

Listener(r) == Connect(r) \/ Deliver(r) \/ Disconnect(r)

ReplayerNext ==
  \E r \in Replayers : Start(r) \/ ReplayLoop(r) \/ Interrupt(r) \/ Listener(r)
=============================================================================
