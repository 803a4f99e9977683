----------------------------- MODULE ControlBus -----------------------------
(***************************************************************************)
(* The control bus of the emulator (class ControlBus) and the TCP link     *)
(* between it and each run of the input replayer.                          *)
(*                                                                         *)
(* The emulator's connection threads broadcast what they matched and sent; *)
(* a bus thread per client reads the replayer's progress.  The bus keeps   *)
(* no history: what is broadcast while a replayer is not among its clients *)
(* is lost to that replayer.  A broken link loses what is in flight.       *)
(* (Whatever one side still reads after the break can be read before it,   *)
(* the other side being unable to tell, so nothing is lost by that.)       *)
(***************************************************************************)
EXTENDS Recording

CONSTANTS
  Replayers,      \* successive runs of input_replayer.py on one emulator
  MaxDrops,       \* bound on the links the network breaks
  MaxSigints      \* bound on the interrupts the operator sends

VARIABLES
  link,           \* of each replayer: "down", "backlog" (connected, not yet
                  \*   in ControlBus.clients), "up"
  toReplayer,     \* broadcasts in flight
  toBus,          \* input_progress messages in flight
  doneMsgs,       \* replayers whose input_done is in flight (on a connection
                  \*   of its own)
  progress,       \* _input_progress_seq
  inputDone,      \* _input_done_received
  pendingPorts,   \* _pending_s2c_ports
  stopEvt,        \* the emulator's stop_evt
  drops,          \* links broken so far
  sigints,        \* interrupts sent so far
  announced       \* history: the seqs broadcast since each replayer started

busVars == <<link, toReplayer, toBus, doneMsgs, progress, inputDone,
             pendingPorts, stopEvt, drops, sigints, announced>>

serverVars == <<progress, inputDone, pendingPorts, stopEvt>>
boundVars  == <<drops, sigints>>

Ack(s)        == [event |-> "ack", seq |-> s]
Desync(s)     == [event |-> "desync", seq |-> s]
RecordingDone == [event |-> "recording_done", seq |-> 0]

Msg == [event : {"ack", "desync"}, seq : Seqs] \cup {RecordingDone}

BusTypeOK ==
  /\ link \in [Replayers -> {"down", "backlog", "up"}]
  /\ toReplayer \in [Replayers -> Seq(Msg)]
  /\ toBus \in [Replayers -> Seq(Seqs)]
  /\ doneMsgs \subseteq Replayers
  /\ progress \in 0..N
  /\ inputDone \in BOOLEAN
  /\ pendingPorts \subseteq WorldPorts
  /\ stopEvt \in BOOLEAN
  /\ drops \in Nat
  /\ sigints \in Nat
  /\ announced \in [Replayers -> SUBSET Seqs]

(* main registers the world ports that have something to push. *)
RegisteredPorts == {p \in WorldPorts : S2C[p] # {}}

BusInit ==
  /\ link = [r \in Replayers |-> "down"]
  /\ toReplayer = [r \in Replayers |-> <<>>]
  /\ toBus = [r \in Replayers |-> <<>>]
  /\ doneMsgs = {}
  /\ progress = 0
  /\ inputDone = FALSE
  /\ pendingPorts = RegisteredPorts
  /\ stopEvt = FALSE
  /\ drops = 0
  /\ sigints = 0
  /\ announced = [r \in Replayers |-> {}]

-----------------------------------------------------------------------------
(* What the connection threads do to the bus. *)

(* _send: every client gets the line, under the bus lock. *)
Broadcast(msg) ==
  toReplayer' = [r \in Replayers |->
                   IF link[r] = "up" THEN Append(toReplayer[r], msg)
                                     ELSE toReplayer[r]]

BroadcastAck(s) ==
  /\ Broadcast(Ack(s))
  /\ announced' = [r \in Replayers |-> announced[r] \cup {s}]

(* The condition wait_for_input_progress waits for. *)
GateOpen(target) == inputDone \/ progress >= target \/ stopEvt

-----------------------------------------------------------------------------
(* The threads of the bus. *)

(* serve: the accepted connection becomes a client. *)
Accept(r) ==
  /\ link[r] = "backlog"
  /\ ~stopEvt
  /\ link' = [link EXCEPT ![r] = "up"]
  /\ UNCHANGED <<toReplayer, toBus, doneMsgs, serverVars, boundVars,
                 announced>>

(* _reader on an input_progress line: only a larger seq counts. *)
ReadProgress(r) ==
  /\ toBus[r] # <<>>
  /\ link[r] # "backlog"
  /\ ~stopEvt
  /\ toBus' = [toBus EXCEPT ![r] = Tail(@)]
  /\ progress' = IF Head(toBus[r]) > progress THEN Head(toBus[r]) ELSE progress
  /\ UNCHANGED <<link, toReplayer, doneMsgs, inputDone, pendingPorts, stopEvt,
                 boundVars, announced>>

(* _reader on input_done, which no later run ever takes back. *)
ReadInputDone(r) ==
  /\ r \in doneMsgs
  /\ ~stopEvt
  /\ doneMsgs' = doneMsgs \ {r}
  /\ inputDone' = TRUE
  /\ UNCHANGED <<link, toReplayer, toBus, progress, pendingPorts, stopEvt,
                 boundVars, announced>>

(* The link breaks: reset by the network, or closed by _send after a       *)
(* failed or timed out sendall.                                            *)
Drop(r) ==
  /\ link[r] # "down"
  /\ drops < MaxDrops
  /\ drops' = drops + 1
  /\ link' = [link EXCEPT ![r] = "down"]
  /\ toReplayer' = [toReplayer EXCEPT ![r] = <<>>]
  /\ toBus' = [toBus EXCEPT ![r] = <<>>]
  /\ UNCHANGED <<doneMsgs, serverVars, sigints, announced>>

(* SIGINT or SIGTERM to the emulator. *)
Sigint ==
  /\ ~stopEvt
  /\ sigints < MaxSigints
  /\ sigints' = sigints + 1
  /\ stopEvt' = TRUE
  /\ UNCHANGED <<link, toReplayer, toBus, doneMsgs, progress, inputDone,
                 pendingPorts, drops, announced>>

BusNext ==
  \/ \E r \in Replayers : Accept(r) \/ ReadProgress(r) \/ ReadInputDone(r) \/ Drop(r)
  \/ Sigint
=============================================================================
